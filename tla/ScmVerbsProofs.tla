--------------------------- MODULE ScmVerbsProofs ---------------------------
(***************************************************************************)
(* ScmVerbs, for every set of processes, every bound on starts, with and   *)
(* without deadlines: no wait is parked on a service that already is where *)
(* the wait wants it, what is confirmed happened, and an uninstalled       *)
(* service stays stopped.                                                  *)
(*                                                                         *)
(* The inductive invariant says, for each process, where its verb can be   *)
(* (InPlace), what its notification is registered for (Armed), that it is  *)
(* awake or waiting for a change to come (Awake), and what it knows: a     *)
(* status that a wait may still read, or that its registration holds, is   *)
(* one the history of its request accounts for (StopKnows, StartKnows,     *)
(* UninstallKnows).  A step of a process disturbs only its own part (Only, *)
(* OnlyKeeps); a step of the service disturbs everyone's through one       *)
(* operator, Becomes (BecomesKeeps).                                       *)
(***************************************************************************)
EXTENDS ScmVerbs, TLAPS

StopPcs == {"open", "send", "decide", "sent", "armStopped", "readStopped",
            "waitStopped", "armOnly", "readOnly", "done"}
UninstallPcs == {"open", "disable", "armSettle", "waitSettle", "settleSend",
                 "rearmSettle", "readSettle", "armStopped", "readStopped",
                 "waitStopped", "armOnly", "readOnly", "delete", "done"}
StartPcs == {"open", "start", "alreadyRunning", "started", "armRunning",
             "readRunning", "waitRunning", "done"}

\* Where no registration is there yet, or none any more.
Unarmed == {"open", "send", "decide", "sent", "disable", "armSettle", "start",
            "alreadyRunning", "started", "delete", "done"}

\* A process is where its verb can be, and has a result only once it is done.
InPlace(p) ==
    /\ verb[p] = "stop" => pc[p] \in StopPcs
    /\ verb[p] = "uninstall" => pc[p] \in UninstallPcs
    /\ verb[p] = "start" => pc[p] \in StartPcs
    /\ result[p] # "none" => pc[p] = "done"
    /\ result[p] = "Confirmed" => verb[p] # "uninstall"
    /\ result[p] = "Deleted" => verb[p] = "uninstall"
    /\ pc[p] = "open" => ~again[p]

\* What each wait is registered for.
Armed(p) ==
    /\ pc[p] \in Unarmed => reg[p] = Unregistered
    /\ pc[p] \in {"readStopped", "waitStopped", "readOnly"} => "STOPPED" \in reg[p].mask
    /\ pc[p] \in {"waitSettle", "readSettle"} => reg[p].mask = Settled
    /\ pc[p] \in {"readRunning", "waitRunning"} => {"RUNNING", "STOPPED"} \subseteq reg[p].mask

Awake(p) ==
    /\ pc[p] = "waitStopped" /\ reg[p].fired = Nothing => status.state # "STOPPED"
    /\ pc[p] = "waitSettle" /\ reg[p].fired = Nothing => status.state \notin Settled
    /\ pc[p] = "waitRunning" /\ reg[p].fired = Nothing
           => status.state \notin {"RUNNING", "STOPPED"}

StopSince(p, s) == s.state = "STOPPED" => "stopped" \in since[p]

\* A stop that was sent knows of every STOPPED since.
StopKnows(p) ==
    verb[p] = "stop" =>
        /\ pc[p] \in StopPcs \ {"open", "send", "done"} \/ (pc[p] = "send" /\ again[p])
               => StopSince(p, status)
        /\ StopSince(p, reg[p].fired)
        /\ result[p] = "Confirmed" => "stopped" \in since[p]

StartSince(p, s) ==
    /\ s.state \in {"RUNNING", "PAUSED", "STOP_PENDING"} => "launched" \in since[p]
    /\ s.state = "STOPPED" /\ kind = "simple" /\ s.exit \in {"clean", "daemon"}
           => "launched" \in since[p]
    /\ s.state = "STOPPED" /\ s.exit = "unconnected" => "unconnected" \in since[p]

StartKnows(p) ==
    verb[p] = "start" =>
        /\ pc[p] \in {"started", "armRunning", "readRunning", "waitRunning"} => StartSince(p, status)
        /\ StartSince(p, reg[p].fired)
        /\ result[p] = "Confirmed" =>
               "launched" \in since[p] \/ (~joined[p] /\ "unconnected" \in since[p])

UninstallKnows(p) ==
    verb[p] = "uninstall" =>
        /\ pc[p] \notin {"open", "disable", "done"} => disabled \/ marked
        /\ reg[p].fired.state = "STOPPED" \/ pc[p] = "delete" => status.state = "STOPPED"
        /\ result[p] = "Deleted" => status.state = "STOPPED" /\ (disabled \/ marked)

Knows(p) == InPlace(p) /\ Armed(p) /\ Awake(p) /\ StopKnows(p) /\ StartKnows(p) /\ UninstallKnows(p)
IInv == TypeOK /\ \A p \in Procs : Knows(p)

\* What a step of p leaves alone.
Only(p) ==
    /\ kind' = kind /\ status' = status
    /\ (disabled => disabled') /\ (marked => marked')
    /\ \A j \in Procs \ {p} :
           /\ verb'[j] = verb[j] /\ pc'[j] = pc[j] /\ result'[j] = result[j]
           /\ reg'[j] = reg[j] /\ since'[j] = since[j]
           /\ again'[j] = again[j] /\ joined'[j] = joined[j]
-----------------------------------------------------------------------------
LEMMA UntouchedKnows ==
  ASSUME IInv, NEW j \in Procs,
         verb'[j] = verb[j], pc'[j] = pc[j], result'[j] = result[j],
         reg'[j] = reg[j], since'[j] = since[j],
         again'[j] = again[j], joined'[j] = joined[j],
         kind' = kind, status' = status,
         disabled => disabled', marked => marked'
  PROVE  Knows(j)'
<1>1. Knows(j)
  BY DEF IInv
<1>2. InPlace(j)'
  BY <1>1 DEF Knows, InPlace
<1>3. Armed(j)' /\ Awake(j)'
  BY <1>1 DEF Knows, Armed, Awake
<1>4. StopKnows(j)' /\ StartKnows(j)'
  BY <1>1 DEF Knows, StopKnows, StopSince, StartKnows, StartSince
<1>5. UninstallKnows(j)'
  BY <1>1 DEF Knows, UninstallKnows
<1>6. QED  BY <1>2, <1>3, <1>4, <1>5 DEF Knows

LEMMA OnlyKeeps ==
  ASSUME IInv, NEW p \in Procs, TypeOK', Only(p), Knows(p)'
  PROVE  IInv'
<1>1. ASSUME NEW j \in Procs \ {p} PROVE Knows(j)'
  BY UntouchedKnows DEF Only
<1>2. QED  BY <1>1 DEF IInv

LEMMA FiredType ==
  ASSUME NEW r \in Registrations, NEW now \in QueriedStatus
  PROVE  /\ [r EXCEPT !.fired = now] \in Registrations
         /\ [r EXCEPT !.fired = now].mask = r.mask
         /\ [r EXCEPT !.fired = now].fired = now
         /\ [r EXCEPT !.fired = now].used = r.used
BY DEF Registrations

LEMMA BecomesType ==
  ASSUME TypeOK, NEW s \in QueriedState, NEW accepts \in BOOLEAN,
         NEW exit \in Exits, Becomes(s, accepts, exit)
  PROVE  status' \in QueriedStatus /\ reg' \in [Procs -> Registrations]
<1> DEFINE now == [state |-> s, accepts_stop |-> accepts, exit |-> exit]
<1>1. now \in QueriedStatus /\ status' = now
  BY DEF Becomes, QueriedStatus
<1>2. reg \in [Procs -> Registrations]
  BY DEF TypeOK
<1> HIDE DEF now
<1>3. ASSUME NEW q \in Procs
      PROVE  (IF s \in reg[q].mask /\ reg[q].fired = Nothing
              THEN [reg[q] EXCEPT !.fired = now] ELSE reg[q]) \in Registrations
  BY <1>1, <1>2, FiredType
<1>4. reg' = [q \in Procs |-> IF s \in reg[q].mask /\ reg[q].fired = Nothing
                             THEN [reg[q] EXCEPT !.fired = now] ELSE reg[q]]
  BY DEF Becomes, now
<1>5. QED  BY <1>1, <1>3, <1>4

\* A service that is disabled or marked does not start, and what it becomes
\* says no more than what every request may know.
Tells(j, s, exit) ==
    /\ since[j] \subseteq since'[j]
    /\ s = "STOPPED" => "stopped" \in since'[j]
    /\ s \in {"RUNNING", "PAUSED", "STOP_PENDING"}
           => "launched" \in since'[j] \/ status.state \in {"RUNNING", "PAUSED", "STOP_PENDING"}
    /\ s = "STOPPED" /\ kind = "simple" /\ exit \in {"clean", "daemon"}
           => "launched" \in since'[j] \/ status.state = "STOP_PENDING"
    /\ s = "STOPPED" /\ exit = "unconnected" => "unconnected" \in since'[j]

Same(j) ==
    /\ verb'[j] = verb[j] /\ pc'[j] = pc[j] /\ result'[j] = result[j]
    /\ again'[j] = again[j] /\ joined'[j] = joined[j]
    /\ kind' = kind /\ disabled' = disabled /\ marked' = marked

LEMMA BecomesKeeps ==
  ASSUME IInv, NEW j \in Procs, NEW s \in QueriedState,
         NEW accepts \in BOOLEAN, NEW exit \in Exits,
         Becomes(s, accepts, exit), Same(j), Tells(j, s, exit),
         status.state = "STOPPED" => ~disabled /\ ~marked
  PROVE  Knows(j)'
<1> DEFINE now == [state |-> s, accepts_stop |-> accepts, exit |-> exit]
<1>1. now \in QueriedStatus /\ status' = now /\ now.state = s /\ now.exit = exit /\ now # Nothing
  BY DEF Becomes, QueriedStatus, QueriedState, Nothing
<1>2. Knows(j) /\ reg[j] \in Registrations
  BY DEF IInv, TypeOK
<1>3. reg'[j] = IF s \in reg[j].mask /\ reg[j].fired = Nothing
                THEN [reg[j] EXCEPT !.fired = now] ELSE reg[j]
  BY DEF Becomes
<1> HIDE DEF now
<1>4. /\ reg'[j].mask = reg[j].mask
      /\ reg'[j].fired = IF s \in reg[j].mask /\ reg[j].fired = Nothing THEN now ELSE reg[j].fired
  BY <1>1, <1>2, <1>3, FiredType
<1>5. InPlace(j)'
  BY <1>2 DEF Knows, InPlace, Same
<1>6. Armed(j)'
  <2>1. reg[j] = Unregistered => reg'[j] = Unregistered
    BY <1>3 DEF Unregistered
  <2>2. QED  BY <1>2, <1>4, <2>1 DEF Knows, Armed, Same
<1>7. Awake(j)'
  BY <1>1, <1>2, <1>4 DEF Knows, Armed, Awake, Same, Settled
<1>8. StopKnows(j)'
  BY <1>1, <1>2, <1>4 DEF Knows, StopKnows, StopSince, Same, Tells
<1>9. StartKnows(j)'
  <2>1. verb[j] = "start" /\ pc[j] \notin {"started", "armRunning", "readRunning", "waitRunning"}
            => reg'[j].fired = Nothing
    BY <1>2, <1>4 DEF Knows, Armed, Unarmed, Unregistered, InPlace, StartPcs
  <2>2. QED
   BY <1>1, <1>2, <1>4, <2>1 DEF Knows, StartKnows, StartSince, Same, Tells, Nothing
<1>10. UninstallKnows(j)'
  <2>1. pc[j] \in {"open", "disable", "done"} => reg'[j].fired = Nothing
    BY <1>2, <1>4 DEF Knows, Armed, Unarmed, Unregistered
  <2>2. QED
    BY <1>1, <1>2, <1>4, <2>1 DEF Knows, UninstallKnows, Same, Nothing
<1>11. QED  BY <1>5, <1>6, <1>7, <1>8, <1>9, <1>10 DEF Knows

-----------------------------------------------------------------------------
(* What the parts of a step do to its process. *)

Results == {"none", "Confirmed", "Requested", "Expired", "Error", "Gone", "Deleted"}

\* Where a step leaves the processes is well typed.
Placed ==
    /\ verb' \in [Procs -> Verbs] /\ pc' \in [Procs -> Pcs]
    /\ result' \in [Procs -> Results]
    /\ reg' \in [Procs -> Registrations] /\ handles' \subseteq Procs

LEMMA UnregisteredType ==
  Unregistered \in Registrations /\ Unregistered.mask = {} /\ Unregistered.fired = Nothing
BY DEF Unregistered, Registrations

LEMMA GotoPlaces ==
  ASSUME TypeOK, NEW p \in Procs, NEW label \in Pcs, Goto(p, label)
  PROVE  /\ pc' \in [Procs -> Pcs] /\ verb' \in [Procs -> Verbs]
         /\ result' \in [Procs -> Results]
         /\ pc'[p] = label /\ verb'[p] = verb[p] /\ result'[p] = result[p]
BY DEF TypeOK, Goto, Results

LEMMA ReturnsPlaces ==
  ASSUME TypeOK, NEW p \in Procs, NEW r \in Results, Returns(p, r)
  PROVE  /\ Placed
         /\ pc'[p] = "done" /\ verb'[p] = verb[p] /\ result'[p] = r
         /\ reg'[p] = Unregistered
<1>1. pc' \in [Procs -> Pcs] /\ pc'[p] = "done"
  BY DEF TypeOK, Returns, Pcs
<1>2. reg' \in [Procs -> Registrations] /\ reg'[p] = Unregistered
  BY UnregisteredType DEF TypeOK, Returns
<1>3. QED  BY <1>1, <1>2 DEF TypeOK, Returns, Placed, Results

LEMMA RegisterPlaces ==
  ASSUME TypeOK, NEW p \in Procs, NEW mask \in SUBSET QueriedState,
         Register(p, mask)
  PROVE  /\ reg' \in [Procs -> Registrations]
         /\ reg'[p].mask = mask
         /\ reg'[p].fired \in {status, Nothing}
         /\ reg'[p].fired = Nothing /\ (reg[p].mask # {} \/ ~reg[p].used)
                => status.state \notin mask
<1>1. PICK fires \in BOOLEAN :
          /\ (reg[p].mask # {} \/ ~reg[p].used) /\ status.state \in mask => fires
          /\ reg' = [reg EXCEPT ![p] =
               [mask |-> mask, fired |-> IF fires THEN status ELSE Nothing,
                used |-> TRUE]]
  BY DEF Register
<1> DEFINE f == IF fires THEN status ELSE Nothing
<1>2. f \in QueriedStatus \cup {Nothing} /\ f \in {status, Nothing}
  BY DEF TypeOK
<1>3. status # Nothing
  BY DEF TypeOK, QueriedStatus, QueriedState, Nothing
<1>4. f = Nothing => ~fires
  BY <1>3
<1> DEFINE r == [mask |-> mask, fired |-> f, used |-> TRUE]
<1>5. reg' = [reg EXCEPT ![p] = r]
  BY <1>1
<1> HIDE DEF f
<1>6. r \in Registrations /\ r.mask = mask /\ r.fired = f
  BY <1>2 DEF Registrations
<1> HIDE DEF r
<1>7. reg' \in [Procs -> Registrations] /\ reg'[p] = r
  BY <1>5, <1>6 DEF TypeOK
<1>8. QED  BY <1>1, <1>2, <1>4, <1>6, <1>7

LEMMA ConsumedPlaces ==
  ASSUME TypeOK, NEW p \in Procs, reg' = Consumed(p)
  PROVE  reg' \in [Procs -> Registrations] /\ reg'[p].fired = Nothing
<1> DEFINE r == [mask |-> {}, fired |-> Nothing, used |-> TRUE]
<1>1. r \in Registrations /\ r.fired = Nothing
  BY DEF Registrations
<1>2. reg' = [reg EXCEPT ![p] = r]
  BY DEF Consumed
<1> HIDE DEF r
<1>3. QED  BY <1>1, <1>2 DEF TypeOK

LEMMA ActsType ==
  ASSUME TypeOK, Placed, UNCHANGED <<service, since>>,
         code' \in [Procs -> {0, 1052, 1061, 1062}],
         {again', foreign', joined'} \subseteq [Procs -> BOOLEAN]
  PROVE  TypeOK'
BY DEF TypeOK, Placed, service, Results

LEMMA KnowsAt ==
  ASSUME IInv, NEW p \in Procs
  PROVE  /\ TypeOK /\ Knows(p)
         /\ status \in QueriedStatus
         /\ reg[p] \in Registrations
         /\ verb[p] \in {"stop", "uninstall", "start"}
         /\ pc[p] \in Pcs
<1>1. TypeOK /\ Knows(p)
  BY DEF IInv
<1>2. verb[p] \in Verbs /\ reg[p] \in Registrations /\ pc[p] \in Pcs /\ status \in QueriedStatus
  BY <1>1 DEF TypeOK
<1>3. QED  BY <1>1, <1>2, ScmVerbsAssumption

LEMMA TypesAt ==
  ASSUME IInv
  PROVE  /\ TypeOK
         /\ {stopSent, recovery, restart, disabled, marked, exists} \subseteq BOOLEAN
         /\ starts \in 0..MaxStarts
         /\ since \in [Procs -> SUBSET {"stopped", "launched", "unconnected"}]
BY DEF IInv, TypeOK

LEMMA ReturnsKnows ==
  ASSUME IInv, NEW p \in Procs, NEW r \in Results \ {"none", "Confirmed", "Deleted"},
         Returns(p, r)
  PROVE  Knows(p)'
<1>1. /\ pc'[p] = "done" /\ verb'[p] = verb[p] /\ result'[p] = r
      /\ reg'[p] = Unregistered
  BY KnowsAt, ReturnsPlaces
<1>2. QED
  BY <1>1, UnregisteredType, SMTT(20) DEF Knows, InPlace, Armed, Awake, StopKnows, StopSince, StartKnows,
                    StartSince, UninstallKnows, StopPcs, UninstallPcs, StartPcs, Unarmed, Nothing

\* A step that leaves the service and the requests' history alone.
Inside == UNCHANGED <<service, since>>

LEMMA ConfirmedKnows ==
  ASSUME IInv, NEW p \in Procs, Returns(p, "Confirmed"),
         verb[p] = "stop" => "stopped" \in since'[p],
         verb[p] = "start" => "launched" \in since'[p]
                              \/ (~joined'[p] /\ "unconnected" \in since'[p]),
         verb[p] # "uninstall"
  PROVE  Knows(p)'
<1>1. /\ pc'[p] = "done" /\ verb'[p] = verb[p] /\ result'[p] = "Confirmed"
      /\ reg'[p] = Unregistered
  BY KnowsAt, ReturnsPlaces DEF Results
<1>2. QED
  BY <1>1, UnregisteredType, SMTT(20) DEF Knows, InPlace, Armed, Awake, StopKnows, StopSince, StartKnows,
                    StartSince, UninstallKnows, StopPcs, UninstallPcs, StartPcs, Unarmed, Nothing

\* await_stopped's end: the service is STOPPED, or was since the request.
LEMMA ConfirmsKnows ==
  ASSUME IInv, NEW p \in Procs, Confirms(p), Inside,
         pc[p] \notin {"open", "disable", "done"},
         verb[p] # "start",
         verb[p] = "stop" => "stopped" \in since[p],
         verb[p] = "uninstall" => status.state = "STOPPED"
  PROVE  Placed /\ Knows(p)'
<1>1. CASE verb[p] = "uninstall"
  <2>1. /\ Goto(p, "delete") /\ handles' = handles \ {p}
        /\ reg' = [reg EXCEPT ![p] = Unregistered]
    BY <1>1 DEF Confirms
  <2>2. /\ pc' \in [Procs -> Pcs] /\ verb' \in [Procs -> Verbs] /\ result' \in [Procs -> Results]
        /\ pc'[p] = "delete" /\ verb'[p] = "uninstall" /\ result'[p] = result[p]
    BY <1>1, <2>1, "delete" \in Pcs, GotoPlaces, KnowsAt DEF Pcs
  <2>3. reg' \in [Procs -> Registrations] /\ reg'[p] = Unregistered
    BY <2>1, UnregisteredType, KnowsAt DEF TypeOK
  <2>4. handles' \subseteq Procs
    BY <2>1, KnowsAt DEF TypeOK
  <2>5. disabled' \/ marked'
    BY <1>1, KnowsAt DEF Knows, UninstallKnows, Inside, service
  <2>6. result[p] = "none"
    BY KnowsAt DEF Knows, InPlace
  <2>7. status'.state = "STOPPED"
    BY <1>1 DEF Inside, service
  <2>8. Knows(p)'
    BY <2>2, <2>3, <2>5, <2>6, <2>7, UnregisteredType DEF Knows, InPlace, Armed, Awake, StopKnows,
       StartKnows, UninstallKnows, UninstallPcs, Unarmed, Nothing
  <2>9. QED  BY <2>2, <2>3, <2>4, <2>8 DEF Placed
<1>2. CASE verb[p] # "uninstall"
  <2>1. Returns(p, "Confirmed")
    BY <1>2 DEF Confirms
  <2>2. since'[p] = since[p]
    BY DEF Inside
  <2>3. QED  BY <1>2, <2>1, <2>2, ConfirmedKnows, ReturnsPlaces, KnowsAt DEF Results
<1>3. QED  BY <1>1, <1>2

\* Parking a wait, or moving on with the registration as it is.
LEMMA GotoKnows ==
  ASSUME IInv, NEW p \in Procs, NEW label \in Pcs \ {"open", "send", "disable", "delete", "done"},
         Goto(p, label), Inside, joined' = joined, again'[p] = again[p] \/ pc[p] # "send",
         pc[p] \notin {"open", "disable", "done", "delete"},
         verb[p] = "stop" => label \in StopPcs /\ (pc[p] = "send" => again[p]),
         verb[p] = "uninstall" => label \in UninstallPcs,
         verb[p] = "start" => label \in StartPcs \ {"start", "alreadyRunning"}
                              /\ pc[p] \notin {"start", "alreadyRunning"},
         reg'[p].fired \in {reg[p].fired, status, Nothing},
         Armed(p)', Awake(p)'
  PROVE  Knows(p)'
<1>1. /\ pc'[p] = label /\ verb'[p] = verb[p] /\ result'[p] = result[p]
  BY KnowsAt, GotoPlaces
<1>2. result[p] = "none"
  BY KnowsAt DEF Knows, InPlace
<1>3. /\ status' = status /\ kind' = kind /\ since' = since /\ disabled' = disabled
      /\ marked' = marked
  BY DEF Inside, service
<1>4. InPlace(p)'
  BY <1>1, <1>2 DEF InPlace
<1> DEFINE now == reg'[p].fired
<1>5. now = reg[p].fired \/ now = status \/ now.state = "none"
  BY DEF Nothing
<1> HIDE DEF now
<1>6. InPlace(p) /\ StopKnows(p) /\ StartKnows(p) /\ UninstallKnows(p)
  BY KnowsAt DEF Knows
<1>7. StopKnows(p)'
  BY <1>1, <1>2, <1>3, <1>5, <1>6 DEF InPlace, StopKnows, StopSince, now
<1>8. StartKnows(p)'
  BY <1>1, <1>2, <1>3, <1>5, <1>6 DEF InPlace, StartKnows, StartSince, StartPcs, now
<1>9. UninstallKnows(p)'
  BY <1>1, <1>2, <1>3, <1>5, <1>6 DEF InPlace, UninstallKnows, now
<1>10. QED  BY <1>4, <1>7, <1>8, <1>9 DEF Knows
-----------------------------------------------------------------------------
(* The steps of a process, one lemma each. *)

\* A step inside that is typed keeps the invariant if its process does.
LEMMA InsideKeeps ==
  ASSUME IInv, NEW p \in Procs, Placed, Inside, Only(p), Knows(p)',
         code' \in [Procs -> {0, 1052, 1061, 1062}],
         {again', foreign', joined'} \subseteq [Procs -> BOOLEAN]
  PROVE  IInv'
BY KnowsAt, ActsType, OnlyKeeps DEF Inside

LEMMA OpenKeeps ==
  ASSUME IInv, NEW p \in Procs, Open(p)
  PROVE  IInv'
<1>1. /\ Only(p) /\ Inside
      /\ code' \in [Procs -> {0, 1052, 1061, 1062}]
      /\ {again', foreign', joined'} \subseteq [Procs -> BOOLEAN]
  BY DEF IInv, TypeOK, Only, Open, Goto, Returns, Inside, service, inner
<1>2. CASE exists
  <2> DEFINE label == IF verb[p] = "stop" THEN "send"
                      ELSE IF verb[p] = "uninstall" THEN "disable" ELSE "start"
  <2>1. Goto(p, label) /\ reg' = reg /\ handles' = handles \cup {p}
    BY <1>2 DEF Open
  <2>2. label \in {"send", "disable", "start"} /\ label \in Pcs
    BY DEF Pcs
  <2>3. /\ pc' \in [Procs -> Pcs] /\ verb' \in [Procs -> Verbs] /\ result' \in [Procs -> Results]
        /\ pc'[p] = label /\ verb'[p] = verb[p] /\ result'[p] = result[p]
    BY <2>1, <2>2, GotoPlaces, KnowsAt
  <2>4. Placed
    BY <2>1, <2>3, KnowsAt DEF TypeOK, Placed
  <2>5. reg'[p] = Unregistered /\ result[p] = "none" /\ again'[p] = again[p]
    BY <2>1, KnowsAt DEF Open, inner, Knows, Armed, Unarmed, InPlace
  <2>6. verb[p] = "stop" => ~again[p]
    BY KnowsAt DEF Open, Knows, InPlace
  <2>7. Knows(p)'
    BY <2>2, <2>3, <2>5, <2>6, KnowsAt, UnregisteredType
       DEF Knows, InPlace, Armed, Awake, StopKnows, StopSince, StartKnows, StartSince,
           UninstallKnows, StopPcs, UninstallPcs, StartPcs, Unarmed, Nothing
  <2>8. QED  BY <1>1, <2>4, <2>7, InsideKeeps
<1>3. CASE ~exists
  <2>1. Returns(p, "Gone") \/ Returns(p, "Error")
    BY <1>3 DEF Open
  <2>2. Placed /\ Knows(p)'
    BY <2>1, ReturnsPlaces, ReturnsKnows, KnowsAt DEF Results
  <2>3. QED  BY <1>1, <2>2, InsideKeeps
<1>4. QED  BY <1>2, <1>3

\* The facts of a step that stays inside, under its definitions.
LEMMA CallFailsKeeps ==
  ASSUME IInv, NEW p \in Procs, CallFails(p)
  PROVE  IInv'
<1>1. /\ Only(p) /\ Inside
      /\ code' \in [Procs -> {0, 1052, 1061, 1062}]
      /\ {again', foreign', joined'} \subseteq [Procs -> BOOLEAN]
  BY DEF IInv, TypeOK, Only, CallFails, Returns, Inside, service, inner
<1>2. Placed /\ Knows(p)'
  BY ReturnsPlaces, ReturnsKnows, KnowsAt DEF CallFails, Results
<1>3. QED  BY <1>1, <1>2, InsideKeeps

LEMMA ExpiresKeeps ==
  ASSUME IInv, NEW p \in Procs, Expires(p)
  PROVE  IInv'
<1>1. /\ Only(p) /\ Inside
      /\ code' \in [Procs -> {0, 1052, 1061, 1062}]
      /\ {again', foreign', joined'} \subseteq [Procs -> BOOLEAN]
  BY DEF IInv, TypeOK, Only, Expires, Returns, Inside, service, inner
<1>2. Placed /\ Knows(p)'
  BY ReturnsPlaces, ReturnsKnows, KnowsAt DEF Expires, Results
<1>3. QED  BY <1>1, <1>2, InsideKeeps

LEMMA SendStopKeeps ==
  ASSUME IInv, NEW p \in Procs, SendStop(p)
  PROVE  IInv'
<1>1. Only(p)
  BY DEF IInv, TypeOK, Only, SendStop, Goto, Requests
<1>2. PICK answer \in StopAnswers :
         /\ Deliver(answer)
         /\ code' = [code EXCEPT ![p] = answer]
         /\ Goto(p, IF StopTaken(answer) THEN "sent" ELSE "decide")
  BY DEF SendStop
<1>3. answer \in {0, 1052, 1061, 1062}
  BY DEF StopAnswers
<1>4. /\ pc' \in [Procs -> Pcs] /\ verb' \in [Procs -> Verbs] /\ result' \in [Procs -> Results]
      /\ pc'[p] \in {"sent", "decide"} /\ verb'[p] = verb[p] /\ result'[p] = result[p]
  BY <1>2, {"sent", "decide"} \subseteq Pcs, GotoPlaces, KnowsAt DEF Pcs
<1>5. /\ UNCHANGED <<kind, status, recovery, restart, disabled, marked, exists,
                    starts, handles, reg, again, foreign, joined>>
      /\ pc[p] = "send"
  BY DEF SendStop
<1>6. since' \in [Procs -> SUBSET {"stopped", "launched", "unconnected"}]
  BY DEF SendStop, Requests, IInv, TypeOK
<1>7. TypeOK'
  <2>1. stopSent' \in BOOLEAN
    BY <1>2 DEF Deliver, IInv, TypeOK
  <2>2. code' \in [Procs -> {0, 1052, 1061, 1062}]
    BY <1>2, <1>3 DEF IInv, TypeOK
  <2>3. QED  BY <1>4, <1>5, <1>6, <2>1, <2>2, KnowsAt DEF TypeOK, Results
<1>8. /\ verb[p] = "stop" /\ result[p] = "none"
      /\ reg'[p] = Unregistered
  BY <1>5, KnowsAt DEF Knows, InPlace, Armed, Unarmed, UninstallPcs, StartPcs
<1>9. status.state = "STOPPED" => "stopped" \in since'[p]
  <2>1. CASE again[p]
    BY <1>5, <1>8, <2>1, KnowsAt DEF SendStop, Knows, StopKnows, StopSince
  <2>2. CASE ~again[p]
    BY <2>2 DEF SendStop, Requests, IInv, TypeOK
  <2>3. QED  BY <2>1, <2>2
<1>10. Knows(p)'
  BY <1>4, <1>5, <1>8, <1>9, UnregisteredType
     DEF Knows, InPlace, Armed, Awake, StopKnows, StopSince, StartKnows,
         UninstallKnows, StopPcs, Unarmed, Nothing
<1>11. QED  BY <1>1, <1>7, <1>10, OnlyKeeps

LEMMA DecideRefusedKeeps ==
  ASSUME IInv, NEW p \in Procs, DecideRefused(p)
  PROVE  IInv'
<1>1. /\ Only(p) /\ Inside
      /\ code' \in [Procs -> {0, 1052, 1061, 1062}]
      /\ {again', foreign', joined'} \subseteq [Procs -> BOOLEAN]
  <2>1. Only(p)
    BY SMTT(30) DEF IInv, TypeOK, Only, DecideRefused, Goto, Returns, service
  <2>2. Inside /\ UNCHANGED <<code, foreign, joined>>
    BY DEF DecideRefused, Inside
  <2>3. again' \in [Procs -> BOOLEAN]
    <3>1. again' = again \/ again' = [again EXCEPT ![p] = TRUE]
      BY DEF DecideRefused
    <3>2. again \in [Procs -> BOOLEAN]
      BY DEF IInv, TypeOK
    <3>3. QED  BY <3>1, <3>2
  <2>4. QED  BY <2>1, <2>2, <2>3 DEF IInv, TypeOK
<1>2. /\ pc[p] = "decide" /\ verb[p] = "stop" /\ result[p] = "none" /\ reg[p] = Unregistered
      /\ StopSince(p, status)
  BY KnowsAt DEF DecideRefused, Knows, InPlace, Armed, Unarmed, UninstallPcs, StartPcs,
                 StopKnows, StopPcs
<1>3. CASE Returns(p, "Error")
  BY <1>1, <1>3, ReturnsPlaces, ReturnsKnows, KnowsAt, InsideKeeps DEF Results
<1>4. CASE \/ Goto(p, "sent") /\ UNCHANGED <<reg, handles, again>>
           \/ Goto(p, "send") /\ again' = [again EXCEPT ![p] = TRUE] /\ UNCHANGED <<reg, handles>>
  <2>1. /\ pc' \in [Procs -> Pcs] /\ verb' \in [Procs -> Verbs] /\ result' \in [Procs -> Results]
        /\ pc'[p] \in {"sent", "send"} /\ verb'[p] = verb[p] /\ result'[p] = result[p]
    BY <1>4, {"sent", "send"} \subseteq Pcs, GotoPlaces, KnowsAt DEF Pcs
  <2>2. Placed /\ reg'[p] = Unregistered
    BY <1>2, <1>4, <2>1, KnowsAt DEF TypeOK, Placed
  <2>3. StopSince(p, status)'
    BY <1>1, <1>2 DEF Inside, service, StopSince
  <2>4. Knows(p)'
    BY <1>2, <2>1, <2>2, <2>3, UnregisteredType
       DEF Knows, InPlace, Armed, Awake, StopKnows, StopSince, StartKnows,
           UninstallKnows, StopPcs, Unarmed, Nothing
  <2>5. QED  BY <1>1, <2>2, <2>4, InsideKeeps
<1>5. QED  BY <1>3, <1>4 DEF DecideRefused

LEMMA StopSentKeeps ==
  ASSUME IInv, NEW p \in Procs, StopSent(p)
  PROVE  IInv'
<1>1. /\ Only(p) /\ Inside /\ joined' = joined
      /\ code' \in [Procs -> {0, 1052, 1061, 1062}]
      /\ {again', foreign', joined'} \subseteq [Procs -> BOOLEAN]
  BY DEF IInv, TypeOK, Only, StopSent, Goto, Returns, Inside, service
<1>2. CASE Returns(p, "Requested")
  BY <1>1, <1>2, ReturnsPlaces, ReturnsKnows, KnowsAt, InsideKeeps DEF Results
<1>3. CASE Goto(p, "armStopped") /\ UNCHANGED <<reg, handles>>
  <2>1. pc[p] = "sent" /\ verb[p] = "stop"
    BY KnowsAt DEF StopSent, Knows, InPlace, UninstallPcs, StartPcs
  <2>2. "armStopped" \in Pcs
    BY DEF Pcs
  <2>3. /\ pc' \in [Procs -> Pcs] /\ verb' \in [Procs -> Verbs] /\ result' \in [Procs -> Results]
        /\ pc'[p] = "armStopped"
    BY <1>3, <2>2, GotoPlaces, KnowsAt
  <2>4. Placed /\ reg'[p] = reg[p]
    BY <1>3, <2>3, KnowsAt DEF TypeOK, Placed
  <2>5. Armed(p)' /\ Awake(p)'
    BY <2>3 DEF Armed, Awake, Unarmed
  <2>6. Knows(p)'
    BY <1>1, <1>3, <2>1, <2>2, <2>4, <2>5, GotoKnows DEF StopPcs
  <2>7. QED  BY <1>1, <2>4, <2>6, InsideKeeps
<1>4. QED  BY <1>2, <1>3 DEF StopSent

\* What an arm leaves: a registration for `mask`, which fired or is silent.
Arms(p, mask, label) ==
    /\ Only(p) /\ Inside /\ Placed
    /\ code' \in [Procs -> {0, 1052, 1061, 1062}]
    /\ {again', foreign', joined'} \subseteq [Procs -> BOOLEAN]
    /\ again' = again /\ joined' = joined
    /\ pc'[p] = label /\ Goto(p, label)
    /\ reg'[p].mask = mask /\ reg'[p].fired \in {status, Nothing}
    /\ reg'[p].fired = Nothing /\ (reg[p].mask # {} \/ ~reg[p].used)
           => status'.state \notin mask

LEMMA ArmPlaces ==
  ASSUME IInv, NEW p \in Procs, NEW at \in Pcs, NEW mask \in SUBSET QueriedState,
         NEW next \in Pcs, Arm(p, at, mask, next)
  PROVE  pc[p] = at /\ Arms(p, mask, next)
<1>1. pc[p] = at /\ Register(p, mask) /\ Goto(p, next) /\ UNCHANGED <<service, handles, since, inner>>
  BY DEF Arm
<1>2. /\ pc' \in [Procs -> Pcs] /\ verb' \in [Procs -> Verbs] /\ result' \in [Procs -> Results]
      /\ pc'[p] = next
  BY <1>1, GotoPlaces, KnowsAt
<1>3. /\ reg' \in [Procs -> Registrations]
      /\ reg'[p].mask = mask /\ reg'[p].fired \in {status, Nothing}
      /\ reg'[p].fired = Nothing /\ (reg[p].mask # {} \/ ~reg[p].used)
             => status.state \notin mask
  BY <1>1, RegisterPlaces, KnowsAt
<1>4. Placed
  BY <1>1, <1>2, <1>3, KnowsAt DEF Placed, TypeOK
<1>5. \A j \in Procs \ {p} : reg'[j] = reg[j]
  BY <1>1, KnowsAt DEF Register, TypeOK
<1>6. Only(p)
  BY <1>1, <1>5, KnowsAt DEF Only, Goto, service, inner, TypeOK
<1>7. QED  BY <1>1, <1>2, <1>3, <1>4, <1>6, KnowsAt DEF Arms, Inside, service, inner, TypeOK

LEMMA ArmStoppedKeeps ==
  ASSUME IInv, NEW p \in Procs, ArmStopped(p)
  PROVE  IInv'
<1> DEFINE mask == {"STOPPED", "STOP_PENDING"}
<1>1. Arm(p, "armStopped", mask, "readStopped") /\ {"armStopped", "readStopped"} \subseteq Pcs /\ mask \in SUBSET QueriedState
  BY DEF ArmStopped, Pcs, QueriedState
<1> HIDE DEF mask
<1>2. pc[p] = "armStopped" /\ Arms(p, mask, "readStopped")
  BY <1>1, ArmPlaces
<1>3. Armed(p)' /\ Awake(p)'
  BY <1>2 DEF mask, Arms, Armed, Awake, Unarmed
<1>4. Knows(p)'
  BY <1>1, <1>2, <1>3, GotoKnows, KnowsAt DEF Arms, Knows, InPlace, StopPcs, UninstallPcs, StartPcs
<1>5. QED  BY <1>2, <1>4, InsideKeeps DEF Arms

LEMMA ArmOnlyKeeps ==
  ASSUME IInv, NEW p \in Procs, ArmOnly(p)
  PROVE  IInv'
<1> DEFINE mask == {"STOPPED"}
<1>1. Arm(p, "armOnly", mask, "readOnly") /\ {"armOnly", "readOnly"} \subseteq Pcs /\ mask \in SUBSET QueriedState
  BY DEF ArmOnly, Pcs, QueriedState
<1> HIDE DEF mask
<1>2. pc[p] = "armOnly" /\ Arms(p, mask, "readOnly")
  BY <1>1, ArmPlaces
<1>3. Armed(p)' /\ Awake(p)'
  BY <1>2 DEF mask, Arms, Armed, Awake, Unarmed
<1>4. Knows(p)'
  BY <1>1, <1>2, <1>3, GotoKnows, KnowsAt DEF Arms, Knows, InPlace, StopPcs, UninstallPcs, StartPcs
<1>5. QED  BY <1>2, <1>4, InsideKeeps DEF Arms

LEMMA ArmSettleKeeps ==
  ASSUME IInv, NEW p \in Procs, ArmSettle(p)
  PROVE  IInv'
<1> DEFINE mask == Settled
<1>1. Arm(p, "armSettle", mask, "waitSettle") /\ {"armSettle", "waitSettle"} \subseteq Pcs /\ mask \in SUBSET QueriedState
  BY DEF ArmSettle, Pcs, QueriedState, Settled
<1> HIDE DEF mask
<1>2. pc[p] = "armSettle" /\ Arms(p, mask, "waitSettle")
  BY <1>1, ArmPlaces
<1>3. Armed(p)' /\ Awake(p)'
  BY <1>2, KnowsAt DEF mask, Arms, Armed, Awake, Unarmed, Knows, Unregistered
<1>4. Knows(p)'
  BY <1>1, <1>2, <1>3, GotoKnows, KnowsAt DEF Arms, Knows, InPlace, StopPcs, UninstallPcs, StartPcs
<1>5. QED  BY <1>2, <1>4, InsideKeeps DEF Arms

LEMMA RearmSettleKeeps ==
  ASSUME IInv, NEW p \in Procs, RearmSettle(p)
  PROVE  IInv'
<1> DEFINE mask == Settled
<1>1. Arm(p, "rearmSettle", mask, "readSettle") /\ {"rearmSettle", "readSettle"} \subseteq Pcs /\ mask \in SUBSET QueriedState
  BY DEF RearmSettle, Pcs, QueriedState, Settled
<1> HIDE DEF mask
<1>2. pc[p] = "rearmSettle" /\ Arms(p, mask, "readSettle")
  BY <1>1, ArmPlaces
<1>3. Armed(p)' /\ Awake(p)'
  BY <1>2 DEF mask, Arms, Armed, Awake, Unarmed
<1>4. Knows(p)'
  BY <1>1, <1>2, <1>3, GotoKnows, KnowsAt DEF Arms, Knows, InPlace, StopPcs, UninstallPcs, StartPcs
<1>5. QED  BY <1>2, <1>4, InsideKeeps DEF Arms

LEMMA ArmRunningKeeps ==
  ASSUME IInv, NEW p \in Procs, ArmRunning(p)
  PROVE  IInv'
<1> DEFINE mask == {"RUNNING", "STOPPED", "START_PENDING"}
<1>1. Arm(p, "armRunning", mask, "readRunning") /\ {"armRunning", "readRunning"} \subseteq Pcs /\ mask \in SUBSET QueriedState
  BY DEF ArmRunning, Pcs, QueriedState
<1> HIDE DEF mask
<1>2. pc[p] = "armRunning" /\ Arms(p, mask, "readRunning")
  BY <1>1, ArmPlaces
<1>3. Armed(p)' /\ Awake(p)'
  BY <1>2 DEF mask, Arms, Armed, Awake, Unarmed
<1>4. Knows(p)'
  BY <1>1, <1>2, <1>3, GotoKnows, KnowsAt DEF Arms, Knows, InPlace, StopPcs, UninstallPcs, StartPcs
<1>5. QED  BY <1>2, <1>4, InsideKeeps DEF Arms

\* A process of a verb that stops is told of a STOPPED by the status it reads.
LEMMA StoppedIsKnown ==
  ASSUME IInv, NEW p \in Procs,
         pc[p] \in {"readStopped", "readOnly", "waitStopped", "waitSettle", "readSettle"}
  PROVE  /\ verb[p] # "start"
         /\ status.state = "STOPPED" /\ verb[p] = "stop" => "stopped" \in since[p]
         /\ reg[p].fired.state = "STOPPED" /\ verb[p] = "stop" => "stopped" \in since[p]
         /\ reg[p].fired.state = "STOPPED" /\ verb[p] = "uninstall" => status.state = "STOPPED"
<1>1. Knows(p)
  BY KnowsAt
<1>2. QED  BY <1>1 DEF Knows, InPlace, StopKnows, StopSince, UninstallKnows, StopPcs, StartPcs

LEMMA ReadStoppedKeeps ==
  ASSUME IInv, NEW p \in Procs, ReadStopped(p)
  PROVE  IInv'
<1>1. /\ Only(p) /\ Inside /\ joined' = joined /\ again' = again
      /\ code' \in [Procs -> {0, 1052, 1061, 1062}]
      /\ {again', foreign', joined'} \subseteq [Procs -> BOOLEAN]
  BY DEF IInv, TypeOK, Only, ReadStopped, Confirms, Goto, Returns, Inside, service, inner
<1>2. pc[p] = "readStopped"
  BY DEF ReadStopped
<1>3. CASE status.state = "STOPPED" /\ Confirms(p)
  BY <1>1, <1>2, <1>3, StoppedIsKnown, ConfirmsKnows, InsideKeeps
<1>4. CASE status.state # "STOPPED" /\ Goto(p, "waitStopped") /\ UNCHANGED <<reg, handles>>
  <2>1. "waitStopped" \in Pcs /\ Goto(p, "waitStopped") /\ reg' = reg /\ handles' = handles
    BY <1>4 DEF Pcs
  <2>2. /\ pc' \in [Procs -> Pcs] /\ verb' \in [Procs -> Verbs] /\ result' \in [Procs -> Results]
        /\ pc'[p] = "waitStopped"
    BY <2>1, GotoPlaces, KnowsAt
  <2>3. Placed /\ reg'[p] = reg[p] /\ status' = status
    BY <1>1, <2>1, <2>2, KnowsAt DEF TypeOK, Placed, Inside, service
  <2>4. Armed(p)' /\ Awake(p)'
    BY <1>2, <1>4, <2>2, <2>3, KnowsAt DEF Knows, Armed, Awake, Unarmed
  <2>5. Knows(p)'
    BY <1>1, <1>2, <2>1, <2>3, <2>4, StoppedIsKnown, GotoKnows, KnowsAt
       DEF StopPcs, UninstallPcs
  <2>6. QED  BY <1>1, <2>3, <2>5, InsideKeeps
<1>5. QED  BY <1>3, <1>4 DEF ReadStopped

LEMMA WaitStoppedKeeps ==
  ASSUME IInv, NEW p \in Procs, WaitStopped(p)
  PROVE  IInv'
<1>1. /\ Only(p) /\ Inside /\ joined' = joined /\ again' = again
      /\ code' \in [Procs -> {0, 1052, 1061, 1062}]
      /\ {again', foreign', joined'} \subseteq [Procs -> BOOLEAN]
  BY DEF IInv, TypeOK, Only, WaitStopped, Confirms, Consumed, Goto, Returns, Inside, service, inner
<1>2. pc[p] = "waitStopped"
  BY DEF WaitStopped, Fired
<1>3. CASE reg[p].fired.state = "STOPPED" /\ Confirms(p)
  BY <1>1, <1>2, <1>3, StoppedIsKnown, ConfirmsKnows, InsideKeeps
<1>4. CASE reg' = Consumed(p) /\ Goto(p, "armOnly") /\ UNCHANGED handles
  <2>1. "armOnly" \in Pcs
    BY DEF Pcs
  <2>2. /\ pc' \in [Procs -> Pcs] /\ verb' \in [Procs -> Verbs] /\ result' \in [Procs -> Results]
        /\ pc'[p] = "armOnly"
    BY <1>4, <2>1, GotoPlaces, KnowsAt
  <2>3. Placed /\ reg'[p].fired = Nothing
    BY <1>4, <2>2, ConsumedPlaces, KnowsAt DEF TypeOK, Placed
  <2>4. Armed(p)' /\ Awake(p)'
    BY <2>2 DEF Armed, Awake, Unarmed
  <2>5. Knows(p)'
    BY <1>1, <1>2, <1>4, <2>1, <2>3, <2>4, StoppedIsKnown, GotoKnows, KnowsAt
       DEF StopPcs, UninstallPcs
  <2>6. QED  BY <1>1, <2>3, <2>5, InsideKeeps
<1>5. QED  BY <1>3, <1>4 DEF WaitStopped

LEMMA ReadOnlyKeeps ==
  ASSUME IInv, NEW p \in Procs, ReadOnly(p)
  PROVE  IInv'
<1>1. /\ Only(p) /\ Inside /\ joined' = joined /\ again' = again
      /\ code' \in [Procs -> {0, 1052, 1061, 1062}]
      /\ {again', foreign', joined'} \subseteq [Procs -> BOOLEAN]
  BY SMTT(30) DEF IInv, TypeOK, Only, ReadOnly, Confirms, Goto, Returns, Inside, service, inner
<1>2. pc[p] = "readOnly"
  BY DEF ReadOnly
<1>3. CASE status.state = "STOPPED" /\ Confirms(p)
  BY <1>1, <1>2, <1>3, StoppedIsKnown, ConfirmsKnows, InsideKeeps
<1>4. CASE status.state = "STOP_PENDING" /\ Goto(p, "waitStopped") /\ UNCHANGED <<reg, handles>>
  <2>1. "waitStopped" \in Pcs /\ Goto(p, "waitStopped") /\ reg' = reg /\ handles' = handles
    BY <1>4 DEF Pcs
  <2>2. /\ pc' \in [Procs -> Pcs] /\ verb' \in [Procs -> Verbs] /\ result' \in [Procs -> Results]
        /\ pc'[p] = "waitStopped"
    BY <2>1, GotoPlaces, KnowsAt
  <2>3. Placed /\ reg'[p] = reg[p] /\ status' = status
    BY <1>1, <2>1, <2>2, KnowsAt DEF TypeOK, Placed, Inside, service
  <2>4. Armed(p)' /\ Awake(p)'
    BY <1>2, <1>4, <2>2, <2>3, KnowsAt DEF Knows, Armed, Awake, Unarmed
  <2>5. Knows(p)'
    BY <1>1, <1>2, <2>1, <2>3, <2>4, StoppedIsKnown, GotoKnows, KnowsAt
       DEF StopPcs, UninstallPcs
  <2>6. QED  BY <1>1, <2>3, <2>5, InsideKeeps
<1>5. CASE Returns(p, "Error")
  BY <1>1, <1>5, ReturnsPlaces, ReturnsKnows, KnowsAt, InsideKeeps DEF Results
<1>6. QED  BY <1>3, <1>4, <1>5 DEF ReadOnly

LEMMA DisableKeeps ==
  ASSUME IInv, NEW p \in Procs, Disable(p)
  PROVE  IInv'
<1>1. /\ pc[p] = "disable" /\ foreign' = [foreign EXCEPT ![p] = marked]
      /\ disabled' = (disabled \/ ~marked) /\ Goto(p, "armSettle")
      /\ UNCHANGED <<kind, status, stopSent, recovery, restart, marked, exists,
                     starts, since, handles, reg, code, again, joined>>
  BY DEF Disable
<1>2. /\ pc' \in [Procs -> Pcs] /\ verb' \in [Procs -> Verbs] /\ result' \in [Procs -> Results]
      /\ pc'[p] = "armSettle" /\ verb'[p] = verb[p] /\ result'[p] = result[p]
  BY <1>1, "armSettle" \in Pcs, GotoPlaces, KnowsAt DEF Pcs
<1>3. marked \in BOOLEAN /\ foreign \in [Procs -> BOOLEAN]
  BY DEF IInv, TypeOK
<1>4. TypeOK'
  BY <1>1, <1>2, <1>3, KnowsAt DEF TypeOK, Results
<1>5. Only(p)
  BY <1>1, KnowsAt DEF Only, Goto, TypeOK
<1>6. verb[p] = "uninstall" /\ result[p] = "none" /\ reg'[p] = Unregistered
  BY <1>1, KnowsAt DEF Knows, InPlace, Armed, Unarmed, StopPcs, StartPcs
<1>7. marked' = marked /\ (marked \/ disabled')
  BY <1>1, Zenon
<1>8. InPlace(p)' /\ Armed(p)' /\ Awake(p)'
  BY <1>2, <1>6, UnregisteredType DEF InPlace, Armed, Awake, UninstallPcs, Unarmed
<1>9. StopKnows(p)' /\ StartKnows(p)' /\ UninstallKnows(p)'
  BY <1>2, <1>6, <1>7, UnregisteredType DEF StopKnows, StartKnows, UninstallKnows, Nothing
<1>10. QED  BY <1>4, <1>5, <1>8, <1>9, OnlyKeeps DEF Knows

LEMMA SeenKeeps ==
  ASSUME IInv, NEW p \in Procs, NEW seen \in {status, reg[p].fired}, NEW left,
         pc[p] \in {"waitSettle", "readSettle"},
         Seen(p, seen, left), Inside, Only(p), again' = again, joined' = joined,
         code' \in [Procs -> {0, 1052, 1061, 1062}],
         {again', foreign', joined'} \subseteq [Procs -> BOOLEAN],
         reg' = left => reg' \in [Procs -> Registrations]
                        /\ reg'[p].fired \in {reg[p].fired, Nothing}
  PROVE  IInv'
<1>1. verb[p] = "uninstall"
  BY KnowsAt DEF Knows, InPlace, StopPcs, StartPcs
<1>2. CASE seen.state = "STOPPED" /\ Confirms(p)
  BY <1>1, <1>2, StoppedIsKnown, ConfirmsKnows, InsideKeeps
<1>3. CASE Goto(p, "settleSend") /\ reg' = left /\ UNCHANGED handles
  <2>1. "settleSend" \in Pcs
    BY DEF Pcs
  <2>2. /\ pc' \in [Procs -> Pcs] /\ verb' \in [Procs -> Verbs] /\ result' \in [Procs -> Results]
        /\ pc'[p] = "settleSend"
    BY <1>3, <2>1, GotoPlaces, KnowsAt
  <2>3. Placed
    BY <1>3, <2>2, KnowsAt DEF TypeOK, Placed
  <2>4. Armed(p)' /\ Awake(p)'
    BY <2>2 DEF Armed, Awake, Unarmed
  <2>5. Knows(p)'
    BY <1>1, <1>3, <2>1, <2>4, GotoKnows, KnowsAt DEF UninstallPcs
  <2>6. QED  BY <2>3, <2>5, InsideKeeps
<1>4. CASE Returns(p, "Error")
  BY <1>4, ReturnsPlaces, ReturnsKnows, KnowsAt, InsideKeeps DEF Results
<1>5. QED  BY <1>2, <1>3, <1>4 DEF Seen

LEMMA WaitSettleKeeps ==
  ASSUME IInv, NEW p \in Procs, WaitSettle(p)
  PROVE  IInv'
<1>1. Only(p)
  BY SMTT(30) DEF IInv, TypeOK, Only, WaitSettle, Seen, Confirms, Consumed, Goto, Returns, service
<1>2. Inside /\ again' = again /\ foreign' = foreign /\ joined' = joined
      /\ code' = [code EXCEPT ![p] = 0] /\ pc[p] = "waitSettle"
      /\ Seen(p, reg[p].fired, Consumed(p))
  BY DEF WaitSettle, Inside, Fired
<1>3. /\ code' \in [Procs -> {0, 1052, 1061, 1062}]
      /\ {again', foreign', joined'} \subseteq [Procs -> BOOLEAN]
  BY <1>2, KnowsAt DEF TypeOK
<1>4. reg' = Consumed(p) => reg' \in [Procs -> Registrations] /\ reg'[p].fired = Nothing
  BY ConsumedPlaces, KnowsAt
<1>5. QED  BY <1>1, <1>2, <1>3, <1>4, SeenKeeps

LEMMA ReadSettleKeeps ==
  ASSUME IInv, NEW p \in Procs, ReadSettle(p)
  PROVE  IInv'
<1>1. Only(p)
  BY SMTT(30) DEF IInv, TypeOK, Only, ReadSettle, Seen, Confirms, Goto, Returns, service, inner
<1>2. Inside /\ again' = again /\ foreign' = foreign /\ joined' = joined
      /\ code' = code /\ pc[p] = "readSettle"
  BY DEF ReadSettle, Inside, inner
<1>3. /\ code' \in [Procs -> {0, 1052, 1061, 1062}]
      /\ {again', foreign', joined'} \subseteq [Procs -> BOOLEAN]
  BY <1>2, KnowsAt DEF TypeOK
<1>4. CASE Seen(p, status, reg)
  BY <1>1, <1>2, <1>3, <1>4, KnowsAt, SeenKeeps DEF TypeOK
<1>5. CASE status.state \notin Settled /\ Goto(p, "waitSettle") /\ UNCHANGED <<reg, handles>>
  <2>1. "waitSettle" \in Pcs /\ Goto(p, "waitSettle") /\ reg' = reg /\ handles' = handles
    BY <1>5 DEF Pcs
  <2>2. /\ pc' \in [Procs -> Pcs] /\ verb' \in [Procs -> Verbs] /\ result' \in [Procs -> Results]
        /\ pc'[p] = "waitSettle"
    BY <2>1, GotoPlaces, KnowsAt
  <2>3. Placed /\ reg'[p] = reg[p] /\ status' = status
    BY <1>2, <2>1, <2>2, KnowsAt DEF TypeOK, Placed, Inside, service
  <2>4. Armed(p)' /\ Awake(p)'
    BY <1>2, <1>5, <2>2, <2>3, KnowsAt DEF Knows, Armed, Awake, Unarmed
  <2>5. Knows(p)'
    BY <1>2, <2>1, <2>3, <2>4, GotoKnows, KnowsAt DEF Knows, InPlace, StopPcs, StartPcs, UninstallPcs
  <2>6. QED  BY <1>1, <1>2, <1>3, <2>3, <2>5, InsideKeeps
<1>6. QED  BY <1>4, <1>5 DEF ReadSettle

LEMMA SettleSendKeeps ==
  ASSUME IInv, NEW p \in Procs, SettleSend(p)
  PROVE  IInv'
<1>1. Only(p)
  BY SMTT(30) DEF IInv, TypeOK, Only, SettleSend, Goto
<1>2. PICK answer \in StopAnswers :
         LET taken == StopTaken(answer) \/ (answer = 1061 /\ code[p] = 1061)
         IN  /\ Deliver(answer)
             /\ code' = [code EXCEPT ![p] = IF taken THEN 0 ELSE answer]
             /\ Goto(p, IF taken THEN "armStopped" ELSE "rearmSettle")
  BY DEF SettleSend
<1>3. answer \in {0, 1052, 1061, 1062}
  BY DEF StopAnswers
<1>4. PICK label \in {"armStopped", "rearmSettle"} : Goto(p, label)
  BY <1>2
<1>5. /\ pc' \in [Procs -> Pcs] /\ verb' \in [Procs -> Verbs] /\ result' \in [Procs -> Results]
      /\ pc'[p] = label /\ verb'[p] = verb[p] /\ result'[p] = result[p]
  BY <1>4, {"armStopped", "rearmSettle"} \subseteq Pcs, GotoPlaces, KnowsAt DEF Pcs
<1>6. /\ UNCHANGED <<kind, status, recovery, restart, disabled, marked, exists,
                    starts, handles, reg, since, again, foreign, joined>>
      /\ pc[p] = "settleSend"
  BY DEF SettleSend
<1>7. TypeOK'
  <2>1. stopSent' \in BOOLEAN
    BY <1>2 DEF Deliver, IInv, TypeOK
  <2>2. code' \in [Procs -> {0, 1052, 1061, 1062}]
    BY <1>2, <1>3 DEF IInv, TypeOK
  <2>3. QED  BY <1>5, <1>6, <2>1, <2>2, KnowsAt DEF TypeOK, Results
<1>8. verb[p] = "uninstall" /\ result[p] = "none"
  BY <1>6, KnowsAt DEF Knows, InPlace, StopPcs, StartPcs
<1>9. Knows(p)'
  BY <1>5, <1>6, <1>8, KnowsAt
     DEF Knows, InPlace, Armed, Awake, StopKnows, StartKnows,
         UninstallKnows, UninstallPcs, Unarmed
<1>10. QED  BY <1>1, <1>7, <1>9, OnlyKeeps

LEMMA DeleteKeeps ==
  ASSUME IInv, NEW p \in Procs, Delete(p)
  PROVE  IInv'
<1>1. /\ pc[p] = "delete" /\ Returns(p, "Deleted")
      /\ marked' = (marked \/ (exists /\ ~foreign[p]))
      /\ UNCHANGED <<kind, status, stopSent, recovery, restart, disabled, exists,
                     starts, since, inner>>
  BY DEF Delete
<1>2. /\ Placed /\ pc'[p] = "done" /\ verb'[p] = verb[p] /\ result'[p] = "Deleted"
      /\ reg'[p] = Unregistered
  BY <1>1, ReturnsPlaces, KnowsAt DEF Results
<1>3. marked' \in BOOLEAN
  BY <1>1, KnowsAt DEF TypeOK
<1>4. TypeOK'
  BY <1>1, <1>2, <1>3, KnowsAt DEF TypeOK, Placed, inner, Results
<1>5. Only(p)
  BY <1>1, KnowsAt DEF Only, Returns, inner, TypeOK
<1>6. verb[p] = "uninstall" /\ (disabled \/ marked) /\ status.state = "STOPPED"
  BY <1>1, KnowsAt DEF Knows, InPlace, UninstallKnows, StopPcs, StartPcs
<1>7. Knows(p)'
  BY <1>1, <1>2, <1>6, UnregisteredType
     DEF Knows, InPlace, Armed, Awake, StopKnows, StartKnows, UninstallKnows, UninstallPcs,
         Unarmed, Nothing
<1>8. QED  BY <1>4, <1>5, <1>7, OnlyKeeps
-----------------------------------------------------------------------------
(* The start's steps. *)

LEMMA StartServiceKeeps ==
  ASSUME IInv, NEW p \in Procs, StartService(p)
  PROVE  IInv'
<1>1. /\ pc[p] = "start" /\ handles' = handles /\ code' = code /\ again' = again
      /\ foreign' = foreign
  BY DEF StartService
<1>2. verb[p] = "start" /\ result[p] = "none" /\ reg[p] = Unregistered
  BY <1>1, KnowsAt DEF Knows, InPlace, Armed, Unarmed, StopPcs, UninstallPcs
<1>3. CASE /\ StartsFor(FALSE) /\ since' = [since EXCEPT ![p] = {}]
           /\ joined' = joined /\ Goto(p, "started")
  <2>1. /\ Becomes("START_PENDING", FALSE, "none")
        /\ status.state = "STOPPED" /\ ~disabled /\ ~marked /\ starts < MaxStarts
        /\ starts' = starts + 1 /\ recovery' = FALSE /\ restart' = FALSE
        /\ UNCHANGED <<kind, stopSent, disabled, marked, exists>>
    BY <1>3 DEF StartsFor, Startable
  <2>2. "START_PENDING" \in QueriedState /\ "none" \in Exits /\ "started" \in Pcs
    BY DEF QueriedState, Exits, Pcs
  <2>3. status' \in QueriedStatus /\ reg' \in [Procs -> Registrations]
    BY <2>1, <2>2, KnowsAt, BecomesType
  <2>4. /\ pc' \in [Procs -> Pcs] /\ verb' \in [Procs -> Verbs] /\ result' \in [Procs -> Results]
        /\ pc'[p] = "started" /\ verb'[p] = verb[p] /\ result'[p] = result[p]
    BY <1>3, <2>2, KnowsAt, GotoPlaces
  <2>5. since' \in [Procs -> SUBSET {"stopped", "launched", "unconnected"}]
        /\ \A j \in Procs \ {p} : since'[j] = since[j]
    BY <1>3, KnowsAt DEF TypeOK
  <2>6. starts' \in 0..MaxStarts
    BY <2>1, KnowsAt, ScmServiceAssumption DEF TypeOK
  <2>7. TypeOK'
    <3>1. /\ {stopSent', recovery', restart', disabled', marked', exists'} \subseteq BOOLEAN
          /\ kind' \in {"simple", "managed"}
      <4>1. {stopSent', disabled', marked', exists'} \subseteq BOOLEAN
        BY <2>1, TypesAt
      <4>2. recovery' \in BOOLEAN /\ restart' \in BOOLEAN
        BY <2>1
      <4>3. QED  BY <2>1, <4>1, <4>2, KnowsAt DEF TypeOK
    <3>2. /\ handles' \subseteq Procs
          /\ code' \in [Procs -> {0, 1052, 1061, 1062}]
          /\ {again', foreign', joined'} \subseteq [Procs -> BOOLEAN]
      BY <1>1, <1>3, KnowsAt DEF TypeOK
    <3>3. QED  BY <2>3, <2>4, <2>5, <2>6, <3>1, <3>2 DEF TypeOK, Results
  <2>8. ASSUME NEW j \in Procs \ {p} PROVE Knows(j)'
    <3>1. Same(j)
      BY <1>1, <1>3, <2>1, KnowsAt DEF Same, Goto, TypeOK
    <3>2. Tells(j, "START_PENDING", "none")
      BY <2>5 DEF Tells
    <3>3. QED  BY <2>1, <2>2, <3>1, <3>2, BecomesKeeps
  <2>9. reg'[p] = Unregistered /\ status'.state = "START_PENDING"
    BY <1>2, <2>1, UnregisteredType DEF Becomes
  <2>10. Knows(p)'
    BY <1>2, <2>4, <2>9, UnregisteredType
       DEF Knows, InPlace, Armed, Awake, StopKnows, StartKnows, StartSince, UninstallKnows,
           StartPcs, Unarmed, Nothing
  <2>11. QED  BY <2>7, <2>8, <2>10 DEF IInv
<1>4. CASE /\ joined' = [joined EXCEPT ![p] = TRUE] /\ Goto(p, "alreadyRunning")
           /\ UNCHANGED <<service, reg, since>>
  <2>1. "alreadyRunning" \in Pcs
    BY DEF Pcs
  <2>2. /\ pc' \in [Procs -> Pcs] /\ verb' \in [Procs -> Verbs] /\ result' \in [Procs -> Results]
        /\ pc'[p] = "alreadyRunning" /\ verb'[p] = verb[p] /\ result'[p] = result[p]
    BY <1>4, <2>1, GotoPlaces, KnowsAt
  <2>3. joined \in [Procs -> BOOLEAN]
    BY KnowsAt DEF TypeOK
  <2>4. {again', foreign', joined'} \subseteq [Procs -> BOOLEAN]
        /\ code' \in [Procs -> {0, 1052, 1061, 1062}]
    BY <1>1, <1>4, <2>3, KnowsAt DEF TypeOK
  <2>5. Only(p)
    BY <1>1, <1>4, <2>3, KnowsAt DEF Only, Goto, TypeOK, service
  <2>6. Placed /\ reg'[p] = Unregistered
    BY <1>1, <1>2, <1>4, <2>2, KnowsAt DEF Placed, TypeOK
  <2>7. Knows(p)'
    BY <1>2, <2>2, <2>6, UnregisteredType
       DEF Knows, InPlace, Armed, Awake, StopKnows, StartKnows, StartSince, UninstallKnows,
           StartPcs, Unarmed, Nothing
  <2>8. QED  BY <1>4, <2>4, <2>5, <2>6, <2>7, InsideKeeps DEF Inside
<1>5. QED  BY <1>3, <1>4 DEF StartService

LEMMA AlreadyRunningKeeps ==
  ASSUME IInv, NEW p \in Procs, AlreadyRunning(p)
  PROVE  IInv'
<1>1. pc[p] = "alreadyRunning" /\ UNCHANGED <<service, inner>>
  BY DEF AlreadyRunning
<1> DEFINE facts == IF status.state = "RUNNING" THEN {"launched"} ELSE {}
<1>2. since' = [since EXCEPT ![p] = facts] /\ facts \in SUBSET {"stopped", "launched", "unconnected"}
  BY DEF AlreadyRunning
<1>3. /\ since' \in [Procs -> SUBSET {"stopped", "launched", "unconnected"}]
      /\ since'[p] = facts /\ \A j \in Procs \ {p} : since'[j] = since[j]
  BY <1>2, KnowsAt DEF TypeOK
<1>4. verb[p] = "start" /\ result[p] = "none" /\ reg[p] = Unregistered
  BY <1>1, KnowsAt DEF Knows, InPlace, Armed, Unarmed, StopPcs, UninstallPcs
<1>5. ASSUME Placed, Only(p), Knows(p)' PROVE IInv'
  <2>1. TypeOK'
    BY <1>1, <1>3, <1>5, KnowsAt DEF TypeOK, Placed, service, inner, Results
  <2>2. QED  BY <1>5, <2>1, OnlyKeeps
<1>6. CASE Goto(p, "started") /\ status.state = "START_PENDING" /\ handles' = handles /\ reg' = reg
  <2>1. "started" \in Pcs
    BY DEF Pcs
  <2>2. /\ pc' \in [Procs -> Pcs] /\ verb' \in [Procs -> Verbs] /\ result' \in [Procs -> Results]
        /\ pc'[p] = "started" /\ verb'[p] = verb[p] /\ result'[p] = result[p]
    BY <1>6, <2>1, GotoPlaces, KnowsAt
  <2>3. Placed /\ reg'[p] = Unregistered /\ status' = status
    BY <1>1, <1>4, <1>6, <2>2, KnowsAt DEF Placed, TypeOK, service
  <2>4. Only(p)
    BY <1>1, <1>3, <1>6, KnowsAt DEF Only, Goto, TypeOK, service, inner
  <2>5. Knows(p)'
    BY <1>4, <1>6, <2>2, <2>3, UnregisteredType
       DEF Knows, InPlace, Armed, Awake, StopKnows, StartKnows, StartSince, UninstallKnows,
           StartPcs, Unarmed, Nothing
  <2>6. QED  BY <1>5, <2>3, <2>4, <2>5
<1>7. ASSUME NEW r \in Results, Returns(p, r) PROVE Only(p) /\ Placed
  <2>1. Placed
    BY <1>7, ReturnsPlaces, KnowsAt
  <2>2. Only(p)
    BY <1>1, <1>3, <1>7, KnowsAt DEF Only, Returns, TypeOK, service, inner
  <2>3. QED  BY <2>1, <2>2
<1>8. CASE status.state = "RUNNING" /\ Returns(p, "Confirmed")
  <2>1. "launched" \in since'[p]
    BY <1>3, <1>8
  <2>2. Knows(p)'
    BY <1>4, <1>8, <2>1, ConfirmedKnows
  <2>3. QED  BY <1>5, <1>7, <1>8, <2>2 DEF Results
<1>9. CASE Returns(p, "Error")
  BY <1>5, <1>7, <1>9, ReturnsKnows DEF Results
<1>10. QED  BY <1>6, <1>8, <1>9 DEF AlreadyRunning

LEMMA StartedKeeps ==
  ASSUME IInv, NEW p \in Procs, Started(p)
  PROVE  IInv'
<1>1. /\ Only(p) /\ Inside /\ joined' = joined /\ again' = again
      /\ code' \in [Procs -> {0, 1052, 1061, 1062}]
      /\ {again', foreign', joined'} \subseteq [Procs -> BOOLEAN]
  BY DEF IInv, TypeOK, Only, Started, Goto, Returns, Inside, service, inner
<1>2. CASE Returns(p, "Requested")
  BY <1>1, <1>2, ReturnsPlaces, ReturnsKnows, KnowsAt, InsideKeeps DEF Results
<1>3. CASE Goto(p, "armRunning") /\ UNCHANGED <<reg, handles>>
  <2>1. pc[p] = "started" /\ verb[p] = "start"
    BY KnowsAt DEF Started, Knows, InPlace, UninstallPcs, StopPcs
  <2>2. "armRunning" \in Pcs
    BY DEF Pcs
  <2>3. /\ pc' \in [Procs -> Pcs] /\ verb' \in [Procs -> Verbs] /\ result' \in [Procs -> Results]
        /\ pc'[p] = "armRunning"
    BY <1>3, <2>2, GotoPlaces, KnowsAt
  <2>4. Placed /\ reg'[p] = reg[p]
    BY <1>3, <2>3, KnowsAt DEF TypeOK, Placed
  <2>5. Armed(p)' /\ Awake(p)'
    BY <2>3 DEF Armed, Awake, Unarmed
  <2>6. Knows(p)'
    BY <1>1, <1>3, <2>1, <2>2, <2>4, <2>5, GotoKnows DEF StartPcs
  <2>7. QED  BY <1>1, <2>4, <2>6, InsideKeeps
<1>4. QED  BY <1>2, <1>3 DEF Started

\* What a start's own reading of a status it knows confirms is true.
LEMMA StoppedBeforeRunningKnows ==
  ASSUME IInv, NEW p \in Procs, NEW seen, verb[p] = "start", Inside, joined' = joined,
         seen.state = "STOPPED", StartSince(p, seen), seen.exit \in Exits,
         stopped_before_running(p, seen.exit)
  PROVE  Placed /\ Knows(p)'
<1>1. PICK r \in {"Confirmed", "Error"} : Returns(p, r)
      /\ (r = "Confirmed" => /\ kind = "simple" /\ daemon_ran(seen.exit)
                            /\ seen.exit # "incomplete"
                            /\ ~(joined[p] /\ seen.exit = "unconnected"))
  BY DEF stopped_before_running
<1>2. Placed
  BY <1>1, ReturnsPlaces, KnowsAt DEF Results
<1>3. CASE r = "Confirmed"
  <2>1. "launched" \in since[p] \/ (~joined[p] /\ "unconnected" \in since[p])
    BY <1>1, <1>3 DEF StartSince, daemon_ran
  <2>2. since' = since
    BY DEF Inside
  <2>3. QED  BY <1>1, <1>2, <1>3, <2>1, <2>2, ConfirmedKnows
<1>4. CASE r = "Error"
  BY <1>1, <1>2, <1>4, ReturnsKnows DEF Results
<1>5. QED  BY <1>3, <1>4

LEMMA ReadRunningKeeps ==
  ASSUME IInv, NEW p \in Procs, ReadRunning(p)
  PROVE  IInv'
<1>1. /\ Only(p) /\ Inside /\ joined' = joined /\ again' = again
      /\ code' \in [Procs -> {0, 1052, 1061, 1062}]
      /\ {again', foreign', joined'} \subseteq [Procs -> BOOLEAN]
  BY SMTT(30) DEF IInv, TypeOK, Only, ReadRunning, stopped_before_running, Goto, Returns, Inside, service, inner
<1>2. pc[p] = "readRunning" /\ verb[p] = "start" /\ StartSince(p, status)
  BY KnowsAt DEF ReadRunning, Knows, InPlace, StopPcs, UninstallPcs, StartKnows
<1>3. status.exit \in Exits
  BY KnowsAt DEF QueriedStatus
<1>4. CASE status.state = "RUNNING" /\ Returns(p, "Confirmed")
  <2>1. "launched" \in since'[p]
    BY <1>1, <1>2, <1>4 DEF StartSince, Inside
  <2>2. Knows(p)'
    BY <1>2, <1>4, <2>1, ConfirmedKnows
  <2>3. QED  BY <1>1, <1>4, <2>2, ReturnsPlaces, KnowsAt, InsideKeeps DEF Results
<1>5. CASE status.state = "STOPPED" /\ stopped_before_running(p, status.exit)
  BY <1>1, <1>2, <1>3, <1>5, StoppedBeforeRunningKnows, InsideKeeps
<1>6. CASE status.state \notin {"RUNNING", "STOPPED"} /\ Goto(p, "waitRunning") /\ UNCHANGED <<reg, handles>>
  <2>1. "waitRunning" \in Pcs /\ Goto(p, "waitRunning") /\ reg' = reg /\ handles' = handles
    BY <1>6 DEF Pcs
  <2>2. /\ pc' \in [Procs -> Pcs] /\ verb' \in [Procs -> Verbs] /\ result' \in [Procs -> Results]
        /\ pc'[p] = "waitRunning"
    BY <2>1, GotoPlaces, KnowsAt
  <2>3. Placed /\ reg'[p] = reg[p] /\ status' = status
    BY <1>1, <2>1, <2>2, KnowsAt DEF TypeOK, Placed, Inside, service
  <2>4. Armed(p)' /\ Awake(p)'
    BY <1>2, <1>6, <2>2, <2>3, KnowsAt DEF Knows, Armed, Awake, Unarmed
  <2>5. Knows(p)'
    BY <1>1, <1>2, <2>1, <2>3, <2>4, GotoKnows, KnowsAt DEF StartPcs
  <2>6. QED  BY <1>1, <2>3, <2>5, InsideKeeps
<1>7. QED  BY <1>4, <1>5, <1>6 DEF ReadRunning

LEMMA WaitRunningKeeps ==
  ASSUME IInv, NEW p \in Procs, WaitRunning(p)
  PROVE  IInv'
<1>1. /\ Only(p) /\ Inside /\ joined' = joined /\ again' = again
      /\ code' \in [Procs -> {0, 1052, 1061, 1062}]
      /\ {again', foreign', joined'} \subseteq [Procs -> BOOLEAN]
  BY SMTT(30) DEF IInv, TypeOK, Only, WaitRunning, stopped_before_running, Consumed, Goto, Returns, Inside, service, inner
<1> DEFINE seen == reg[p].fired
<1>2. pc[p] = "waitRunning" /\ verb[p] = "start" /\ StartSince(p, seen) /\ seen # Nothing
  BY KnowsAt DEF WaitRunning, Fired, Knows, InPlace, StopPcs, UninstallPcs, StartKnows
<1>3. seen.exit \in Exits
  BY <1>2, KnowsAt DEF Registrations, QueriedStatus
<1>4. CASE seen.state = "RUNNING" /\ Returns(p, "Confirmed")
  <2>1. "launched" \in since'[p]
    BY <1>1, <1>2, <1>4 DEF StartSince, Inside
  <2>2. Knows(p)'
    BY <1>2, <1>4, <2>1, ConfirmedKnows
  <2>3. QED  BY <1>1, <1>4, <2>2, ReturnsPlaces, KnowsAt, InsideKeeps DEF Results
<1>5. CASE seen.state = "STOPPED" /\ stopped_before_running(p, seen.exit)
  BY <1>1, <1>2, <1>3, <1>5, StoppedBeforeRunningKnows, InsideKeeps
<1>6. CASE reg' = Consumed(p) /\ Goto(p, "armRunning") /\ UNCHANGED handles
  <2>1. "armRunning" \in Pcs
    BY DEF Pcs
  <2>2. /\ pc' \in [Procs -> Pcs] /\ verb' \in [Procs -> Verbs] /\ result' \in [Procs -> Results]
        /\ pc'[p] = "armRunning"
    BY <1>6, <2>1, GotoPlaces, KnowsAt
  <2>3. Placed /\ reg'[p].fired = Nothing
    BY <1>6, <2>2, ConsumedPlaces, KnowsAt DEF TypeOK, Placed
  <2>4. Armed(p)' /\ Awake(p)'
    BY <2>2 DEF Armed, Awake, Unarmed
  <2>5. Knows(p)'
    BY <1>1, <1>2, <1>6, <2>1, <2>3, <2>4, GotoKnows, KnowsAt DEF StartPcs
  <2>6. QED  BY <1>1, <2>3, <2>5, InsideKeeps
<1>7. QED  BY <1>4, <1>5, <1>6 DEF WaitRunning
-----------------------------------------------------------------------------
(* The service's own steps. *)

LEMMA MovesKeeps ==
  ASSUME IInv, NEW s \in QueriedState, NEW accepts \in BOOLEAN, NEW exit \in Exits,
         Becomes(s, accepts, exit),
         UNCHANGED <<kind, disabled, marked, exists, handles, actor>>,
         {stopSent', recovery', restart'} \subseteq BOOLEAN,
         starts' \in 0..MaxStarts,
         since' \in [Procs -> SUBSET {"stopped", "launched", "unconnected"}],
         status.state = "STOPPED" => ~disabled /\ ~marked,
         \A j \in Procs : Tells(j, s, exit)
  PROVE  IInv'
<1>1. status' \in QueriedStatus /\ reg' \in [Procs -> Registrations]
  BY KnowsAt, BecomesType DEF IInv
<1>2. TypeOK'
  BY <1>1 DEF IInv, TypeOK, actor
<1>3. ASSUME NEW j \in Procs PROVE Knows(j)'
  BY BecomesKeeps DEF Same, actor
<1>4. QED  BY <1>2, <1>3 DEF IInv

LEMMA NotesTell ==
  ASSUME TypeOK, NEW facts \in SUBSET {"stopped", "launched", "unconnected"},
         Notes(facts)
  PROVE  /\ since' \in [Procs -> SUBSET {"stopped", "launched", "unconnected"}]
         /\ \A j \in Procs : since[j] \subseteq since'[j] /\ facts \subseteq since'[j]
<1>1. since \in [Procs -> SUBSET {"stopped", "launched", "unconnected"}]
  BY DEF TypeOK
<1>2. QED  BY <1>1 DEF Notes

LEMMA EndsKeeps ==
  ASSUME IInv, NEW exit \in Exits, NEW facts \in SUBSET {"launched", "unconnected"},
         Ends(exit, facts), status.state # "STOPPED", UNCHANGED actor,
         kind = "simple" /\ exit \in {"clean", "daemon"}
             => "launched" \in facts \/ status.state = "STOP_PENDING",
         exit = "unconnected" => "unconnected" \in facts
  PROVE  IInv'
<1>1. /\ Becomes("STOPPED", FALSE, exit) /\ Notes(facts \cup {"stopped"})
      /\ restart' \in BOOLEAN /\ stopSent' = FALSE
      /\ UNCHANGED <<kind, recovery, disabled, marked, exists, starts, handles>>
  BY DEF Ends
<1>2. /\ since' \in [Procs -> SUBSET {"stopped", "launched", "unconnected"}]
      /\ \A j \in Procs : since[j] \subseteq since'[j] /\ facts \cup {"stopped"} \subseteq since'[j]
  BY <1>1, TypesAt, NotesTell
<1>3. ASSUME NEW j \in Procs PROVE Tells(j, "STOPPED", exit)
  BY <1>2 DEF Tells
<1>4. "STOPPED" \in QueriedState
  BY DEF QueriedState
<1>5. {stopSent', recovery', restart'} \subseteq BOOLEAN /\ starts' \in 0..MaxStarts
  BY <1>1, TypesAt
<1>6. QED  BY <1>1, <1>2, <1>3, <1>4, <1>5, MovesKeeps

LEMMA ScmRestartKeeps ==
  ASSUME IInv, ScmRestart, UNCHANGED actor
  PROVE  IInv'
<1>1. /\ Becomes("START_PENDING", FALSE, "none")
      /\ status.state = "STOPPED" /\ ~disabled /\ ~marked /\ starts < MaxStarts
      /\ starts' = starts + 1 /\ recovery' = TRUE /\ restart' = FALSE
      /\ UNCHANGED <<kind, stopSent, disabled, marked, exists, handles, since>>
  BY DEF ScmRestart, StartsFor, Startable
<1>2. "START_PENDING" \in QueriedState /\ "none" \in Exits
  BY DEF QueriedState, Exits
<1>3. {stopSent', recovery', restart'} \subseteq BOOLEAN
  BY <1>1, TypesAt
<1>4. starts' \in 0..MaxStarts
  BY <1>1, TypesAt, ScmServiceAssumption
<1>5. ASSUME NEW j \in Procs PROVE Tells(j, "START_PENDING", "none")
  BY <1>1 DEF Tells
<1>6. QED  BY <1>1, <1>2, <1>3, <1>4, <1>5, TypesAt, MovesKeeps

LEMMA ScmDropsRestartKeeps ==
  ASSUME IInv, ScmDropsRestart, UNCHANGED actor
  PROVE  IInv'
<1>1. TypeOK'
  <2>1. {stopSent', recovery', restart', disabled', marked', exists'} \subseteq BOOLEAN
    BY TypesAt DEF ScmDropsRestart
  <2>2. QED  BY <2>1 DEF IInv, TypeOK, ScmDropsRestart, actor
<1>2. ASSUME NEW j \in Procs PROVE Knows(j)'
  BY UntouchedKnows DEF ScmDropsRestart, actor
<1>3. QED  BY <1>1, <1>2 DEF IInv

LEMMA ScmDeletesKeeps ==
  ASSUME IInv, ScmDeletes, UNCHANGED actor
  PROVE  IInv'
<1>1. TypeOK'
  <2>1. {stopSent', recovery', restart', disabled', marked', exists'} \subseteq BOOLEAN
    BY TypesAt DEF ScmDeletes
  <2>2. QED  BY <2>1 DEF IInv, TypeOK, ScmDeletes, actor
<1>2. ASSUME NEW j \in Procs PROVE Knows(j)'
  BY UntouchedKnows DEF ScmDeletes, actor
<1>3. QED  BY <1>1, <1>2 DEF IInv

LEMMA ReachesRunningKeeps ==
  ASSUME IInv, ReachesRunning, UNCHANGED actor
  PROVE  IInv'
<1>1. PICK accepts \in BOOLEAN : Becomes("RUNNING", accepts, "none")
  BY DEF ReachesRunning
<1>2. /\ status.state = "START_PENDING" /\ Notes({"launched"})
      /\ UNCHANGED <<kind, stopSent, recovery, restart, disabled, marked, exists,
                     starts, handles>>
  BY DEF ReachesRunning
<1>3. "RUNNING" \in QueriedState /\ "none" \in Exits
  BY DEF QueriedState, Exits
<1>4. /\ since' \in [Procs -> SUBSET {"stopped", "launched", "unconnected"}]
      /\ \A j \in Procs : since[j] \subseteq since'[j] /\ {"launched"} \subseteq since'[j]
  BY <1>2, TypesAt, NotesTell
<1>5. ASSUME NEW j \in Procs PROVE Tells(j, "RUNNING", "none")
  BY <1>4 DEF Tells
<1>6. {stopSent', recovery', restart'} \subseteq BOOLEAN /\ starts' \in 0..MaxStarts
  BY <1>2, TypesAt
<1>7. QED  BY <1>1, <1>2, <1>3, <1>4, <1>5, <1>6, MovesKeeps

LEMMA PausesOrContinuesKeeps ==
  ASSUME IInv, PausesOrContinues, UNCHANGED actor
  PROVE  IInv'
<1>1. PICK s \in {"PAUSED", "RUNNING"} : Becomes(s, TRUE, "none")
  BY DEF PausesOrContinues
<1>2. /\ status.state \in {"RUNNING", "PAUSED"}
      /\ UNCHANGED <<kind, stopSent, recovery, restart, disabled, marked, exists,
                     starts, handles, since>>
  BY DEF PausesOrContinues
<1>3. s \in QueriedState /\ "none" \in Exits
  BY DEF QueriedState, Exits
<1>4. ASSUME NEW j \in Procs PROVE Tells(j, s, "none")
  BY <1>2 DEF Tells
<1>5. {stopSent', recovery', restart'} \subseteq BOOLEAN /\ starts' \in 0..MaxStarts
      /\ since' \in [Procs -> SUBSET {"stopped", "launched", "unconnected"}]
  BY <1>2, TypesAt
<1>6. QED  BY <1>1, <1>2, <1>3, <1>4, <1>5, MovesKeeps

LEMMA BeginsStoppingKeeps ==
  ASSUME IInv, BeginsStopping, UNCHANGED actor
  PROVE  IInv'
<1>1. /\ Becomes("STOP_PENDING", FALSE, "none")
      /\ status.state \in {"RUNNING", "PAUSED"}
      /\ UNCHANGED <<kind, stopSent, recovery, restart, disabled, marked, exists,
                     starts, handles, since>>
  BY DEF BeginsStopping
<1>2. "STOP_PENDING" \in QueriedState /\ "none" \in Exits
  BY DEF QueriedState, Exits
<1>3. ASSUME NEW j \in Procs PROVE Tells(j, "STOP_PENDING", "none")
  BY <1>1 DEF Tells
<1>4. {stopSent', recovery', restart'} \subseteq BOOLEAN /\ starts' \in 0..MaxStarts
      /\ since' \in [Procs -> SUBSET {"stopped", "launched", "unconnected"}]
  BY <1>1, TypesAt
<1>5. QED  BY <1>1, <1>2, <1>3, <1>4, MovesKeeps

LEMMA StopsKeeps ==
  ASSUME IInv, Stops \/ StartFails \/ EndsUnseen \/ Dies, UNCHANGED actor
  PROVE  IInv'
<1>1. {"clean", "daemon", "shim", "incomplete", "unconnected", "aborted"} \subseteq Exits
  BY DEF Exits
<1>2. CASE Stops
  <2>1. PICK exit \in {"clean", "daemon", "shim", "incomplete"} : Ends(exit, {})
    BY <1>2 DEF Stops
  <2>2. status.state = "STOP_PENDING"
    BY <1>2 DEF Stops
  <2>3. QED  BY <1>1, <2>1, <2>2, EndsKeeps
<1>3. CASE StartFails
  <2>1. status.state = "START_PENDING"
    BY <1>3 DEF StartFails
  <2>2. CASE Ends("shim", {})
    BY <1>1, <2>1, <2>2, EndsKeeps
  <2>3. CASE kind = "managed" /\ Ends("daemon", {})
    BY <1>1, <2>1, <2>3, EndsKeeps
  <2>4. CASE Ends("unconnected", {"unconnected"})
    BY <1>1, <2>1, <2>4, EndsKeeps
  <2>5. QED  BY <1>3, <2>2, <2>3, <2>4 DEF StartFails
<1>4. CASE EndsUnseen
  <2>1. PICK exit \in {"clean", "daemon", "incomplete"} : Ends(exit, {"launched"})
    BY <1>4 DEF EndsUnseen
  <2>2. status.state = "START_PENDING"
    BY <1>4 DEF EndsUnseen
  <2>3. QED  BY <1>1, <2>1, <2>2, EndsKeeps
<1>5. CASE Dies
  BY <1>1, <1>5, EndsKeeps DEF Dies
<1>6. QED  BY <1>2, <1>3, <1>4, <1>5

-----------------------------------------------------------------------------
(* The specification. *)

LEMMA InitIInv ==
  Init => IInv
<1> SUFFICES ASSUME Init PROVE IInv
  OBVIOUS
<1>1. status \in QueriedStatus
  <2>1. \/ status = [state |-> "STOPPED", accepts_stop |-> FALSE, exit |-> "none"]
        \/ status = [state |-> "RUNNING", accepts_stop |-> TRUE, exit |-> "none"]
    BY DEF Init, InitService
  <2>2. {"STOPPED", "RUNNING"} \subseteq QueriedState /\ "none" \in Exits
    BY DEF QueriedState, Exits
  <2>3. ASSUME NEW s \in QueriedState, NEW accepts \in BOOLEAN
        PROVE  [state |-> s, accepts_stop |-> accepts, exit |-> "none"] \in QueriedStatus
    BY <2>2 DEF QueriedStatus
  <2>4. CASE status = [state |-> "STOPPED", accepts_stop |-> FALSE, exit |-> "none"]
    BY <2>2, <2>3, <2>4
  <2>5. CASE status = [state |-> "RUNNING", accepts_stop |-> TRUE, exit |-> "none"]
    BY <2>2, <2>3, <2>5
  <2>6. QED  BY <2>1, <2>4, <2>5
<1>2. /\ kind \in {"simple", "managed"}
      /\ {stopSent, recovery, restart, disabled, marked, exists} \subseteq BOOLEAN
      /\ starts \in 0..MaxStarts /\ handles \subseteq Procs
  <2>1. stopSent = FALSE /\ recovery = FALSE /\ restart = FALSE
        /\ disabled = FALSE /\ marked = FALSE /\ exists = TRUE
    BY DEF Init, InitService
  <2>2. {stopSent, recovery, restart, disabled, marked, exists} \subseteq BOOLEAN
    BY <2>1
  <2>3. QED  BY <2>2, ScmServiceAssumption DEF Init, InitService
<1>3. /\ since \in [Procs -> SUBSET {"stopped", "launched", "unconnected"}]
      /\ reg \in [Procs -> Registrations]
  BY UnregisteredType DEF Init, InitService
<1>4. /\ verb \in [Procs -> Verbs] /\ pc \in [Procs -> Pcs]
      /\ code \in [Procs -> {0, 1052, 1061, 1062}]
      /\ {again, foreign, joined} \subseteq [Procs -> BOOLEAN]
      /\ result \in [Procs -> Results]
  BY DEF Init, Pcs, Results
<1>5. TypeOK
  BY <1>1, <1>2, <1>3, <1>4 DEF TypeOK, Results
<1>6. ASSUME NEW p \in Procs PROVE Knows(p)
  <2>1. pc[p] = "open" /\ result[p] = "none" /\ ~again[p] /\ reg[p] = Unregistered
    BY DEF Init, InitService
  <2>2. QED
    BY <2>1, UnregisteredType
       DEF Knows, InPlace, Armed, Awake, StopKnows, StopSince, StartKnows, StartSince,
           UninstallKnows, StopPcs, UninstallPcs, StartPcs, Unarmed, Nothing
<1>7. QED  BY <1>5, <1>6 DEF IInv

LEMMA StepKeeps ==
  ASSUME IInv, NEW p \in Procs, Step(p)
  PROVE  IInv'
<1>1. CASE Open(p)
  BY <1>1, OpenKeeps
<1>2. CASE StopStep(p)
  BY <1>2, SendStopKeeps, DecideRefusedKeeps, StopSentKeeps, ArmStoppedKeeps,
     ReadStoppedKeeps, WaitStoppedKeeps, ArmOnlyKeeps, ReadOnlyKeeps, DisableKeeps,
     ArmSettleKeeps, WaitSettleKeeps, SettleSendKeeps, RearmSettleKeeps,
     ReadSettleKeeps, DeleteKeeps DEF StopStep
<1>3. CASE StartStep(p)
  BY <1>3, StartServiceKeeps, AlreadyRunningKeeps, StartedKeeps, ArmRunningKeeps,
     ReadRunningKeeps, WaitRunningKeeps DEF StartStep
<1>4. QED  BY <1>1, <1>2, <1>3 DEF Step

LEMMA NextKeeps ==
  IInv /\ [Next]_vars => IInv'
<1> SUFFICES ASSUME IInv, [Next]_vars PROVE IInv'
  OBVIOUS
<1>1. ASSUME NEW p \in Procs, Step(p) \/ CallFails(p) \/ Expires(p) PROVE IInv'
  BY <1>1, StepKeeps, CallFailsKeeps, ExpiresKeeps
<1>2. CASE ByItself
  BY <1>2, ScmRestartKeeps, ScmDropsRestartKeeps, ReachesRunningKeeps,
     PausesOrContinuesKeeps, BeginsStoppingKeeps, StopsKeeps, ScmDeletesKeeps
     DEF ByItself
<1>3. CASE UNCHANGED vars
  <2>1. TypeOK'
    BY <1>3 DEF IInv, TypeOK, vars, service, actor
  <2>2. ASSUME NEW j \in Procs PROVE Knows(j)'
    BY <1>3, UntouchedKnows DEF vars, service, actor
  <2>3. QED  BY <2>1, <2>2 DEF IInv
<1>4. QED  BY <1>1, <1>2, <1>3 DEF Next

LEMMA SpecIInv ==
  Spec => []IInv
BY InitIInv, NextKeeps, PTL DEF Spec

\* No wait, of either kind and in any number of processes, is parked on a
\* service that is where the wait wants it: await_stopped, settle_and_stop and
\* start_via_notify miss no notification between their arm and their read.
THEOREM WaitsSound ==
  Spec => []WaitsAreSound
<1>1. IInv => WaitsAreSound
  BY DEF IInv, Knows, Awake, WaitsAreSound, NoLostWakeUp
<1>2. QED  BY <1>1, SpecIInv, PTL

\* A stop that is confirmed saw a STOPPED of its own.  A start that is confirmed
\* saw a launch since it was asked for: always if it joined one of SCM's, else
\* as long as no restart of SCM's has failed to connect (stop_via_notify,
\* start_via_notify, stopped_before_running).
THEOREM ConfirmedIsTrue ==
  Spec => []ConfirmedHappened
<1>1. IInv => ConfirmedHappened
  BY DEF IInv, Knows, StopKnows, StartKnows, ConfirmedHappened,
         ConfirmedStopHappened, ConfirmedStartRan
<1>2. QED  BY <1>1, SpecIInv, PTL

\* After an uninstall that reported success the service is stopped, and SCM's
\* restart cannot start it (uninstall_locked's disable before its delete).
THEOREM UninstalledIsStopped ==
  Spec => []UninstalledStaysStopped
<1>1. IInv => UninstalledStaysStopped
  BY DEF IInv, Knows, InPlace, UninstallKnows, UninstalledStaysStopped, Startable
<1>2. QED  BY <1>1, SpecIInv, PTL
=============================================================================
