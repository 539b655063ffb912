--------------------------- MODULE ScmKillProofs ---------------------------
(***************************************************************************)
(* Proofs about ScmKill, for every set of killers and of pids, however     *)
(* often the service starts: no kill terminates a stranger, Terminated is  *)
(* reported over a recorded exit, no release is missed, and no process is  *)
(* reported terminated by two kills.                                       *)
(*                                                                         *)
(* The inductive invariant ties each killer's place in kill_service to     *)
(* what the pid it holds is: SCM vouches only for the service's own        *)
(* processes, a held pid is never free, and so a pid SCM confirmed over a  *)
(* held process stays the service's until the handle closes.  Counts adds  *)
(* what the starts made and the kills took.                                *)
(***************************************************************************)
EXTENDS ScmKill, FiniteSetTheorems, TLAPS

Own == {"service", "dying", "exited"}
Waiting == {"arm", "check", "await", "woken"}

\* SCM reports no pid but a process of the service's.
Vouched == scmPid # 0 => os[scmPid] \in Own

\* What killer k knows where it stands.
Knows(k) ==
    /\ held[k] # 0 => os[held[k]] # "free"
    /\ pc[k] \notin {"read", "done"} => pid[k] # 0
    /\ pc[k] \in {"confirm", "terminate", "awaitExit"} => held[k] = pid[k]
    /\ pc[k] \in {"terminate", "awaitExit"} => os[held[k]] \in Own
    /\ killed[k] /\ pc[k] # "done" =>
           /\ pc[k] \in Waiting \cup {"awaitExit"}
           /\ held[k] = pid[k]
           /\ pc[k] = "awaitExit" => os[held[k]] \in {"dying", "exited"}
           /\ pc[k] \in Waiting => os[held[k]] = "exited"
    /\ pc[k] \in {"check", "await"} => reg[k].armed
    /\ pc[k] = "await" /\ ~reg[k].fired => scmPid = pid[k]

IInv == TypeOK /\ Vouched /\ \A k \in Killers : Knows(k)
-----------------------------------------------------------------------------
(* Types. *)

LEMMA UnregisteredType == Unregistered \in Registrations
  BY DEF Unregistered, Registrations

LEMMA GotoType ==
  ASSUME TypeOK, NEW k \in Killers, NEW label \in Pcs, Goto(k, label)
  PROVE  pc' \in [Killers -> Pcs]
BY DEF TypeOK, Goto

LEMMA ReturnsType ==
  ASSUME TypeOK, NEW k \in Killers, NEW r \in Results, Returns(k, r)
  PROVE  /\ pc' \in [Killers -> Pcs]
         /\ held' \in [Killers -> Pids \cup {0}]
         /\ reg' \in [Killers -> Registrations]
         /\ result' \in [Killers -> Results]
<1>1. pc' \in [Killers -> Pcs]
  BY "done" \in Pcs, GotoType DEF Returns, Pcs
<1>2. held' \in [Killers -> Pids \cup {0}]
  BY DEF TypeOK, Returns
<1>3. reg' \in [Killers -> Registrations]
  BY UnregisteredType DEF TypeOK, Returns
<1>4. result' \in [Killers -> Results]
  BY DEF TypeOK, Returns
<1>5. QED  BY <1>1, <1>2, <1>3, <1>4

LEMMA AgainType ==
  ASSUME TypeOK, NEW k \in Killers, Again(k)
  PROVE  /\ pc' \in [Killers -> Pcs]
         /\ held' \in [Killers -> Pids \cup {0}]
BY DEF TypeOK, Again, Goto, Pcs

LEMMA ReleasedType ==
  ASSUME TypeOK, NEW k \in Killers, NEW left \in Registrations,
         Released(k, left)
  PROVE  /\ pc' \in [Killers -> Pcs]
         /\ held' \in [Killers -> Pids \cup {0}]
         /\ reg' \in [Killers -> Registrations]
         /\ result' \in [Killers -> Results]
<1>1. CASE killed[k] /\ Returns(k, "Terminated")
  BY <1>1, "Terminated" \in Results, ReturnsType DEF Results
<1>2. CASE /\ Again(k)
           /\ reg' = [reg EXCEPT ![k] = left]
           /\ UNCHANGED result
  BY <1>2, AgainType DEF TypeOK
<1>3. QED  BY <1>1, <1>2 DEF Released

\* The world as one conjunct, for the steps that leave it alone.
LEMMA WorldType ==
  ASSUME TypeOK, UNCHANGED world
  PROVE  /\ os' \in [Pids -> Owners]
         /\ scmPid' \in Pids \cup {0}
         /\ marked' \in BOOLEAN
         /\ starts' \in 0..MaxStarts
         /\ strangers' \in 0..MaxStrangers
BY DEF TypeOK, world

-----------------------------------------------------------------------------
(* The invariant holds at first, and every step keeps it. *)

LEMMA InitIInv == Init => IInv
  BY ScmKillAssumption, SMTT(30)
     DEF Init, IInv, TypeOK, Vouched, Knows, Owners, Pcs, Own, Waiting,
         Unregistered, Registrations, Results

LEMMA ReadPidKeeps ==
  ASSUME IInv, NEW k \in Killers, ReadPid(k)
  PROVE  IInv'
<1>1. TypeOK'
  <2>1. /\ pc' \in [Killers -> Pcs] /\ held' \in [Killers -> Pids \cup {0}]
        /\ reg' \in [Killers -> Registrations] /\ result' \in [Killers -> Results]
    <3>1. CASE scmPid = 0 /\ Returns(k, "NotRunning")
      BY <3>1, "NotRunning" \in Results, ReturnsType DEF IInv, Results
    <3>2. CASE Goto(k, "open") /\ UNCHANGED <<held, reg, result>>
      BY <3>2, "open" \in Pcs, GotoType DEF IInv, TypeOK, Pcs
    <3>3. QED  BY <3>1, <3>2 DEF ReadPid
  <2>2. pid' \in [Killers -> Pids \cup {0}] /\ \A j \in Killers : pc'[j] = "open" => pid'[j] # 0
    BY DEF IInv, TypeOK, ReadPid, Goto, Returns
  <2>3. killed' \in [Killers -> BOOLEAN] /\ UNCHANGED world
    BY DEF IInv, TypeOK, ReadPid
  <2>4. QED  BY <2>1, <2>2, <2>3, WorldType DEF IInv, TypeOK
<1>2. Vouched'
  BY SMTT(30)
     DEF IInv, TypeOK, Vouched, Knows, ReadPid, Goto, Returns, world, Own,
         Waiting
<1>3. ASSUME NEW j \in Killers PROVE Knows(j)'
  <2>1. CASE j = k
    BY <2>1, SMTT(30)
       DEF IInv, TypeOK, Vouched, Knows, ReadPid, Goto, Returns, world, Own,
           Waiting, Unregistered, Registrations
  <2>2. CASE j # k
    BY <2>2, SMTT(30)
       DEF IInv, TypeOK, Vouched, Knows, ReadPid, Goto, Returns, world, Own,
           Waiting, Registrations
  <2>3. QED  BY <2>1, <2>2
<1>4. QED  BY <1>1, <1>2, <1>3 DEF IInv

LEMMA OpenProcessKeeps ==
  ASSUME IInv, NEW k \in Killers, OpenProcess(k)
  PROVE  IInv'
<1>1. TypeOK'
  BY SMTT(30)
     DEF IInv, TypeOK, OpenProcess, Goto, world, Owners, Pcs, Unregistered,
         Registrations, Results
<1>2. Vouched'
  BY SMTT(30)
     DEF IInv, TypeOK, Vouched, Knows, OpenProcess, Goto, world, Own, Waiting
<1>3. ASSUME NEW j \in Killers PROVE Knows(j)'
  <2>1. CASE j = k
    BY <2>1, SMTT(30)
       DEF IInv, TypeOK, Vouched, Knows, OpenProcess, Goto, world, Own,
           Waiting, Unregistered, Registrations
  <2>2. CASE j # k
    BY <2>2, SMTT(30)
       DEF IInv, TypeOK, Vouched, Knows, OpenProcess, Goto, world, Own,
           Waiting, Registrations
  <2>3. QED  BY <2>1, <2>2
<1>4. QED  BY <1>1, <1>2, <1>3 DEF IInv

LEMMA RefusedKeeps ==
  ASSUME IInv, NEW k \in Killers, Refused(k)
  PROVE  IInv'
<1>1. TypeOK'
  <2>1. /\ pc' \in [Killers -> Pcs] /\ held' \in [Killers -> Pids \cup {0}]
        /\ reg' \in [Killers -> Registrations] /\ result' \in [Killers -> Results]
    <3>1. CASE Returns(k, "Error")
      BY <3>1, "Error" \in Results, ReturnsType DEF IInv, Results
    <3>2. CASE Again(k) /\ UNCHANGED <<reg, result>>
      BY <3>2, AgainType DEF IInv, TypeOK
    <3>3. QED  BY <3>1, <3>2 DEF Refused
  <2>2. pid' \in [Killers -> Pids \cup {0}] /\ \A j \in Killers : pc'[j] = "open" => pid'[j] # 0
    BY DEF IInv, TypeOK, Refused, Goto, Returns, Again
  <2>3. killed' \in [Killers -> BOOLEAN] /\ UNCHANGED world
    BY DEF IInv, TypeOK, Refused
  <2>4. QED  BY <2>1, <2>2, <2>3, WorldType DEF IInv, TypeOK
<1>2. Vouched'
  BY SMTT(30)
     DEF IInv, TypeOK, Vouched, Knows, Refused, Goto, Returns, Again, world,
         Own, Waiting
<1>3. ASSUME NEW j \in Killers PROVE Knows(j)'
  <2>1. CASE j = k
    BY <2>1, SMTT(30)
       DEF IInv, TypeOK, Vouched, Knows, Refused, Goto, Returns, Again, world,
           Own, Waiting, Unregistered, Registrations
  <2>2. CASE j # k
    BY <2>2, SMTT(30)
       DEF IInv, TypeOK, Vouched, Knows, Refused, Goto, Returns, Again, world,
           Own, Waiting, Registrations
  <2>3. QED  BY <2>1, <2>2
<1>4. QED  BY <1>1, <1>2, <1>3 DEF IInv

LEMMA ConfirmKeeps ==
  ASSUME IInv, NEW k \in Killers, Confirm(k)
  PROVE  IInv'
<1>1. TypeOK'
  BY SMTT(30)
     DEF IInv, TypeOK, Confirm, Goto, Again, world, Owners, Pcs, Unregistered,
         Registrations, Results
<1>2. Vouched'
  BY SMTT(30)
     DEF IInv, TypeOK, Vouched, Knows, Confirm, Goto, Again, world, Own,
         Waiting
<1>3. ASSUME NEW j \in Killers PROVE Knows(j)'
  <2>1. CASE j = k
    BY <2>1, SMTT(30)
       DEF IInv, TypeOK, Vouched, Knows, Confirm, Goto, Again, world, Own,
           Waiting, Unregistered, Registrations
  <2>2. CASE j # k
    BY <2>2, SMTT(30)
       DEF IInv, TypeOK, Vouched, Knows, Confirm, Goto, Again, world, Own,
           Waiting, Registrations
  <2>3. QED  BY <2>1, <2>2
<1>4. QED  BY <1>1, <1>2, <1>3 DEF IInv

LEMMA TerminateKeeps ==
  ASSUME IInv, NEW k \in Killers, Terminate(k)
  PROVE  IInv'
<1>1. TypeOK'
  <2>1. os' \in [Pids -> Owners] /\ killed' \in [Killers -> BOOLEAN]
    BY DEF IInv, TypeOK, Terminate, Owners
  <2>2. pc' \in [Killers -> Pcs]
    BY "awaitExit" \in Pcs, GotoType DEF IInv, Terminate, Pcs
  <2>3. \A j \in Killers : pc'[j] = "open" => pid'[j] # 0
    BY DEF IInv, TypeOK, Terminate, Goto
  <2>4. QED  BY <2>1, <2>2, <2>3 DEF IInv, TypeOK, Terminate
<1>2. Vouched'
  BY SMTT(30)
     DEF IInv, TypeOK, Vouched, Knows, Terminate, Goto, world, Own, Waiting
<1>3. ASSUME NEW j \in Killers PROVE Knows(j)'
  <2>1. CASE j = k
    BY <2>1, SMTT(30)
       DEF IInv, TypeOK, Vouched, Knows, Terminate, Goto, world, Own, Waiting,
           Unregistered, Registrations
  <2>2. CASE j # k
    BY <2>2, SMTT(30)
       DEF IInv, TypeOK, Vouched, Knows, Terminate, Goto, world, Own, Waiting,
           Registrations
  <2>3. QED  BY <2>1, <2>2
<1>4. QED  BY <1>1, <1>2, <1>3 DEF IInv

LEMMA AwaitExitKeeps ==
  ASSUME IInv, NEW k \in Killers, AwaitExit(k)
  PROVE  IInv'
<1>1. TypeOK'
  BY SMTT(30)
     DEF IInv, TypeOK, AwaitExit, Goto, world, Owners, Pcs, Unregistered,
         Registrations, Results
<1>2. Vouched'
  BY SMTT(30)
     DEF IInv, TypeOK, Vouched, Knows, AwaitExit, Goto, world, Own, Waiting
<1>3. ASSUME NEW j \in Killers PROVE Knows(j)'
  <2>1. CASE j = k
    BY <2>1, SMTT(30)
       DEF IInv, TypeOK, Vouched, Knows, AwaitExit, Goto, world, Own, Waiting,
           Unregistered, Registrations
  <2>2. CASE j # k
    BY <2>2, SMTT(30)
       DEF IInv, TypeOK, Vouched, Knows, AwaitExit, Goto, world, Own, Waiting,
           Registrations
  <2>3. QED  BY <2>1, <2>2
<1>4. QED  BY <1>1, <1>2, <1>3 DEF IInv

LEMMA ArmReleaseKeeps ==
  ASSUME IInv, NEW k \in Killers, ArmRelease(k)
  PROVE  IInv'
<1>1. TypeOK'
  <2>1. /\ pc' \in [Killers -> Pcs] /\ held' \in [Killers -> Pids \cup {0}]
        /\ reg' \in [Killers -> Registrations] /\ result' \in [Killers -> Results]
    <3>1. CASE /\ \E fires \in BOOLEAN : reg' = [reg EXCEPT ![k] =
                     [armed |-> TRUE, fired |-> fires, used |-> TRUE]]
               /\ Goto(k, "check") /\ UNCHANGED <<held, result>>
      <4>1. PICK fires \in BOOLEAN : reg' = [reg EXCEPT ![k] =
                     [armed |-> TRUE, fired |-> fires, used |-> TRUE]]
        BY <3>1
      <4>2. [armed |-> TRUE, fired |-> fires, used |-> TRUE] \in Registrations
        BY DEF Registrations
      <4>3. reg' \in [Killers -> Registrations]
        BY <4>1, <4>2 DEF IInv, TypeOK
      <4>4. pc' \in [Killers -> Pcs]
        BY <3>1, "check" \in Pcs, GotoType DEF IInv, Pcs
      <4>5. QED  BY <3>1, <4>3, <4>4 DEF IInv, TypeOK
    <3>2. CASE Released(k, [armed |-> FALSE, fired |-> FALSE, used |-> TRUE])
      <4>1. [armed |-> FALSE, fired |-> FALSE, used |-> TRUE] \in Registrations
        BY DEF Registrations
      <4>2. QED  BY <3>2, <4>1, ReleasedType DEF IInv
    <3>3. QED  BY <3>1, <3>2 DEF ArmRelease
  <2>2. pid' \in [Killers -> Pids \cup {0}] /\ \A j \in Killers : pc'[j] = "open" => pid'[j] # 0
    BY DEF IInv, TypeOK, ArmRelease, Goto, Released, Returns, Again
  <2>3. killed' \in [Killers -> BOOLEAN] /\ UNCHANGED world
    BY DEF IInv, TypeOK, ArmRelease
  <2>4. QED  BY <2>1, <2>2, <2>3, WorldType DEF IInv, TypeOK
<1>2. Vouched'
  BY SMTT(30)
     DEF IInv, TypeOK, Vouched, Knows, ArmRelease, Goto, Released, Returns,
         Again, world, Own, Waiting
<1>3. ASSUME NEW j \in Killers PROVE Knows(j)'
  <2>1. CASE j = k
    BY <2>1, SMTT(30)
       DEF IInv, TypeOK, Vouched, Knows, ArmRelease, Goto, Released, Returns,
           Again, world, Own, Waiting, Unregistered, Registrations
  <2>2. CASE j # k
    BY <2>2, SMTT(30)
       DEF IInv, TypeOK, Vouched, Knows, ArmRelease, Goto, Released, Returns,
           Again, world, Own, Waiting, Registrations
  <2>3. QED  BY <2>1, <2>2
<1>4. QED  BY <1>1, <1>2, <1>3 DEF IInv

LEMMA CheckReleaseKeeps ==
  ASSUME IInv, NEW k \in Killers, CheckRelease(k)
  PROVE  IInv'
<1>1. TypeOK'
  <2>1. /\ pc' \in [Killers -> Pcs] /\ held' \in [Killers -> Pids \cup {0}]
        /\ reg' \in [Killers -> Registrations] /\ result' \in [Killers -> Results]
    <3>1. CASE Released(k, Unregistered)
      BY <3>1, UnregisteredType, ReleasedType DEF IInv
    <3>2. CASE Goto(k, "await") /\ UNCHANGED <<held, reg, result>>
      BY <3>2, "await" \in Pcs, GotoType DEF IInv, TypeOK, Pcs
    <3>3. QED  BY <3>1, <3>2 DEF CheckRelease
  <2>2. pid' \in [Killers -> Pids \cup {0}] /\ \A j \in Killers : pc'[j] = "open" => pid'[j] # 0
    BY DEF IInv, TypeOK, CheckRelease, Goto, Released, Returns, Again
  <2>3. killed' \in [Killers -> BOOLEAN] /\ UNCHANGED world
    BY DEF IInv, TypeOK, CheckRelease
  <2>4. QED  BY <2>1, <2>2, <2>3, WorldType DEF IInv, TypeOK
<1>2. Vouched'
  BY SMTT(30)
     DEF IInv, TypeOK, Vouched, Knows, CheckRelease, Goto, Released, Returns,
         Again, world, Own, Waiting
<1>3. ASSUME NEW j \in Killers PROVE Knows(j)'
  <2>1. CASE j = k
    BY <2>1, SMTT(30)
       DEF IInv, TypeOK, Vouched, Knows, CheckRelease, Goto, Released, Returns,
           Again, world, Own, Waiting, Unregistered, Registrations
  <2>2. CASE j # k
    BY <2>2, SMTT(30)
       DEF IInv, TypeOK, Vouched, Knows, CheckRelease, Goto, Released, Returns,
           Again, world, Own, Waiting, Registrations
  <2>3. QED  BY <2>1, <2>2
<1>4. QED  BY <1>1, <1>2, <1>3 DEF IInv

LEMMA AwaitReleaseKeeps ==
  ASSUME IInv, NEW k \in Killers, AwaitRelease(k)
  PROVE  IInv'
<1>1. TypeOK'
  BY SMTT(30)
     DEF IInv, TypeOK, AwaitRelease, Goto, world, Owners, Pcs, Unregistered,
         Registrations, Results
<1>2. Vouched'
  BY SMTT(30)
     DEF IInv, TypeOK, Vouched, Knows, AwaitRelease, Goto, world, Own, Waiting
<1>3. ASSUME NEW j \in Killers PROVE Knows(j)'
  <2>1. CASE j = k
    BY <2>1, SMTT(30)
       DEF IInv, TypeOK, Vouched, Knows, AwaitRelease, Goto, world, Own,
           Waiting, Unregistered, Registrations
  <2>2. CASE j # k
    BY <2>2, SMTT(30)
       DEF IInv, TypeOK, Vouched, Knows, AwaitRelease, Goto, world, Own,
           Waiting, Registrations
  <2>3. QED  BY <2>1, <2>2
<1>4. QED  BY <1>1, <1>2, <1>3 DEF IInv

LEMMA WokenKeeps ==
  ASSUME IInv, NEW k \in Killers, Woken(k)
  PROVE  IInv'
<1>1. TypeOK'
  <2>1. /\ pc' \in [Killers -> Pcs] /\ held' \in [Killers -> Pids \cup {0}]
        /\ reg' \in [Killers -> Registrations] /\ result' \in [Killers -> Results]
    <3>1. CASE Released(k, reg[k])
      <4>1. reg[k] \in Registrations
        BY DEF IInv, TypeOK
      <4>2. QED  BY <3>1, <4>1, ReleasedType DEF IInv
    <3>2. CASE Goto(k, "arm") /\ UNCHANGED <<held, reg, result>>
      BY <3>2, "arm" \in Pcs, GotoType DEF IInv, TypeOK, Pcs
    <3>3. QED  BY <3>1, <3>2 DEF Woken
  <2>2. pid' \in [Killers -> Pids \cup {0}] /\ \A j \in Killers : pc'[j] = "open" => pid'[j] # 0
    BY DEF IInv, TypeOK, Woken, Goto, Released, Returns, Again
  <2>3. killed' \in [Killers -> BOOLEAN] /\ UNCHANGED world
    BY DEF IInv, TypeOK, Woken
  <2>4. QED  BY <2>1, <2>2, <2>3, WorldType DEF IInv, TypeOK
<1>2. Vouched'
  BY SMTT(30)
     DEF IInv, TypeOK, Vouched, Knows, Woken, Goto, Released, Returns, Again,
         world, Own, Waiting
<1>3. ASSUME NEW j \in Killers PROVE Knows(j)'
  <2>1. CASE j = k
    BY <2>1, SMTT(30)
       DEF IInv, TypeOK, Vouched, Knows, Woken, Goto, Released, Returns, Again,
           world, Own, Waiting, Unregistered, Registrations
  <2>2. CASE j # k
    BY <2>2, SMTT(30)
       DEF IInv, TypeOK, Vouched, Knows, Woken, Goto, Released, Returns, Again,
           world, Own, Waiting, Registrations
  <2>3. QED  BY <2>1, <2>2
<1>4. QED  BY <1>1, <1>2, <1>3 DEF IInv

LEMMA CallFailsKeeps ==
  ASSUME IInv, NEW k \in Killers, CallFails(k)
  PROVE  IInv'
<1>1. TypeOK'
  BY SMTT(30)
     DEF IInv, TypeOK, CallFails, Goto, Returns, world, Owners, Pcs,
         Unregistered, Registrations, Results
<1>2. Vouched'
  BY SMTT(30)
     DEF IInv, TypeOK, Vouched, Knows, CallFails, Goto, Returns, world, Own,
         Waiting
<1>3. ASSUME NEW j \in Killers PROVE Knows(j)'
  <2>1. CASE j = k
    BY <2>1, SMTT(30)
       DEF IInv, TypeOK, Vouched, Knows, CallFails, Goto, Returns, world, Own,
           Waiting, Unregistered, Registrations
  <2>2. CASE j # k
    BY <2>2, SMTT(30)
       DEF IInv, TypeOK, Vouched, Knows, CallFails, Goto, Returns, world, Own,
           Waiting, Registrations
  <2>3. QED  BY <2>1, <2>2
<1>4. QED  BY <1>1, <1>2, <1>3 DEF IInv

LEMMA StartsKeeps ==
  ASSUME IInv, Starts
  PROVE  IInv'
<1>1. TypeOK'
  BY ScmKillAssumption, SMTT(30) DEF IInv, TypeOK, Starts, killer, Owners, Pcs
<1>2. Vouched'
  BY ScmKillAssumption, SMTT(30) DEF IInv, TypeOK, Vouched, Starts, killer, Own
<1>3. ASSUME NEW j \in Killers PROVE Knows(j)'
  BY ScmKillAssumption, SMTT(30)
     DEF IInv, TypeOK, Vouched, Knows, Starts, killer, Own, Waiting,
         Registrations
<1>4. QED  BY <1>1, <1>2, <1>3 DEF IInv

LEMMA RecordsStoppedKeeps ==
  ASSUME IInv, RecordsStopped
  PROVE  IInv'
<1>1. TypeOK'
  <2>1. ASSUME NEW j \in Killers PROVE reg'[j] \in Registrations
    <3>1. reg[j] \in Registrations /\ [reg[j] EXCEPT !.fired = TRUE] \in Registrations
      BY DEF IInv, TypeOK, Registrations
    <3>2. QED  BY <3>1 DEF RecordsStopped
  <2>2. reg' \in [Killers -> Registrations]
    BY <2>1 DEF RecordsStopped
  <2>3. QED  BY <2>2 DEF IInv, TypeOK, RecordsStopped
<1>2. Vouched'
  BY ScmKillAssumption, SMTT(30)
     DEF IInv, TypeOK, Vouched, RecordsStopped, killer, Own
<1>3. ASSUME NEW j \in Killers PROVE Knows(j)'
  BY ScmKillAssumption, SMTT(30)
     DEF IInv, TypeOK, Vouched, Knows, RecordsStopped, killer, Own, Waiting,
         Registrations
<1>4. QED  BY <1>1, <1>2, <1>3 DEF IInv

LEMMA MarksKeeps ==
  ASSUME IInv, Marks
  PROVE  IInv'
<1>1. TypeOK'
  BY ScmKillAssumption, SMTT(30) DEF IInv, TypeOK, Marks, killer, Owners, Pcs
<1>2. Vouched'
  BY ScmKillAssumption, SMTT(30) DEF IInv, TypeOK, Vouched, Marks, killer, Own
<1>3. ASSUME NEW j \in Killers PROVE Knows(j)'
  BY ScmKillAssumption, SMTT(30)
     DEF IInv, TypeOK, Vouched, Knows, Marks, killer, Own, Waiting,
         Registrations
<1>4. QED  BY <1>1, <1>2, <1>3 DEF IInv

LEMMA ExitsKeeps ==
  ASSUME IInv, NEW n \in Pids, Exits(n)
  PROVE  IInv'
<1>1. TypeOK'
  BY ScmKillAssumption, SMTT(30) DEF IInv, TypeOK, Exits, killer, Owners, Pcs
<1>2. Vouched'
  BY ScmKillAssumption, SMTT(30) DEF IInv, TypeOK, Vouched, Exits, killer, Own
<1>3. ASSUME NEW j \in Killers PROVE Knows(j)'
  BY ScmKillAssumption, SMTT(30)
     DEF IInv, TypeOK, Vouched, Knows, Exits, killer, Own, Waiting,
         Registrations
<1>4. QED  BY <1>1, <1>2, <1>3 DEF IInv

LEMMA FreesKeeps ==
  ASSUME IInv, NEW n \in Pids, Frees(n)
  PROVE  IInv'
<1>1. TypeOK'
  BY ScmKillAssumption, SMTT(30) DEF IInv, TypeOK, Frees, killer, Owners, Pcs
<1>2. Vouched'
  BY ScmKillAssumption, SMTT(30) DEF IInv, TypeOK, Vouched, Frees, killer, Own
<1>3. ASSUME NEW j \in Killers PROVE Knows(j)'
  BY ScmKillAssumption, SMTT(30)
     DEF IInv, TypeOK, Vouched, Knows, Frees, killer, Own, Waiting,
         Registrations
<1>4. QED  BY <1>1, <1>2, <1>3 DEF IInv

LEMMA StrangerStartsKeeps ==
  ASSUME IInv, NEW n \in Pids, StrangerStarts(n)
  PROVE  IInv'
<1>1. TypeOK'
  BY ScmKillAssumption, SMTT(30)
     DEF IInv, TypeOK, StrangerStarts, killer, Owners, Pcs
<1>2. Vouched'
  BY ScmKillAssumption, SMTT(30)
     DEF IInv, TypeOK, Vouched, StrangerStarts, killer, Own
<1>3. ASSUME NEW j \in Killers PROVE Knows(j)'
  BY ScmKillAssumption, SMTT(30)
     DEF IInv, TypeOK, Vouched, Knows, StrangerStarts, killer, Own, Waiting,
         Registrations
<1>4. QED  BY <1>1, <1>2, <1>3 DEF IInv

LEMMA StutterKeeps == IInv /\ UNCHANGED vars => IInv'
  BY DEF IInv, TypeOK, Vouched, Knows, vars, world, killer

THEOREM Invariance == Spec => []IInv
<1>1. IInv /\ [Next]_vars => IInv'
  <2>1. ASSUME IInv, NEW k \in Killers, KillStep(k) PROVE IInv'
    BY <2>1, ReadPidKeeps, OpenProcessKeeps, RefusedKeeps, ConfirmKeeps,
       TerminateKeeps, AwaitExitKeeps, ArmReleaseKeeps, CheckReleaseKeeps,
       AwaitReleaseKeeps, WokenKeeps DEF KillStep
  <2>2. ASSUME IInv, NEW n \in Pids, Exits(n) \/ Frees(n) \/ StrangerStarts(n)
        PROVE  IInv'
    BY <2>2, ExitsKeeps, FreesKeeps, StrangerStartsKeeps
  <2>3. QED
    BY <2>1, <2>2, CallFailsKeeps, StartsKeeps, RecordsStoppedKeeps,
       MarksKeeps, StutterKeeps
       DEF Next
<1>2. QED  BY <1>1, InitIInv, PTL DEF Spec

\* The variables of ScmKill keep their types.
THEOREM TypeCorrect == Spec => []TypeOK
  BY Invariance, PTL DEF IInv

\* No release is missed: the read that follows every arm sees one that came
\* before it, and the registration fires for one that comes after.
THEOREM NoMissedReleaseAlways == Spec => []NoMissedRelease
<1>1. IInv => NoMissedRelease
  BY DEF IInv, Knows, NoMissedRelease
<1>2. QED  BY <1>1, Invariance, PTL

\* No kill terminates a process that took the pid over: what it terminates is
\* the process SCM vouched for while it was held.
THEOREM StrangersLiveAlways == Spec => StrangersLive
<1>1. ASSUME IInv, [Next]_vars, NEW n \in Pids, os[n] = "stranger"
      PROVE  os'[n] # "dying"
  <2>1. ASSUME NEW k \in Killers, KillStep(k) PROVE os'[n] # "dying"
    <3>1. CASE Terminate(k)
      <4>1. held[k] # n
        BY <1>1, <3>1 DEF IInv, Knows, Terminate, Own
      <4>2. QED  BY <1>1, <3>1, <4>1 DEF IInv, TypeOK, Terminate
    <3>2. CASE ~Terminate(k)
      <4>1. UNCHANGED os
        BY <2>1, <3>2
           DEF KillStep, ReadPid, OpenProcess, Refused, Confirm, AwaitExit,
               ArmRelease, CheckRelease, AwaitRelease, Woken, world
      <4>2. QED  BY <1>1, <4>1
    <3>3. QED  BY <3>1, <3>2
  <2>2. ASSUME NEW m \in Pids, Exits(m) \/ Frees(m) \/ StrangerStarts(m)
        PROVE  os'[n] # "dying"
    BY <1>1, <2>2 DEF IInv, TypeOK, Exits, Frees, StrangerStarts
  <2>3. CASE Starts
    BY <1>1, <2>3 DEF IInv, TypeOK, Starts
  <2>4. CASE RecordsStopped \/ Marks \/ UNCHANGED vars
    BY <1>1, <2>4 DEF RecordsStopped, Marks, vars, world
  <2>5. ASSUME NEW k \in Killers, CallFails(k) PROVE os'[n] # "dying"
    BY <1>1, <2>5 DEF CallFails, world
  <2>6. QED  BY <1>1, <2>1, <2>2, <2>3, <2>4, <2>5 DEF Next
<1>2. IInv /\ [Next]_vars => [\A n \in Pids : os[n] = "stranger" => os'[n] # "dying"]_vars
  BY <1>1
<1>3. QED  BY <1>2, Invariance, PTL DEF Spec, StrangersLive

\* Terminated is reported only over a process that has exited and that SCM
\* reports no longer.
THEOREM TerminatedIsRecordedAlways == Spec => TerminatedIsRecorded
<1> DEFINE Over(k) == held[k] # 0 /\ os[held[k]] = "exited" /\ scmPid # held[k]
<1>1. ASSUME IInv, [Next]_vars, NEW k \in Killers,
             result[k] = "none", result'[k] = "Terminated"
      PROVE  Over(k)
  <2>1. ASSUME NEW j \in Killers, NEW left, Released(j, left),
               pc[j] \in Waiting, scmPid # pid[j]
        PROVE  Over(k)
    <3>1. j = k /\ killed[k]
      BY <1>1, <2>1 DEF IInv, TypeOK, Released, Returns, Again
    <3>2. QED  BY <1>1, <2>1, <3>1 DEF IInv, Knows, Waiting
  <2>2. ASSUME NEW j \in Killers, KillStep(j) PROVE Over(k)
    <3>1. CASE ArmRelease(j)
      BY <1>1, <2>1, <2>2, <3>1 DEF ArmRelease, Waiting, IInv, Knows
    <3>2. CASE CheckRelease(j)
      BY <1>1, <2>1, <2>2, <3>2 DEF CheckRelease, Waiting
    <3>3. CASE Woken(j)
      BY <1>1, <2>1, <2>2, <3>3 DEF Woken, Waiting
    <3>4. CASE ReadPid(j) \/ Refused(j)
      BY <1>1, <2>2, <3>4 DEF IInv, TypeOK, ReadPid, Refused, Returns
    <3>5. CASE OpenProcess(j) \/ Confirm(j) \/ Terminate(j) \/ AwaitExit(j) \/ AwaitRelease(j)
      BY <1>1, <2>2, <3>5
         DEF OpenProcess, Confirm, Terminate, AwaitExit, AwaitRelease
    <3>6. QED  BY <2>2, <3>1, <3>2, <3>3, <3>4, <3>5 DEF KillStep
  <2>3. ASSUME NEW j \in Killers, CallFails(j) PROVE FALSE
    BY <1>1, <2>3 DEF IInv, TypeOK, CallFails, Returns
  <2>4. ASSUME NEW m \in Pids, Exits(m) \/ Frees(m) \/ StrangerStarts(m)
        PROVE  FALSE
    BY <1>1, <2>4 DEF Exits, Frees, StrangerStarts, killer
  <2>5. CASE Starts \/ RecordsStopped \/ Marks \/ UNCHANGED vars
    BY <1>1, <2>5 DEF Starts, RecordsStopped, Marks, vars, killer
  <2>6. QED  BY <1>1, <2>2, <2>3, <2>4, <2>5 DEF Next
<1>2. IInv /\ [Next]_vars =>
        [\A k \in Killers : result[k] = "none" /\ result'[k] = "Terminated" => Over(k)]_vars
  BY <1>1
<1>3. QED  BY <1>2, Invariance, PTL DEF Spec, TerminatedIsRecorded

-----------------------------------------------------------------------------
(* Each termination takes a process of the service's, which a start made.   *)

Killed == {k \in Killers : killed[k]}
Serving == {n \in Pids : os[n] = "service"}

\* Neither the killers nor the pids need be finitely many for this.
Counts ==
    /\ IsFiniteSet(Killed) /\ IsFiniteSet(Serving)
    /\ Cardinality(Killed) + Cardinality(Serving) <= starts

LEMMA InitCounts == ASSUME Init PROVE Counts
<1>1. Killed = {}
  BY DEF Init, Killed
<1>2. CASE scmPid = 0
  <2>1. Serving = {} /\ starts = 0
    BY <1>2, ScmKillAssumption DEF Init, Serving
  <2>2. QED  BY <1>1, <2>1, FS_EmptySet DEF Counts
<1>3. CASE scmPid # 0
  <2>1. Serving = {scmPid} /\ starts = 1
    BY <1>3 DEF Init, Serving
  <2>2. /\ IsFiniteSet(Killed) /\ Cardinality(Killed) = 0
        /\ IsFiniteSet(Serving) /\ Cardinality(Serving) = 1
    BY <1>1, <2>1, FS_EmptySet, FS_Singleton
  <2>3. QED  BY <2>1, <2>2 DEF Counts
<1>4. QED  BY <1>2, <1>3

\* A step that terminates nothing and starts nothing of the service's.
LEMMA FewerCounts ==
  ASSUME Counts, starts \in Nat, starts' = starts, Killed' = Killed, Serving' \subseteq Serving
  PROVE  Counts'
<1>1. /\ IsFiniteSet(Serving') /\ Cardinality(Serving') <= Cardinality(Serving)
      /\ Cardinality(Serving') \in Nat /\ Cardinality(Serving) \in Nat
      /\ Cardinality(Killed) \in Nat
  BY FS_Subset, FS_CardinalityType DEF Counts
<1>2. Cardinality(Killed') + Cardinality(Serving') <= starts'
  <2> DEFINE a == Cardinality(Killed)
             b == Cardinality(Serving)
             c == Cardinality(Serving')
  <2>1. a + b <= starts /\ a \in Nat /\ b \in Nat /\ c \in Nat /\ c <= b
    BY <1>1 DEF Counts
  <2> HIDE DEF a, b, c
  <2>2. a + c <= starts
    BY <2>1
  <2>3. QED  BY <2>2 DEF a, c
<1>3. QED  BY <1>1, <1>2 DEF Counts

LEMMA TerminateCounts ==
  ASSUME IInv, Counts, NEW k \in Killers, Terminate(k)
  PROVE  Counts'
<1>1. TypeOK /\ os[held[k]] \in Own /\ held[k] \in Pids /\ ~killed[k]
  BY ScmKillAssumption DEF IInv, TypeOK, Knows, Terminate, Waiting
<1>2. CASE UNCHANGED <<os, killed>>
  <2>1. Killed' = Killed /\ Serving' = Serving /\ starts' = starts
    BY <1>2 DEF Terminate, Killed, Serving
  <2>2. QED  BY <1>1, <2>1, ScmKillAssumption, FewerCounts DEF TypeOK
<1>3. CASE /\ os[held[k]] = "service" /\ os' = [os EXCEPT ![held[k]] = "dying"]
           /\ killed' = [killed EXCEPT ![k] = TRUE]
  <2>1. Serving' = Serving \ {held[k]} /\ held[k] \in Serving
    BY <1>1, <1>3 DEF TypeOK, Serving
  <2>2. Killed' = Killed \cup {k} /\ k \notin Killed
    BY <1>1, <1>3 DEF TypeOK, Killed
  <2>3. /\ IsFiniteSet(Killed') /\ Cardinality(Killed') = Cardinality(Killed) + 1
        /\ IsFiniteSet(Serving') /\ Cardinality(Serving') = Cardinality(Serving) - 1
        /\ Cardinality(Killed) \in Nat /\ Cardinality(Serving) \in Nat
    BY <2>1, <2>2, FS_AddElement, FS_RemoveElement, FS_CardinalityType DEF Counts
  <2>4. starts' = starts /\ starts \in Nat
    BY <1>1, ScmKillAssumption DEF Terminate, TypeOK
  <2>5. QED  BY <2>3, <2>4 DEF Counts
<1>4. QED  BY <1>1, <1>2, <1>3 DEF Terminate, Own

LEMMA StartsCounts ==
  ASSUME IInv, Counts, Starts
  PROVE  Counts'
<1>1. PICK n \in Pids : os[n] = "free" /\ os' = [os EXCEPT ![n] = "service"]
  BY DEF Starts
<1>2. Serving' = Serving \cup {n} /\ n \notin Serving
  BY <1>1 DEF IInv, TypeOK, Serving
<1>3. Killed' = Killed /\ starts' = starts + 1 /\ starts \in Nat
  BY ScmKillAssumption DEF IInv, TypeOK, Starts, Killed, killer
<1>4. /\ IsFiniteSet(Serving') /\ Cardinality(Serving') = Cardinality(Serving) + 1
      /\ Cardinality(Killed) \in Nat /\ Cardinality(Serving) \in Nat
  BY <1>2, FS_AddElement, FS_CardinalityType DEF Counts
<1>5. QED  BY <1>3, <1>4 DEF Counts

LEMMA NextCounts ==
  ASSUME IInv, Counts, [Next]_vars
  PROVE  Counts'
<1>1. CASE \E k \in Killers : Terminate(k)
  BY <1>1, TerminateCounts
<1>2. CASE Starts
  BY <1>2, StartsCounts
<1>3. CASE ~Starts /\ \A k \in Killers : ~Terminate(k)
  <2>1. Killed' = Killed /\ Serving' \subseteq Serving /\ starts' = starts
    <3>1. CASE \E n \in Pids : Exits(n) \/ Frees(n) \/ StrangerStarts(n)
      <4>1. killed' = killed /\ starts' = starts
        BY <3>1 DEF Exits, Frees, StrangerStarts, killer
      <4>2. Serving' \subseteq Serving
        BY <3>1 DEF IInv, TypeOK, Exits, Frees, StrangerStarts, Serving
      <4>3. QED  BY <4>1, <4>2 DEF Killed
    <3>2. CASE \E k \in Killers : KillStep(k) \/ CallFails(k)
      BY <1>3, <3>2
         DEF KillStep, ReadPid, OpenProcess, Refused, Confirm, AwaitExit, ArmRelease,
             CheckRelease, AwaitRelease, Woken, CallFails, world, Killed, Serving
    <3>3. CASE RecordsStopped \/ Marks \/ UNCHANGED vars
      BY <3>3 DEF RecordsStopped, Marks, vars, world, killer, Killed, Serving
    <3>4. QED  BY <1>3, <3>1, <3>2, <3>3 DEF Next
  <2>2. QED  BY <2>1, ScmKillAssumption, FewerCounts DEF IInv, TypeOK
<1>4. QED  BY <1>1, <1>2, <1>3

\* No process is reported terminated by two kills: each one delivered took a process
\* that a start of the service's made (terminate_process of scm/kill.rs).
THEOREM KillsAreDistinctAlways == Spec => []KillsAreDistinct
<1>1. IInv /\ Counts => KillsAreDistinct
  <2> SUFFICES ASSUME IInv, Counts PROVE KillsAreDistinct
    OBVIOUS
  <2>1. Cardinality(Killed) \in Nat /\ Cardinality(Serving) \in Nat /\ starts \in Nat
    BY FS_CardinalityType, ScmKillAssumption DEF Counts, IInv, TypeOK
  <2>2. QED  BY <2>1 DEF Counts, KillsAreDistinct, Killed
<1>2. Init => Counts
  BY InitCounts
<1>3. IInv /\ Counts /\ [Next]_vars => Counts'
  BY NextCounts
<1>4. QED  BY <1>1, <1>2, <1>3, Invariance, PTL DEF Spec
=============================================================================
