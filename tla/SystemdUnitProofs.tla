-------------------------- MODULE SystemdUnitProofs -------------------------
(* The safety of SystemdUnit for any number of runs, specs and edits, and    *)
(* with every mishap. Custody rests on what each run knows of the files in   *)
(* its hands: which one it read and chose, that the one it verified is that  *)
(* one, and that a file it puts back is back before its quarantine goes. The *)
(* rest: no unit lost in silence, what racing installs and uninstalls leave. *)
EXTENDS SystemdUnit, TLAPS

\* Every number that is in use was given out.
Numbered == /\ fragment.edit <= edits
            /\ \A p \in Runs : snap[p].edit <= edits /\ backup[p].edit <= edits
            /\ \A f \in withdrawn \cup chosen : f.edit \in 1..edits

Committed == {"stop", "disable", "quarantine", "verify", "place", "sync_over", "drop"}

\* A run that is going to discard a file of the administrator's chose it.
ReadIsChosen == \A p \in Runs :
    pc[p] \in Committed => snap[p].edit = 0 \/ snap[p] \in chosen

\* What it holds, once verified, is the file it read.
Verified == \A p \in Runs : pc[p] \in {"place", "sync_over", "drop"} => backup[p] = snap[p]

Unmoved == {"read", "judge", "create", "sync", "stop", "disable", "enable", "quarantine",
            "sweep", "reload"}

\* Nothing is under its quarantine name before it moves the unit there, nor
\* after it discarded it.
NothingMoved == \A p \in Runs : pc[p] \in Unmoved => backup[p] = Nothing

\* f exists under a name no run is about to remove, or was given up.
Safe(f) == \/ f.edit = 0
           \/ f \in withdrawn \cup chosen
           \/ f = fragment
           \/ \E q \in Runs : pc[q] # "unlink" /\ backup[q] = f

\* A file that was linked back stays safe, whoever moves it next.
LinkedFirst == \A p \in Runs : pc[p] = "unlink" => Safe(backup[p])

IInv == TypeOK /\ Numbered /\ ReadIsChosen /\ Verified /\ NothingMoved /\ LinkedFirst

-----------------------------------------------------------------------------
(* The files the program itself makes.                                       *)

\* A file goetia wrote has the number 0.
LEMMA OwnFiles ==
    ASSUME TypeOK
    PROVE  /\ Nothing \in File /\ Nothing.edit = 0
           /\ \A p \in Runs : desired(p) \in File /\ desired(p).edit = 0
<1>1. Nothing \in File /\ Nothing.edit = 0
    BY SystemdAssumption DEF Nothing, File, Kinds
<1>2. \A p \in Runs : request[p].spec \in Specs \cup {"none"}
    BY DEF TypeOK, Requests
<1>3. \A p \in Runs : desired(p) \in File /\ desired(p).edit = 0
    BY <1>2, SystemdAssumption DEF desired, render, generated, File, Kinds, Marked, Versions
<1> QED BY <1>1, <1>3

\* A file the administrator writes has the number it was given.
LEMMA HandWrittenFiles ==
    ASSUME TypeOK, NEW n \in 0..MaxEdits, NEW f \in HandWritten(n)
    PROVE  f \in File /\ f.edit = n
<1>1. CASE fragment.kind \in Marked /\ f = [fragment EXCEPT !.edit = n]
    BY <1>1 DEF TypeOK, File
<1>2. CASE \E k \in Kinds : f = [kind |-> k, spec |-> "none", version |-> "none",
        edit |-> n]
    BY <1>2 DEF File
<1> QED BY <1>1, <1>2 DEF HandWritten, Kinds, Marked

\* Every file is numbered.
LEMMA Numbers == \A f \in File : f.edit \in Nat
BY SystemdAssumption DEF File

\* decide answers one of its outcomes.
LEMMA DecisionType ==
    ASSUME NEW p \in Runs
    PROVE  Decision(p) \in Outcomes
<1>1. Found(snap[p]).ownership \in {"Absent", "Foreign", "OtherDaemon", "OursUnusable",
        "Ours"}
    BY DEF Found
<1>2. ASSUME NEW o \in {"Absent", "Foreign", "OtherDaemon", "OursUnusable"}
      PROVE  Settled[o] \in Outcomes
    BY <1>2 DEF Settled, Outcomes, Writing, Refusing
<1>3. CASE Found(snap[p]).ownership # "Ours"
    <2>1. Decision(p) = Settled[Found(snap[p]).ownership]
        BY <1>3 DEF Decision, decide
    <2> QED BY <1>1, <1>2, <1>3, <2>1
<1>4. CASE Found(snap[p]).ownership = "Ours"
    BY <1>4 DEF Decision, decide, Outcomes, Writing, Refusing
<1> QED BY <1>3, <1>4

-----------------------------------------------------------------------------
(* A run's step.                                                             *)

\* A step of a run keeps the types.
LEMMA StepTypes ==
    ASSUME TypeOK, NEW p \in Runs, Step(p) \/ Crash(p)
    PROVE  TypeOK'
<1>1. CASE ReadFragment(p)
    BY <1>1, OwnFiles DEF ReadFragment, Goto, Returns, disk, history, locals, TypeOK,
            Places,
        Working, Results, NamesQuarantine, Refusing
<1>2. CASE DecideInstall(p)
    BY <1>2, OwnFiles, DecisionType DEF DecideInstall, Goto, Returns, Choose, disk, history,
        locals, TypeOK, Places, Working, Results, NamesQuarantine, Refusing, Outcomes,
                Writing
<1>3. CASE Gate(p)
    BY <1>3, OwnFiles DEF Gate, Goto, Returns, Choose, disk, history, locals, TypeOK,
            Places,
        Working, Results, NamesQuarantine, Refusing
<1>4. CASE Stop(p)
    BY <1>4, OwnFiles DEF Stop, Goto, Returns, disk, history, locals, TypeOK, Places,
            Working,
        Results, NamesQuarantine, Refusing
<1>5. CASE Disable(p)
    BY <1>5, OwnFiles DEF Disable, Goto, Returns, disk, history, locals, TypeOK, Places,
        Working, Results, NamesQuarantine, Refusing
<1>6. CASE Enable(p)
    BY <1>6, OwnFiles DEF Enable, Goto, Returns, disk, history, locals, TypeOK, Places,
            Working,
        Results, NamesQuarantine, Refusing
<1>7. CASE Create(p)
    BY <1>7, OwnFiles DEF Create, Goto, Returns, Raced, disk, history, locals, TypeOK,
            Places,
        Working, Results, NamesQuarantine, Refusing
<1>8. CASE Sync(p)
    BY <1>8, OwnFiles DEF Sync, Goto, Returns, disk, history, locals, TypeOK, Places,
            Working,
        Results, NamesQuarantine, Refusing
<1>9. CASE Quarantine(p)
    BY <1>9, OwnFiles DEF Quarantine, Goto, Returns, Raced, disk, history, locals, TypeOK,
        Places, Working, Results, NamesQuarantine, Refusing
<1>10. CASE Verify(p)
    BY <1>10, OwnFiles DEF Verify, Goto, Returns, disk, history, locals, TypeOK, Places,
        Working, Results, NamesQuarantine, Refusing
<1>11. CASE Place(p)
    BY <1>11, OwnFiles DEF Place, Goto, Returns, disk, history, locals, TypeOK, Places,
            Working,
        Results, NamesQuarantine, Refusing
<1>12. CASE Drop(p)
    <2>1. removed' = removed \/ removed' = TRUE
        BY <1>12 DEF Drop
    <2>2. removed' \in BOOLEAN
        BY <2>1 DEF TypeOK
    <2>3. /\ backup' \in [Runs -> File] /\ primary' \in [Runs -> {"raced", "error"}]
          /\ pc' \in [Runs -> Places] /\ result' \in [Runs -> Results]
        BY <1>12, OwnFiles DEF Drop, Goto, Returns, TypeOK, Places, Working, Results,
                NamesQuarantine
    <2> QED BY <1>12, <2>2, <2>3 DEF Drop, disk, TypeOK
<1>13. CASE RestoreLink(p)
    BY <1>13, OwnFiles DEF RestoreLink, Goto, Returns, disk, history, locals, TypeOK,
            Places,
        Working, Results, NamesQuarantine, Refusing
<1>14. CASE RestoreUnlink(p)
    BY <1>14, OwnFiles DEF RestoreUnlink, Goto, Returns, Raced, disk, history, locals,
            TypeOK,
        Places, Working, Results, NamesQuarantine, Refusing
<1>15. CASE Sweep(p)
    BY <1>15, OwnFiles DEF Sweep, Goto, Returns, disk, history, locals, TypeOK, Places,
            Working,
        Results, NamesQuarantine, Refusing
<1>16. CASE Reload(p)
    BY <1>16, OwnFiles DEF Reload, Goto, Returns, disk, history, locals, TypeOK, Places,
        Working, Results, NamesQuarantine, Refusing
<1>17. CASE Crash(p)
    BY <1>17, OwnFiles DEF Crash, Goto, disk, history, locals, TypeOK, Places, Working,
            Results,
        NamesQuarantine, Refusing
<1> QED BY <1>1, <1>2, <1>3, <1>4, <1>5, <1>6, <1>7, <1>8, <1>9, <1>10, <1>11, <1>12, <1>13,
        <1>14, <1>15, <1>16, <1>17 DEF Step

\* A step of a run gives out no number.
LEMMA StepNumbers ==
    ASSUME TypeOK, Numbered, NEW p \in Runs, Step(p) \/ Crash(p)
    PROVE  Numbered'
<1>1. CASE ReadFragment(p)
    BY <1>1, OwnFiles DEF ReadFragment, Goto, Returns, disk, history, locals, TypeOK,
            Numbered
<1>2. CASE DecideInstall(p)
    BY <1>2, OwnFiles, Numbers DEF DecideInstall, Goto, Returns, Choose, disk, history,
            locals,
        TypeOK, Numbered
<1>3. CASE Gate(p)
    BY <1>3, OwnFiles, Numbers DEF Gate, Goto, Returns, Choose, disk, history, locals,
            TypeOK,
        Numbered
<1>4. CASE Stop(p)
    BY <1>4, OwnFiles DEF Stop, Goto, Returns, disk, history, locals, TypeOK, Numbered
<1>5. CASE Disable(p)
    BY <1>5, OwnFiles DEF Disable, Goto, Returns, disk, history, locals, TypeOK, Numbered
<1>6. CASE Enable(p)
    BY <1>6, OwnFiles DEF Enable, Goto, Returns, disk, history, locals, TypeOK, Numbered
<1>7. CASE Create(p)
    BY <1>7, OwnFiles DEF Create, Goto, Returns, Raced, disk, history, locals, TypeOK,
            Numbered
<1>8. CASE Sync(p)
    BY <1>8, OwnFiles DEF Sync, Goto, Returns, disk, history, locals, TypeOK, Numbered
<1>9. CASE Quarantine(p)
    BY <1>9, OwnFiles DEF Quarantine, Goto, Returns, Raced, disk, history, locals, TypeOK,
        Numbered
<1>10. CASE Verify(p)
    BY <1>10, OwnFiles DEF Verify, Goto, Returns, disk, history, locals, TypeOK, Numbered
<1>11. CASE Place(p)
    BY <1>11, OwnFiles DEF Place, Goto, Returns, disk, history, locals, TypeOK, Numbered
<1>12. CASE Drop(p)
    BY <1>12, OwnFiles DEF Drop, Goto, Returns, Installs, disk, history, locals, TypeOK,
        Numbered
<1>13. CASE RestoreLink(p)
    BY <1>13, OwnFiles DEF RestoreLink, Goto, Returns, disk, history, locals, TypeOK,
            Numbered
<1>14. CASE RestoreUnlink(p)
    BY <1>14, OwnFiles DEF RestoreUnlink, Goto, Returns, Raced, disk, history, locals,
            TypeOK,
        Numbered
<1>15. CASE Sweep(p)
    BY <1>15, OwnFiles DEF Sweep, Goto, Returns, disk, history, locals, TypeOK, Numbered
<1>16. CASE Reload(p)
    BY <1>16, OwnFiles DEF Reload, Goto, Returns, disk, history, locals, TypeOK, Numbered
<1>17. CASE Crash(p)
    BY <1>17, OwnFiles DEF Crash, Goto, disk, history, locals, TypeOK, Numbered
<1> QED BY <1>1, <1>2, <1>3, <1>4, <1>5, <1>6, <1>7, <1>8, <1>9, <1>10, <1>11, <1>12, <1>13,
        <1>14, <1>15, <1>16, <1>17 DEF Step

\* A run commits itself to a file when it chooses it, and keeps to that file.
LEMMA StepChosen ==
    ASSUME TypeOK, ReadIsChosen, NEW p \in Runs, Step(p) \/ Crash(p)
    PROVE  ReadIsChosen'
<1>1. CASE ReadFragment(p)
    BY <1>1, OwnFiles DEF ReadFragment, Goto, Returns, disk, history, locals, TypeOK,
        ReadIsChosen, Committed
<1>2. CASE DecideInstall(p)
    BY <1>2, OwnFiles, Numbers DEF DecideInstall, Goto, Returns, Choose, disk, history,
            locals,
        TypeOK, ReadIsChosen, Committed
<1>3. CASE Gate(p)
    BY <1>3, OwnFiles, Numbers DEF Gate, Goto, Returns, Choose, disk, history, locals,
            TypeOK,
        ReadIsChosen, Committed
<1>4. CASE Stop(p)
    BY <1>4, OwnFiles DEF Stop, Goto, Returns, disk, history, locals, TypeOK, ReadIsChosen,
        Committed
<1>5. CASE Disable(p)
    BY <1>5, OwnFiles DEF Disable, Goto, Returns, disk, history, locals, TypeOK,
            ReadIsChosen,
        Committed
<1>6. CASE Enable(p)
    BY <1>6, OwnFiles DEF Enable, Goto, Returns, disk, history, locals, TypeOK,
            ReadIsChosen,
        Committed
<1>7. CASE Create(p)
    BY <1>7, OwnFiles DEF Create, Goto, Returns, Raced, disk, history, locals, TypeOK,
        ReadIsChosen, Committed
<1>8. CASE Sync(p)
    BY <1>8, OwnFiles DEF Sync, Goto, Returns, disk, history, locals, TypeOK, ReadIsChosen,
        Committed
<1>9. CASE Quarantine(p)
    BY <1>9, OwnFiles DEF Quarantine, Goto, Returns, Raced, disk, history, locals, TypeOK,
        ReadIsChosen, Committed
<1>10. CASE Verify(p)
    BY <1>10, OwnFiles DEF Verify, Goto, Returns, disk, history, locals, TypeOK,
            ReadIsChosen,
        Committed
<1>11. CASE Place(p)
    BY <1>11, OwnFiles DEF Place, Goto, Returns, disk, history, locals, TypeOK,
            ReadIsChosen,
        Committed
<1>12. CASE Drop(p)
    BY <1>12, OwnFiles DEF Drop, Goto, Returns, Installs, disk, history, locals, TypeOK,
        ReadIsChosen, Committed
<1>13. CASE RestoreLink(p)
    BY <1>13, OwnFiles DEF RestoreLink, Goto, Returns, disk, history, locals, TypeOK,
        ReadIsChosen, Committed
<1>14. CASE RestoreUnlink(p)
    BY <1>14, OwnFiles DEF RestoreUnlink, Goto, Returns, Raced, disk, history, locals,
            TypeOK,
        ReadIsChosen, Committed
<1>15. CASE Sweep(p)
    BY <1>15, OwnFiles DEF Sweep, Goto, Returns, disk, history, locals, TypeOK,
            ReadIsChosen,
        Committed
<1>16. CASE Reload(p)
    BY <1>16, OwnFiles DEF Reload, Goto, Returns, disk, history, locals, TypeOK,
            ReadIsChosen,
        Committed
<1>17. CASE Crash(p)
    BY <1>17, OwnFiles DEF Crash, Goto, disk, history, locals, TypeOK, ReadIsChosen,
            Committed
<1> QED BY <1>1, <1>2, <1>3, <1>4, <1>5, <1>6, <1>7, <1>8, <1>9, <1>10, <1>11, <1>12, <1>13,
        <1>14, <1>15, <1>16, <1>17 DEF Step

\* A run goes on with a quarantined file only if it is the one it read.
LEMMA StepVerified ==
    ASSUME TypeOK, Verified, NEW p \in Runs, Step(p) \/ Crash(p)
    PROVE  Verified'
<1>1. CASE ReadFragment(p)
    BY <1>1, OwnFiles DEF ReadFragment, Goto, Returns, disk, history, locals, TypeOK,
            Verified
<1>2. CASE DecideInstall(p)
    BY <1>2, OwnFiles DEF DecideInstall, Goto, Returns, Choose, disk, history, locals,
            TypeOK,
        Verified
<1>3. CASE Gate(p)
    BY <1>3, OwnFiles DEF Gate, Goto, Returns, Choose, disk, history, locals, TypeOK,
            Verified
<1>4. CASE Stop(p)
    BY <1>4, OwnFiles DEF Stop, Goto, Returns, disk, history, locals, TypeOK, Verified
<1>5. CASE Disable(p)
    BY <1>5, OwnFiles DEF Disable, Goto, Returns, disk, history, locals, TypeOK, Verified
<1>6. CASE Enable(p)
    BY <1>6, OwnFiles DEF Enable, Goto, Returns, disk, history, locals, TypeOK, Verified
<1>7. CASE Create(p)
    BY <1>7, OwnFiles DEF Create, Goto, Returns, Raced, disk, history, locals, TypeOK,
            Verified
<1>8. CASE Sync(p)
    BY <1>8, OwnFiles DEF Sync, Goto, Returns, disk, history, locals, TypeOK, Verified
<1>9. CASE Quarantine(p)
    BY <1>9, OwnFiles DEF Quarantine, Goto, Returns, Raced, disk, history, locals, TypeOK,
        Verified
<1>10. CASE Verify(p)
    BY <1>10, OwnFiles DEF Verify, Goto, Returns, disk, history, locals, TypeOK, Verified
<1>11. CASE Place(p)
    BY <1>11, OwnFiles DEF Place, Goto, Returns, disk, history, locals, TypeOK, Verified
<1>12. CASE Drop(p)
    BY <1>12, OwnFiles DEF Drop, Goto, Returns, Installs, disk, history, locals, TypeOK,
        Verified
<1>13. CASE RestoreLink(p)
    BY <1>13, OwnFiles DEF RestoreLink, Goto, Returns, disk, history, locals, TypeOK,
            Verified
<1>14. CASE RestoreUnlink(p)
    BY <1>14, OwnFiles DEF RestoreUnlink, Goto, Returns, Raced, disk, history, locals,
            TypeOK,
        Verified
<1>15. CASE Sweep(p)
    BY <1>15, OwnFiles DEF Sweep, Goto, Returns, disk, history, locals, TypeOK, Verified
<1>16. CASE Reload(p)
    BY <1>16, OwnFiles DEF Reload, Goto, Returns, disk, history, locals, TypeOK, Verified
<1>17. CASE Crash(p)
    BY <1>17, OwnFiles DEF Crash, Goto, disk, history, locals, TypeOK, Verified
<1> QED BY <1>1, <1>2, <1>3, <1>4, <1>5, <1>6, <1>7, <1>8, <1>9, <1>10, <1>11, <1>12, <1>13,
        <1>14, <1>15, <1>16, <1>17 DEF Step

\* A run that reads again has nothing in quarantine.
LEMMA StepUnmoved ==
    ASSUME TypeOK, NothingMoved, NEW p \in Runs, Step(p) \/ Crash(p)
    PROVE  NothingMoved'
<1>1. CASE ReadFragment(p)
    BY <1>1, OwnFiles DEF ReadFragment, Goto, Returns, disk, history, locals, TypeOK,
        NothingMoved, Unmoved
<1>2. CASE DecideInstall(p)
    BY <1>2, OwnFiles DEF DecideInstall, Goto, Returns, Choose, disk, history, locals,
            TypeOK,
        NothingMoved, Unmoved
<1>3. CASE Gate(p)
    BY <1>3, OwnFiles DEF Gate, Goto, Returns, Choose, disk, history, locals, TypeOK,
        NothingMoved, Unmoved
<1>4. CASE Stop(p)
    BY <1>4, OwnFiles DEF Stop, Goto, Returns, disk, history, locals, TypeOK, NothingMoved,
        Unmoved
<1>5. CASE Disable(p)
    BY <1>5, OwnFiles DEF Disable, Goto, Returns, disk, history, locals, TypeOK,
            NothingMoved,
        Unmoved
<1>6. CASE Enable(p)
    BY <1>6, OwnFiles DEF Enable, Goto, Returns, disk, history, locals, TypeOK,
            NothingMoved,
        Unmoved
<1>7. CASE Create(p)
    BY <1>7, OwnFiles DEF Create, Goto, Returns, Raced, disk, history, locals, TypeOK,
        NothingMoved, Unmoved
<1>8. CASE Sync(p)
    BY <1>8, OwnFiles DEF Sync, Goto, Returns, disk, history, locals, TypeOK, NothingMoved,
        Unmoved
<1>9. CASE Quarantine(p)
    BY <1>9, OwnFiles DEF Quarantine, Goto, Returns, Raced, disk, history, locals, TypeOK,
        NothingMoved, Unmoved
<1>10. CASE Verify(p)
    BY <1>10, OwnFiles DEF Verify, Goto, Returns, disk, history, locals, TypeOK,
            NothingMoved,
        Unmoved
<1>11. CASE Place(p)
    BY <1>11, OwnFiles DEF Place, Goto, Returns, disk, history, locals, TypeOK,
            NothingMoved,
        Unmoved
<1>12. CASE Drop(p)
    BY <1>12, OwnFiles DEF Drop, Goto, Returns, Installs, disk, history, locals, TypeOK,
        NothingMoved, Unmoved
<1>13. CASE RestoreLink(p)
    BY <1>13, OwnFiles DEF RestoreLink, Goto, Returns, disk, history, locals, TypeOK,
        NothingMoved, Unmoved
<1>14. CASE RestoreUnlink(p)
    BY <1>14, OwnFiles DEF RestoreUnlink, Goto, Returns, Raced, disk, history, locals,
            TypeOK,
        NothingMoved, Unmoved
<1>15. CASE Sweep(p)
    BY <1>15, OwnFiles DEF Sweep, Goto, Returns, disk, history, locals, TypeOK,
            NothingMoved,
        Unmoved
<1>16. CASE Reload(p)
    BY <1>16, OwnFiles DEF Reload, Goto, Returns, disk, history, locals, TypeOK,
            NothingMoved,
        Unmoved
<1>17. CASE Crash(p)
    BY <1>17, OwnFiles DEF Crash, Goto, disk, history, locals, TypeOK, NothingMoved, Unmoved
<1> QED BY <1>1, <1>2, <1>3, <1>4, <1>5, <1>6, <1>7, <1>8, <1>9, <1>10, <1>11, <1>12, <1>13,
        <1>14, <1>15, <1>16, <1>17 DEF Step

\* A file under two names, one of which is about to go, stays safe.
LEMMA StepLinked ==
    ASSUME IInv, NEW p \in Runs, Step(p) \/ Crash(p)
    PROVE  LinkedFirst'
<1>1. CASE ReadFragment(p)
    BY <1>1, OwnFiles DEF ReadFragment, Goto, Returns, disk, history, locals, IInv, TypeOK,
        LinkedFirst, Safe, ReadIsChosen, Committed, Verified, NothingMoved, Unmoved
<1>2. CASE DecideInstall(p)
    BY <1>2, OwnFiles DEF DecideInstall, Goto, Returns, Choose, disk, history, locals, IInv,
        TypeOK, LinkedFirst, Safe, ReadIsChosen, Committed, Verified, NothingMoved, Unmoved
<1>3. CASE Gate(p)
    BY <1>3, OwnFiles DEF Gate, Goto, Returns, Choose, disk, history, locals, IInv, TypeOK,
        LinkedFirst, Safe, ReadIsChosen, Committed, Verified, NothingMoved, Unmoved
<1>4. CASE Stop(p)
    BY <1>4, OwnFiles DEF Stop, Goto, Returns, disk, history, locals, IInv, TypeOK,
            LinkedFirst,
        Safe, ReadIsChosen, Committed, Verified, NothingMoved, Unmoved
<1>5. CASE Disable(p)
    BY <1>5, OwnFiles DEF Disable, Goto, Returns, disk, history, locals, IInv, TypeOK,
        LinkedFirst, Safe, ReadIsChosen, Committed, Verified, NothingMoved, Unmoved
<1>6. CASE Enable(p)
    BY <1>6, OwnFiles DEF Enable, Goto, Returns, disk, history, locals, IInv, TypeOK,
        LinkedFirst, Safe, ReadIsChosen, Committed, Verified, NothingMoved, Unmoved
<1>7. CASE Create(p)
    BY <1>7, OwnFiles DEF Create, Goto, Returns, Raced, disk, history, locals, IInv, TypeOK,
        LinkedFirst, Safe, ReadIsChosen, Committed, Verified, NothingMoved, Unmoved
<1>8. CASE Sync(p)
    BY <1>8, OwnFiles DEF Sync, Goto, Returns, disk, history, locals, IInv, TypeOK,
            LinkedFirst,
        Safe, ReadIsChosen, Committed, Verified, NothingMoved, Unmoved
<1>9. CASE Quarantine(p)
    BY <1>9, OwnFiles DEF Quarantine, Goto, Returns, Raced, disk, history, locals, IInv,
            TypeOK,
        LinkedFirst, Safe, ReadIsChosen, Committed, Verified, NothingMoved, Unmoved
<1>10. CASE Verify(p)
    BY <1>10, OwnFiles DEF Verify, Goto, Returns, disk, history, locals, IInv, TypeOK,
        LinkedFirst, Safe, ReadIsChosen, Committed, Verified, NothingMoved, Unmoved
<1>11. CASE Place(p)
    BY <1>11, OwnFiles DEF Place, Goto, Returns, disk, history, locals, IInv, TypeOK,
        LinkedFirst, Safe, ReadIsChosen, Committed, Verified, NothingMoved, Unmoved
<1>12. CASE Drop(p)
    BY <1>12, OwnFiles DEF Drop, Goto, Returns, Installs, disk, history, locals, IInv,
            TypeOK,
        LinkedFirst, Safe, ReadIsChosen, Committed, Verified, NothingMoved, Unmoved
<1>13. CASE RestoreLink(p)
    BY <1>13, OwnFiles DEF RestoreLink, Goto, Returns, disk, history, locals, IInv, TypeOK,
        LinkedFirst, Safe, ReadIsChosen, Committed, Verified, NothingMoved, Unmoved
<1>14. CASE RestoreUnlink(p)
    BY <1>14, OwnFiles DEF RestoreUnlink, Goto, Returns, Raced, disk, history, locals, IInv,
        TypeOK, LinkedFirst, Safe, ReadIsChosen, Committed, Verified, NothingMoved, Unmoved
<1>15. CASE Sweep(p)
    BY <1>15, OwnFiles DEF Sweep, Goto, Returns, disk, history, locals, IInv, TypeOK,
        LinkedFirst, Safe, ReadIsChosen, Committed, Verified, NothingMoved, Unmoved
<1>16. CASE Reload(p)
    BY <1>16, OwnFiles DEF Reload, Goto, Returns, disk, history, locals, IInv, TypeOK,
        LinkedFirst, Safe, ReadIsChosen, Committed, Verified, NothingMoved, Unmoved
<1>17. CASE Crash(p)
    BY <1>17, OwnFiles DEF Crash, Goto, disk, history, locals, IInv, TypeOK, LinkedFirst,
            Safe,
        ReadIsChosen, Committed, Verified, NothingMoved, Unmoved
<1> QED BY <1>1, <1>2, <1>3, <1>4, <1>5, <1>6, <1>7, <1>8, <1>9, <1>10, <1>11, <1>12, <1>13,
        <1>14, <1>15, <1>16, <1>17 DEF Step

-----------------------------------------------------------------------------
(* The administrator's step.                                                 *)

\* Whatever the administrator does, the invariant holds afterwards.
LEMMA AdministerKeeps ==
    ASSUME IInv, Administer
    PROVE  IInv'
<1> USE OwnFiles, Numbers, HandWrittenFiles, SystemdAssumption DEF IInv, history, locals
<1>1. CASE PutFile
    <2>1. edits + 1 \in 0..MaxEdits
        BY <1>1 DEF PutFile, TypeOK
    <2>2. fragment' \in File /\ fragment'.edit = edits + 1
        BY <1>1, <2>1 DEF PutFile
    <2>3. TypeOK'
        BY <1>1, <2>1, <2>2 DEF PutFile, Withdraw, TypeOK
    <2>4. Numbered'
        BY <1>1, <2>1, <2>2 DEF PutFile, Withdraw, TypeOK, Numbered
    <2>5. LinkedFirst'
        BY <1>1, <2>2 DEF PutFile, Withdraw, TypeOK, LinkedFirst, Safe
    <2> QED BY <1>1, <2>3, <2>4, <2>5
            DEF PutFile, ReadIsChosen, Verified, NothingMoved
<1>2. CASE RemoveFile
    <2>1. TypeOK'
        BY <1>2 DEF RemoveFile, Withdraw, TypeOK
    <2>2. Numbered'
        BY <1>2 DEF RemoveFile, Withdraw, TypeOK, Numbered
    <2>3. LinkedFirst'
        BY <1>2 DEF RemoveFile, Withdraw, TypeOK, LinkedFirst, Safe
    <2> QED BY <1>2, <2>1, <2>2, <2>3
            DEF RemoveFile, ReadIsChosen, Verified, NothingMoved
<1>3. CASE AddDropin
    <2>1. TypeOK'
        BY <1>3 DEF AddDropin, TypeOK
    <2>2. Numbered'
        BY <1>3 DEF AddDropin, TypeOK, Numbered
    <2> QED BY <1>3, <2>1, <2>2
            DEF AddDropin, ReadIsChosen, Verified, NothingMoved, LinkedFirst, Safe
<1> QED BY <1>1, <1>2, <1>3 DEF Administer

-----------------------------------------------------------------------------
\* The invariant holds initially.
LEMMA InitKeeps == Init => IInv
<1> SUFFICES ASSUME Init PROVE IInv
    OBVIOUS
<1>1. Nothing \in File /\ Nothing.edit = 0
    BY SystemdAssumption DEF Nothing, File, Kinds
<1>2. fragment \in File /\ fragment.edit = 0
    BY <1>1, SystemdAssumption
    DEF Init, Unreadable, generated, File, Kinds, Marked, Versions
<1>3. TypeOK
    BY <1>1, <1>2, SystemdAssumption DEF Init, TypeOK, Places, Working, Results
<1> QED BY <1>1, <1>2, <1>3
        DEF Init, IInv, Numbered, ReadIsChosen, Verified, NothingMoved, LinkedFirst,
            Committed

\* Every step keeps the invariant.
LEMMA NextKeeps == IInv /\ [Next]_vars => IInv'
<1> SUFFICES ASSUME IInv, [Next]_vars PROVE IInv'
    OBVIOUS
<1>1. ASSUME NEW p \in Runs, Step(p) \/ Crash(p) PROVE IInv'
    BY <1>1, StepTypes, StepNumbers, StepChosen, StepVerified, StepUnmoved,
            StepLinked DEF IInv
<1>2. CASE Administer
    BY <1>2, AdministerKeeps
<1>3. CASE UNCHANGED vars
    BY <1>3 DEF vars, disk, history, locals, IInv, TypeOK, Numbered, ReadIsChosen, Verified,
                NothingMoved, LinkedFirst, Safe
<1> QED BY <1>1, <1>2, <1>3 DEF Next

\* The inductive invariant holds in every behaviour.
THEOREM Invariance == Spec => []IInv
BY InitKeeps, NextKeeps, PTL DEF Spec

\* Every variable keeps its type.
THEOREM TypeCorrect == Spec => []TypeOK
BY Invariance, PTL DEF IInv

-----------------------------------------------------------------------------
(* Custody: Promise is the abstract specification, over the files that exist. *)

\* What decide lets install overwrite, install is entitled to.
LEMMA DecidedIsEntitled ==
    ASSUME TypeOK, NEW p \in Runs, Installs(p), Decision(p) \in {"Update", "Stale"},
           snap[p].edit > 0
    PROVE  Entitled(request[p], snap[p])
<1>1. Found(snap[p]).ownership = "Ours" /\ snap[p].kind = "marked"
    <2>1. Found(snap[p]).ownership # "Ours" => Decision(p) = Settled[Found(snap[p]).ownership]
        BY DEF Decision, decide
    <2>2. \A o \in {"Absent", "Foreign", "OtherDaemon", "OursUnusable"} :
              Settled[o] \notin {"Update", "Stale"}
        BY DEF Settled
    <2>3. Found(snap[p]).ownership \in {"Absent", "Foreign", "OtherDaemon", "OursUnusable",
            "Ours"}
        BY DEF Found
    <2>4. Found(snap[p]).ownership = "Ours"
        BY <2>1, <2>2, <2>3
    <2> QED BY <2>4 DEF Found
<1>2. CASE snap[p].version # "running"
    BY <1>1, <1>2 DEF Entitled, Marked, Installs
<1>3. CASE snap[p].version = "running"
    <2>1. Found(snap[p]).version = "running"
        BY <1>3 DEF Found
    <2>2. \/ Found(snap[p]).onDisk = Found(snap[p]).regenerated
          \/ request[p].force
        BY <1>1, <2>1 DEF Decision, decide
    <2>3. Found(snap[p]).onDisk # Found(snap[p]).regenerated
        <3>1. snap[p] # render(snap[p].spec)
            BY DEF render, generated
        <3> QED BY <3>1 DEF Found
    <2> QED BY <1>1, <2>2, <2>3 DEF Entitled, Marked, Installs
<1> QED BY <1>2, <1>3

\* A step that neither decides nor is the administrator's loses only files that
\* were given up, and makes none.
LEMMA StepLoses ==
    ASSUME IInv, NEW p \in Runs, Step(p) \/ Crash(p)
    PROVE  /\ Held' \subseteq Held
           /\ Held \ Held' \subseteq withdrawn \cup chosen
<1>1. CASE ReadFragment(p)
    BY <1>1 DEF ReadFragment, disk, locals, Held
<1>2. CASE DecideInstall(p)
    BY <1>2 DEF DecideInstall, disk, locals, Held
<1>3. CASE Gate(p)
    BY <1>3 DEF Gate, disk, locals, Held
<1>4. CASE Stop(p)
    BY <1>4 DEF Stop, disk, locals, Held
<1>5. CASE Disable(p)
    BY <1>5 DEF Disable, disk, locals, Held
<1>6. CASE Enable(p)
    BY <1>6 DEF Enable, disk, locals, Held
<1>7. CASE Create(p)
    BY <1>7, OwnFiles, Numbers
    DEF Create, Goto, Returns, Raced, disk, history, locals, IInv, TypeOK, Held,
            LinkedFirst, Safe, ReadIsChosen, Committed, Verified,
        NothingMoved, Unmoved
<1>8. CASE Sync(p)
    BY <1>8 DEF Sync, disk, locals, Held
<1>9. CASE Quarantine(p)
    BY <1>9, OwnFiles, Numbers
    DEF Quarantine, Goto, Returns, Raced, disk, history, locals, IInv, TypeOK, Held,
            LinkedFirst, Safe, ReadIsChosen, Committed, Verified,
        NothingMoved, Unmoved
<1>10. CASE Verify(p)
    BY <1>10 DEF Verify, disk, locals, Held
<1>11. CASE Place(p)
    BY <1>11, OwnFiles, Numbers
    DEF Place, Goto, Returns, disk, history, locals, IInv, TypeOK, Held, LinkedFirst, Safe,
            ReadIsChosen, Committed, Verified,
        NothingMoved, Unmoved
<1>12. CASE Drop(p)
    BY <1>12, OwnFiles, Numbers
    DEF Drop, Goto, Returns, Installs, disk, history, locals, IInv, TypeOK, Held,
            LinkedFirst, Safe, ReadIsChosen, Committed, Verified,
        NothingMoved, Unmoved
<1>13. CASE RestoreLink(p)
    BY <1>13, OwnFiles, Numbers
    DEF RestoreLink, Goto, Returns, disk, history, locals, IInv, TypeOK, Held, LinkedFirst,
            Safe, ReadIsChosen, Committed, Verified,
        NothingMoved, Unmoved
<1>14. CASE RestoreUnlink(p)
    BY <1>14, OwnFiles, Numbers
    DEF RestoreUnlink, Goto, Returns, Raced, disk, history, locals, IInv, TypeOK, Held,
            LinkedFirst, Safe, ReadIsChosen, Committed, Verified,
        NothingMoved, Unmoved
<1>15. CASE Sweep(p)
    BY <1>15 DEF Sweep, disk, locals, Held
<1>16. CASE Reload(p)
    BY <1>16 DEF Reload, disk, locals, Held
<1>17. CASE Crash(p)
    BY <1>17 DEF Crash, disk, locals, Held
<1> QED BY <1>1, <1>2, <1>3, <1>4, <1>5, <1>6, <1>7, <1>8, <1>9, <1>10, <1>11, <1>12, <1>13,
        <1>14, <1>15, <1>16, <1>17 DEF Step

\* A run's step is a step of the promise: it chooses a file, or it loses some.
LEMMA StepIsPromised ==
    ASSUME IInv, NEW p \in Runs, Step(p) \/ Crash(p)
    PROVE  [Promise!Next]_Promise!vars
<1> USE DEF IInv
<1>1. UNCHANGED <<request, withdrawn>>
    BY DEF Step, ReadFragment, DecideInstall, Gate, Stop, Disable, Enable, Create, Sync,
            Quarantine,
           Verify, Place, Drop, RestoreLink, RestoreUnlink, Sweep, Reload, Crash, history
<1>2. CASE chosen' = chosen
    BY <1>1, <1>2, StepLoses DEF Promise!Next, Promise!Lose
<1>3. CASE chosen' # chosen
    <2>1. DecideInstall(p) \/ Gate(p)
        BY <1>3 DEF Step, ReadFragment, Stop, Disable, Enable, Create, Sync, Quarantine,
                Verify,
                    Place, Drop, RestoreLink, RestoreUnlink, Sweep, Reload, Crash, history
    <2>2. Held' = Held
        BY <2>1 DEF DecideInstall, Gate, disk, locals, Held
    <2>3. Choose(p) /\ snap[p].edit > 0
        BY <1>3, <2>1 DEF DecideInstall, Gate, Choose
    <2>4. snap[p] \in Authored
        BY <2>3 DEF Authored, TypeOK
    <2>5. Entitled(request[p], snap[p])
        <3>1. CASE DecideInstall(p)
            BY <1>3, <2>3, <3>1, DecidedIsEntitled DEF DecideInstall
        <3>2. CASE Gate(p)
            BY <1>3, <3>2 DEF Gate, Entitled
        <3> QED BY <2>1, <3>1, <3>2
    <2>6. Promise!Choose(p, snap[p])
        BY <1>1, <2>2, <2>3, <2>5 DEF Promise!Choose, Choose
    <2> QED BY <2>4, <2>6 DEF Promise!Next
<1> QED BY <1>2, <1>3

\* So is the administrator's.
LEMMA AdministerIsPromised ==
    ASSUME IInv, Administer
    PROVE  [Promise!Next]_Promise!vars
<1> USE DEF IInv, history, locals
<1>1. UNCHANGED <<request, chosen, backup>>
    BY DEF Administer, PutFile, RemoveFile, AddDropin
<1>2. /\ withdrawn \subseteq withdrawn'
      /\ withdrawn' \subseteq withdrawn \cup {fragment}
      /\ fragment' # fragment /\ fragment.edit > 0 => fragment \in withdrawn'
      /\ fragment.edit = 0 => withdrawn' = withdrawn
    BY Numbers DEF Administer, PutFile, RemoveFile, AddDropin, Withdraw, TypeOK
<1>3. withdrawn' \subseteq Authored
    BY <1>2, Numbers DEF TypeOK, Numbered, Authored
<1>4. fragment' \in {fragment, Nothing} \/ fragment'.edit = edits + 1
    <2>1. CASE PutFile
        <3>1. edits + 1 \in 0..MaxEdits
            BY <2>1, SystemdAssumption DEF PutFile, TypeOK
        <3> QED BY <2>1, <3>1, HandWrittenFiles DEF PutFile
    <2> QED BY <2>1 DEF Administer, RemoveFile, AddDropin
<1>5. Held' \subseteq Authored
    BY AdministerKeeps DEF Held, TypeOK, Authored
<1>6. (Held' \ Held) \cap (withdrawn \cup chosen) = {}
    BY <1>1, <1>4, OwnFiles DEF Held, Numbered, TypeOK
<1>7. Held \ Held' \subseteq withdrawn' \cup chosen
    BY <1>1, <1>2 DEF Held
<1> QED BY <1>1, <1>2, <1>3, <1>5, <1>6, <1>7 DEF Promise!Next, Promise!Own

\* Every behaviour keeps custody of the administrator's files.
THEOREM CustodyIsKept == Spec => KeepsCustody
<1>1. Init => Promise!Init
    <2> SUFFICES ASSUME Init PROVE Promise!Init
        OBVIOUS
    <2>1. fragment.edit = 0 /\ \A p \in Runs : backup[p].edit = 0
        BY DEF Init, Nothing, Unreadable, generated
    <2> QED BY <2>1 DEF Init, Promise!Init, Held
<1>2. IInv /\ [Next]_vars => [Promise!Next]_Promise!vars
    <2> SUFFICES ASSUME IInv, [Next]_vars PROVE [Promise!Next]_Promise!vars
        OBVIOUS
    <2>1. CASE UNCHANGED vars
        BY <2>1 DEF vars, disk, history, locals, Promise!vars, Held
    <2> QED BY <2>1, StepIsPromised, AdministerIsPromised DEF Next
<1> QED BY <1>1, <1>2, Invariance, PTL DEF Spec, KeepsCustody, Promise!Spec

-----------------------------------------------------------------------------
(* What the answers say, when every file that was moved aside can be linked  *)
(* back: a restore fails only over an occupied path.                         *)

LinksWork == {"links", "directories"} \cap Mishaps = {}

NoDirectories == fragment.kind # "directory" /\ \A p \in Runs : backup[p].kind # "directory"

\* A run between its quarantine and its next write has a file in hand.
Kept == \A p \in Runs : pc[p] \in {"verify", "place", "restore"} => backup[p] # Nothing

\* p moved the unit away and has not put it back, or says where it left it.
InHand(p) == \/ pc[p] \in {"verify", "place", "restore", "crashed"}
             \/ pc[p] = "drop" /\ ~Installs(p)
             \/ pc[p] = "ended" /\ result[p] \in NamesQuarantine

Accounted == fragment = Nothing => removed \/ \E p \in Runs : InHand(p)

AInv == IInv /\ NoDirectories /\ Kept /\ StrandedIsNamed /\ Accounted

\* Neither nothing nor a unit that is to be written is a directory.
LEMMA NotDirectories ==
    ASSUME TypeOK
    PROVE  /\ Nothing.kind # "directory"
           /\ \A p \in Runs : desired(p).kind # "directory" /\ desired(p) # Nothing
BY DEF Nothing, desired, render, generated

\* No run makes a directory.
LEMMA StepDirectories ==
    ASSUME AInv, LinksWork, NEW p \in Runs, Step(p) \/ Crash(p)
    PROVE  NoDirectories'
<1>1. CASE ReadFragment(p)
    BY <1>1, NotDirectories DEF ReadFragment, Goto, Returns, disk, history, locals, AInv,
            IInv,
        TypeOK, NoDirectories
<1>2. CASE DecideInstall(p)
    BY <1>2, NotDirectories DEF DecideInstall, Goto, Returns, Choose, disk, history, locals,
        AInv, IInv, TypeOK, NoDirectories
<1>3. CASE Gate(p)
    BY <1>3, NotDirectories DEF Gate, Goto, Returns, Choose, disk, history, locals, AInv,
            IInv,
        TypeOK, NoDirectories
<1>4. CASE Stop(p)
    BY <1>4, NotDirectories DEF Stop, Goto, Returns, disk, history, locals, AInv, IInv,
            TypeOK,
        NoDirectories
<1>5. CASE Disable(p)
    BY <1>5, NotDirectories DEF Disable, Goto, Returns, disk, history, locals, AInv, IInv,
        TypeOK, NoDirectories
<1>6. CASE Enable(p)
    BY <1>6, NotDirectories DEF Enable, Goto, Returns, disk, history, locals, AInv, IInv,
        TypeOK, NoDirectories
<1>7. CASE Create(p)
    BY <1>7, NotDirectories DEF Create, Goto, Returns, Raced, disk, history, locals, AInv,
            IInv,
        TypeOK, NoDirectories
<1>8. CASE Sync(p)
    BY <1>8, NotDirectories DEF Sync, Goto, Returns, disk, history, locals, AInv, IInv,
            TypeOK,
        NoDirectories
<1>9. CASE Quarantine(p)
    BY <1>9, NotDirectories DEF Quarantine, Goto, Returns, Raced, disk, history, locals,
            AInv,
        IInv, TypeOK, NoDirectories
<1>10. CASE Verify(p)
    BY <1>10, NotDirectories DEF Verify, Goto, Returns, disk, history, locals, AInv, IInv,
        TypeOK, NoDirectories
<1>11. CASE Place(p)
    BY <1>11, NotDirectories DEF Place, Goto, Returns, disk, history, locals, AInv, IInv,
        TypeOK, NoDirectories
<1>12. CASE Drop(p)
    BY <1>12, NotDirectories DEF Drop, Goto, Returns, Installs, disk, history, locals, AInv,
        IInv, TypeOK, NoDirectories
<1>13. CASE RestoreLink(p)
    BY <1>13, NotDirectories DEF RestoreLink, Goto, Returns, disk, history, locals, AInv,
            IInv,
        TypeOK, NoDirectories
<1>14. CASE RestoreUnlink(p)
    BY <1>14, NotDirectories DEF RestoreUnlink, Goto, Returns, Raced, disk, history, locals,
        AInv, IInv, TypeOK, NoDirectories
<1>15. CASE Sweep(p)
    BY <1>15, NotDirectories DEF Sweep, Goto, Returns, disk, history, locals, AInv, IInv,
        TypeOK, NoDirectories
<1>16. CASE Reload(p)
    BY <1>16, NotDirectories DEF Reload, Goto, Returns, disk, history, locals, AInv, IInv,
        TypeOK, NoDirectories
<1>17. CASE Crash(p)
    BY <1>17, NotDirectories DEF Crash, Goto, disk, history, locals, AInv, IInv, TypeOK,
        NoDirectories
<1> QED BY <1>1, <1>2, <1>3, <1>4, <1>5, <1>6, <1>7, <1>8, <1>9, <1>10, <1>11, <1>12, <1>13,
        <1>14, <1>15, <1>16, <1>17 DEF Step

\* A run that is to write or restore has a file in hand.
LEMMA StepKept ==
    ASSUME AInv, LinksWork, NEW p \in Runs, Step(p) \/ Crash(p)
    PROVE  Kept'
<1>1. CASE ReadFragment(p)
    BY <1>1, NotDirectories DEF ReadFragment, Goto, Returns, disk, history, locals, AInv,
            IInv,
        TypeOK, Kept
<1>2. CASE DecideInstall(p)
    BY <1>2, NotDirectories DEF DecideInstall, Goto, Returns, Choose, disk, history, locals,
        AInv, IInv, TypeOK, Kept
<1>3. CASE Gate(p)
    BY <1>3, NotDirectories DEF Gate, Goto, Returns, Choose, disk, history, locals, AInv,
            IInv,
        TypeOK, Kept
<1>4. CASE Stop(p)
    BY <1>4, NotDirectories DEF Stop, Goto, Returns, disk, history, locals, AInv, IInv,
            TypeOK,
        Kept
<1>5. CASE Disable(p)
    BY <1>5, NotDirectories DEF Disable, Goto, Returns, disk, history, locals, AInv, IInv,
        TypeOK, Kept
<1>6. CASE Enable(p)
    BY <1>6, NotDirectories DEF Enable, Goto, Returns, disk, history, locals, AInv, IInv,
        TypeOK, Kept
<1>7. CASE Create(p)
    BY <1>7, NotDirectories DEF Create, Goto, Returns, Raced, disk, history, locals, AInv,
            IInv,
        TypeOK, Kept
<1>8. CASE Sync(p)
    BY <1>8, NotDirectories DEF Sync, Goto, Returns, disk, history, locals, AInv, IInv,
            TypeOK,
        Kept
<1>9. CASE Quarantine(p)
    BY <1>9, NotDirectories DEF Quarantine, Goto, Returns, Raced, disk, history, locals,
            AInv,
        IInv, TypeOK, Kept
<1>10. CASE Verify(p)
    BY <1>10, NotDirectories DEF Verify, Goto, Returns, disk, history, locals, AInv, IInv,
        TypeOK, Kept
<1>11. CASE Place(p)
    BY <1>11, NotDirectories DEF Place, Goto, Returns, disk, history, locals, AInv, IInv,
        TypeOK, Kept
<1>12. CASE Drop(p)
    BY <1>12, NotDirectories DEF Drop, Goto, Returns, Installs, disk, history, locals, AInv,
        IInv, TypeOK, Kept
<1>13. CASE RestoreLink(p)
    BY <1>13, NotDirectories DEF RestoreLink, Goto, Returns, disk, history, locals, AInv,
            IInv,
        TypeOK, Kept
<1>14. CASE RestoreUnlink(p)
    BY <1>14, NotDirectories DEF RestoreUnlink, Goto, Returns, Raced, disk, history, locals,
        AInv, IInv, TypeOK, Kept
<1>15. CASE Sweep(p)
    BY <1>15, NotDirectories DEF Sweep, Goto, Returns, disk, history, locals, AInv, IInv,
        TypeOK, Kept
<1>16. CASE Reload(p)
    BY <1>16, NotDirectories DEF Reload, Goto, Returns, disk, history, locals, AInv, IInv,
        TypeOK, Kept
<1>17. CASE Crash(p)
    BY <1>17, NotDirectories DEF Crash, Goto, disk, history, locals, AInv, IInv, TypeOK,
            Kept
<1> QED BY <1>1, <1>2, <1>3, <1>4, <1>5, <1>6, <1>7, <1>8, <1>9, <1>10, <1>11, <1>12, <1>13,
        <1>14, <1>15, <1>16, <1>17 DEF Step

\* A run that answers over a file it could not verify names it.
LEMMA StepNamed ==
    ASSUME AInv, LinksWork, NEW p \in Runs, Step(p) \/ Crash(p)
    PROVE  StrandedIsNamed'
<1>1. CASE ReadFragment(p)
    BY <1>1, NotDirectories DEF ReadFragment, Goto, Returns, disk, history, locals, AInv,
            IInv,
        TypeOK, NoDirectories, StrandedIsNamed, Ended, NamesQuarantine, Verified,
                NothingMoved,
        Unmoved, LinksWork, Happens
<1>2. CASE DecideInstall(p)
    BY <1>2, NotDirectories DEF DecideInstall, Goto, Returns, Choose, disk, history, locals,
        AInv, IInv, TypeOK, NoDirectories, StrandedIsNamed, Ended, NamesQuarantine,
                Verified,
        NothingMoved, Unmoved, LinksWork, Happens
<1>3. CASE Gate(p)
    BY <1>3, NotDirectories DEF Gate, Goto, Returns, Choose, disk, history, locals, AInv,
            IInv,
        TypeOK, NoDirectories, StrandedIsNamed, Ended, NamesQuarantine, Verified,
                NothingMoved,
        Unmoved, LinksWork, Happens
<1>4. CASE Stop(p)
    BY <1>4, NotDirectories DEF Stop, Goto, Returns, disk, history, locals, AInv, IInv,
            TypeOK,
        NoDirectories, StrandedIsNamed, Ended, NamesQuarantine, Verified, NothingMoved,
                Unmoved,
        LinksWork, Happens
<1>5. CASE Disable(p)
    BY <1>5, NotDirectories DEF Disable, Goto, Returns, disk, history, locals, AInv, IInv,
        TypeOK, NoDirectories, StrandedIsNamed, Ended, NamesQuarantine, Verified,
                NothingMoved,
        Unmoved, LinksWork, Happens
<1>6. CASE Enable(p)
    BY <1>6, NotDirectories DEF Enable, Goto, Returns, disk, history, locals, AInv, IInv,
        TypeOK, NoDirectories, StrandedIsNamed, Ended, NamesQuarantine, Verified,
                NothingMoved,
        Unmoved, LinksWork, Happens
<1>7. CASE Create(p)
    BY <1>7, NotDirectories DEF Create, Goto, Returns, Raced, disk, history, locals, AInv,
            IInv,
        TypeOK, NoDirectories, StrandedIsNamed, Ended, NamesQuarantine, Verified,
                NothingMoved,
        Unmoved, LinksWork, Happens
<1>8. CASE Sync(p)
    BY <1>8, NotDirectories DEF Sync, Goto, Returns, disk, history, locals, AInv, IInv,
            TypeOK,
        NoDirectories, StrandedIsNamed, Ended, NamesQuarantine, Verified, NothingMoved,
                Unmoved,
        LinksWork, Happens
<1>9. CASE Quarantine(p)
    BY <1>9, NotDirectories DEF Quarantine, Goto, Returns, Raced, disk, history, locals,
            AInv,
        IInv, TypeOK, NoDirectories, StrandedIsNamed, Ended, NamesQuarantine, Verified,
        NothingMoved, Unmoved, LinksWork, Happens
<1>10. CASE Verify(p)
    BY <1>10, NotDirectories DEF Verify, Goto, Returns, disk, history, locals, AInv, IInv,
        TypeOK, NoDirectories, StrandedIsNamed, Ended, NamesQuarantine, Verified,
                NothingMoved,
        Unmoved, LinksWork, Happens
<1>11. CASE Place(p)
    BY <1>11, NotDirectories DEF Place, Goto, Returns, disk, history, locals, AInv, IInv,
        TypeOK, NoDirectories, StrandedIsNamed, Ended, NamesQuarantine, Verified,
                NothingMoved,
        Unmoved, LinksWork, Happens
<1>12. CASE Drop(p)
    BY <1>12, NotDirectories DEF Drop, Goto, Returns, Installs, disk, history, locals, AInv,
        IInv, TypeOK, NoDirectories, StrandedIsNamed, Ended, NamesQuarantine, Verified,
        NothingMoved, Unmoved, LinksWork, Happens
<1>13. CASE RestoreLink(p)
    BY <1>13, NotDirectories DEF RestoreLink, Goto, Returns, disk, history, locals, AInv,
            IInv,
        TypeOK, NoDirectories, StrandedIsNamed, Ended, NamesQuarantine, Verified,
                NothingMoved,
        Unmoved, LinksWork, Happens
<1>14. CASE RestoreUnlink(p)
    BY <1>14, NotDirectories DEF RestoreUnlink, Goto, Returns, Raced, disk, history, locals,
        AInv, IInv, TypeOK, NoDirectories, StrandedIsNamed, Ended, NamesQuarantine,
                Verified,
        NothingMoved, Unmoved, LinksWork, Happens
<1>15. CASE Sweep(p)
    BY <1>15, NotDirectories DEF Sweep, Goto, Returns, disk, history, locals, AInv, IInv,
        TypeOK, NoDirectories, StrandedIsNamed, Ended, NamesQuarantine, Verified,
                NothingMoved,
        Unmoved, LinksWork, Happens
<1>16. CASE Reload(p)
    BY <1>16, NotDirectories DEF Reload, Goto, Returns, disk, history, locals, AInv, IInv,
        TypeOK, NoDirectories, StrandedIsNamed, Ended, NamesQuarantine, Verified,
                NothingMoved,
        Unmoved, LinksWork, Happens
<1>17. CASE Crash(p)
    BY <1>17, NotDirectories DEF Crash, Goto, disk, history, locals, AInv, IInv, TypeOK,
        NoDirectories, StrandedIsNamed, Ended, NamesQuarantine, Verified, NothingMoved,
                Unmoved,
        LinksWork, Happens
<1> QED BY <1>1, <1>2, <1>3, <1>4, <1>5, <1>6, <1>7, <1>8, <1>9, <1>10, <1>11, <1>12, <1>13,
        <1>14, <1>15, <1>16, <1>17 DEF Step

\* A run's step is its own.
LEMMA StepOthers ==
    ASSUME TypeOK, NEW p \in Runs, Step(p) \/ Crash(p)
    PROVE  /\ request' = request
           /\ \A q \in Runs \ {p} : pc'[q] = pc[q] /\ result'[q] = result[q]
<1>1. CASE ReadFragment(p)
    BY <1>1, NotDirectories DEF ReadFragment, Goto, Returns, history, TypeOK
<1>2. CASE DecideInstall(p)
    BY <1>2, NotDirectories DEF DecideInstall, Goto, Returns, Choose, history, TypeOK
<1>3. CASE Gate(p)
    BY <1>3, NotDirectories DEF Gate, Goto, Returns, Choose, history, TypeOK
<1>4. CASE Stop(p)
    BY <1>4, NotDirectories DEF Stop, Goto, Returns, history, TypeOK
<1>5. CASE Disable(p)
    BY <1>5, NotDirectories DEF Disable, Goto, Returns, history, TypeOK
<1>6. CASE Enable(p)
    BY <1>6, NotDirectories DEF Enable, Goto, Returns, history, TypeOK
<1>7. CASE Create(p)
    BY <1>7, NotDirectories DEF Create, Goto, Returns, Raced, history, TypeOK
<1>8. CASE Sync(p)
    BY <1>8, NotDirectories DEF Sync, Goto, Returns, history, TypeOK
<1>9. CASE Quarantine(p)
    BY <1>9, NotDirectories DEF Quarantine, Goto, Returns, Raced, history, TypeOK
<1>10. CASE Verify(p)
    BY <1>10, NotDirectories DEF Verify, Goto, Returns, history, TypeOK
<1>11. CASE Place(p)
    BY <1>11, NotDirectories DEF Place, Goto, Returns, history, TypeOK
<1>12. CASE Drop(p)
    BY <1>12, NotDirectories DEF Drop, Goto, Returns, Installs, history, TypeOK
<1>13. CASE RestoreLink(p)
    BY <1>13, NotDirectories DEF RestoreLink, Goto, Returns, history, TypeOK
<1>14. CASE RestoreUnlink(p)
    BY <1>14, NotDirectories DEF RestoreUnlink, Goto, Returns, Raced, history, TypeOK
<1>15. CASE Sweep(p)
    BY <1>15, NotDirectories DEF Sweep, Goto, Returns, history, TypeOK
<1>16. CASE Reload(p)
    BY <1>16, NotDirectories DEF Reload, Goto, Returns, history, TypeOK
<1>17. CASE Crash(p)
    BY <1>17, NotDirectories DEF Crash, Goto, history, TypeOK
<1> QED BY <1>1, <1>2, <1>3, <1>4, <1>5, <1>6, <1>7, <1>8, <1>9, <1>10, <1>11, <1>12, <1>13,
        <1>14, <1>15, <1>16, <1>17 DEF Step

\* A run that has the unit in hand keeps it, or puts it back.
LEMMA StepInHand ==
    ASSUME AInv, LinksWork, NEW p \in Runs, Step(p) \/ Crash(p)
    PROVE  /\ removed => removed'
           /\ fragment # Nothing /\ fragment' = Nothing => InHand(p)'
           /\ InHand(p) => InHand(p)' \/ removed' \/ fragment' # Nothing
<1>1. CASE ReadFragment(p)
    BY <1>1, NotDirectories DEF ReadFragment, Goto, Returns, disk, history, locals, AInv,
            IInv,
        TypeOK, NoDirectories, Kept, InHand, NamesQuarantine, LinksWork, Happens
<1>2. CASE DecideInstall(p)
    BY <1>2, NotDirectories DEF DecideInstall, Goto, Returns, disk, history, locals,
        AInv, IInv, TypeOK, NoDirectories, Kept, InHand, NamesQuarantine, LinksWork, Happens
<1>3. CASE Gate(p)
    BY <1>3, NotDirectories DEF Gate, Goto, Returns, disk, history, locals, AInv, IInv,
        TypeOK, NoDirectories, Kept, InHand, NamesQuarantine, LinksWork, Happens
<1>4. CASE Stop(p)
    BY <1>4, NotDirectories DEF Stop, Goto, Returns, disk, history, locals, AInv, IInv,
            TypeOK,
        NoDirectories, Kept, InHand, NamesQuarantine, LinksWork, Happens
<1>5. CASE Disable(p)
    BY <1>5, NotDirectories DEF Disable, Goto, Returns, disk, history, locals, AInv, IInv,
        TypeOK, NoDirectories, Kept, InHand, NamesQuarantine, LinksWork, Happens
<1>6. CASE Enable(p)
    BY <1>6, NotDirectories DEF Enable, Goto, Returns, disk, history, locals, AInv, IInv,
        TypeOK, NoDirectories, Kept, InHand, NamesQuarantine, LinksWork, Happens
<1>7. CASE Create(p)
    BY <1>7, NotDirectories DEF Create, Goto, Returns, Raced, disk, history, locals, AInv,
            IInv,
        TypeOK, NoDirectories, Kept, InHand, NamesQuarantine, LinksWork, Happens
<1>8. CASE Sync(p)
    BY <1>8, NotDirectories DEF Sync, Goto, Returns, disk, history, locals, AInv, IInv,
            TypeOK,
        NoDirectories, Kept, InHand, NamesQuarantine, LinksWork, Happens
<1>9. CASE Quarantine(p)
    BY <1>9, NotDirectories DEF Quarantine, Goto, Returns, Raced, disk, history, locals,
            AInv,
        IInv, TypeOK, NoDirectories, Kept, InHand, NamesQuarantine, LinksWork, Happens
<1>10. CASE Verify(p)
    <2>1. UNCHANGED <<fragment, removed, request, result>> /\ pc[p] = "verify"
        BY <1>10 DEF Verify, Goto, disk, history
    <2>2. \/ pc'[p] \in {"place", "restore"}
          \/ pc'[p] = "drop" /\ ~Installs(p)
        BY <1>10 DEF Verify, Goto, AInv, IInv, TypeOK
    <2>3. InHand(p)'
        BY <2>1, <2>2 DEF InHand, Installs
    <2> QED BY <2>1, <2>3
<1>11. CASE Place(p)
    BY <1>11, NotDirectories DEF Place, Goto, Returns, disk, history, locals, AInv, IInv,
        TypeOK, NoDirectories, Kept, InHand, NamesQuarantine, LinksWork, Happens
<1>12. CASE Drop(p)
    BY <1>12, NotDirectories DEF Drop, Goto, Returns, Installs, disk, history, locals, AInv,
        IInv, TypeOK, NoDirectories, Kept, InHand, NamesQuarantine, LinksWork, Happens
<1>13. CASE RestoreLink(p)
    BY <1>13, NotDirectories DEF RestoreLink, Goto, Returns, disk, history, locals, AInv,
            IInv,
        TypeOK, NoDirectories, Kept, InHand, NamesQuarantine, LinksWork, Happens
<1>14. CASE RestoreUnlink(p)
    BY <1>14, NotDirectories DEF RestoreUnlink, Goto, Returns, Raced, disk, history, locals,
        AInv, IInv, TypeOK, NoDirectories, Kept, InHand, NamesQuarantine, LinksWork, Happens
<1>15. CASE Sweep(p)
    BY <1>15, NotDirectories DEF Sweep, Goto, Returns, disk, history, locals, AInv, IInv,
        TypeOK, NoDirectories, Kept, InHand, NamesQuarantine, LinksWork, Happens
<1>16. CASE Reload(p)
    BY <1>16, NotDirectories DEF Reload, Goto, Returns, disk, history, locals, AInv, IInv,
        TypeOK, NoDirectories, Kept, InHand, NamesQuarantine, LinksWork, Happens
<1>17. CASE Crash(p)
    BY <1>17, NotDirectories DEF Crash, Goto, disk, history, locals, AInv, IInv, TypeOK,
        NoDirectories, Kept, InHand, NamesQuarantine, LinksWork, Happens
<1> QED BY <1>1, <1>2, <1>3, <1>4, <1>5, <1>6, <1>7, <1>8, <1>9, <1>10, <1>11, <1>12, <1>13,
        <1>14, <1>15, <1>16, <1>17 DEF Step

\* The unit is missing only while a run has it in hand, or when somebody took it.
LEMMA StepAccounted ==
    ASSUME AInv, LinksWork, NEW p \in Runs, Step(p) \/ Crash(p)
    PROVE  Accounted'
<1>1. \A q \in Runs \ {p} : InHand(q) => InHand(q)'
    BY StepOthers DEF AInv, IInv, InHand, Installs
<1>2. CASE fragment # Nothing
    BY <1>2, StepInHand DEF Accounted
<1>3. CASE fragment = Nothing /\ removed
    BY <1>3, StepInHand DEF Accounted
<1>4. ASSUME NEW q \in Runs, InHand(q) PROVE Accounted'
    <2>1. CASE q = p
        BY <1>4, <2>1, StepInHand DEF Accounted
    <2>2. CASE q # p
        BY <1>1, <1>4, <2>2 DEF Accounted
    <2> QED BY <2>1, <2>2
<1> QED BY <1>2, <1>3, <1>4 DEF AInv, Accounted

\* The administrator's step: a unit they take away was taken on purpose.
LEMMA AdministerAccounts ==
    ASSUME AInv, LinksWork, Administer
    PROVE  NoDirectories' /\ Kept' /\ StrandedIsNamed' /\ Accounted'
<1> USE DEF AInv, locals
<1>1. CASE PutFile
    <2>1. ~Happens("directories")
        BY DEF LinksWork, Happens
    <2>2. fragment' \in HandWritten(edits + 1)
        BY <1>1 DEF PutFile
    <2>3. Nothing.kind = "nothing"
        BY DEF Nothing
    <2>4. \/ fragment.kind \in Marked /\ fragment' = [fragment EXCEPT !.edit = edits + 1]
          \/ \E k \in {"other", "unmarked", "symlink"} :
                fragment' = [kind |-> k, spec |-> "none", version |-> "none",
                        edit |-> edits + 1]
        BY <2>1, <2>2 DEF HandWritten
    <2>5. fragment'.kind \in Marked \cup {"unmarked", "symlink"}
        <3>1. CASE fragment.kind \in Marked /\ fragment' = [fragment EXCEPT !.edit = edits + 1]
            <4>1. fragment'.kind = fragment.kind
                BY <3>1 DEF IInv, TypeOK, File
            <4> QED BY <3>1, <4>1
        <3>2. ASSUME NEW k \in {"other", "unmarked", "symlink"},
                     fragment' = [kind |-> k, spec |-> "none", version |-> "none",
                                  edit |-> edits + 1]
              PROVE  fragment'.kind \in Marked \cup {"unmarked", "symlink"}
            <4>1. fragment'.kind = k
                BY <3>2
            <4> QED BY <4>1 DEF Marked
        <3> QED BY <2>4, <3>1, <3>2
    <2>6. fragment'.kind # "directory" /\ fragment' # Nothing
        BY <2>3, <2>5 DEF Marked
    <2> QED BY <1>1, <2>6
            DEF PutFile, NoDirectories, Kept, StrandedIsNamed, Ended, Accounted
<1>2. CASE RemoveFile
    BY <1>2, NotDirectories
    DEF RemoveFile, NoDirectories, Kept, StrandedIsNamed, Ended, Accounted, IInv
<1>3. CASE AddDropin
    BY <1>3 DEF AddDropin, NoDirectories, Kept, StrandedIsNamed, Ended, Accounted, InHand,
            Installs
<1> QED BY <1>1, <1>2, <1>3 DEF Administer

\* The second invariant holds in every behaviour in which links can be made.
LEMMA Accounts ==
    ASSUME LinksWork
    PROVE  Spec => []AInv
<1>1. Init => AInv
    <2> SUFFICES ASSUME Init PROVE AInv
        OBVIOUS
    <2>1. fragment.kind # "directory" /\ Nothing.kind # "directory"
        BY DEF Init, Nothing, Unreadable, generated
    <2>2. IInv /\ NoDirectories /\ Kept /\ StrandedIsNamed
        BY <2>1, InitKeeps DEF Init, NoDirectories, Kept, StrandedIsNamed, Ended
    <2>3. Accounted
        BY DEF Init, Accounted
    <2> QED BY <2>2, <2>3 DEF AInv
<1>2. AInv /\ [Next]_vars => AInv'
    <2> SUFFICES ASSUME AInv, [Next]_vars PROVE AInv'
        OBVIOUS
    <2>1. IInv'
        BY NextKeeps DEF AInv
    <2>2. ASSUME NEW p \in Runs, Step(p) \/ Crash(p) PROVE AInv'
        BY <2>1, <2>2, LinksWork, StepDirectories, StepKept, StepNamed,
                StepAccounted DEF AInv
    <2>3. CASE Administer
        BY <2>1, <2>3, LinksWork, AdministerAccounts DEF AInv
    <2>4. CASE UNCHANGED vars
        BY <2>1, <2>4 DEF vars, disk, history, locals, AInv, NoDirectories, Kept,
                          StrandedIsNamed, Ended, Accounted, InHand, Installs
    <2> QED BY <2>2, <2>3, <2>4 DEF Next
<1> QED BY <1>1, <1>2, PTL DEF Spec

\* No failed install is an uninstall: the unit is in place, taken away on
\* purpose, or where an answer says.
THEOREM NoSilentUninstallAlways ==
    ASSUME LinksWork
    PROVE  Spec => []NoSilentUninstall
<1>1. AInv => NoSilentUninstall
    BY DEF AInv, Accounted, NoSilentUninstall, AllEnded, Ended, InHand
<1> QED BY <1>1, Accounts, LinksWork, PTL

\* A file a run could not put back is named in its answer.
THEOREM StrandedIsNamedAlways ==
    ASSUME LinksWork
    PROVE  Spec => []StrandedIsNamed
<1>1. AInv => StrandedIsNamed
    BY DEF AInv
<1> QED BY <1>1, Accounts, LinksWork, PTL

-----------------------------------------------------------------------------
(* Installs that race. Once a unit that was asked for is in place, it stays  *)
(* in place or in the hands of a run that will write its own or put it back, *)
(* unless that run says it did not.                                          *)

OnlyInstalls == edits = 0 /\ \A p \in Runs : Installs(p)

Wanted(f) == \E p \in Runs : f = desired(p)

\* A run whose quarantine holds a unit that nothing stands in for yet.
Holding == {"verify", "place", "restore"}

Wrote(p) == pc[p] \in {"sync", "sync_over", "drop", "sweep", "reload"} \/ result[p] = "done"

\* A run answers at its end.
Answered == \A p \in Runs : pc[p] # "ended" => result[p] = "none"

Delivered == \/ Wanted(fragment)
             \/ \E p \in Runs : pc[p] \in Holding /\ Wanted(backup[p])
             \/ \E p \in Runs : pc[p] = "crashed" \/ result[p] \in Displaced

OnInstallsPath == \A p \in Runs : pc[p] \notin {"stop", "disable", "enable"}

SInv == /\ IInv /\ Answered
        /\ OnlyInstalls => OnInstallsPath /\ \A p \in Runs : Wrote(p) => Delivered

\* A step concerns the run that takes it, and that run was at work.
LEMMA StepConcerns ==
    ASSUME TypeOK, NEW p \in Runs, Step(p) \/ Crash(p)
    PROVE  /\ pc[p] \in Working
           /\ request' = request /\ edits' = edits
           /\ \A q \in Runs : q # p => /\ pc'[q] = pc[q] /\ backup'[q] = backup[q]
                                       /\ result'[q] = result[q]
<1>1. CASE ReadFragment(p)
    BY <1>1 DEF ReadFragment, Goto, Returns, disk, history, locals, TypeOK, Working,
        Installs
<1>2. CASE DecideInstall(p)
    BY <1>2 DEF DecideInstall, Goto, Returns, Choose, disk, history, locals, TypeOK,
        Working, Installs
<1>3. CASE Gate(p)
    BY <1>3 DEF Gate, Goto, Returns, Choose, disk, history, locals, TypeOK, Working,
        Installs
<1>4. CASE Stop(p)
    BY <1>4 DEF Stop, Goto, Returns, disk, history, locals, TypeOK, Working,
        Installs
<1>5. CASE Disable(p)
    BY <1>5 DEF Disable, Goto, Returns, disk, history, locals, TypeOK, Working,
        Installs
<1>6. CASE Enable(p)
    BY <1>6 DEF Enable, Goto, Returns, disk, history, locals, TypeOK, Working,
        Installs
<1>7. CASE Create(p)
    BY <1>7 DEF Create, Goto, Returns, Raced, disk, history, locals, TypeOK,
        Working, Installs
<1>8. CASE Sync(p)
    BY <1>8 DEF Sync, Goto, Returns, disk, history, locals, TypeOK, Working,
        Installs
<1>9. CASE Quarantine(p)
    BY <1>9 DEF Quarantine, Goto, Returns, Raced, disk, history, locals, TypeOK,
        Working, Installs
<1>10. CASE Verify(p)
    BY <1>10 DEF Verify, Goto, Returns, disk, history, locals, TypeOK, Working,
        Installs
<1>11. CASE Place(p)
    BY <1>11 DEF Place, Goto, Returns, disk, history, locals, TypeOK, Working,
        Installs
<1>12. CASE Drop(p)
    BY <1>12 DEF Drop, Goto, Returns, disk, history, locals, TypeOK, Working,
        Installs
<1>13. CASE RestoreLink(p)
    BY <1>13 DEF RestoreLink, Goto, Returns, disk, history, locals, TypeOK, Working,
        Installs
<1>14. CASE RestoreUnlink(p)
    BY <1>14 DEF RestoreUnlink, Goto, Returns, Raced, disk, history, locals, TypeOK,
        Working, Installs
<1>15. CASE Sweep(p)
    BY <1>15 DEF Sweep, Goto, Returns, disk, history, locals, TypeOK, Working,
        Installs
<1>16. CASE Reload(p)
    BY <1>16 DEF Reload, Goto, Returns, disk, history, locals, TypeOK, Working,
        Installs
<1>17. CASE Crash(p)
    BY <1>17 DEF Crash, Goto, disk, history, locals, TypeOK, Working, Installs
<1> QED BY <1>1, <1>2, <1>3, <1>4, <1>5, <1>6, <1>7, <1>8, <1>9, <1>10, <1>11, <1>12,
        <1>13, <1>14, <1>15, <1>16, <1>17 DEF Step

\* A run that has not ended has not answered.
LEMMA StepAnswers ==
    ASSUME TypeOK, Answered, NEW p \in Runs, Step(p) \/ Crash(p)
    PROVE  Answered'
<1>1. CASE ReadFragment(p)
    BY <1>1 DEF ReadFragment, Goto, Returns, disk, history, locals, TypeOK,
        Answered, Working, Installs
<1>2. CASE DecideInstall(p)
    BY <1>2 DEF DecideInstall, Goto, Returns, Choose, disk, history, locals, TypeOK,
        Answered, Working, Installs
<1>3. CASE Gate(p)
    BY <1>3 DEF Gate, Goto, Returns, Choose, disk, history, locals, TypeOK,
        Answered, Working, Installs
<1>4. CASE Stop(p)
    BY <1>4 DEF Stop, Goto, Returns, disk, history, locals, TypeOK, Answered,
        Working, Installs
<1>5. CASE Disable(p)
    BY <1>5 DEF Disable, Goto, Returns, disk, history, locals, TypeOK, Answered,
        Working, Installs
<1>6. CASE Enable(p)
    BY <1>6 DEF Enable, Goto, Returns, disk, history, locals, TypeOK, Answered,
        Working, Installs
<1>7. CASE Create(p)
    BY <1>7 DEF Create, Goto, Returns, Raced, disk, history, locals, TypeOK,
        Answered, Working, Installs
<1>8. CASE Sync(p)
    BY <1>8 DEF Sync, Goto, Returns, disk, history, locals, TypeOK, Answered,
        Working, Installs
<1>9. CASE Quarantine(p)
    BY <1>9 DEF Quarantine, Goto, Returns, Raced, disk, history, locals, TypeOK,
        Answered, Working, Installs
<1>10. CASE Verify(p)
    BY <1>10 DEF Verify, Goto, Returns, disk, history, locals, TypeOK, Answered,
        Working, Installs
<1>11. CASE Place(p)
    BY <1>11 DEF Place, Goto, Returns, disk, history, locals, TypeOK, Answered,
        Working, Installs
<1>12. CASE Drop(p)
    BY <1>12 DEF Drop, Goto, Returns, disk, history, locals, TypeOK, Answered,
        Working, Installs
<1>13. CASE RestoreLink(p)
    BY <1>13 DEF RestoreLink, Goto, Returns, disk, history, locals, TypeOK,
        Answered, Working, Installs
<1>14. CASE RestoreUnlink(p)
    BY <1>14 DEF RestoreUnlink, Goto, Returns, Raced, disk, history, locals, TypeOK,
        Answered, Working, Installs
<1>15. CASE Sweep(p)
    BY <1>15 DEF Sweep, Goto, Returns, disk, history, locals, TypeOK, Answered,
        Working, Installs
<1>16. CASE Reload(p)
    BY <1>16 DEF Reload, Goto, Returns, disk, history, locals, TypeOK, Answered,
        Working, Installs
<1>17. CASE Crash(p)
    BY <1>17 DEF Crash, Goto, disk, history, locals, TypeOK, Answered, Working,
        Installs
<1> QED BY <1>1, <1>2, <1>3, <1>4, <1>5, <1>6, <1>7, <1>8, <1>9, <1>10, <1>11, <1>12,
        <1>13, <1>14, <1>15, <1>16, <1>17 DEF Step

\* What an install's step does to the unit: it puts a wanted one in place, says
\* that it has displaced one, or moves at most the one it takes or gives back.
LEMMA StepHands ==
    ASSUME TypeOK, NEW p \in Runs, Installs(p), Step(p) \/ Crash(p)
    PROVE  \/ fragment' = desired(p)
           \/ pc'[p] = "crashed" \/ result'[p] \in Displaced
           \/ fragment' = fragment /\ pc[p] \notin Holding
           \/ pc[p] \notin Holding /\ pc'[p] \in Holding /\ backup'[p] = fragment
           \/ /\ fragment' = fragment /\ backup'[p] = backup[p]
              /\ pc[p] \in Holding /\ pc'[p] \in Holding
           \/ pc[p] = "restore" /\ fragment = Nothing /\ fragment' = backup[p]
<1>1. CASE ReadFragment(p)
    BY <1>1 DEF ReadFragment, Goto, Returns, disk, history, locals, TypeOK, Holding,
        Displaced, Installs
<1>2. CASE DecideInstall(p)
    BY <1>2 DEF DecideInstall, Goto, Returns, Choose, disk, history, locals, TypeOK,
        Holding, Displaced, Installs
<1>3. CASE Gate(p)
    BY <1>3 DEF Gate, Goto, Returns, Choose, disk, history, locals, TypeOK, Holding,
        Displaced, Installs
<1>4. CASE Stop(p)
    BY <1>4 DEF Stop, Goto, Returns, disk, history, locals, TypeOK, Holding,
        Displaced, Installs
<1>5. CASE Disable(p)
    BY <1>5 DEF Disable, Goto, Returns, disk, history, locals, TypeOK, Holding,
        Displaced, Installs
<1>6. CASE Enable(p)
    BY <1>6 DEF Enable, Goto, Returns, disk, history, locals, TypeOK, Holding,
        Displaced, Installs
<1>7. CASE Create(p)
    BY <1>7 DEF Create, Goto, Returns, Raced, disk, history, locals, TypeOK,
        Holding, Displaced, Installs
<1>8. CASE Sync(p)
    BY <1>8 DEF Sync, Goto, Returns, disk, history, locals, TypeOK, Holding,
        Displaced, Installs
<1>9. CASE Quarantine(p)
    BY <1>9 DEF Quarantine, Goto, Returns, Raced, disk, history, locals, TypeOK,
        Holding, Displaced, Installs
<1>10. CASE Verify(p)
    BY <1>10 DEF Verify, Goto, Returns, disk, history, locals, TypeOK, Holding,
        Displaced, Installs
<1>11. CASE Place(p)
    BY <1>11 DEF Place, Goto, Returns, disk, history, locals, TypeOK, Holding,
        Displaced, Installs
<1>12. CASE Drop(p)
    BY <1>12 DEF Drop, Goto, Returns, disk, history, locals, TypeOK, Holding,
        Displaced, Installs
<1>13. CASE RestoreLink(p)
    BY <1>13 DEF RestoreLink, Goto, Returns, disk, history, locals, TypeOK, Holding,
        Displaced, Installs
<1>14. CASE RestoreUnlink(p)
    BY <1>14 DEF RestoreUnlink, Goto, Returns, Raced, disk, history, locals, TypeOK,
        Holding, Displaced, Installs
<1>15. CASE Sweep(p)
    BY <1>15 DEF Sweep, Goto, Returns, disk, history, locals, TypeOK, Holding,
        Displaced, Installs
<1>16. CASE Reload(p)
    BY <1>16 DEF Reload, Goto, Returns, disk, history, locals, TypeOK, Holding,
        Displaced, Installs
<1>17. CASE Crash(p)
    BY <1>17 DEF Crash, Goto, disk, history, locals, TypeOK, Holding, Displaced,
        Installs
<1> QED BY <1>1, <1>2, <1>3, <1>4, <1>5, <1>6, <1>7, <1>8, <1>9, <1>10, <1>11, <1>12,
        <1>13, <1>14, <1>15, <1>16, <1>17 DEF Step

\* An install has written when it has put its unit in place.
LEMMA StepWrites ==
    ASSUME TypeOK, Answered, OnInstallsPath, NEW p \in Runs, Installs(p), Step(p) \/ Crash(p),
           Wrote(p)'
    PROVE  Wrote(p) \/ fragment' = desired(p)
<1>1. CASE ReadFragment(p)
    BY <1>1, DecisionType DEF ReadFragment, Goto, Returns, disk, history, locals,
        TypeOK, Wrote, Installs, OnInstallsPath, Answered
<1>2. CASE DecideInstall(p)
    BY <1>2, DecisionType DEF DecideInstall, Goto, Returns, Choose, disk, history,
        locals, TypeOK, Wrote, Installs, OnInstallsPath, Answered, Outcomes,
        Writing, Refusing
<1>3. CASE Gate(p)
    BY <1>3, DecisionType DEF Gate, Goto, Returns, Choose, disk, history, locals,
        TypeOK, Wrote, Installs, OnInstallsPath, Answered
<1>4. CASE Stop(p)
    BY <1>4, DecisionType DEF Stop, Goto, Returns, disk, history, locals, TypeOK,
        Wrote, Installs, OnInstallsPath, Answered
<1>5. CASE Disable(p)
    BY <1>5, DecisionType DEF Disable, Goto, Returns, disk, history, locals, TypeOK,
        Wrote, Installs, OnInstallsPath, Answered
<1>6. CASE Enable(p)
    BY <1>6, DecisionType DEF Enable, Goto, Returns, disk, history, locals, TypeOK,
        Wrote, Installs, OnInstallsPath, Answered
<1>7. CASE Create(p)
    BY <1>7, DecisionType DEF Create, Goto, Returns, Raced, disk, history, locals,
        TypeOK, Wrote, Installs, OnInstallsPath, Answered
<1>8. CASE Sync(p)
    BY <1>8, DecisionType DEF Sync, Goto, Returns, disk, history, locals, TypeOK,
        Wrote, Installs, OnInstallsPath, Answered
<1>9. CASE Quarantine(p)
    BY <1>9, DecisionType DEF Quarantine, Goto, Returns, Raced, disk, history,
        locals, TypeOK, Wrote, Installs, OnInstallsPath, Answered
<1>10. CASE Verify(p)
    BY <1>10, DecisionType DEF Verify, Goto, Returns, disk, history, locals, TypeOK,
        Wrote, Installs, OnInstallsPath, Answered
<1>11. CASE Place(p)
    BY <1>11, DecisionType DEF Place, Goto, Returns, disk, history, locals, TypeOK,
        Wrote, Installs, OnInstallsPath, Answered
<1>12. CASE Drop(p)
    BY <1>12, DecisionType DEF Drop, Goto, Returns, disk, history, locals, TypeOK,
        Wrote, Installs, OnInstallsPath, Answered
<1>13. CASE RestoreLink(p)
    BY <1>13, DecisionType DEF RestoreLink, Goto, Returns, disk, history, locals,
        TypeOK, Wrote, Installs, OnInstallsPath, Answered
<1>14. CASE RestoreUnlink(p)
    BY <1>14, DecisionType DEF RestoreUnlink, Goto, Returns, Raced, disk, history,
        locals, TypeOK, Wrote, Installs, OnInstallsPath, Answered
<1>15. CASE Sweep(p)
    BY <1>15, DecisionType DEF Sweep, Goto, Returns, disk, history, locals, TypeOK,
        Wrote, Installs, OnInstallsPath, Answered
<1>16. CASE Reload(p)
    BY <1>16, DecisionType DEF Reload, Goto, Returns, disk, history, locals, TypeOK,
        Wrote, Installs, OnInstallsPath, Answered
<1>17. CASE Crash(p)
    BY <1>17, DecisionType DEF Crash, Goto, disk, history, locals, TypeOK, Wrote,
        Installs, OnInstallsPath, Answered
<1> QED BY <1>1, <1>2, <1>3, <1>4, <1>5, <1>6, <1>7, <1>8, <1>9, <1>10, <1>11, <1>12,
        <1>13, <1>14, <1>15, <1>16, <1>17 DEF Step

\* An install does not go the way of the other verbs.
LEMMA StepOnPath ==
    ASSUME TypeOK, OnInstallsPath, NEW p \in Runs, Installs(p), Step(p) \/ Crash(p)
    PROVE  OnInstallsPath'
<1>1. CASE ReadFragment(p)
    BY <1>1 DEF ReadFragment, Goto, Returns, disk, history, locals, TypeOK,
        Installs, OnInstallsPath
<1>2. CASE DecideInstall(p)
    BY <1>2 DEF DecideInstall, Goto, Returns, Choose, disk, history, locals, TypeOK,
        Installs, OnInstallsPath
<1>3. CASE Gate(p)
    BY <1>3 DEF Gate, Goto, Returns, Choose, disk, history, locals, TypeOK,
        Installs, OnInstallsPath
<1>4. CASE Stop(p)
    BY <1>4 DEF Stop, Goto, Returns, disk, history, locals, TypeOK, Installs,
        OnInstallsPath
<1>5. CASE Disable(p)
    BY <1>5 DEF Disable, Goto, Returns, disk, history, locals, TypeOK, Installs,
        OnInstallsPath
<1>6. CASE Enable(p)
    BY <1>6 DEF Enable, Goto, Returns, disk, history, locals, TypeOK, Installs,
        OnInstallsPath
<1>7. CASE Create(p)
    BY <1>7 DEF Create, Goto, Returns, Raced, disk, history, locals, TypeOK,
        Installs, OnInstallsPath
<1>8. CASE Sync(p)
    BY <1>8 DEF Sync, Goto, Returns, disk, history, locals, TypeOK, Installs,
        OnInstallsPath
<1>9. CASE Quarantine(p)
    BY <1>9 DEF Quarantine, Goto, Returns, Raced, disk, history, locals, TypeOK,
        Installs, OnInstallsPath
<1>10. CASE Verify(p)
    BY <1>10 DEF Verify, Goto, Returns, disk, history, locals, TypeOK, Installs,
        OnInstallsPath
<1>11. CASE Place(p)
    BY <1>11 DEF Place, Goto, Returns, disk, history, locals, TypeOK, Installs,
        OnInstallsPath
<1>12. CASE Drop(p)
    BY <1>12 DEF Drop, Goto, Returns, disk, history, locals, TypeOK, Installs,
        OnInstallsPath
<1>13. CASE RestoreLink(p)
    BY <1>13 DEF RestoreLink, Goto, Returns, disk, history, locals, TypeOK,
        Installs, OnInstallsPath
<1>14. CASE RestoreUnlink(p)
    BY <1>14 DEF RestoreUnlink, Goto, Returns, Raced, disk, history, locals, TypeOK,
        Installs, OnInstallsPath
<1>15. CASE Sweep(p)
    BY <1>15 DEF Sweep, Goto, Returns, disk, history, locals, TypeOK, Installs,
        OnInstallsPath
<1>16. CASE Reload(p)
    BY <1>16 DEF Reload, Goto, Returns, disk, history, locals, TypeOK, Installs,
        OnInstallsPath
<1>17. CASE Crash(p)
    BY <1>17 DEF Crash, Goto, disk, history, locals, TypeOK, Installs,
        OnInstallsPath
<1> QED BY <1>1, <1>2, <1>3, <1>4, <1>5, <1>6, <1>7, <1>8, <1>9, <1>10, <1>11, <1>12,
        <1>13, <1>14, <1>15, <1>16, <1>17 DEF Step

\* What a run asks for does not change.
LEMMA AskedStays ==
    ASSUME request' = request
    PROVE  /\ \A p \in Runs : Installs(p)' <=> Installs(p)
           /\ \A f : (\E p \in Runs : f = desired(p)') <=> Wanted(f)
BY DEF Installs, Wanted, desired

\* The unit that was asked for does not get lost.
LEMMA StepSettles ==
    ASSUME TypeOK, Answered, OnlyInstalls, Delivered, NEW p \in Runs, Step(p) \/ Crash(p)
    PROVE  Delivered'
<1>1. /\ pc[p] \in Working /\ request' = request
      /\ \A q \in Runs : q # p => /\ pc'[q] = pc[q] /\ backup'[q] = backup[q]
                                  /\ result'[q] = result[q]
    BY StepConcerns
<1>2. ASSUME NEW f PROVE Wanted(f)' <=> Wanted(f')
    BY <1>1 DEF Wanted, desired
<1>3. result[p] = "none" /\ pc[p] # "crashed"
    BY <1>1 DEF Answered, Working
<1>4. ~Wanted(Nothing)
    BY NotDirectories DEF Wanted
<1>5. Wanted(fragment) \/ (\E q \in Runs : pc[q] \in Holding /\ Wanted(backup[q]))
      => Delivered'
    <2> SUFFICES ASSUME \/ Wanted(fragment)
                        \/ \E q \in Runs : pc[q] \in Holding /\ Wanted(backup[q])
                 PROVE  Delivered'
        OBVIOUS
    <2>1. CASE fragment' = desired(p)
        BY <2>1, <1>1 DEF Delivered, Wanted, desired
    <2>2. CASE pc'[p] = "crashed" \/ result'[p] \in Displaced
        BY <2>2 DEF Delivered
    <2>3. CASE fragment' = fragment /\ pc[p] \notin Holding
        BY <2>3, <1>1 DEF Delivered, Wanted, desired
    <2>4. CASE pc[p] \notin Holding /\ pc'[p] \in Holding /\ backup'[p] = fragment
        BY <2>4, <1>1 DEF Delivered, Wanted, desired
    <2>5. CASE /\ fragment' = fragment /\ backup'[p] = backup[p]
               /\ pc[p] \in Holding /\ pc'[p] \in Holding
        BY <2>5, <1>1 DEF Delivered, Wanted, desired
    <2>6. CASE pc[p] = "restore" /\ fragment = Nothing /\ fragment' = backup[p]
        BY <2>6, <1>1, <1>4 DEF Delivered, Wanted, desired
    <2> QED BY <2>1, <2>2, <2>3, <2>4, <2>5, <2>6, StepHands DEF OnlyInstalls
<1>6. ASSUME NEW q \in Runs, pc[q] = "crashed" \/ result[q] \in Displaced PROVE Delivered'
    <2>1. q # p
        BY <1>3, <1>6 DEF Displaced
    <2> QED BY <1>1, <1>6, <2>1 DEF Delivered
<1>7. \/ Wanted(fragment) \/ (\E q \in Runs : pc[q] \in Holding /\ Wanted(backup[q]))
      \/ \E q \in Runs : pc[q] = "crashed" \/ result[q] \in Displaced
    BY DEF Delivered
<1> QED BY <1>5, <1>6, <1>7

\* The invariant of the racing installs holds in every behaviour.
LEMMA Settles == Spec => []SInv
<1>1. Init => SInv
    BY InitKeeps DEF Init, IInv, SInv, Answered, OnInstallsPath, Wrote
<1>2. SInv /\ [Next]_vars => SInv'
    <2> SUFFICES ASSUME SInv, [Next]_vars PROVE SInv'
        OBVIOUS
    <2>1. CASE UNCHANGED vars
        BY <2>1, NextKeeps DEF vars, disk, history, locals, SInv, Answered, OnlyInstalls,
            OnInstallsPath, Wrote, Delivered, Installs, Wanted, desired
    <2>2. ASSUME NEW p \in Runs, Step(p) \/ Crash(p) PROVE SInv'
        <3>1. IInv' /\ Answered'
            BY <2>2, NextKeeps, StepAnswers DEF SInv, IInv, Next
        <3>2. ASSUME OnlyInstalls' PROVE OnlyInstalls
            BY <2>2, <3>2, StepConcerns DEF OnlyInstalls, Installs, SInv, IInv
        <3>3. ASSUME OnlyInstalls', NEW q \in Runs, Wrote(q)' PROVE Delivered'
            <4>1. CASE Wrote(q)
                BY <4>1, <3>2, <3>3, <2>2, StepSettles DEF SInv, IInv
            <4>2. CASE ~Wrote(q)
                <5>1. q = p
                    BY <4>2, <3>3, <2>2, StepConcerns DEF SInv, IInv, Wrote
                <5>2. fragment' = desired(p)
                    BY <5>1, <4>2, <3>2, <3>3, <2>2, StepWrites DEF SInv, IInv, OnlyInstalls
                <5> QED BY <5>2, <2>2, StepConcerns DEF SInv, IInv, Delivered, Wanted, desired
            <4> QED BY <4>1, <4>2
        <3>4. OnlyInstalls' => OnInstallsPath'
            BY <3>2, <2>2, StepOnPath DEF SInv, IInv, OnlyInstalls
        <3> QED BY <3>1, <3>3, <3>4 DEF SInv
    <2>3. CASE Administer
        <3>1. IInv' /\ edits' = edits + 1 /\ pc' = pc /\ result' = result
            BY <2>3, AdministerKeeps DEF Administer, PutFile, RemoveFile, AddDropin, SInv
        <3>2. ~OnlyInstalls'
            BY <3>1 DEF OnlyInstalls, SInv, IInv, TypeOK
        <3> QED BY <3>1, <3>2 DEF SInv, Answered
    <2> QED BY <2>1, <2>2, <2>3 DEF Next
<1> QED BY <1>1, <1>2, PTL DEF Spec

\* Installs that race, however many, leave the unit one of them asked for, or
\* one of them says that it displaced a unit.
THEOREM RacingInstallsSettle == Spec => []InstallsSettle
<1>1. SInv => InstallsSettle
    BY DEF SInv, InstallsSettle, OnlyInstalls, AllEnded, Ended, Wrote, Delivered, Wanted,
        Holding
<1> QED BY <1>1, Settles, PTL

-----------------------------------------------------------------------------
(* What an uninstall leaves.                                                 *)

Uninstalls(p) == request[p].verb = "uninstall"

Detached == {"quarantine", "verify", "place", "sync_over", "drop", "restore", "unlink",
             "sweep", "reload"}

\* An uninstall that goes on to the unit took its link away, and one that comes
\* to the reload without a failure took the drop-ins away.
Clears == \A p \in Runs : Uninstalls(p) =>
    /\ pc[p] \in Detached => ~wants
    /\ pc[p] = "reload" /\ primary[p] # "error" => dropins = {}

NobodyAttaches == /\ "enable" \notin Verbs
                  /\ ~Happens("dropins")

OnVerbsPath == \A p \in Runs :
    /\ pc[p] = "enable" => request[p].verb = "enable"
    /\ pc[p] \in {"create", "sync", "place", "sync_over"} => Installs(p)

\* An uninstall keeps to its course.
LEMMA StepOnVerbsPath ==
    ASSUME TypeOK, OnVerbsPath, NEW p \in Runs, Step(p) \/ Crash(p)
    PROVE  OnVerbsPath'
<1>1. CASE ReadFragment(p)
    BY <1>1, SystemdAssumption DEF ReadFragment, Goto, Returns, disk, history,
        locals, TypeOK, OnVerbsPath, Requests, Installs
<1>2. CASE DecideInstall(p)
    BY <1>2, SystemdAssumption DEF DecideInstall, Goto, Returns, Choose, disk,
        history, locals, TypeOK, OnVerbsPath, Requests, Installs
<1>3. CASE Gate(p)
    BY <1>3, SystemdAssumption DEF Gate, Goto, Returns, Choose, disk, history,
        locals, TypeOK, OnVerbsPath, Requests, Installs
<1>4. CASE Stop(p)
    BY <1>4, SystemdAssumption DEF Stop, Goto, Returns, disk, history, locals,
        TypeOK, OnVerbsPath, Requests, Installs
<1>5. CASE Disable(p)
    BY <1>5, SystemdAssumption DEF Disable, Goto, Returns, disk, history, locals,
        TypeOK, OnVerbsPath, Requests, Installs
<1>6. CASE Enable(p)
    BY <1>6, SystemdAssumption DEF Enable, Goto, Returns, disk, history, locals,
        TypeOK, OnVerbsPath, Requests, Installs
<1>7. CASE Create(p)
    BY <1>7, SystemdAssumption DEF Create, Goto, Returns, Raced, disk, history,
        locals, TypeOK, OnVerbsPath, Requests, Installs
<1>8. CASE Sync(p)
    BY <1>8, SystemdAssumption DEF Sync, Goto, Returns, disk, history, locals,
        TypeOK, OnVerbsPath, Requests, Installs
<1>9. CASE Quarantine(p)
    BY <1>9, SystemdAssumption DEF Quarantine, Goto, Returns, Raced, disk, history,
        locals, TypeOK, OnVerbsPath, Requests, Installs
<1>10. CASE Verify(p)
    BY <1>10, SystemdAssumption DEF Verify, Goto, Returns, disk, history, locals,
        TypeOK, OnVerbsPath, Requests, Installs
<1>11. CASE Place(p)
    BY <1>11, SystemdAssumption DEF Place, Goto, Returns, disk, history, locals,
        TypeOK, OnVerbsPath, Requests, Installs
<1>12. CASE Drop(p)
    BY <1>12, SystemdAssumption DEF Drop, Goto, Returns, disk, history, locals,
        TypeOK, OnVerbsPath, Requests, Installs
<1>13. CASE RestoreLink(p)
    BY <1>13, SystemdAssumption DEF RestoreLink, Goto, Returns, disk, history,
        locals, TypeOK, OnVerbsPath, Requests, Installs
<1>14. CASE RestoreUnlink(p)
    BY <1>14, SystemdAssumption DEF RestoreUnlink, Goto, Returns, Raced, disk,
        history, locals, TypeOK, OnVerbsPath, Requests, Installs
<1>15. CASE Sweep(p)
    BY <1>15, SystemdAssumption DEF Sweep, Goto, Returns, disk, history, locals,
        TypeOK, OnVerbsPath, Requests, Installs
<1>16. CASE Reload(p)
    BY <1>16, SystemdAssumption DEF Reload, Goto, Returns, disk, history, locals,
        TypeOK, OnVerbsPath, Requests, Installs
<1>17. CASE Crash(p)
    BY <1>17, SystemdAssumption DEF Crash, Goto, disk, history, locals, TypeOK,
        OnVerbsPath, Requests, Installs
<1> QED BY <1>1, <1>2, <1>3, <1>4, <1>5, <1>6, <1>7, <1>8, <1>9, <1>10, <1>11, <1>12,
        <1>13, <1>14, <1>15, <1>16, <1>17 DEF Step

\* Nobody gives back what an uninstall took away.
LEMMA StepClears ==
    ASSUME TypeOK, OnVerbsPath, Clears, NobodyAttaches, NEW p \in Runs, Step(p) \/ Crash(p)
    PROVE  Clears'
<1>1. CASE ReadFragment(p)
    BY <1>1 DEF ReadFragment, Goto, Returns, disk, history, locals, TypeOK,
        OnVerbsPath, Requests, Installs, Uninstalls, Clears, Detached,
        NobodyAttaches
<1>2. CASE DecideInstall(p)
    BY <1>2 DEF DecideInstall, Goto, Returns, Choose, disk, history, locals, TypeOK,
        OnVerbsPath, Requests, Installs, Uninstalls, Clears, Detached,
        NobodyAttaches
<1>3. CASE Gate(p)
    BY <1>3 DEF Gate, Goto, Returns, Choose, disk, history, locals, TypeOK,
        OnVerbsPath, Requests, Installs, Uninstalls, Clears, Detached,
        NobodyAttaches
<1>4. CASE Stop(p)
    BY <1>4 DEF Stop, Goto, Returns, disk, history, locals, TypeOK, OnVerbsPath,
        Requests, Installs, Uninstalls, Clears, Detached, NobodyAttaches
<1>5. CASE Disable(p)
    BY <1>5 DEF Disable, Goto, Returns, disk, history, locals, TypeOK, OnVerbsPath,
        Requests, Installs, Uninstalls, Clears, Detached, NobodyAttaches
<1>6. CASE Enable(p)
    BY <1>6 DEF Enable, Goto, Returns, disk, history, locals, TypeOK, OnVerbsPath,
        Requests, Installs, Uninstalls, Clears, Detached, NobodyAttaches
<1>7. CASE Create(p)
    BY <1>7 DEF Create, Goto, Returns, Raced, disk, history, locals, TypeOK,
        OnVerbsPath, Requests, Installs, Uninstalls, Clears, Detached,
        NobodyAttaches
<1>8. CASE Sync(p)
    BY <1>8 DEF Sync, Goto, Returns, disk, history, locals, TypeOK, OnVerbsPath,
        Requests, Installs, Uninstalls, Clears, Detached, NobodyAttaches
<1>9. CASE Quarantine(p)
    BY <1>9 DEF Quarantine, Goto, Returns, Raced, disk, history, locals, TypeOK,
        OnVerbsPath, Requests, Installs, Uninstalls, Clears, Detached,
        NobodyAttaches
<1>10. CASE Verify(p)
    BY <1>10 DEF Verify, Goto, Returns, disk, history, locals, TypeOK, OnVerbsPath,
        Requests, Installs, Uninstalls, Clears, Detached, NobodyAttaches
<1>11. CASE Place(p)
    BY <1>11 DEF Place, Goto, Returns, disk, history, locals, TypeOK, OnVerbsPath,
        Requests, Installs, Uninstalls, Clears, Detached, NobodyAttaches
<1>12. CASE Drop(p)
    BY <1>12 DEF Drop, Goto, Returns, disk, history, locals, TypeOK, OnVerbsPath,
        Requests, Installs, Uninstalls, Clears, Detached, NobodyAttaches
<1>13. CASE RestoreLink(p)
    BY <1>13 DEF RestoreLink, Goto, Returns, disk, history, locals, TypeOK,
        OnVerbsPath, Requests, Installs, Uninstalls, Clears, Detached,
        NobodyAttaches
<1>14. CASE RestoreUnlink(p)
    BY <1>14 DEF RestoreUnlink, Goto, Returns, Raced, disk, history, locals, TypeOK,
        OnVerbsPath, Requests, Installs, Uninstalls, Clears, Detached,
        NobodyAttaches
<1>15. CASE Sweep(p)
    BY <1>15 DEF Sweep, Goto, Returns, disk, history, locals, TypeOK, OnVerbsPath,
        Requests, Installs, Uninstalls, Clears, Detached, NobodyAttaches
<1>16. CASE Reload(p)
    BY <1>16 DEF Reload, Goto, Returns, disk, history, locals, TypeOK, OnVerbsPath,
        Requests, Installs, Uninstalls, Clears, Detached, NobodyAttaches
<1>17. CASE Crash(p)
    BY <1>17 DEF Crash, Goto, disk, history, locals, TypeOK, OnVerbsPath, Requests,
        Installs, Uninstalls, Clears, Detached, NobodyAttaches
<1> QED BY <1>1, <1>2, <1>3, <1>4, <1>5, <1>6, <1>7, <1>8, <1>9, <1>10, <1>11, <1>12,
        <1>13, <1>14, <1>15, <1>16, <1>17 DEF Step

\* An uninstall that says it is done comes from a reload without a failure.
LEMMA StepReports ==
    ASSUME TypeOK, OnVerbsPath, Clears, NEW p \in Runs, Step(p) \/ Crash(p), NEW q \in Runs,
           Uninstalls(q), result[q] = "none", result'[q] = "done"
    PROVE  ~wants' /\ dropins' = {}
<1>1. CASE ReadFragment(p)
    BY <1>1, DecisionType DEF ReadFragment, Goto, Returns, disk, history, locals,
        TypeOK, OnVerbsPath, Installs, Uninstalls, Clears, Detached
<1>2. CASE DecideInstall(p)
    BY <1>2, DecisionType DEF DecideInstall, Goto, Returns, Choose, disk, history,
        locals, TypeOK, OnVerbsPath, Installs, Uninstalls, Clears, Detached,
        Outcomes, Writing, Refusing
<1>3. CASE Gate(p)
    BY <1>3, DecisionType DEF Gate, Goto, Returns, Choose, disk, history, locals,
        TypeOK, OnVerbsPath, Installs, Uninstalls, Clears, Detached
<1>4. CASE Stop(p)
    BY <1>4, DecisionType DEF Stop, Goto, Returns, disk, history, locals, TypeOK,
        OnVerbsPath, Installs, Uninstalls, Clears, Detached
<1>5. CASE Disable(p)
    BY <1>5, DecisionType DEF Disable, Goto, Returns, disk, history, locals, TypeOK,
        OnVerbsPath, Installs, Uninstalls, Clears, Detached
<1>6. CASE Enable(p)
    BY <1>6, DecisionType DEF Enable, Goto, Returns, disk, history, locals, TypeOK,
        OnVerbsPath, Installs, Uninstalls, Clears, Detached
<1>7. CASE Create(p)
    BY <1>7, DecisionType DEF Create, Goto, Returns, Raced, disk, history, locals,
        TypeOK, OnVerbsPath, Installs, Uninstalls, Clears, Detached
<1>8. CASE Sync(p)
    BY <1>8, DecisionType DEF Sync, Goto, Returns, disk, history, locals, TypeOK,
        OnVerbsPath, Installs, Uninstalls, Clears, Detached
<1>9. CASE Quarantine(p)
    BY <1>9, DecisionType DEF Quarantine, Goto, Returns, Raced, disk, history,
        locals, TypeOK, OnVerbsPath, Installs, Uninstalls, Clears, Detached
<1>10. CASE Verify(p)
    BY <1>10, DecisionType DEF Verify, Goto, Returns, disk, history, locals, TypeOK,
        OnVerbsPath, Installs, Uninstalls, Clears, Detached
<1>11. CASE Place(p)
    BY <1>11, DecisionType DEF Place, Goto, Returns, disk, history, locals, TypeOK,
        OnVerbsPath, Installs, Uninstalls, Clears, Detached
<1>12. CASE Drop(p)
    BY <1>12, DecisionType DEF Drop, Goto, Returns, disk, history, locals, TypeOK,
        OnVerbsPath, Installs, Uninstalls, Clears, Detached
<1>13. CASE RestoreLink(p)
    BY <1>13, DecisionType DEF RestoreLink, Goto, Returns, disk, history, locals,
        TypeOK, OnVerbsPath, Installs, Uninstalls, Clears, Detached
<1>14. CASE RestoreUnlink(p)
    BY <1>14, DecisionType DEF RestoreUnlink, Goto, Returns, Raced, disk, history,
        locals, TypeOK, OnVerbsPath, Installs, Uninstalls, Clears, Detached
<1>15. CASE Sweep(p)
    BY <1>15, DecisionType DEF Sweep, Goto, Returns, disk, history, locals, TypeOK,
        OnVerbsPath, Installs, Uninstalls, Clears, Detached
<1>16. CASE Reload(p)
    BY <1>16, DecisionType DEF Reload, Goto, Returns, disk, history, locals, TypeOK,
        OnVerbsPath, Installs, Uninstalls, Clears, Detached
<1>17. CASE Crash(p)
    BY <1>17, DecisionType DEF Crash, Goto, disk, history, locals, TypeOK,
        OnVerbsPath, Installs, Uninstalls, Clears, Detached
<1> QED BY <1>1, <1>2, <1>3, <1>4, <1>5, <1>6, <1>7, <1>8, <1>9, <1>10, <1>11, <1>12,
        <1>13, <1>14, <1>15, <1>16, <1>17 DEF Step

\* An uninstall that reports success leaves no link and no drop-in in UNIT_DIR,
\* unless somebody enables the unit or adds a drop-in meanwhile.  Nothing is said
\* of a drop-in under another root, which goetia never removes.
THEOREM UninstallsClearTheirOwn ==
    ASSUME NobodyAttaches
    PROVE  Spec => UninstallClearsItsOwn
<1> DEFINE UInv == IInv /\ OnVerbsPath /\ Clears
<1>1. Init => UInv
    BY InitKeeps DEF Init, IInv, OnVerbsPath, Clears, Detached
<1>2. UInv /\ [Next]_vars => UInv'
    <2> SUFFICES ASSUME UInv, [Next]_vars PROVE UInv'
        OBVIOUS
    <2>1. CASE UNCHANGED vars
        BY <2>1, NextKeeps DEF vars, disk, history, locals, OnVerbsPath, Clears, Installs,
            Uninstalls
    <2>2. ASSUME NEW p \in Runs, Step(p) \/ Crash(p) PROVE UInv'
        BY <2>2, NextKeeps, StepOnVerbsPath, StepClears, NobodyAttaches DEF IInv, Next
    <2>3. CASE Administer
        <3>1. /\ IInv' /\ pc' = pc /\ request' = request /\ UNCHANGED <<wants, dropins, primary>>
            BY <2>3, AdministerKeeps, NobodyAttaches
            DEF Administer, PutFile, RemoveFile, AddDropin, NobodyAttaches, locals
        <3> QED BY <3>1 DEF OnVerbsPath, Clears, Installs, Uninstalls
    <2> QED BY <2>1, <2>2, <2>3 DEF Next
<1>3. UInv /\ [Next]_vars
      => [\A p \in Runs : result[p] = "none" /\ result'[p] = "done"
              /\ request[p].verb = "uninstall" => ~wants' /\ dropins' = {}]_vars
    <2> SUFFICES ASSUME UInv, [Next]_vars, NEW q \in Runs, result[q] = "none",
                        result'[q] = "done", Uninstalls(q)
                 PROVE  ~wants' /\ dropins' = {}
        BY DEF Uninstalls
    <2>1. CASE UNCHANGED vars
        BY <2>1 DEF vars
    <2>2. ASSUME NEW p \in Runs, Step(p) \/ Crash(p) PROVE ~wants' /\ dropins' = {}
        BY <2>2, StepReports DEF IInv
    <2>3. CASE Administer
        BY <2>3 DEF Administer, PutFile, RemoveFile, AddDropin
    <2> QED BY <2>1, <2>2, <2>3 DEF Next
<1> QED BY <1>1, <1>2, <1>3, PTL DEF Spec, UninstallClearsItsOwn
=============================================================================
