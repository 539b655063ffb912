----------------------------- MODULE SystemdUnit ----------------------------
(* One systemd unit, `<id>.service` in UNIT_DIR, under several goetia runs   *)
(* and an administrator. A run is install, uninstall or enable, from its     *)
(* read to its answer; each action is one call that another writer can see   *)
(* the file system before or after (systemd/manager.rs, write.rs, discover.rs *)
(* and the install loop of manager/flow.rs).                                 *)
EXTENDS Decide, Naturals, FiniteSets

CONSTANTS Runs,        \* goetia processes, one verb each
          Specs,       \* the specs install may be given
          Verbs,       \* the verbs the runs may be
          MaxEdits,    \* bound on what the administrator does
          Mishaps      \* what else happens: see PossibleMishaps

\* calls: a read, write, fsync, removal or systemctl fails. links: a restore's
\* link(2) fails though its target is free. crash: a run is killed. directories,
\* dropins: the administrator makes a directory at the path, adds a drop-in.
PossibleMishaps == {"calls", "links", "crash", "directories", "dropins"}

ASSUME SystemdAssumption ==
    /\ Verbs \subseteq {"install", "uninstall", "enable"}
    /\ MaxEdits \in Nat
    /\ Mishaps \subseteq PossibleMishaps
    /\ Specs # {} /\ "none" \notin Specs

Happens(m) == m \in Mishaps

VARIABLES fragment,    \* what is at <id>.service
          dropins,     \* the *.conf files in UNIT_DIR's <id>.service.d
          outside,     \* a drop-in is under another root
          wants,       \* multi-user.target.wants links the unit
          edits,       \* what the administrator did so far
          withdrawn,   \* history: the administrator's files they gave up
          chosen,      \* history: those a run read and means to discard
          removed,     \* history: somebody took the unit away on purpose
          request,     \* request[p]: the verb p runs, and its arguments
          pc,          \* pc[p]: what p does next
          snap,        \* snap[p]: the fragment p read
          backup,      \* backup[p]: what is under p's quarantine name
          primary,     \* primary[p]: why p puts a file back, or a sweep's failure
          result       \* result[p]: what p answered

disk == <<fragment, dropins, outside, wants>>
history == <<edits, withdrawn, chosen, removed>>
locals == <<snap, backup, primary>>
vars == <<disk, history, request, pc, locals, result>>

-----------------------------------------------------------------------------
(* Files. A file of the administrator's has a number of its own in `edit`;   *)
(* 0 is a file goetia wrote.                                                 *)

Versions == {"running", "older"}

\* marked: its blob decodes to a spec of this id. other: to another daemon's.
\* unusable: marked, and its blob does not decode. unmarked: anybody's unit.
\* symlink, directory: not a regular file.
Marked == {"marked", "other", "unusable"}
Kinds == Marked \cup {"unmarked", "symlink", "directory"}

File == [kind : Kinds \cup {"nothing"}, spec : Specs \cup {"none"},
         version : Versions \cup {"none"}, edit : 0..MaxEdits]

Nothing == [kind |-> "nothing", spec |-> "none", version |-> "none", edit |-> 0]

generated(spec, version) ==
    [kind |-> "marked", spec |-> spec, version |-> version, edit |-> 0]

render(spec) == generated(spec, "running")

Unreadable(edit) == [kind |-> "unusable", spec |-> "none", version |-> "none", edit |-> edit]

\* What the administrator may put at the path: an edit of the unit that is
\* there, or something of their own.
HandWritten(n) ==
    {[kind |-> k, spec |-> "none", version |-> "none", edit |-> n] :
        k \in {"other", "unmarked", "symlink"}
              \cup (IF Happens("directories") THEN {"directory"} ELSE {})}
    \cup IF fragment.kind \in Marked THEN {[fragment EXCEPT !.edit = n]} ELSE {}

\* Something is attached to the id though it has no fragment.
residue == dropins # {} \/ outside \/ wants

Requests == {r \in [verb : Verbs, spec : Specs \cup {"none"}, force : BOOLEAN] :
                IF r.verb = "install" THEN r.spec \in Specs ELSE r.spec = "none" /\ ~r.force}

Installs(p) == request[p].verb = "install"
desired(p) == render(request[p].spec)

-----------------------------------------------------------------------------
(* A run's control state.                                                    *)

Working == {"read", "judge", "create", "sync", "stop", "disable", "enable", "quarantine",
            "verify", "place", "sync_over", "drop", "restore", "unlink", "sweep", "reload"}

Places == Working \cup {"ended", "crashed"}

\* Errors that name the quarantined file; the other errors do not.
NamesQuarantine == {"stranded", "both_failed", "left_over"}

Results == {"none", "done", "not_installed", "concurrent_change", "error", "restore_failed"}
           \cup NamesQuarantine \cup Refusing \cup {"UpToDate"}

Init == /\ fragment \in {Nothing, Unreadable(0)}
                        \cup {generated(s, v) : s \in Specs, v \in Versions}
        /\ dropins \in {{}, {0}}
        /\ outside \in BOOLEAN
        /\ wants \in BOOLEAN
        /\ edits = 0
        /\ withdrawn = {} /\ chosen = {}
        /\ removed = (fragment = Nothing)
        /\ request \in [Runs -> Requests]
        /\ pc = [p \in Runs |-> "read"]
        /\ snap = [p \in Runs |-> Nothing]
        /\ backup = [p \in Runs |-> Nothing]
        /\ primary = [p \in Runs |-> "raced"]
        /\ result = [p \in Runs |-> "none"]

Goto(p, l) == pc' = [pc EXCEPT ![p] = l] /\ UNCHANGED result
Returns(p, r) == /\ pc' = [pc EXCEPT ![p] = "ended"]
                 /\ result' = [result EXCEPT ![p] = r]

\* The answer to a race: install reads again, without a cap; uninstall reports it.
Raced(p) == IF Installs(p) THEN Goto(p, "read") ELSE Returns(p, "concurrent_change")

-----------------------------------------------------------------------------
(* Reading and deciding.                                                     *)

ReadFragment(p) ==
    /\ pc[p] = "read"
    /\ \/ /\ snap' = [snap EXCEPT ![p] = fragment]
          /\ Goto(p, "judge")
       \/ /\ Happens("calls")
          /\ Returns(p, "error")
          /\ UNCHANGED snap
    /\ UNCHANGED <<disk, history, request, backup, primary>>

\* What classify and judge make of the snapshot, and of what is attached to the
\* id, which is read after it.
Found(f) ==
    [ownership  |-> IF f.kind = "nothing" THEN (IF residue THEN "Foreign" ELSE "Absent")
                    ELSE IF f.kind = "marked" THEN "Ours"
                    ELSE IF f.kind = "other" THEN "OtherDaemon"
                    ELSE IF f.kind = "unusable" THEN "OursUnusable" ELSE "Foreign",
     version    |-> f.version,
     regenerated |-> <<render(f.spec), {}, FALSE>>,
     onDisk     |-> <<f, dropins, outside>>]

External == IF outside THEN "Unclearable" ELSE IF dropins # {} THEN "Clearable" ELSE "Absent"

Decision(p) == decide(Found(snap[p]), <<desired(p), {}, FALSE>>, "running",
                      request[p].force, External)

\* The run means to discard the file it read.
Choose(p) == chosen' = IF snap[p].edit > 0 THEN chosen \cup {snap[p]} ELSE chosen

\* Broken: the outcome is answered though it was to be written first.
DecideInstall_Unwritten(p) ==
    /\ pc[p] = "judge" /\ Installs(p)
    /\ Returns(p, Decision(p))
    /\ UNCHANGED <<disk, history, request, locals>>

\* What is attached to the id may be unreadable: the unit is unusable then, and
\* an id without one undetermined. A write begins with ensure_parent_dirs.
DecideInstall(p) ==
    /\ pc[p] = "judge" /\ Installs(p)
    /\ \/ /\ Decision(p) \notin Writing
          /\ Returns(p, Decision(p))
          /\ UNCHANGED chosen
       \/ /\ Decision(p) = "Create"
          /\ Goto(p, "create")
          /\ UNCHANGED chosen
       \/ /\ Decision(p) \in {"Update", "Stale"}
          /\ Goto(p, "quarantine")
          /\ Choose(p)
       \/ /\ Happens("calls") /\ snap[p].kind = "marked"
          /\ Returns(p, "RefuseUnusable")
          /\ UNCHANGED chosen
       \/ /\ Happens("calls") /\ (snap[p] = Nothing \/ Decision(p) \in Writing)
          /\ Returns(p, "error")
          /\ UNCHANGED chosen
    /\ UNCHANGED <<disk, edits, withdrawn, removed, request, snap, backup, primary>>

\* The ownership gate of the other verbs: the marker alone. uninstall stops the
\* unit first.
Gate(p) ==
    /\ pc[p] = "judge" /\ ~Installs(p)
    /\ \/ /\ snap[p].kind \in Marked
          /\ IF request[p].verb = "uninstall" THEN Goto(p, "stop") /\ Choose(p)
             ELSE Goto(p, "enable") /\ UNCHANGED chosen
       \/ /\ snap[p].kind = "nothing" /\ ~residue
          /\ Returns(p, "not_installed")
          /\ UNCHANGED chosen
       \/ /\ snap[p].kind \notin Marked /\ (snap[p].kind = "nothing" => residue)
          /\ Returns(p, "RefuseForeign")
          /\ UNCHANGED chosen
       \/ /\ snap[p].kind = "nothing" /\ Happens("calls")
          /\ Returns(p, "error")
          /\ UNCHANGED chosen
    /\ UNCHANGED <<disk, edits, withdrawn, removed, request, locals>>

-----------------------------------------------------------------------------
(* systemctl. disable and enable need the unit's file.                       *)

Stop(p) ==
    /\ pc[p] = "stop"
    /\ Goto(p, "disable") \/ (Happens("calls") /\ Returns(p, "error"))
    /\ UNCHANGED <<disk, history, request, locals>>

Disable(p) ==
    /\ pc[p] = "disable"
    /\ \/ /\ fragment # Nothing
          /\ wants' = FALSE
          /\ Goto(p, "quarantine")
       \/ /\ fragment = Nothing \/ Happens("calls")
          /\ Returns(p, "error")
          /\ UNCHANGED wants
    /\ UNCHANGED <<fragment, dropins, outside, history, request, locals>>

Enable(p) ==
    /\ pc[p] = "enable"
    /\ \/ /\ fragment # Nothing
          /\ wants' = TRUE
          /\ Returns(p, "done")
       \/ /\ fragment = Nothing \/ Happens("calls")
          /\ Returns(p, "error")
          /\ UNCHANGED wants
    /\ UNCHANGED <<fragment, dropins, outside, history, request, locals>>

-----------------------------------------------------------------------------
(* create_unit: a temporary file linked into place unless something is there. *)

\* Broken: a race is answered by another attempt, not by another read.
Create_Retries(p) ==
    /\ pc[p] = "create"
    /\ IF fragment = Nothing THEN fragment' = desired(p) /\ Goto(p, "sync")
       ELSE Goto(p, "create") /\ UNCHANGED fragment
    /\ UNCHANGED <<dropins, outside, wants, history, request, locals>>

Create(p) ==
    /\ pc[p] = "create"
    /\ \/ /\ fragment = Nothing
          /\ fragment' = desired(p)
          /\ Goto(p, "sync")
       \/ /\ fragment # Nothing
          /\ Raced(p)
          /\ UNCHANGED fragment
       \/ /\ Happens("calls")
          /\ Returns(p, "error")
          /\ UNCHANGED fragment
    /\ UNCHANGED <<dropins, outside, wants, history, request, locals>>

\* The directory's fsync. Its failure is an error, with the new file in place.
Sync(p) ==
    /\ pc[p] \in {"sync", "sync_over"}
    /\ \/ Goto(p, IF pc[p] = "sync" THEN "reload" ELSE "drop")
       \/ Happens("calls") /\ Returns(p, "error")
    /\ UNCHANGED <<disk, history, request, locals>>

-----------------------------------------------------------------------------
(* quarantine_if_still_ours, replace_unit_verified and uninstall's removal.  *)

Quarantine(p) ==
    /\ pc[p] = "quarantine"
    /\ \/ /\ fragment = Nothing
          /\ Raced(p)
          /\ UNCHANGED <<fragment, backup>>
       \/ /\ fragment # Nothing
          /\ backup' = [backup EXCEPT ![p] = fragment]
          /\ fragment' = Nothing
          /\ Goto(p, "verify")
       \/ /\ Happens("calls")
          /\ Returns(p, "error")
          /\ UNCHANGED <<fragment, backup>>
    /\ UNCHANGED <<dropins, outside, wants, history, request, snap, primary>>

\* Broken: whatever was moved aside is taken for the file the run read.
Verify_Trusts(p) ==
    /\ pc[p] = "verify"
    /\ Goto(p, IF Installs(p) THEN "place" ELSE "drop")
    /\ UNCHANGED <<disk, history, request, locals>>

\* Broken: a file that could not be verified stays in quarantine.
Verify_Keeps(p) ==
    /\ pc[p] = "verify"
    /\ IF backup[p] = snap[p] THEN Goto(p, IF Installs(p) THEN "place" ELSE "drop") ELSE Raced(p)
    /\ UNCHANGED <<disk, history, request, locals>>

\* A file that is not the one the run read goes back, and so does one that
\* cannot be read.
Verify(p) ==
    /\ pc[p] = "verify"
    /\ \/ /\ backup[p] = snap[p]
          /\ Goto(p, IF Installs(p) THEN "place" ELSE "drop")
          /\ UNCHANGED primary
       \/ /\ backup[p] # snap[p]
          /\ Goto(p, "restore")
          /\ primary' = [primary EXCEPT ![p] = "raced"]
       \/ /\ Happens("calls")
          /\ Goto(p, "restore")
          /\ primary' = [primary EXCEPT ![p] = "error"]
    /\ UNCHANGED <<disk, history, request, snap, backup>>

\* Broken: a write that fails does not put the old unit back.
Place_Forgets(p) ==
    /\ pc[p] = "place"
    /\ \/ /\ fragment = Nothing
          /\ fragment' = desired(p)
          /\ Goto(p, "sync_over")
       \/ /\ Happens("calls")
          /\ Returns(p, "error")
          /\ UNCHANGED fragment
    /\ UNCHANGED <<dropins, outside, wants, history, request, locals>>

Place(p) ==
    /\ pc[p] = "place"
    /\ \/ /\ fragment = Nothing
          /\ fragment' = desired(p)
          /\ Goto(p, "sync_over")
          /\ UNCHANGED primary
       \/ /\ fragment # Nothing
          /\ Returns(p, "stranded")
          /\ UNCHANGED <<fragment, primary>>
       \/ /\ Happens("calls")
          /\ Goto(p, "restore")
          /\ primary' = [primary EXCEPT ![p] = "error"]
          /\ UNCHANGED fragment
    /\ UNCHANGED <<dropins, outside, wants, history, request, snap, backup>>

\* The verified file is discarded.
Drop(p) ==
    /\ pc[p] = "drop"
    /\ \/ /\ backup' = [backup EXCEPT ![p] = Nothing]
          /\ IF Installs(p) THEN UNCHANGED removed ELSE removed' = TRUE
          /\ primary' = [primary EXCEPT ![p] = "raced"]
          /\ Goto(p, "sweep")
       \/ /\ Happens("calls")
          /\ IF Installs(p) THEN UNCHANGED removed ELSE removed' = TRUE
          /\ Returns(p, "left_over")
          /\ UNCHANGED <<backup, primary>>
    /\ UNCHANGED <<disk, edits, withdrawn, chosen, request, snap>>

\* Broken: a rename instead of a link, which replaces what is there.
RestoreLink_Renames(p) ==
    /\ pc[p] = "restore"
    /\ fragment' = backup[p]
    /\ Goto(p, "unlink")
    /\ UNCHANGED <<dropins, outside, wants, history, request, locals>>

\* restore_quarantine, first half: a link, which replaces nothing. A directory
\* cannot be linked. Only restore_or_chain's error names the quarantine.
RestoreLink(p) ==
    /\ pc[p] = "restore"
    /\ \/ /\ fragment = Nothing /\ backup[p].kind # "directory"
          /\ fragment' = backup[p]
          /\ Goto(p, "unlink")
       \/ /\ fragment # Nothing
          /\ Returns(p, IF primary[p] = "error" THEN "both_failed" ELSE "stranded")
          /\ UNCHANGED fragment
       \/ /\ fragment = Nothing
          /\ backup[p].kind = "directory" \/ Happens("links")
          /\ Returns(p, IF primary[p] = "error" THEN "both_failed" ELSE "restore_failed")
          /\ UNCHANGED fragment
    /\ UNCHANGED <<dropins, outside, wants, history, request, locals>>

\* Second half: the quarantine's own name goes.
RestoreUnlink(p) ==
    /\ pc[p] = "unlink"
    /\ \/ /\ backup' = [backup EXCEPT ![p] = Nothing]
          /\ IF primary[p] = "error" THEN Returns(p, "error") ELSE Raced(p)
       \/ /\ Happens("calls")
          /\ Returns(p, IF primary[p] = "error" THEN "both_failed" ELSE "left_over")
          /\ UNCHANGED backup
    /\ UNCHANGED <<disk, history, request, snap, primary>>

\* UNIT_DIR's drop-in directory goes. A failure ends install; uninstall goes on
\* to the reload, and reports both.
Sweep(p) ==
    /\ pc[p] = "sweep"
    /\ \/ /\ dropins' = {}
          /\ Goto(p, "reload")
          /\ UNCHANGED primary
       \/ /\ Happens("calls")
          /\ IF Installs(p) THEN Returns(p, "error") ELSE Goto(p, "reload")
          /\ primary' = [primary EXCEPT ![p] = "error"]
          /\ UNCHANGED dropins
    /\ UNCHANGED <<fragment, outside, wants, history, request, snap, backup>>

\* Broken: what failed before the reload is not reported.
Reload_Forgets(p) ==
    /\ pc[p] = "reload"
    /\ Returns(p, "done")
    /\ UNCHANGED <<disk, history, request, locals>>

Reload(p) ==
    /\ pc[p] = "reload"
    /\ \/ Returns(p, IF primary[p] = "error" THEN "error" ELSE "done")
       \/ Happens("calls") /\ Returns(p, "error")
    /\ UNCHANGED <<disk, history, request, locals>>

-----------------------------------------------------------------------------
(* The administrator, and a run that is killed.                              *)

Withdraw == withdrawn' = IF fragment.edit > 0 THEN withdrawn \cup {fragment} ELSE withdrawn

PutFile ==
    /\ edits < MaxEdits
    /\ edits' = edits + 1
    /\ fragment' \in HandWritten(edits + 1)
    /\ Withdraw
    /\ UNCHANGED <<dropins, outside, wants, chosen, removed, request, pc, locals, result>>

RemoveFile ==
    /\ edits < MaxEdits /\ fragment # Nothing
    /\ edits' = edits + 1
    /\ fragment' = Nothing
    /\ Withdraw
    /\ removed' = TRUE
    /\ UNCHANGED <<dropins, outside, wants, chosen, request, pc, locals, result>>

AddDropin ==
    /\ Happens("dropins") /\ edits < MaxEdits
    /\ edits' = edits + 1
    /\ dropins' = dropins \cup {edits + 1}
    /\ UNCHANGED <<fragment, outside, wants, withdrawn, chosen, removed, request, pc, locals, result>>

Crash(p) ==
    /\ Happens("crash")
    /\ pc[p] \in Working
    /\ Goto(p, "crashed")
    /\ UNCHANGED <<disk, history, request, locals>>

-----------------------------------------------------------------------------
Step(p) == \/ ReadFragment(p) \/ DecideInstall(p) \/ Gate(p)
           \/ Stop(p) \/ Disable(p) \/ Enable(p)
           \/ Create(p) \/ Sync(p)
           \/ Quarantine(p) \/ Verify(p) \/ Place(p) \/ Drop(p)
           \/ RestoreLink(p) \/ RestoreUnlink(p)
           \/ Sweep(p) \/ Reload(p)

Administer == PutFile \/ RemoveFile \/ AddDropin

Next == \/ \E p \in Runs : Step(p) \/ Crash(p)
        \/ Administer

Spec == Init /\ [][Next]_vars

\* The operating system runs each process.
FairSpec == Spec /\ \A p \in Runs : WF_vars(Step(p))

-----------------------------------------------------------------------------
TypeOK == /\ fragment \in File
          /\ dropins \in SUBSET (0..MaxEdits)
          /\ outside \in BOOLEAN /\ wants \in BOOLEAN
          /\ edits \in 0..MaxEdits /\ removed \in BOOLEAN
          /\ withdrawn \subseteq File /\ chosen \subseteq File
          /\ request \in [Runs -> Requests]
          /\ pc \in [Runs -> Places]
          /\ snap \in [Runs -> File] /\ backup \in [Runs -> File]
          /\ primary \in [Runs -> {"raced", "error"}]
          /\ result \in [Runs -> Results]

Ended(p) == pc[p] = "ended"
AllEnded == \A p \in Runs : Ended(p)

\* A file an administrator wrote is lost only to its owner, or to a run that
\* read it and may discard it: uninstall of a marked unit, a forced install, or
\* an install over a unit another version wrote. No other file is destroyed by
\* the quarantine, whoever else writes in between.
Authored == {f \in File : f.edit > 0}
Held == {f \in {fragment} \cup {backup[p] : p \in Runs} : f.edit > 0}
Entitled(r, f) ==
    /\ f.kind \in Marked
    /\ \/ r.verb = "uninstall"
       \/ r.verb = "install" /\ f.kind = "marked" /\ (r.force \/ f.version # "running")

Promise == INSTANCE Custody WITH Files <- Authored, held <- Held
KeepsCustody == Promise!Spec

\* write.rs: a failed write must never turn an install into an uninstall. When
\* every run has answered, and nobody took the unit away, it is in place unless
\* an answer says where it is.
NoSilentUninstall ==
    (AllEnded /\ fragment = Nothing) => removed \/ \E p \in Runs : result[p] \in NamesQuarantine

\* A file that is not the one a run read goes back where it was, or the answer
\* names the quarantine that holds it.
StrandedIsNamed ==
    \A p \in Runs : Ended(p) /\ backup[p] \notin {Nothing, snap[p]} => result[p] \in NamesQuarantine

\* The answers of a run that moved a unit aside and has not put it back.
Displaced == {"stranded", "both_failed", "restore_failed"}

\* Installs that race leave the unit one of them asked for once one reports it
\* is done and nobody else writes, unless a run that found the place taken, or
\* could not link, says that it displaced a unit.
InstallsSettle ==
    /\ AllEnded /\ edits = 0
    /\ \A p \in Runs : Installs(p)
    /\ \E p \in Runs : result[p] = "done"
    => \/ \E p \in Runs : fragment = desired(p)
       \/ \E p \in Runs : result[p] \in Displaced

\* An uninstall that reports success leaves no link that enrolls the id at boot
\* and no drop-in in goetia's own directory, UNIT_DIR's.  A drop-in under another
\* root (outside) is reported and never removed: it stays (README).
UninstallClearsItsOwn ==
    [][\A p \in Runs : result[p] = "none" /\ result'[p] = "done" /\ request[p].verb = "uninstall"
           => ~wants' /\ dropins' = {}]_vars

\* An install that is interrupted while it replaces a unit leaves an id some
\* verb of goetia accepts.
InterruptedCanBeRedone ==
    [][\A p \in Runs : Installs(p) /\ pc[p] \in {"verify", "place"} /\ pc'[p] = "crashed"
           => ~(fragment = Nothing /\ residue)]_vars

\* Every verb answers: install's loop has no cap, and needs none.
VerbsAnswer == \A p \in Runs : <>(pc[p] \in {"ended", "crashed"})
=============================================================================
