------------------------------ MODULE Launchd -------------------------------
(* The launchd backend's verbs over one daemon, run by several goetia        *)
(* processes at once. Each action is one call that another process can come  *)
(* before or after: a stat or a read of a plist, a write, a launchctl call   *)
(* (launchd/manager.rs, with the gate and the install loop of manager/flow.rs *)
(* and the calls its Reservation counts).                                    *)
EXTENDS Launchctl, Naturals, FiniteSets

CONSTANTS Runs,        \* goetia processes, one verb each
          Verbs,       \* the verbs the runs may be
          Initially,   \* what the plist may be at first
          Mishaps      \* calls: a call fails. crash: a run is killed.
                       \* stranger: another's job may be loaded at the label

PossibleVerbs == {"install", "uninstall", "enable", "disable",
                  "start", "stop", "kill", "status", "list"}

ASSUME LaunchdAssumption ==
    /\ Verbs \subseteq PossibleVerbs
    /\ Mishaps \subseteq {"calls", "crash", "stranger"}
    /\ Always \subseteq Kept /\ Kept \subseteq Specs /\ "none" \notin Specs
    /\ Initially \subseteq Contents
    /\ IsFiniteSet(Runs)

Happens(m) == m \in Mishaps

VARIABLES request,     \* request[p]: the verb p runs, and its arguments
          pc,          \* pc[p]: what p does next
          at,          \* at[p]: the directories p found a plist in
          snap,        \* snap[p]: the plists p read there
          drawn,       \* drawn[p]: the launchctl calls and requests p made, and
                       \* the times it read again
          result,      \* result[p]: what p answered
          lived,       \* history: the runs during which the job had a process
          removed      \* history: a run removed a plist, meaning to, and no install
                       \* created one since while no move was half way

locals == <<at, snap, drawn>>
history == <<lived, removed>>
vars == <<plist, jobVars, request, pc, locals, result, history>>

-----------------------------------------------------------------------------
(* Requests, and what each may draw.                                         *)

Requests == {r \in [verb : Verbs, spec : Specs \cup {"none"}, force : BOOLEAN, waits : BOOLEAN] :
                /\ IF r.verb = "install" THEN r.spec \in Specs ELSE r.spec = "none" /\ ~r.force
                /\ r.verb \notin {"start", "stop"} => ~r.waits}

verb(p) == request[p].verb
desired(p) == render(request[p].spec)

\* Broken: the call that confirms a start's last attempt was not counted.
needs_Short(v) == IF v = "install" THEN [calls |-> 3, requests |-> 1]
                  ELSE IF v = "start" THEN [calls |-> 11, requests |-> 5]
                  ELSE IF v \in {"stop", "uninstall", "kill"} THEN [calls |-> 1, requests |-> 1]
                  ELSE [calls |-> 0, requests |-> 0]

\* needs: the most calls and requests the verb draws from its reservation.
needs(v) == IF v = "install" THEN [calls |-> 3, requests |-> 1]
            ELSE IF v = "start" THEN [calls |-> 12, requests |-> 5]
            ELSE IF v \in {"stop", "uninstall", "kill"} THEN [calls |-> 1, requests |-> 1]
            ELSE [calls |-> 0, requests |-> 0]

Queries(p) == drawn' = [drawn EXCEPT ![p].calls = @ + 1]
Sends(p) == drawn' = [drawn EXCEPT ![p].calls = @ + 1, ![p].requests = @ + 1]

Reading == {"stat_staging", "stat_enabled", "read"}
Installing == {"check", "clear", "persist", "present", "write", "recheck", "undo", "put_back"}
Moving == {"link", "unlink"}
Starting == {"loaded", "bootstrap", "reloaded", "live", "kick", "confirm", "verify",
             "bootout", "load", "live_again", "kick_again", "final"}
Others == {"withdraw", "remove", "stop", "kill", "status"}
Places == Reading \cup Installing \cup Moving \cup Starting \cup Others \cup {"ended", "crashed"}

InDoubt == {"in_doubt", "put_back_blocked", "put_back_failed"}
Results == {"none", "done", "error", "undetermined", "not_installed", "ambiguous", "loaded_job",
            "concurrent_change", "slot_taken", "already_exists", "kept", "timed_out",
            "not_started", "not_running", "listed", "listed_unusable", "omitted",
            "listed_undetermined"}
           \cup InDoubt \cup Refusing \cup {"UpToDate"}

Goto(p, l) == pc' = [pc EXCEPT ![p] = l] /\ UNCHANGED result
Returns(p, r) == /\ pc' = [pc EXCEPT ![p] = "ended"]
                 /\ result' = [result EXCEPT ![p] = r]

\* A call fails; the run answers with its error.
CallFails(p) == /\ Happens("calls")
                /\ Returns(p, "error")
                /\ UNCHANGED <<plist, jobVars>>

\* A request fails, before it reached launchd or after.
RequestFails(p, carriedOut) == /\ Happens("calls")
                               /\ Returns(p, "error")
                               /\ carriedOut \/ UNCHANGED jobVars
                               /\ UNCHANGED plist

\* The job got a process: the runs under way have seen one.
UnderWay == {q \in Runs : pc[q] \notin {"stat_staging", "ended", "crashed"}}
Lives == lived' = IF alive' THEN lived \cup UnderWay ELSE lived

Init == /\ plist \in [Dirs -> Initially] /\ \E d \in Dirs : plist[d] = Nothing
        /\ job \in (IF Happens("stranger") THEN {Foreign} ELSE {})
                   \cup {Nothing} \cup {Definition(plist[d]) : d \in Dirs}
        /\ (\E d \in Dirs : plist[d] # Nothing) => job # Foreign
        /\ alive = (job # Nothing /\ StartsItself(job))
        /\ late \in SUBSET (IF job = Foreign THEN {"bootout"} ELSE {})
        /\ request \in [Runs -> Requests]
        /\ pc = [p \in Runs |-> "stat_staging"]
        /\ at = [p \in Runs |-> {}]
        /\ snap = [p \in Runs |-> [d \in Dirs |-> Nothing]]
        /\ drawn = [p \in Runs |-> [calls |-> 0, requests |-> 0, again |-> 0]]
        /\ result = [p \in Runs |-> "none"]
        /\ lived = {}
        /\ removed = (plist = [d \in Dirs |-> Nothing])

-----------------------------------------------------------------------------
(* locate, the ownership gate, and list's scan.                              *)

Present(d) == IF plist[d] # Nothing THEN {d} ELSE {}

\* list's passes over the directories, and its reads, tell of their failures
\* instead of ending on them.
Unestablished(p) == /\ Happens("calls")
                    /\ Returns(p, IF verb(p) = "list" THEN "listed_undetermined" ELSE "undetermined")

StatStaging(p) ==
    /\ pc[p] = "stat_staging"
    /\ \/ /\ at' = [at EXCEPT ![p] = Present("staging")]
          /\ Goto(p, "stat_enabled")
       \/ Unestablished(p) /\ UNCHANGED at
    /\ lived' = IF alive THEN lived \cup {p} ELSE lived \ {p}
    /\ UNCHANGED <<plist, jobVars, request, snap, drawn, removed>>

StatEnabled(p) ==
    /\ pc[p] = "stat_enabled"
    /\ LET found == at[p] \cup Present("enabled") IN
       \/ /\ found = {}
          /\ IF verb(p) = "install" THEN Goto(p, "check")
             ELSE Returns(p, IF verb(p) = "list" THEN "omitted" ELSE "not_installed")
          /\ UNCHANGED at
       \/ /\ found = Dirs /\ verb(p) # "list"
          /\ Returns(p, "ambiguous")
          /\ UNCHANGED at
       \/ /\ found # {} /\ (found = Dirs => verb(p) = "list")
          /\ at' = [at EXCEPT ![p] = found]
          /\ Goto(p, "read")
       \/ Unestablished(p) /\ UNCHANGED at
    /\ UNCHANGED <<plist, jobVars, request, snap, drawn, history>>

\* install's decision over what it read.
JudgeInstall(p, f) ==
    LET outcome == Decision(f, request[p].spec, request[p].force) IN
    IF outcome \notin Writing THEN Returns(p, outcome)
    ELSE Goto(p, IF changes_loaded_job(f, desired(p)) THEN "check" ELSE "present")

\* The first step of the other verbs behind the gate.
Gated == [uninstall |-> "withdraw", start |-> "loaded", stop |-> "stop",
          kill |-> "kill", status |-> "status"]

\* The gate: the marker alone, whether its blob decodes or not.
Judge(p, d, f) ==
    IF verb(p) = "install" THEN JudgeInstall(p, f)
    ELSE IF f = Foreign THEN Returns(p, "RefuseForeign")
    ELSE IF f = Unusable /\ verb(p) \in {"start", "status"} THEN Returns(p, "kept")
    ELSE IF verb(p) \in {"enable", "disable"}
    THEN IF d = (IF verb(p) = "enable" THEN "enabled" ELSE "staging") THEN Returns(p, "done")
         ELSE Goto(p, "link")
    ELSE Goto(p, Gated[verb(p)])

\* A plist gone since it was found is not there.
Read(p) ==
    /\ pc[p] = "read" /\ verb(p) # "list"
    /\ \E d \in at[p] :
          \/ /\ plist[d] = Nothing
             /\ Returns(p, "not_installed")
             /\ UNCHANGED snap
          \/ /\ plist[d] # Nothing
             /\ snap' = [snap EXCEPT ![p][d] = plist[d]]
             /\ Judge(p, d, plist[d])
          \/ Unestablished(p) /\ UNCHANGED snap
    /\ UNCHANGED <<plist, jobVars, request, at, drawn, history>>

\* What scan_in makes of the plists it read: two of which one is marked are in
\* both directories.
Listed(read) ==
    LET found == {d \in Dirs : read[d] # Nothing} IN
    IF ~\E d \in found : Marked(read[d]) THEN "omitted"
    ELSE IF Cardinality(found) = 2 \/ \E d \in found : read[d] = Unusable THEN "listed_unusable"
    ELSE "listed"

\* One location after the other, staging first.
ScanRead(p) ==
    /\ pc[p] = "read" /\ verb(p) = "list"
    /\ LET d == IF "staging" \in at[p] THEN "staging" ELSE "enabled" IN
       \/ /\ snap' = [snap EXCEPT ![p][d] = plist[d]]
          /\ at' = [at EXCEPT ![p] = @ \ {d}]
          /\ IF at[p] = {d} THEN Returns(p, Listed(snap'[p])) ELSE Goto(p, "read")
       \/ Unestablished(p) /\ UNCHANGED <<snap, at>>
    /\ UNCHANGED <<plist, jobVars, request, drawn, history>>

-----------------------------------------------------------------------------
(* write: is_loaded, bootout, persist_new, write_existing, undo_write.       *)

Creates(p) == at[p] = {}
where(p) == IF Creates(p) THEN "staging" ELSE CHOOSE d \in Dirs : d \in at[p]
changes(p) == Creates(p) \/ changes_loaded_job(snap[p][where(p)], desired(p))

\* Create stages and lints its plist before it; what fails there wrote nothing.
CheckLoaded(p) ==
    /\ pc[p] = "check"
    /\ \/ /\ Goto(p, IF ~Creates(p) THEN "present" ELSE IF Loaded THEN "clear" ELSE "persist")
          /\ ~Creates(p) => ~Loaded
       \/ ~Creates(p) /\ Loaded /\ Returns(p, "loaded_job")
       \/ CallFails(p)
    /\ Queries(p)
    /\ UNCHANGED <<plist, jobVars, request, at, snap, history>>

\* Another's job answers to the label of a daemon that is not there.
ClearLabel(p) ==
    /\ pc[p] = "clear"
    /\ \/ bootout /\ Goto(p, "persist") /\ UNCHANGED plist
       \/ RequestFails(p, bootout)
    /\ Sends(p)
    /\ UNCHANGED <<plist, request, at, snap, history>>

PersistNew(p) ==
    /\ pc[p] = "persist"
    /\ \/ /\ plist["staging"] = Nothing
          /\ plist' = [plist EXCEPT !["staging"] = desired(p)]
          /\ Goto(p, "recheck")
          /\ removed' = (removed /\ \E q \in Runs : pc[q] = "unlink")
       \/ /\ plist["staging"] # Nothing
          /\ Returns(p, IF drawn[p].requests > 0 THEN "slot_taken" ELSE "concurrent_change")
          /\ UNCHANGED <<plist, removed>>
       \/ CallFails(p) /\ UNCHANGED removed
    /\ UNCHANGED <<jobVars, request, locals, lived>>

\* Broken: an install whose check failed reads again.
StillPresent_Retries(p) ==
    /\ pc[p] = "present"
    /\ \/ plist[where(p)] # Nothing /\ Goto(p, "write") /\ UNCHANGED locals
       \/ /\ drawn[p].again < 2
          /\ Goto(p, "stat_staging")
          /\ at' = [at EXCEPT ![p] = {}]
          /\ snap' = [snap EXCEPT ![p] = [d \in Dirs |-> Nothing]]
          /\ drawn' = [drawn EXCEPT ![p].again = @ + 1]
    /\ UNCHANGED <<plist, jobVars, request, history>>

\* still_present: an install that made no call yet reads again.
StillPresent(p) ==
    /\ pc[p] = "present"
    /\ \/ plist[where(p)] # Nothing /\ Goto(p, "write") /\ UNCHANGED locals
       \/ /\ plist[where(p)] = Nothing
          /\ IF changes(p) THEN Returns(p, "concurrent_change") /\ UNCHANGED locals
             ELSE /\ Goto(p, "stat_staging")
                  /\ drawn' = [drawn EXCEPT ![p].again = @ + 1]
                  /\ at' = [at EXCEPT ![p] = {}]
                  /\ snap' = [snap EXCEPT ![p] = [d \in Dirs |-> Nothing]]
       \/ CallFails(p) /\ UNCHANGED locals
    /\ UNCHANGED <<plist, jobVars, request, history>>

\* A rename over whatever is at the path, or over nothing.
WriteExisting(p) ==
    /\ pc[p] = "write"
    /\ \/ /\ plist' = [plist EXCEPT ![where(p)] = desired(p)]
          /\ IF changes(p) THEN Goto(p, "recheck") ELSE Returns(p, "done")
       \/ CallFails(p)
    /\ UNCHANGED <<jobVars, request, locals, history>>

\* Broken: the job is not looked at again after the write.
RecheckAfterWrite_Skips(p) ==
    /\ pc[p] = "recheck"
    /\ Returns(p, "done")
    /\ UNCHANGED <<plist, jobVars, request, locals, history>>

RecheckAfterWrite(p) ==
    /\ pc[p] = "recheck"
    /\ \/ ~Loaded /\ Returns(p, "done")
       \/ (Loaded \/ Happens("calls")) /\ Goto(p, "undo")
    /\ Queries(p)
    /\ UNCHANGED <<plist, jobVars, request, at, snap, history>>

\* undo_write looks before it puts anything back.
Undo(p) ==
    /\ pc[p] = "undo"
    /\ \/ plist[where(p)] = desired(p) /\ Goto(p, "put_back")
       \/ plist[where(p)] # desired(p) /\ Returns(p, "put_back_blocked")
       \/ Happens("calls") /\ Returns(p, "put_back_failed")
    /\ UNCHANGED <<plist, jobVars, request, locals, history>>

PutBack(p) ==
    /\ pc[p] = "put_back"
    /\ LET previous == snap[p][where(p)] IN
       \/ /\ Creates(p) => plist["staging"] # Nothing
          /\ plist' = [plist EXCEPT ![where(p)] = previous]
          /\ removed' = (removed \/ Creates(p))
          /\ Returns(p, "in_doubt")
       \/ /\ (Creates(p) /\ plist["staging"] = Nothing) \/ Happens("calls")
          /\ Returns(p, "put_back_failed")
          /\ UNCHANGED <<plist, removed>>
    /\ UNCHANGED <<jobVars, request, locals, lived>>

-----------------------------------------------------------------------------
(* enable, disable, uninstall.                                               *)

other(d) == IF d = "staging" THEN "enabled" ELSE "staging"

\* Broken: the old name goes before the new one is there.
Link_Unlinks(p) ==
    /\ pc[p] = "link"
    /\ plist' = [plist EXCEPT ![where(p)] = Nothing]
    /\ Goto(p, "unlink")
    /\ UNCHANGED <<jobVars, request, locals, history>>

\* move_no_clobber: the link, then the removal.
Link(p) ==
    /\ pc[p] = "link"
    /\ LET src == where(p)  dest == other(src) IN
       \/ /\ plist[src] # Nothing /\ plist[dest] = Nothing
          /\ plist' = [plist EXCEPT ![dest] = plist[src]]
          /\ Goto(p, "unlink")
       \/ /\ plist[src] # Nothing /\ plist[dest] # Nothing
          /\ Returns(p, "already_exists")
          /\ UNCHANGED plist
       \/ /\ plist[src] = Nothing
          /\ Returns(p, "error")
          /\ UNCHANGED plist
       \/ CallFails(p)
    /\ UNCHANGED <<jobVars, request, locals, history>>

\* remove_file, of a move's source or of the plist uninstall read.
Remove(p) ==
    /\ pc[p] \in {"unlink", "remove"}
    /\ \/ /\ plist[where(p)] # Nothing
          /\ plist' = [plist EXCEPT ![where(p)] = Nothing]
          /\ removed' = (removed \/ pc[p] = "remove")
          /\ Returns(p, "done")
       \/ /\ plist[where(p)] = Nothing
          /\ Returns(p, "error")
          /\ UNCHANGED <<plist, removed>>
       \/ CallFails(p) /\ UNCHANGED removed
    /\ UNCHANGED <<jobVars, request, locals, lived>>

Withdraw(p) ==
    /\ pc[p] = "withdraw"
    /\ \/ bootout /\ Goto(p, "remove") /\ UNCHANGED plist
       \/ RequestFails(p, bootout)
    /\ Sends(p)
    /\ UNCHANGED <<plist, request, at, snap, history>>

-----------------------------------------------------------------------------
(* start.                                                                    *)

Waits(p) == request[p].waits
RestartsAlways(p) == snap[p][where(p)].spec \in Always

\* What follows once launchd took the request.
Requested(p) == IF Waits(p) /\ RestartsAlways(p) THEN Goto(p, "verify") ELSE Returns(p, "done")

IsLoaded(p) ==
    /\ pc[p] \in {"loaded", "reloaded"}
    /\ \/ Loaded /\ Goto(p, "live")
       \/ ~Loaded /\ IF pc[p] = "loaded" THEN Goto(p, "bootstrap") ELSE Returns(p, "error")
       \/ CallFails(p)
    /\ Queries(p)
    /\ UNCHANGED <<plist, jobVars, request, at, snap, history>>

\* The first bootstrap may have lost to another start's, or have been carried out
\* although it failed; the corrective one just failed.
Bootstrap(p) ==
    /\ pc[p] \in {"bootstrap", "load"}
    /\ \/ bootstrap(where(p)) /\ Goto(p, IF pc[p] = "load" THEN "live_again" ELSE "live")
       \/ /\ IF pc[p] = "load" THEN Returns(p, "error") ELSE Goto(p, "reloaded")
          /\ \/ (Loaded \/ plist[where(p)] = Nothing) /\ UNCHANGED jobVars
             \/ Happens("calls") /\ (bootstrap(where(p)) \/ UNCHANGED jobVars)
    /\ Sends(p)
    /\ Lives
    /\ UNCHANGED <<plist, request, at, snap, removed>>

\* Broken: a job of which nothing is known is taken for a running one.
Live_Lenient(p) ==
    /\ pc[p] \in {"live", "live_again", "verify"}
    /\ \E state \in live_state :
          IF pc[p] = "live"
          THEN IF state # "Stopped" THEN Requested(p) ELSE Goto(p, "kick")
          ELSE IF pc[p] = "live_again" THEN Goto(p, IF state # "Stopped" THEN "final" ELSE "kick_again")
          ELSE IF state # "Stopped" THEN Returns(p, "done") ELSE Goto(p, "bootout")
    /\ Queries(p)
    /\ UNCHANGED <<plist, jobVars, request, at, snap, history>>

\* A read before a request.
Live(p) ==
    /\ pc[p] \in {"live", "live_again", "verify"}
    /\ \/ \E state \in live_state :
             IF pc[p] = "live"
             THEN IF state = "Running" THEN Requested(p) ELSE Goto(p, "kick")
             ELSE IF pc[p] = "live_again"
             THEN Goto(p, IF state = "Running" THEN "final" ELSE "kick_again")
             ELSE IF state = "Running" THEN Returns(p, "done") ELSE Goto(p, "bootout")
       \/ CallFails(p)
    /\ Queries(p)
    /\ UNCHANGED <<plist, jobVars, request, at, snap, history>>

\* -p names the pid, or none that can be trusted, and then the process may not
\* be there yet; plain, the request is all. Only -p may outlast the deadline.
Kickstart(p) ==
    /\ pc[p] \in {"kick", "kick_again"}
    /\ \/ /\ Waits(p) /\ kickstart
          /\ IF pc[p] = "kick" THEN Requested(p) ELSE Goto(p, "final")
       \/ /\ Loaded /\ LeftRunning("kickstart")
          /\ IF ~Waits(p) THEN Requested(p)
             ELSE Goto(p, IF pc[p] = "kick" THEN "confirm" ELSE "final") \/ Returns(p, "timed_out")
       \/ ~Loaded /\ Returns(p, "error") /\ UNCHANGED <<plist, jobVars>>
       \/ RequestFails(p, kickstart)
    /\ Sends(p)
    /\ Lives
    /\ UNCHANGED <<plist, request, at, snap, removed>>

\* A read the deadline bounds: past it, the job's state is not known.
Confirm(p) ==
    /\ pc[p] \in {"confirm", "final"}
    /\ \/ \E state \in live_state :
             IF state # "Running" THEN Returns(p, "not_started")
             ELSE IF pc[p] = "final" THEN Returns(p, "done") ELSE Requested(p)
       \/ Returns(p, "timed_out")
       \/ CallFails(p)
    /\ Queries(p)
    /\ UNCHANGED <<plist, jobVars, request, at, snap, history>>

\* The one corrective cycle begins.
Correct(p) ==
    /\ pc[p] = "bootout"
    /\ \/ bootout /\ Goto(p, "load") /\ UNCHANGED plist
       \/ RequestFails(p, bootout)
    /\ Sends(p)
    /\ UNCHANGED <<plist, request, at, snap, history>>

-----------------------------------------------------------------------------
(* stop, kill, status.                                                       *)

Stop(p) ==
    /\ pc[p] = "stop"
    /\ \/ bootout /\ Returns(p, "done") /\ UNCHANGED plist
       \/ Waits(p) /\ LeftRunning("bootout") /\ Returns(p, "timed_out") /\ UNCHANGED plist
       \/ RequestFails(p, bootout)
    /\ Sends(p)
    /\ UNCHANGED <<plist, request, at, snap, history>>

Kill(p) ==
    /\ pc[p] = "kill"
    /\ \/ Exit /\ Returns(p, "done") /\ UNCHANGED plist
       \/ ~alive /\ Returns(p, "not_running") /\ UNCHANGED <<plist, jobVars>>
       \/ RequestFails(p, Exit)
    /\ Sends(p)
    /\ UNCHANGED <<plist, request, at, snap, history>>

\* live_status draws on no reservation.
Status(p) ==
    /\ pc[p] = "status"
    /\ Returns(p, "done") \/ CallFails(p)
    /\ UNCHANGED <<plist, jobVars, request, locals, history>>

Crash(p) ==
    /\ Happens("crash") /\ pc[p] \notin {"stat_staging", "ended", "crashed"}
    /\ pc' = [pc EXCEPT ![p] = "crashed"]
    /\ UNCHANGED <<plist, jobVars, request, locals, result, history>>

InstallStep(p) == \/ CheckLoaded(p) \/ ClearLabel(p) \/ PersistNew(p) \/ StillPresent(p)
                  \/ WriteExisting(p) \/ RecheckAfterWrite(p) \/ Undo(p) \/ PutBack(p)

StartStep(p) == \/ IsLoaded(p) \/ Bootstrap(p) \/ Live(p) \/ Kickstart(p) \/ Confirm(p) \/ Correct(p)

RunStep(p) == \/ StatStaging(p) \/ StatEnabled(p) \/ Read(p) \/ ScanRead(p)
              \/ InstallStep(p) \/ Link(p) \/ Remove(p) \/ Withdraw(p)
              \/ StartStep(p) \/ Stop(p) \/ Kill(p) \/ Status(p)

LaunchdActs == /\ LaunchdStep
               /\ Lives
               /\ UNCHANGED <<plist, request, pc, locals, result, removed>>

Next == \/ \E p \in Runs : RunStep(p) \/ Crash(p)
        \/ LaunchdActs

Spec == Init /\ [][Next]_vars

-----------------------------------------------------------------------------
(* Properties.                                                               *)

TypeOK ==
    /\ plist \in [Dirs -> Contents]
    /\ job \in Definitions \cup {Nothing}
    /\ alive \in BOOLEAN /\ (alive => Loaded)
    /\ late \subseteq {"bootout", "kickstart"}
    /\ request \in [Runs -> Requests]
    /\ pc \in [Runs -> Places]
    /\ at \in [Runs -> SUBSET Dirs]
    /\ snap \in [Runs -> [Dirs -> Contents]]
    /\ drawn \in [Runs -> [calls : Nat, requests : Nat, again : Nat]]
    /\ result \in [Runs -> Results]
    /\ lived \subseteq Runs
    /\ removed \in BOOLEAN

\* No verb draws more launchctl calls or requests than it reserved before its
\* first one, whatever the other runs did and however often an install read
\* again: past it a step would fail half way for want of a file or a reaper.
WithinReservation ==
    \A p \in Runs : /\ drawn[p].calls <= needs(verb(p)).calls
                    /\ drawn[p].requests <= needs(verb(p)).requests

\* The plist of a daemon that was installed is in one of the directories until
\* a run takes it away on purpose (uninstall, or install's put-back of what it
\* created): not lost by enables and disables that overlap, nor by a crash
\* between a move's link and its removal. (A removal goes by path: a move half
\* way while the plist is uninstalled and installed again takes the new one.)
PlistIsSomewhere == removed \/ \E d \in Dirs : plist[d] # Nothing

\* A start that waits answers Ok only if the job had a process at some time
\* since the start began.
ConfirmedStartRan ==
    \A p \in Runs : verb(p) = "start" /\ Waits(p) /\ result[p] = "done" => p \in lived

AllEnded == \A p \in Runs : pc[p] = "ended"

Installed == {p \in Runs : verb(p) = "install" /\ result[p] = "done"}
Moved == {p \in Runs : verb(p) \in {"enable", "disable"} /\ result[p] = "done"}

\* When the runs have ended, none of them an uninstall or in doubt or failed,
\* launchd has loaded what the plist says or nothing, if no two of them
\* installed, nor one installed while another moved the plist: install does not
\* write behind a loaded job and call that success, though the job may be loaded
\* between its check and its write. (A write into a move's old path, between its
\* link and its removal or after that, leaves another plist at the new one.)
LoadedIsOnDisk ==
    /\ AllEnded
    /\ \A p \in Runs : verb(p) # "uninstall" /\ result[p] \notin InDoubt \cup {"error"}
    /\ \A p, q \in Installed : p = q
    /\ Installed = {} \/ Moved = {}
    => \A d \in Dirs : plist[d] # Nothing /\ Loaded => job = Definition(plist[d])

\* install's loop has no cap, and needs none: it reads again only where another
\* run took the plist away, each of which does so once, and then ends.
RetriesAreCaused ==
    \A p \in Runs :
        drawn[p].again <= Cardinality({q \in Runs \ {p} :
            verb(q) \in {"install", "uninstall", "enable", "disable"} /\ pc[q] \in {"ended", "crashed"}})

\* A verb stays within what it reserved, and an install within the races it met.
WithinBounds == TypeOK /\ WithinReservation /\ RetriesAreCaused
=============================================================================
