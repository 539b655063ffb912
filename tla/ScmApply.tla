------------------------------ MODULE ScmApply ------------------------------
(* install, enable, disable and uninstall of one Windows service, by several *)
(* goetia processes beside an administrator (scm/manager.rs, registry.rs and *)
(* identity.rs; the install of manager/flow.rs). Each action is one call into *)
(* SCM, the registry or sc.exe that another process can see before or after. *)
(* The stop inside uninstall is ScmVerbs' subject: here it succeeds or fails. *)
EXTENDS Decide, ScmRecord, Sequences

CONSTANTS Runs,        \* goetia processes, one verb each
          Verbs,       \* the verbs the runs may be
          MaxMeddling, \* bound on what the administrator does
          MaxMishaps,  \* bound on calls that fail and processes that are killed
          Mishaps      \* which of these happen: "calls", "crash"

ASSUME ScmApplyAssumption ==
    /\ IsFiniteSet(Runs)
    /\ Verbs \subseteq {"install", "enable", "disable", "uninstall"}
    /\ Mishaps \subseteq {"calls", "crash"}
    /\ MaxMeddling \in Nat /\ MaxMishaps \in Nat
    /\ \A s \in Specs : s # NoSpec

VARIABLES service,     \* the record at the name
          rights,      \* the accounts that hold SeServiceLogonRight
          source,      \* the event source is registered
          handle,      \* handle[p]: the service p has open, 0 for none
          request,     \* request[p]: the verb p runs, and its arguments
          pc,          \* pc[p]: what p does next; where it was when it ended
          next,        \* next[p]: the parameter p writes next
          snap,        \* snap[p]: what p read
          result,      \* result[p]: what p answered
          meddled,     \* what the administrator did so far
          mishaps,     \* what went wrong so far
          alone,       \* history: nobody else wrote since p read
          ours         \* history: the services goetia created or installed,
                       \* less those whose parameters the administrator took

external == <<service, rights, source>>
history == <<meddled, mishaps>>
vars == <<external, handle, request, pc, next, snap, result, history, alone, ours>>

-----------------------------------------------------------------------------
(* Requests and snapshots.                                                   *)

\* --force and the password are read where they count: ReadEnvironment, Prepare.
Requests == {r \in [verb : Verbs, spec : Specs \cup {NoSpec}] : (r.verb = "install") = (r.spec # NoSpec)}

Installs(p) == request[p].verb = "install"
desired(p) == registration(request[p].spec, "running")

\* obj: the service read, 0 when there was none. written: the service whose
\* Parameters key is open.
NoSnap == [obj |-> 0, start |-> "none", parameters |-> Empty, live |-> Absent(0), written |-> 0]

\* Nothing, a service goetia never marked, or one it installed: this id's, or
\* one of another id that SCM takes for the same name.
Init == /\ service \in {Absent(0), [Absent(1) EXCEPT !.there = TRUE, !.image = "theirs"]}
                   \cup {Installed(s, v, "demand") : s \in Specs, v \in Versions}
                   \cup {Installed([s EXCEPT !.id = "other"], "running", "auto") : s \in Specs}
        /\ rights = {service.account}
        /\ source = service.there
        /\ handle = [p \in Runs |-> 0]
        /\ request \in [Runs -> Requests]
        /\ pc = [p \in Runs |-> "read"]
        /\ next = [p \in Runs |-> 1]
        /\ snap = [p \in Runs |-> NoSnap]
        /\ result = [p \in Runs |-> "none"]
        /\ meddled = 0 /\ mishaps = 0
        /\ alone = [p \in Runs |-> FALSE]
        /\ ours = {service.obj : m \in Spelled(service.parameters, "Marker")}

Runs_(p, l) == pc[p] = l /\ result[p] = "none"

Goto(p, l) == pc' = [pc EXCEPT ![p] = l] /\ UNCHANGED result
Returns(p, r) == result' = [result EXCEPT ![p] = r] /\ UNCHANGED pc

\* A handle that closes on a marked record is the last thing that keeps it.
Holds(p, obj) == handle' = [handle EXCEPT ![p] = obj]
Becomes(s) ==
    service' = IF s.marked /\ \A q \in Runs : handle'[q] # s.obj THEN Absent(s.obj) ELSE s

\* What p writes, everybody else was not alone with.
Alone(p) ==
    alone' = IF service' = service THEN alone ELSE [q \in Runs |-> alone[q] /\ q = p]

Keeps == UNCHANGED <<rights, source, request, next, snap, ours>>

\* A call that fails, at its place and with what it answers.
Fails(p, l, r) ==
    /\ Runs_(p, l)
    /\ "calls" \in Mishaps /\ mishaps < MaxMishaps
    /\ mishaps' = mishaps + 1
    /\ Returns(p, r) /\ Holds(p, 0) /\ Becomes(service)
    /\ Alone(p) /\ Keeps /\ UNCHANGED meddled

Ends(p, r) == Returns(p, r) /\ Holds(p, 0) /\ Becomes(service) /\ Alone(p)

-----------------------------------------------------------------------------
(* Reading. The service stays open until the verb is done with the snapshot; *)
(* uninstall closes it at once.                                              *)

\* A spec SCM cannot honour is refused before anything is read.
Refuse(p) ==
    /\ Runs_(p, "read") /\ Installs(p) /\ ~Registrable(request[p].spec)
    /\ Returns(p, "invalid")
    /\ UNCHANGED <<external, handle, next, request, snap, alone, ours, history>>

\* Broken: the snapshot lets go of the service.
Kept_Not(p) == Holds(p, 0)

Kept(p) == Holds(p, service.obj)

Open(p) ==
    /\ Runs_(p, "read") /\ (Installs(p) => Registrable(request[p].spec))
    /\ snap' = [snap EXCEPT ![p].obj = IF service.there THEN service.obj ELSE 0,
                            ![p].start = service.start]
    /\ alone' = [alone EXCEPT ![p] = TRUE]
    /\ UNCHANGED <<external, next, request, ours, history>>
    /\ IF service.there
       THEN Kept(p) /\ Goto(p, "parameters")
       ELSE /\ UNCHANGED handle
            /\ IF Installs(p) THEN Goto(p, "prepare") ELSE Returns(p, "not_installed")

\* judge, short of what is installed: OtherDaemon and an unusable blob are
\* answered without reading it.
Ownership(params) ==
    IF ~HasMarker(params) THEN "Foreign"
    ELSE IF ~Decodes(params) THEN "OursUnusable"
    ELSE IF extract(params).spec.id # "own" THEN "OtherDaemon"
    ELSE IF Registrable(extract(params).spec) THEN "Ours" ELSE "OursUnusable"

\* The ownership gate of the other verbs asks for the marker only.
ReadParameters(p) ==
    LET owned == Ownership(service.parameters)
    IN  /\ Runs_(p, "parameters")
        /\ snap' = [snap EXCEPT ![p].parameters = service.parameters]
        /\ UNCHANGED <<rights, source, next, request, ours, history>>
        /\ IF Installs(p)
           THEN IF owned = "Ours"
                THEN Goto(p, "live") /\ UNCHANGED <<handle, service, alone>>
                ELSE Ends(p, Settled[owned])
           ELSE IF owned = "Foreign" THEN Ends(p, "foreign")
           ELSE IF request[p].verb = "uninstall"
           THEN Goto(p, "actor") /\ Holds(p, 0) /\ Becomes(service) /\ Alone(p)
           ELSE Goto(p, "flip") /\ UNCHANGED <<handle, service, alone>>

\* query_config and the failure actions, through the handle.
ReadLive(p) ==
    /\ Runs_(p, "live")
    /\ snap' = [snap EXCEPT ![p].live = service]
    /\ Goto(p, "environment")
    /\ UNCHANGED <<external, handle, next, request, alone, ours, history>>

Decision(p, force) ==
    LET params == snap[p].parameters
        b == extract(params)
    IN  decide([ownership |-> "Ours",
                version |-> b.version,
                regenerated |-> registration(b.spec, "running"),
                onDisk |-> read_live_registration(snap[p].live,
                               environment_lines(service.environment), params)],
               desired(p), "running", force, "Absent")

ReadEnvironment(p) ==
    /\ Runs_(p, "environment")
    /\ snap' = [snap EXCEPT ![p].live = Absent(0), ![p].parameters = Empty]
    /\ UNCHANGED <<rights, source, next, request, ours, history>>
    /\ \E force \in BOOLEAN :
          IF Decision(p, force) \in Writing
          THEN Goto(p, "prepare") /\ UNCHANGED <<handle, service, alone>>
          ELSE Ends(p, Decision(p, force))

-----------------------------------------------------------------------------
(* apply.                                                                    *)

\* Broken: the password is whatever the variable holds.
Secret_Stale(p) == TRUE

\* Only an account that needs a password has the variable read: unset, or not
\* Unicode, it ends the install.
Secret(p) == account_needs_password(desired(p).account)

\* An account that has the right, or needs none, is left as it is.
grant_service_logon_right(account) == rights' = rights \cup {a \in {account} : account_needs_password(a)}

\* One key for all services; registering it again changes nothing.
register_event_source == source' = TRUE

\* The preconditions come before any write to the service. A failure may come
\* before or after the right is granted.
Prepare(p) ==
    LET account == desired(p).account
    IN  /\ Runs_(p, "prepare")
        /\ UNCHANGED <<next, snap, request, ours, meddled>>
        /\ \/ /\ account_needs_password(account)
              /\ Ends(p, "password") /\ UNCHANGED <<rights, source, mishaps>>
           \/ /\ grant_service_logon_right(account) /\ register_event_source
              /\ Goto(p, IF snap[p].obj = 0 THEN "create" ELSE "open")
              /\ UNCHANGED <<handle, service, alone, mishaps>>
           \/ /\ "calls" \in Mishaps /\ mishaps < MaxMishaps
              /\ mishaps' = mishaps + 1
              /\ UNCHANGED rights \/ grant_service_logon_right(account)
              /\ Ends(p, "error") /\ UNCHANGED source

\* The handle CreateServiceW returns is dropped at once.
Create(p) ==
    /\ Runs_(p, "create")
    /\ UNCHANGED <<rights, source, next, snap, request, history>>
    /\ IF service.there
       THEN Ends(p, "error") /\ UNCHANGED ours
       ELSE /\ Goto(p, "clear") /\ UNCHANGED handle
            /\ service' = Created(service.obj + 1, desired(p), Secret(p))
            /\ ours' = ours \cup {service.obj + 1}
            /\ Alone(p)

\* A second handle to the service read, and the start type to restate.
OpenToUpdate(p) ==
    /\ Runs_(p, "open")
    /\ snap' = [snap EXCEPT ![p].start = service.start]
    /\ Goto(p, "change")
    /\ UNCHANGED <<external, handle, next, request, alone, ours, history>>

ChangeConfig(p) ==
    /\ Runs_(p, "change")
    /\ Keeps /\ UNCHANGED history
    /\ IF service.marked
       THEN Ends(p, "error")
       ELSE /\ Goto(p, "clear") /\ UNCHANGED handle
            /\ Becomes(Changed(service, desired(p), snap[p].start, Secret(p)))
            /\ Alone(p)

\* Broken: what is under the key stays there.
Cleared_Kept(s) == s.parameters

\* The subkey is deleted with everything in it and made again.
Cleared(s) == Empty

\* The key is opened by name, and is gone with the service; creating the subkey
\* may fail once the old one is deleted.
ClearParameters(p) ==
    /\ Runs_(p, "clear")
    /\ UNCHANGED <<rights, source, next, request, ours, meddled>>
    /\ IF ~service.there
       THEN Ends(p, "error") /\ UNCHANGED <<snap, mishaps>>
       ELSE /\ snap' = [snap EXCEPT ![p].written = service.obj]
            /\ \/ /\ Goto(p, "write") /\ UNCHANGED <<handle, mishaps>>
                  /\ Becomes([service EXCEPT !.parameters = Cleared(service)]) /\ Alone(p)
               \/ /\ "calls" \in Mishaps /\ mishaps < MaxMishaps
                  /\ mishaps' = mishaps + 1
                  /\ Holds(p, 0) /\ Returns(p, "error")
                  /\ Becomes([service EXCEPT !.parameters = Empty]) /\ Alone(p)

\* Broken: the marker is written last.
Field_Last(n) == <<"Schema", "Spec", "Version", "Marker">>[n]

Field(n) == Order[n]

\* One value, in the key of the service it was opened for.
WriteParameter(p) ==
    LET f == Field(next[p])
        params == desired(p).parameters
    IN  /\ Runs_(p, "write")
        /\ UNCHANGED <<rights, source, snap, request, ours, history>>
        /\ IF ~service.there \/ service.obj # snap[p].written
           THEN Ends(p, "error") /\ UNCHANGED next
           ELSE /\ next' = [next EXCEPT ![p] = @ + 1]
                /\ Goto(p, IF next[p] = Len(Order) THEN "environ" ELSE "write")
                /\ UNCHANGED handle
                /\ Becomes([service EXCEPT !.parameters =
                       [k \in DOMAIN @ \cup {f} |-> IF k = f THEN params[f] ELSE @[k]]])
                /\ Alone(p)

\* Broken: no lines leave the value there.
Environment_Left(s, lines) ==
    IF lines = {} THEN s.environment ELSE [lines |-> lines, odd |-> FALSE]

\* No lines delete the value.
Environment(s, lines) == [lines |-> lines, odd |-> FALSE]

WriteEnvironment(p) ==
    /\ Runs_(p, "environ")
    /\ Keeps /\ UNCHANGED history
    /\ IF ~service.there
       THEN Ends(p, "error")
       ELSE /\ Goto(p, "failure") /\ UNCHANGED handle
            /\ Becomes([service EXCEPT !.environment = Environment(service, desired(p).environment)])
            /\ Alone(p)

\* sc.exe failure and failureflag, in the order each case has them; sc.exe
\* refuses a marked service.
Failure(s, reg, step) ==
    IF reg.failure = {} THEN (IF step = "failure" THEN [s EXCEPT !.flag = FALSE]
                                                  ELSE [s EXCEPT !.actions = "none"])
    ELSE (IF step = "failure" THEN [s EXCEPT !.actions = "restart"] ELSE [s EXCEPT !.flag = TRUE])

apply_failure_actions(p, step) ==
    /\ Runs_(p, step)
    /\ Keeps /\ UNCHANGED history
    /\ IF ~service.there \/ service.marked
       THEN Ends(p, "error")
       ELSE IF step = "failure"
       THEN /\ Goto(p, "failureflag") /\ UNCHANGED handle
            /\ Becomes(Failure(service, desired(p), step)) /\ Alone(p)
       ELSE /\ Holds(p, 0) /\ Returns(p, "done")
            /\ Becomes(Failure(service, desired(p), step)) /\ Alone(p)

-----------------------------------------------------------------------------
(* enable and disable; uninstall.                                            *)

set_start_type(p) ==
    /\ Runs_(p, "flip")
    /\ Keeps /\ UNCHANGED history
    /\ IF service.marked
       THEN Ends(p, "error")
       ELSE /\ Holds(p, 0) /\ Returns(p, "done")
            /\ Becomes([service EXCEPT !.start = IF request[p].verb = "enable" THEN "auto" ELSE "demand"])
            /\ Alone(p)

\* The wait's actor, opened by name once the snapshot's handle is closed.
OpenActor(p) ==
    /\ Runs_(p, "actor")
    /\ UNCHANGED <<rights, source, next, request, ours, history>>
    /\ IF service.there
       THEN /\ Holds(p, service.obj) /\ Goto(p, "disable") /\ UNCHANGED <<service, alone>>
            /\ snap' = [snap EXCEPT ![p].written = service.obj, ![p].start = service.start]
       ELSE Ends(p, "done") /\ UNCHANGED snap

\* Broken: the start type stays.
Disabled_Not(s) == s

Disabled(s) == [s EXCEPT !.start = "disabled"]

\* One somebody else marked is left to them, once it has stopped.
DisableBeforeDelete(p) ==
    /\ Runs_(p, "disable")
    /\ Keeps /\ UNCHANGED <<handle, history>>
    /\ IF service.marked
       THEN Goto(p, "settle_marked") /\ UNCHANGED <<service, alone>>
       ELSE /\ Becomes(Disabled(service))
            /\ Goto(p, "settle") /\ Alone(p)

\* Broken: the actor stays open through the delete.
Closed_Late(p) == Holds(p, handle[p])

\* The actor is closed before the delete.
Closed(p) == Holds(p, 0)

\* The stop's end, see ScmVerbs.
Stopped(p) ==
    /\ Keeps /\ UNCHANGED history
    /\ \/ /\ Runs_(p, "settle_marked")
          /\ Ends(p, "done")
       \/ /\ Runs_(p, "settle")
          /\ Closed(p) /\ Becomes(service) /\ Alone(p)
          /\ Goto(p, "delete")

DeleteService(p) ==
    /\ Runs_(p, "delete")
    /\ Keeps /\ UNCHANGED <<handle, history>>
    /\ Becomes([service EXCEPT !.marked = service.there])
    /\ Returns(p, "done") /\ Alone(p)

-----------------------------------------------------------------------------
(* What goes wrong, and the administrator.                                   *)

CallFails(p) ==
    \/ \E l \in {"read", "parameters", "live", "create", "open", "change", "clear",
                 "write", "environ", "failure", "failureflag", "flip", "settle_marked"} :
           Fails(p, l, IF l \in {"read", "parameters"} THEN "undetermined"
                       ELSE IF l = "live" THEN "RefuseUnusable" ELSE "error")
    \/ Installs(p) /\ request[p].spec.user \in Sids /\ Fails(p, "read", "error")  \* resolve
    \/ Fails(p, "environment", "RefuseUnusable")
    \/ Fails(p, "actor", "not_deleted")
    \/ Fails(p, "disable", "unchanged")
    \/ Fails(p, "settle", "not_stopped")
    \/ Fails(p, "delete", "not_deleted_disabled")

Crash(p) ==
    /\ result[p] = "none"
    /\ "crash" \in Mishaps /\ mishaps < MaxMishaps
    /\ mishaps' = mishaps + 1
    /\ Ends(p, "killed")
    /\ Keeps /\ UNCHANGED meddled

Spoil(params) ==
    {[k \in DOMAIN params \ {"Marker"} |-> params[k]],
     [k \in DOMAIN params \cup {"Stray"} |-> IF k = "Stray" THEN "hand" ELSE params[k]],
     [k \in DOMAIN params \cup {"marker"} |-> IF k = "marker" THEN "goetia" ELSE params[k]],
     [k \in DOMAIN params |-> IF k = "Spec" THEN blob(NoSpec, "running") ELSE params[k]]}

Edited(s) ==
    {[s EXCEPT !.image = "theirs"], [s EXCEPT !.actions = "none"], [s EXCEPT !.flag = ~@],
     [s EXCEPT !.environment.odd = TRUE], [s EXCEPT !.environment.lines = {"HAND=1"}]}
    \cup {[s EXCEPT !.start = t] : t \in StartTypes}
    \cup {[s EXCEPT !.parameters = p] : p \in Spoil(s.parameters)}

\* An edit, sc delete, or sc create of a service of their own.
Meddle ==
    /\ meddled < MaxMeddling /\ meddled' = meddled + 1
    /\ \/ /\ service.there
          /\ \E s \in Edited(service) : service' = s
          /\ ours' = IF HasMarker(service.parameters) /\ ~HasMarker(service'.parameters)
                     THEN ours \ {service.obj} ELSE ours
          /\ UNCHANGED handle
       \/ /\ service.there
          /\ UNCHANGED <<handle, ours>>
          /\ Becomes([service EXCEPT !.marked = TRUE])
       \/ /\ ~service.there
          /\ service' = [Absent(service.obj + 1) EXCEPT !.there = TRUE, !.image = "theirs"]
          /\ UNCHANGED <<handle, ours>>
    /\ alone' = [p \in Runs |-> FALSE]
    /\ UNCHANGED <<rights, source, request, pc, next, snap, result, mishaps>>

Step(p) ==
    \/ Refuse(p) \/ Open(p) \/ ReadParameters(p) \/ ReadLive(p) \/ ReadEnvironment(p)
    \/ Prepare(p) \/ Create(p) \/ OpenToUpdate(p) \/ ChangeConfig(p)
    \/ ClearParameters(p) \/ WriteParameter(p) \/ WriteEnvironment(p)
    \/ apply_failure_actions(p, "failure") \/ apply_failure_actions(p, "failureflag")
    \/ set_start_type(p) \/ OpenActor(p) \/ DisableBeforeDelete(p) \/ Stopped(p) \/ DeleteService(p)

Next == Meddle \/ \E p \in Runs : Step(p) \/ CallFails(p) \/ Crash(p)

Spec == Init /\ [][Next]_vars

-----------------------------------------------------------------------------

Places == {"read", "parameters", "live", "environment", "prepare", "create", "open", "change",
           "clear", "write", "environ", "failure", "failureflag", "flip", "actor", "disable",
           "settle", "settle_marked", "delete"}

Results == {"none", "done", "not_installed", "foreign", "invalid", "password", "error",
            "undetermined", "killed", "not_deleted", "unchanged", "not_stopped",
            "not_deleted_disabled", "UpToDate"} \cup Refusing

MaxObj == 1 + Cardinality(Runs) + MaxMeddling

TypeOK ==
    /\ service.obj \in 0..MaxObj
    /\ service.start \in StartTypes
    /\ DOMAIN service.parameters \subseteq DOMAIN Folded
    /\ rights \subseteq {registration(s, "running").account : s \in Specs} \cup {"LocalSystem"}
    /\ source \in BOOLEAN
    /\ handle \in [Runs -> 0..MaxObj]
    /\ request \in [Runs -> Requests]
    /\ pc \in [Runs -> Places]
    /\ next \in [Runs -> 1..(Len(Order) + 1)]
    /\ result \in [Runs -> Results]
    /\ meddled \in 0..MaxMeddling /\ mishaps \in 0..MaxMishaps
    /\ alone \in [Runs -> BOOLEAN]
    /\ ours \subseteq 1..MaxObj

Answers(p, r) == result[p] = "none" /\ result'[p] = r

Updating(p) == /\ Installs(p) /\ snap[p].obj # 0 /\ result[p] = "none"
               /\ pc[p] \in {"prepare", "open", "change", "clear", "write", "environ",
                             "failure", "failureflag"}

\* The handle install keeps from its read: whatever others delete and make again
\* meanwhile, every write of an update goes to the service that was read.
UpdatesWhatItRead == \A p \in Runs : Updating(p) => service.there /\ service.obj = snap[p].obj

\* An install nobody wrote beside, over whatever it found, forced over a hand
\* edit or not: what it answers done for reads back as what it wants, so that
\* the next install is up to date; an update keeps the start type it found.
DoneReadsBack ==
    [][\A p \in Runs :
          Installs(p) /\ Answers(p, "done") /\ alone[p] =>
              /\ ReadBack(service') = desired(p)
              /\ service'.start = IF snap[p].obj = 0 THEN "demand" ELSE snap[p].start]_vars

\* Between the service and its first parameter, or between the old parameters
\* and the new marker.
InWindow(p) == Installs(p) /\ pc[p] \in {"clear", "write"} /\ next[p] = 1

\* A service of goetia's is without its marker only while an install is in that
\* window, or because one ended there: no other failure, crash or race makes a
\* service goetia installed read as somebody else's.
UnmarkedIsWindow ==
    service.there /\ service.obj \in ours /\ ~HasMarker(service.parameters)
        => \E p \in Runs : InWindow(p)

\* The preconditions hold of every service goetia wrote: a start does not fail
\* for a logon right or a password that is missing, and no account that needs
\* none was ever given one.
CanLogOn ==
    service.there /\ service.obj \in ours =>
        /\ source
        /\ service.secret = account_needs_password(service.account)
        /\ service.secret => service.account \in rights

\* A done uninstall leaves the service deleted, or marked and kept by another
\* process's handle alone.
UninstalledIsGone ==
    [][\A p \in Runs :
          request[p].verb = "uninstall" /\ Answers(p, "done")
              /\ service'.there /\ service'.obj = snap[p].written =>
              service'.marked /\ \E q \in Runs \ {p} : handle'[q] = service'.obj]_vars

\* What a failed uninstall says it left, it left, unless somebody else wrote,
\* or had marked it: the start type unchanged, or the service disabled and not deleted.
FailureIsTrue ==
    [][\A p \in Runs :
          alone[p] /\ ~service.marked =>
              /\ Answers(p, "unchanged") => service'.there /\ service'.start = snap[p].start
              /\ Answers(p, "not_stopped") \/ Answers(p, "not_deleted_disabled") =>
                     service'.there /\ ~service'.marked /\ service'.start = "disabled"]_vars

\* Whatever others do meanwhile, the record and every update of it stay sound.
UpdatesAreSound == TypeOK /\ UpdatesWhatItRead

\* uninstall answers the truth, done or failed.
UninstallIsTrue == UninstalledIsGone /\ FailureIsTrue

Ended == \A p \in Runs : result[p] # "none"

\* What an install found to be goetia's is goetia's once it has ended, however it
\* ended: decide.rs says that an interrupted install never wedges an id with no
\* remedy in the tool. The order of write_parameters refutes it.
ReinstallNeverWedges ==
    \A p \in Runs :
        Ended /\ Installs(p) /\ service.there /\ service.obj = snap[p].obj /\ service.obj \in ours
        => HasMarker(service.parameters)
=============================================================================
