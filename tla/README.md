# A TLA+ model of goetia

goetia installs one declarative daemon description as a native service of the
host: a systemd unit, a launchd job or a Windows service. These modules model
the parts of it where processes, threads and service managers interleave, the
TLC configurations check them on small instances, and the `*Proofs` modules
prove the safety of some of them for every value of their constants.

`PROJECT.json` lists the components, the runs, the hazards and, under `map`,
the lines of the source each definition stands for.

## The system

| component | state it keeps | operations | what is hard | modules |
|---|---|---|---|---|
| goetia-shim (`src/bin/shim`) | the stop bus (fate, gate), the child, SCM's status | SCM's control callback, launch, wait, stop, kill, report | three threads; every kill, wait and report may fail | `Shim`, `RunPromise`, `ShimProofs` |
| SCM exit records (`backend/scm/exit_status.rs`) | none | encode, decode | i32/u32, values with a meaning of their own | `ExitStatus` |
| SCM waits (`backend/scm/wait.rs`, `wait/system.rs`) | an SCM handle and its one-shot notification | stop, start, settle and stop | the service moves between any two calls; restart policy; several goetia processes | `ScmService`, `StopWait`, `ScmVerbs`, `ScmVerbsProofs` |
| SCM manager, registry, identity, registration (`backend/scm/manager.rs`, `manager/*.rs`, `generate.rs`) | the service's record, its registry values, handles | read, apply, enable, disable, uninstall, scan | a service has no atomic write: crash windows, other writers, deletion by handle count | `ScmRecord`, `ScmApply`, `ScmApplyProofs`; the waits above |
| SCM kill (`backend/scm/kill.rs`) | a process handle, a notification | kill | pid reuse; restarts; two kills | `ScmKill`, `ScmKillProofs` |
| install decision (`decide.rs`, `manager/flow.rs`) | none | install, preview, list | other writers between read and write | `Decide`, used by `SystemdUnit`, `Launchd`, `ScmApply` |
| systemd writes (`backend/systemd/manager.rs`, `manager/write.rs`, `manager/discover.rs`) | the unit file, a quarantine | create, replace, uninstall, enable, disable | no-clobber against other writers; crashes | `SystemdUnit`, `Custody`, `SystemdUnitProofs` |
| systemctl client (`manager/systemctl.rs`) | the version gate | start, stop, restart, kill, enable, disable, reload, show | what an exit says of a job that others may cancel | `Host`, `JobQueue`, `Systemctl` |
| bounded clients (`backend/bounded.rs`, `bounded/spares.rs`) | a child, threads made ahead | spawn, wait under a deadline, reap | what an expired deadline says of a request | `Systemctl` |
| budgets (`manager/budget.rs`) | a deadline | resolve, what is left, milliseconds | rounding, caps, a spent budget | `Budget`, `BudgetProofs` |
| command line (`cli/restart.rs`, `cli/install.rs`, `cli/support.rs`, `cli/exit.rs`) | none | restart's two legs, install's enable and start, exit codes | a leg that fails after one that worked | `Commands`, `CommandsProofs` |
| launchd manager (`backend/launchd/*.rs`) | two directories, the loaded job | install, enable, disable, uninstall, start, stop, kill, status, list | move by link and unlink; a job loaded from an older plist; requests that outlive their verb | `Plists`, `Launchctl`, `Launchd`, `LaunchdProofs` |
| spec, blob, text generators, error texts, printing | none | parse, resolve, render | pure, sequential | not modelled, but for what the rest tells apart |

A verb of the CLI goes through `manager.rs` to one backend. On Windows the
backend talks to the Service Control Manager (SCM), which runs goetia-shim as
the service's process, which runs the daemon; the two sides meet only in SCM's
status and in the exit record (`ExitStatus`). On the other systems the backend
writes a file and runs `systemctl` or `launchctl` as a bounded child.

## The shim

`Shim.tla` is one run of goetia-shim. Each action is the code of one thread
between two points where another can see it: a lock of the stop bus, a call
into SCM or into the process library. The service thread has its place in `pc`,
the waiter thread in `waiter`; SCM's control callback is `HandleControl`. `fate`,
`childDone` and `waitFailure` are the bus; `root`, `descendants` and `exit` are
the daemon's tree; `scm`, `record` and `inFlight` are what SCM holds and has
sent. Every kill, wait, spawn, thread and status report may fail, by a disjunct
of its action. `RunPromise.tla` is what the run promises without threads;
`KeepsPromise` says that `Shim` implements it.

- `shim` (`MCShim.cfg`): with daemon codes on both sides of each boundary and a
  word of 13 bits (`Half = 4096`, above every special code), which is enough
  because codes are only compared and wrapped. An accepted stop is never
  reported as a failure SCM restarts, STOPPED other than the incomplete stop is
  reported only over a dead tree, the record tells which outcome it was, and the
  tree is not torn down while SCM reads RUNNING. A stop or an exit ends the run:
  weak fairness on the two threads, which the operating system runs, and none on
  SCM, on the daemon or on a call that succeeds. `StopCompletes` leaves out the
  one wait of the finding below.
- `shim_drop_hang` (`MCShimDrop.cfg`): the finding. After a failed wait and two
  refused kills, `run_daemon` drops the child it could not kill, and the drop
  waits for it before STOPPED is reported.

`ShimProofs` proves type correctness, the four safety properties and the
refinement for every `Half`, every set of codes and with every failure. The
inductive invariant `IInv` relates the service thread's `pc` to what it knows:
which of fate, gate and waiter it has already seen, and at which places the
tree is known to have ended. Without it `AcceptedStopWins` is not inductive:
`reported` is computed some steps after `fate` was read, so the invariant
carries "what settle decided still holds" across them.

## SCM: stop, start, uninstall

`ScmService.tla` is SCM and the service as `wait.rs` relies on them (the facts
its comments number P1 to P27): a status, one-shot notifications, the restart
policy, the deletion mark. It is external; its actions are the service's own
moves. `StopWait.tla` translates the stop side, one call into SCM per action;
`ScmVerbs.tla` adds the start side and composes them for several processes. A
notification mask is a set of states; `Register` says when a registration fires
at once and when it may be silent. `since` is history: what the service has
been since each process made its request.

- `scm_verbs` (`MCScmVerbs.cfg`): two processes, two starts; deadlines may run
  out. No wait is parked over a state it waits for; a confirmed stop happened
  after its request, and so did a confirmed start that joined one of SCM's, or any
  other while no restart of SCM's failed to connect ("What does not hold" has the
  rest); nothing starts after an uninstall. Two starts give
  one restart between any two calls, which every property needs and no more; two
  processes are enough because a process meets others only through the service.
- `scm_ends` (`MCScmEnds.cfg`): one process, three starts, no deadline.
  `uninstall` ends, and a stop that saw STOP_PENDING ends although SCM restarts
  the service. Fairness: goetia's steps; a service does not stay START_PENDING,
  STOP_PENDING, or leave a STOP it accepted unanswered for ever. Nothing says
  that SCM restarts, or that a service ends by itself.

`ScmVerbsProofs` proves the three safety properties for every set of processes
and every bound on starts. None is inductive: a lost wake-up is made at the arm
and shows at the park, and a confirmation rests on a status read before. `IInv`
says of each process what its notification is registered for (`Armed`), that
it is awake or what it waits for is still to come (`Awake`), and that a status
it may still use, or its registration holds, is one that `since` accounts for
(`StopKnows`, `StartKnows`, `UninstallKnows`). A process disturbs nobody else's
part (`OnlyKeeps`); the service disturbs everyone's in one way (`BecomesKeeps`).

`CHECK_DEADLOCK FALSE`, because every verb returns. Besides what "What does not
hold" tells, one window is known that no run asks about. wait/system.rs:367-369 says of a STOP answered
ERROR_SERVICE_NOT_ACTIVE that "the arm that follows reads `STOPPED`"; SCM may
restart the service before that arm, and a stop without a deadline then waits on
a run nothing stops. Left out: `Armed::Gone` and
`Unwatchable` (an actor's open handle keeps the record, and its masks hold
STOPPED), PAUSE_PENDING and CONTINUE_PENDING, an `enable` that races an
uninstall's stop, and `request_start_after_stop`.

## SCM: what install writes

`ScmRecord.tla` is one service as the SCM database and its registry key hold it,
the registration a spec becomes, and the one that is read back. A parameter is
kept with its spelling, because RegQueryValueEx folds case; a blob is a spec and
a version, or does not decode; an environment value not laid out as goetia
writes it is `odd`. `obj` numbers the services that have had the name.
`ScmApply.tla` has the verbs over it. An action is one call into SCM, the
registry or sc.exe, so that another process, an administrator's edit, `sc
delete` or `sc create`, or the end of the process may come between any two.
`handle[p]` is the service p holds open. A marked service lives until its last
handle closes: that is why an update is safe against others who delete, why
uninstall closes its wait's handle before it deletes, and what `UpdatesWhatItRead`
and `UninstalledIsGone` check. `alone` and `ours` are history.

- `scm_apply` (`MCScmApply.cfg`): two processes, all four verbs, every start
  state (nothing, a stranger's service, one of goetia's by this or an older
  version or for another id), one act of the administrator and one mishap. The
  specs differ in all that one install must clear of another's: an account
  with a password, restarts, an environment; a third one cannot be registered any
  more. Two processes and one mishap are enough for each race the code
  names, because a process meets the others only through the record; one act of
  the administrator with another run's delete makes the service that was deleted
  and made again. `UnmarkedIsWindow` says that the marker of goetia's own service
  is missing only between its first write and the marker's, `CanLogOn` that the
  preconditions hold of every service goetia wrote, `DoneReadsBack` that a done
  install leaves nothing of what it replaced, `FailureIsTrue` that a failed
  uninstall tells what it left.
- `scm_wedged` (`MCScmWedged.cfg`): the finding. Every update deletes the old
  Parameters before it writes the new marker; one that ends there wedges an id
  that was installed. manager.rs names the window for a create only.

`ScmApplyProofs` proves the five properties of `scm_apply` for every set of
processes, specs and verbs, every number of the administrator's acts and of
mishaps, from `ScmApplyAssumption` (finitely many processes: each create numbers
its service) and `ScmRecordAssumption`. `IInv` says that a handle still open keeps
the record it was opened for (`Held`), which is why an update cannot land on a
successor, and, while nobody else has written, how much of what a process wants
the record already shows (`Progress`), which is why done reads back. Every
call of a process has one shape (`StepKeeps`), so that an action's lemma shows
only that it has it.

`CHECK_DEADLOCK FALSE`, because every verb returns. Chosen where they are used,
not in `Init`: `--force` and the password. Left out: the stop inside uninstall
(`ScmVerbs`), which here succeeds or fails, a running process that keeps a
marked record, `split_command_line`, delays and texts, status and scan. Windows
the code leaves open by design, which no property calls wrong: an update
restates the start type it read two calls before, so an enable, a disable or
an uninstall's disable in between is undone; a hand edit between the comparison
and the write is overwritten without `--force`; uninstall reopens by name, so it
may disable a successor of the service it was asked about; a create holds no
handle, so it may put its marker on a stranger's service made in its place.

## SCM: kill

`ScmKill.tla` is `kill_service` with `await_scm_released`, several at once. `os`
says who has each pid: an exited process keeps it while SCM reports it or a
killer holds it, which are the two premises kill.rs states. The service may
end, restart, report STOPPED by itself, and be marked for deletion between any
two calls; others may take a free pid; every call may fail.

- `scm_kill` (`MCScmKill.cfg`): two kills, two pids, two starts, one stranger.
  Two pids let a pid go from the service to a stranger while the service runs
  under the other; two starts let the service come back under the number it
  had. No stranger is terminated, each process is terminated by one kill,
  Terminated is reported over a recorded exit, no release is missed, and a kill
  ends. Fairness: kill's own steps, that a terminated process exits, that SCM
  records an exit; the service need not end by itself. `KillEnds` leaves out one
  wait: with the process gone before the open nothing keeps the pid, so kill.rs's
  "the loop follows the service rather than a count" (lines 96-98) has an
  exception, a restart under the same number, which is waited for.

`ScmKillProofs` proves the five safety properties for every number of killers, pids and starts, from
`ScmKillAssumption` alone. `StrangersLive` is not inductive: the step that would
break it is `Terminate`, two calls after SCM was asked. `IInv` carries the fact
over: a pid SCM reports is the service's own process (`Vouched`), a held pid is
never free, and a held process that was the service's stays it (`Knows`).
`KillsAreDistinct` counts: `Counts` adds that the kills delivered, and the process
that runs or is being taken, are no more than the starts that made them.

## A systemd unit

`SystemdUnit.tla` is one `<id>.service` under several goetia runs (install,
uninstall or enable) and an administrator. An action is one call that another
writer can see the file system before or after: the read, the decision
(`Decide.tla`, as an operator), the link of a new file, and the four steps of a
replacement: move the unit to a quarantine name, verify it, put the new one in
place, drop the old one, or link it back. `backup[p]` is what is under p's
quarantine name, so one file can have two names, as in the code. A file is a
record of what the code can tell of it; a file of the administrator's has a
number of its own, so that no two of them are equal. `dropins`, `outside` and
`wants` are what is attached to the id beside the unit.

`Custody.tla` is what the backends promise: an administrator's file ceases to
exist only when they withdrew it or a run entitled to it chose it. `KeepsCustody`
says that `SystemdUnit` implements it, `Held` being the files under any name.
`withdrawn`, `chosen` and `removed` are history.

- `systemd_unit` (`MCSystemdUnit.cfg`): two runs, two specs, one edit, failing
  calls, kills. Two runs and a hand reach each race the code names: a file is
  replaced before the quarantine, and a third one lands while the unit is away.
  One edit suffices, because a run's own file is the third one. Runs and specs
  are symmetric: nothing distinguishes them but their requests, which are
  enumerated. No file is lost, no install leaves the unit missing in silence,
  racing installs leave what one of them wanted, an uninstall that reports
  success leaves no link and no drop-in in `UNIT_DIR`.
- `systemd_ends` (`MCSystemdEnds.cfg`): every verb answers, also with
  directories, drop-ins and restores that fail. Fairness: weak, on each run's
  steps, for a process runs until it is killed. install's loop has no cap; it
  ends because a race costs another writer a step, and each has few
  (`MaxEdits` bounds the administrator).
- `systemd_interrupted` (`MCSystemdInterrupted.cfg`): the finding. An install killed
  while the old unit is in quarantine leaves an enablement link with no unit,
  which every verb refuses as foreign.

Two windows no run asks about: the drop-ins an install's decision rests on are
not read again before the write, and an enable that runs between uninstall's
disable and its removal of the unit leaves its link. `systemd_unit`, which checks
`UninstallClearsItsOwn`, leaves enable out for that; `systemd_ends` has it. A
drop-in under another root of the search path (`outside`) is none of what an
uninstall removes (manager.rs:35-37): it stays attached after one that reports
success, and the id then reads as foreign (discover.rs:372-379).

`CHECK_DEADLOCK FALSE`, because every run ends. Left out: `disable` as a verb,
the directories install makes for logs, the unit's running state, what systemd
has loaded (so a daemon-reload of another run while the unit is in quarantine is
not followed), an edit in place through a file that is already open (the
administrator replaces the file), and a drop-in that appears between the reads
of two search roots. `systemctl disable` and `enable` are modelled as item 6 of
the module comment has them: they need the unit's file. A read that falls into
the gap of a replacement sees no unit, and answers so; the model allows it, and
no property calls it wrong.

`SystemdUnitProofs` proves, for any number of runs, specs and edits and with
every mishap, `TypeOK` and the refinement of `Custody`. Custody alone is not
inductive: the file that is discarded in `Drop` was chosen several steps before.
`IInv` says that a committed run chose the file it read (`ReadIsChosen`), that a
verified quarantine holds that very file (`Verified`), that nothing is in
quarantine outside the replacement (`NothingMoved`), and that a file that was
linked back is safe before its second name goes (`LinkedFirst`), which needs the
custody of every other run. `NoSilentUninstall` and `StrandedIsNamed` are proved
from a second invariant (`AInv`) under `LinksWork`: a failing link(2) and a
directory are the two cases in which they do not hold. In the second one, a
directory that was moved into quarantine cannot be linked back and the error
(write.rs:205) names the unit's path, not the quarantine.

`InstallsSettle` was first stated without its last disjunct, which two runs do not
need while links can be made. Three do: one has the old unit in quarantine and fails to replace it, a
second creates its own and is done, a third moves that one aside, and the first
puts the old unit into the gap. The third answers `stranded` (write.rs:88),
and the unit in place is one nobody asked for. `InstallsSettle` is proved as it
stands now, for any number of runs and every mishap, from `Delivered`: once a unit
that was asked for has been placed, one is in place, or in the quarantine of a run
that will place its own or put it back (`StepHands`), or a run was killed or
answered that it displaced one. `UninstallClearsItsOwn` is proved of any number
of runs while nobody enables the unit or adds a drop-in (`NobodyAttaches`).

## systemctl: commands

Four modules, one inside the other. `Host.tla` is what goetia finds out about the
host without asking systemctl, against what systemctl finds out by itself, as
functions of a record of the host. `JobQueue.tla` is systemd, external: one unit,
the job queued for it, and other clients who queue jobs, end the unit, or change
the manager. `Systemctl.tla` is one systemctl run: the door, the version gate, the
spawn, the child's own steps, the wait for its announcement and for its end under
the deadline, the reap, and what goetia makes of the exit. `Commands.tla` strings
the runs together as the commands do: the reservation and the gate's scope, the
budget of each leg, restart's stop and start, install's reload, enable and start,
the turns of several ids and the exit code.

- `commands` (`MCCommands.cfg`): nine commands for two ids, four budgets, ten
  hosts, one act of another client, and every fault. Two ids are needed for a
  gate that outlives its turn, and no more; a clock of two instants and
  a millisecond of two reach each side of a deadline and a wait shorter than a
  millisecond; the cap on milliseconds is left to `BudgetProofs`. A budget of 100 is past the end of the clock. What
  goetia says of a request (not sent, timed out, done, failed) is what became of
  it; a restart's start follows a stop; the gate is asked once and never trusted
  in another turn; the listener threads of a command are made before its first
  request. `BoundedEnds`, under weak fairness of goetia's steps, of
  systemctl's and of the clock: processes run, and nothing makes systemd run a
  job. A wait that fails is not among the steps that must be taken.

Left out: a restart made of `request_start_after_stop` (systemd has its own), a
systemctl killed from outside, the properties `status` parses, the cgroup of a
kill, `complete` (output cut short). kill, enable, disable and reload take an
exit of 0 at its word, as the code does. A child left running after a failed wait acts
until the next one is spawned. A restart
reads the clock once for each leg: what it leaves the start is fixed when the stop
has answered, and judged there (`AfterStop`), so a start that is sent at all
waits, and `OkIsEarned` asks it of every command whose own budget waits. The
deadline of a leg is taken at its verb's entry.

`BudgetProofs` proves of the arithmetic in `Budget`, for every duration, clock,
millisecond and cap, that rounding gives zero milliseconds only where nothing is
left (`MillisCeilBounds`) and never shortens a wait below the cap
(`MillisCeilCovers`), hence that a wait gives up exactly when its deadline has
passed (`GivesUpWhenExpired`), and that a later leg's budget waits exactly while the
deadline lasts (`LaterBudgetWaits`).

`CommandsProofs` proves the six safety properties of `commands` for every set of
hosts, budgets and faults, any number of ids and of other clients' acts, and
every clock. Each is about the end of a request and rests on how it began, so
`IInv` follows a request from its reservation to its answer: which scopes are open
and what the gate remembers (`ScopesAreOpen`, `GatePassed`, `AsksCounted`), the
threads the rest of the turn needs (`ThreadsSuffice`), that requests go out
in order and one at a time (`SentInOrder`), that the child goetia waits for is the one of
its request (`ChildWatched`), that a job still queued is the child's
(`JobIsChilds`), and that `since` tells of the unit as it is and of all a child's
exit says (`HistoryTells`). `JobIsChilds` is what makes an exit code of 1 safe: a
restart's start is only prepared once the stop's job is over, although the
stop's budget may be spent. The host part is a lemma about `Host` by itself
(`EvidenceIsSound`), for every host there can be.

## launchd

`Plists.tla` is the plist in its two directories (staging and the one launchd
loads at boot), as far as the code tells plists apart. `Launchctl.tla` is the
job: launchd keeps the definition it loaded, whatever the file says later, starts
it again where KeepAlive says so, and may still carry out a request whose
launchctl was left running. `Launchd.tla` has the nine verbs, one action per stat,
read, rename, link, unlink or launchctl call, with the reservation they draw
from in `drawn`.

- `launchd` (`MCLaunchd.cfg`): any two verbs at once, three specs (one whose job
  is started again always, one on failure, one never), every plist that may be there at
  first, failing calls, kills, and a stranger's job at the label. Two runs reach each race
  the code names: a move against a rewrite, a bootstrap between install's check
  and its write, two bootstraps of one label. Nothing runs over its reservation,
  however often install reads again; no plist is lost; a start that answers Ok saw a job run
  under the label, be it one loaded from another plist; what is loaded is what is on disk unless the answer says there is a doubt.

`LaunchdProofs` proves the four properties for any number of runs, specs, mishaps
and strangers' jobs, from `LaunchdAssumption` (finitely many runs). `IInv` has a
part for each run, what it has read and drawn at each step (`RunInv`), and parts
for what runs do to one another: between a move's link and its removal both
names are there and no other move is half way (`MovesAreSafe`), an install's
retry is owed to a run that took its plist and ended (`RetriesOwed`, which counts),
and while nothing excuses it the plists and the job say the same (`SamePlist`,
`JobAgrees`), but for an install between its write and its second look.

The proof was attempted of two stronger properties first, and they are not true of more
than two runs. An install that writes to the old path of a move, between its
link and its removal or after it, leaves another plist at the new path, so a
third run's start loads what the install did not write: `LoadedIsOnDisk`
leaves out an install beside a move (its `Installed` and `Moved`). And a move's
removal goes by path: a move that stops half way while others uninstall both
names and install again takes the new plist, so `removed`, the history
`PlistIsSomewhere` rests on, is reset by a new install only if no move is half
way. Both need three runs or more.

`LoadedIsOnDisk` leaves the answers in doubt out, so it says nothing of a put-back
that failed. A request may fail after launchd carried it out, a bootstrap as well.

`CHECK_DEADLOCK FALSE`, because every verb returns. A window no run asks about:
launchd/manager.rs:128-130 says that no operation of the backend leaves a plist
in both directories; an install's rename over a path that an enable or a disable
unlinks at that moment does, and `locate` then refuses the id. The comment at
manager.rs:1276-1280 knows the window. Left out: the account lookup and the
directories install makes, which can only fail, and the XML.

## The properties of the runs

A property that joins several is the conjunction of the parts named beside it;
each part has its own definition and comment in the module.

| run | properties |
|---|---|
| `shim` | `TypeOK`, `AcceptedStopWins`, `NoStoppedOverSurvivors`, `RecordTellsOutcome`, `StopPendingBeforeTeardown`, `KeepsPromise` (refinement), `RunEnds` (`StopCompletes`, `ExitCompletes`) |
| `shim_drop_hang` | `StoppedIsReported`, violated |
| `scm_verbs` | `WaitsAreSound` (`TypeOK`, `NoLostWakeUp`), `ConfirmedHappened` (`ConfirmedStopHappened`, `ConfirmedStartRan`), `UninstalledStaysStopped` |
| `scm_ends` | `WaitsEnd` (`StopUnderWayEnds`, `UninstallEnds`) |
| `scm_kill` | `TypeOK`, `KillsAreDistinct`, `NoMissedRelease`, `StrangersLive`, `TerminatedIsRecorded`, `KillEnds` |
| `scm_apply` | `UpdatesAreSound` (`TypeOK`, `UpdatesWhatItRead`), `UnmarkedIsWindow`, `CanLogOn`, `DoneReadsBack`, `UninstallIsTrue` (`UninstalledIsGone`, `FailureIsTrue`) |
| `scm_wedged` | `ReinstallNeverWedges`, violated |
| `systemd_unit` | `TypeOK`, `NoSilentUninstall`, `StrandedIsNamed`, `InstallsSettle`, `KeepsCustody` (refinement), `UninstallClearsItsOwn` |
| `systemd_ends` | `VerbsAnswer` |
| `systemd_interrupted` | `InterruptedCanBeRedone`, violated |
| `commands` | `TurnsAreSound` (`TypeOK`, `ReservedFirst`, `GateIsFresh`, `GateAskedOnce`), `AnswersAreTrue` (`UnsentNeverArrived`, `ExpiryWasQueued`, `ErrorIsSettled`), `HostIsJudged`, `OkIsEarned`, `StartFollowsStop`, `MillisKeepDeadline`, `BoundedEnds` |
| `launchd` | `WithinBounds` (`TypeOK`, `WithinReservation`, `RetriesAreCaused`), `PlistIsSomewhere`, `ConfirmedStartRan`, `LoadedIsOnDisk` |

## What is proved

| module | theorems (property) | assumptions |
|---|---|---|
| `BudgetProofs` | `MillisCeilBounds`, `MillisCeilCovers`, `GivesUpWhenExpired`, `LaterBudgetWaits` | `BudgetAssumption` |
| `CommandsProofs` | `TurnsStaySound` (`TurnsAreSound`), `HostsAreJudged` (`HostIsJudged`), `AnswersStayTrue` (`AnswersAreTrue`), `SuccessIsEarned` (`OkIsEarned`), `StartsFollowStops` (`StartFollowsStop`), `MillisKeepTheDeadline` (`MillisKeepDeadline`) | `CommandsAssumption`, `SystemctlAssumption`, `JobQueueAssumption`, `BudgetAssumption` |
| `LaunchdProofs` | `BoundsAreKept` (`WithinBounds`), `PlistIsKept` (`PlistIsSomewhere`), `ConfirmedStartsRan` (`ConfirmedStartRan`), `LoadedStaysOnDisk` (`LoadedIsOnDisk`) | `LaunchdAssumption` |
| `ScmApplyProofs` | `UpdatesStaySound` (`UpdatesAreSound`), `MarkerGoesInTheWindow` (`UnmarkedIsWindow`), `PreconditionsComeFirst` (`CanLogOn`), `InstallsReadBack` (`DoneReadsBack`), `UninstallAnswersTruly` (`UninstallIsTrue`) | `ScmApplyAssumption`, `ScmRecordAssumption` |
| `ScmKillProofs` | `TypeCorrect` (`TypeOK`), `StrangersLiveAlways` (`StrangersLive`), `TerminatedIsRecordedAlways` (`TerminatedIsRecorded`), `NoMissedReleaseAlways` (`NoMissedRelease`), `KillsAreDistinctAlways` (`KillsAreDistinct`) | `ScmKillAssumption` |
| `ScmVerbsProofs` | `WaitsSound` (`WaitsAreSound`), `ConfirmedIsTrue` (`ConfirmedHappened`), `UninstalledIsStopped` (`UninstalledStaysStopped`) | `ScmVerbsAssumption`, `StopWaitAssumption`, `ScmServiceAssumption` |
| `ShimProofs` | `TypeCorrect` (`TypeOK`), `AcceptedStopWinsAlways` (`AcceptedStopWins`), `NoStoppedOverSurvivorsAlways` (`NoStoppedOverSurvivors`), `RecordTellsOutcomeAlways` (`RecordTellsOutcome`), `StopPendingAlways` (`StopPendingBeforeTeardown`), `KeepsThePromise` (`KeepsPromise`), `Invariance` | `ShimAssumption`, `ExitStatusAssumption` |
| `SystemdUnitProofs` | `TypeCorrect` (`TypeOK`), `CustodyIsKept` (`KeepsCustody`), `NoSilentUninstallAlways` (`NoSilentUninstall`), `StrandedIsNamedAlways` (`StrandedIsNamed`), `RacingInstallsSettle` (`InstallsSettle`), `UninstallsClearTheirOwn` (`UninstallClearsItsOwn`) | `SystemdAssumption` |

`NoSilentUninstallAlways` and `StrandedIsNamedAlways` also assume `LinksWork`, and
`UninstallsClearTheirOwn` assumes `NobodyAttaches`: each excludes what makes the
property fail, and so does the run that checks it. A theorem without a property of
a run is about the operators the model is built from, or is the inductive
invariant. Every proof rests on the named assumptions of the modules it extends
and on nothing else; TLC evaluates each of them in the runs.

## What does not hold

Three runs have a finding each (`shim_drop_hang`, `scm_wedged`,
`systemd_interrupted`). One more disagreement was met without a run of its own.
`start_via_notify` says of a STOPPED before RUNNING that it is a start when the
daemon was launched, and wait.rs:614-617 that the record of a host which exited before
it connected cannot pass for that: it is either the start's own 1053, which never
reaches the wait, or a start that was joined, which `failed_scm_start` catches. There is a
third case, and `ScmVerbs` has it:

1. StartServiceW is accepted, so the start is not a joined one. Before the arm, or a
   re-arm after a START_PENDING, has read the status, the shim fails without a launch.
2. Before that read, too, SCM's recovery restarts the service (at once, where the
   restart delay is 0), and that restart does not connect. STOPPED is now (0, 0) with
   a wait hint.
3. The arm reads that. `stopped_before_running` asks for the hint only of a start
   that was joined, takes (0, 0) for a daemon that ran, and answers Confirmed.

Without its second conjunct `ConfirmedStartRan` is violated by that trace, in nine
states. It, and the theorem about it, therefore claim a launch of a joined
start always, and of a start of its own only as long as no restart of SCM's has
failed to connect since the request (`"unconnected"` in `since`).

## Only model-checked

Liveness, everywhere (`RunEnds`, `WaitsEnd`, `KillEnds`, `VerbsAnswer`,
`BoundedEnds`): the provers do neither fairness nor ENABLED. The three runs that
expect a violation. Every other property of a run is a theorem above.

## Not modelled

- `spec/*.rs`: one document is resolved and validated, sequentially, by recursion
  over strings; its tests enumerate it. Only its table of Windows accounts
  is used (`ScmRecord`).
- The text generators (`systemd/generate.rs`, the XML of `launchd/generate.rs`),
  `diff.rs`, `error*.rs`, `cli/report.rs`, `cli/list.rs`: text.
- `manager/fake.rs`, `manager/conformance.rs`: test doubles, compiled for tests.
- The scans behind `list` on systemd and SCM: they read and report; launchd's
  is a verb of `Launchd`.
- `bin/shim/logging.rs`: output only.
- The rest of `PROJECT.json`'s notes names what each partly modelled component
  leaves out.

## Plan

1. Proofs: what the decision functions of `Decide` and `ExitStatus` promise by
   themselves.
2. `request_start_after_stop` on SCM and launchd, with `Commands`' two legs.
3. The scans, with what forbids concluding that an id is absent.

## Running

`tlc -config X.cfg M` with the run's module and configuration from
`PROJECT.json`; `tlapm M.tla` for the `*Proofs` modules.
