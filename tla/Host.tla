-------------------------------- MODULE Host --------------------------------
(* Whether goetia can see, without asking systemctl, that there is no systemd *)
(* manager to ask (the Host, Evidence and Chroot of                          *)
(* systemd/manager/systemctl.rs).                                            *)

\* Variables that keep systemctl from telling of a chroot, and of a job.
Switches == {"SYSTEMD_IGNORE_CHROOT", "SYSTEMD_LOG_LEVEL"}

\* Broken: what goetia does not give itself is passed on.
environment_Inherits(inherited) == inherited \ {"SYSTEMD_LOG_LEVEL"}

\* environment: every switch is taken off a child, and the log level it needs
\* is given instead.
environment(inherited) == inherited \ Switches

\* What a host is, and what of it goetia can read. root: goetia's / is the
\* root of this system, the root of a mount of its own, or a directory in one.
\* proc: /proc/1/root can be followed, only the mount tables can be read, only
\* goetia's own, or there is no /proc. run: what /run/systemd/system is to stat.
PossibleHosts ==
    {h \in [booted : BOOLEAN, root : {"init", "mount", "directory"},
            proc : {"traced", "tables", "self", "none"},
            run : {"dir", "absent", "unread"}, offline : BOOLEAN,
            switches : SUBSET Switches] :
        h.root = "init" => h.run # (IF h.booted THEN "absent" ELSE "dir")}

\* A stat or a table that could not be read is Unread.
Unread == "unread"

identity(h, path) == IF path = "/" THEN h.root
                     ELSE IF h.proc = "traced" THEN "init" ELSE Unread

\* The mounts a table lists at /.
own_mounts(h) == IF h.proc = "none" THEN Unread
                 ELSE IF h.root = "directory" THEN "no mount" ELSE h.root
init_mounts(h) == IF h.proc \in {"traced", "tables"} THEN "init" ELSE Unread

mounts_differ(h) ==
    \/ own_mounts(h) = "no mount"
    \/ /\ Unread \notin {own_mounts(h), init_mounts(h)}
       /\ own_mounts(h) # init_mounts(h)

\* The two roots decide where both can be read, else the tables.
chroot_from(h) ==
    IF Unread \notin {identity(h, "/"), identity(h, "/proc/1/root")}
    THEN identity(h, "/") # identity(h, "/proc/1/root")
    ELSE mounts_differ(h)

established_absent(h) == h.run = "absent"

\* The most specific cause first.
evidence(h) == IF h.offline THEN "offline"
               ELSE IF chroot_from(h) THEN "chroot"
               ELSE IF established_absent(h) THEN "not_booted"
               ELSE "none"

\* systemctl's own check, made with goetia's credentials: it takes a missing
\* /proc for a chroot, and a hidden PID 1 for none.
Ignored(h) ==
    /\ "SYSTEMD_IGNORE_CHROOT" \notin environment(h.switches)
    /\ h.proc = "none" \/ (h.root # "init" /\ h.proc = "traced")

\* systemctl says what it does.
Speaks(h) == "SYSTEMD_LOG_LEVEL" \notin environment(h.switches)

\* A manager answers.
Answered(h) == h.booted /\ ~Ignored(h)
=============================================================================
