----------------------------- MODULE MCCommands -----------------------------
(* Commands over small budgets: no wait, one nanosecond, a bound past the    *)
(* end of the clock, and no bound.                                           *)
EXTENDS Commands

\* The ordinary host, one whose chroot nothing shows, and each kind of host on
\* which goetia finds something.
Of(booted, root, proc, run) ==
    [booted |-> booted, root |-> root, proc |-> proc, run |-> run, offline |-> FALSE,
     switches |-> Switches]

MCHosts == {Of(TRUE, "init", "traced", "dir"), Of(TRUE, "mount", "self", "dir"),
            Of(TRUE, "directory", "self", "dir"), Of(TRUE, "mount", "tables", "dir"),
            Of(TRUE, "mount", "traced", "dir"), Of(TRUE, "mount", "none", "dir"),
            Of(TRUE, "mount", "self", "absent"), Of(FALSE, "init", "traced", "absent"),
            Of(FALSE, "init", "self", "unread"),
            [Of(TRUE, "init", "traced", "dir") EXCEPT !.offline = TRUE]}

MCBudgets == {Immediate, Bounded(1), Bounded(100), Unbounded}
=============================================================================
