------------------------------- MODULE Plists -------------------------------
(* The plist of one daemon in launchd's two directories: what can be at each *)
(* path, what launchd reads of it, and what install makes of it              *)
(* (launchd/manager.rs, launchd/generate.rs, launchd/refuse.rs).             *)
EXTENDS Decide

CONSTANTS Specs,      \* the specs install may be given
          Kept,       \* those launchd keeps alive: restart is not never
          Always      \* those of them with restart: always

VARIABLE plist        \* plist[d]: what is at <id>.plist in directory d

\* STAGING_DIR and ENABLED_DIR.
Dirs == {"staging", "enabled"}

\* current: what this release renders. older: another release's, launchd reads
\* the same of it. outdated: another release's, launchd reads otherwise.
\* edited: by hand, after goetia wrote it.
Forms == {"current", "older", "outdated", "edited"}
Ours == [spec : Specs, form : Forms]

Special(kind) == [spec |-> "none", form |-> kind]
Nothing == Special("nothing")
Unusable == Special("unusable")         \* marked, its blob does not decode
Foreign == Special("foreign")           \* no marker, or not a regular file

Contents == Ours \cup {Nothing, Unusable, Foreign}
Marked(f) == f \notin {Nothing, Foreign}

render(spec) == [spec |-> spec, form |-> "current"]

\* without_metadata: what launchd reads.
Definition(f) == IF f.form = "older" THEN render(f.spec) ELSE f
Definitions == {Definition(f) : f \in Contents \ {Nothing}}

changes_loaded_job(onDisk, desired) == Definition(onDisk) # Definition(desired)

\* What flow's classify and judge make of a plist that was read.
Found(f) == [ownership   |-> IF f \in Ours THEN "Ours"
                             ELSE IF f = Unusable THEN "OursUnusable" ELSE "Foreign",
             version     |-> IF f.form \in {"older", "outdated"} THEN "older" ELSE "running",
             regenerated |-> render(f.spec),
             onDisk      |-> f]

Decision(f, spec, force) == decide(Found(f), render(spec), "running", force, "Absent")
=============================================================================
