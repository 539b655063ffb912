------------------------------- MODULE Custody ------------------------------
(* What the backends promise of the files an administrator wrote: one is     *)
(* never lost before its owner gave it up, or a run entitled to it had read  *)
(* that very file and decided to replace or remove it.                       *)
CONSTANTS Runs,             \* invocations of goetia
          Requests,         \* what each may have been asked for
          Files,            \* the files the administrator may write
          Entitled(_, _)    \* Entitled(r, f): request r lets goetia discard f

VARIABLES request,          \* request[p]: what p was asked for
          held,             \* the files that exist, under whatever name
          withdrawn,        \* the files their owner replaced or removed
          chosen            \* the files a run decided to discard

vars == <<request, held, withdrawn, chosen>>

Init == /\ request \in [Runs -> Requests]
        /\ held = {}
        /\ withdrawn = {}
        /\ chosen = {}

\* The administrator writes new files and withdraws others.
Own == /\ withdrawn \subseteq withdrawn' /\ withdrawn' \subseteq Files
       /\ held' \subseteq Files
       /\ (held' \ held) \cap (withdrawn \cup chosen) = {}
       /\ held \ held' \subseteq withdrawn' \cup chosen
       /\ UNCHANGED <<request, chosen>>

\* A run decides to discard a file.
Choose(p, f) == /\ Entitled(request[p], f)
                /\ chosen' = chosen \cup {f}
                /\ UNCHANGED <<request, held, withdrawn>>

\* A file that was given up ceases to exist.
Lose == /\ held' \subseteq held
        /\ held \ held' \subseteq withdrawn \cup chosen
        /\ UNCHANGED <<request, withdrawn, chosen>>

Next == \/ Own
        \/ \E p \in Runs, f \in Files : Choose(p, f)
        \/ Lose

Spec == Init /\ [][Next]_vars
=============================================================================
