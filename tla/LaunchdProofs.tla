--------------------------- MODULE LaunchdProofs ----------------------------
(* The safety of Launchd for any number of runs, specs and mishaps. What     *)
(* each run has read, and drawn, follows from the step it is at (RunInv). The *)
(* plist survives overlapping moves because a link makes both names and no   *)
(* second move can link over them (MovesAreSafe); an install's retries are    *)
(* owed to the run that took its plist (RetriesOwed); and as long as nothing *)
(* spoilt the outcome and no install wrote while another moved, every plist  *)
(* there is says the same, and the job too (JobAgrees): an install that wrote *)
(* behind a job either sees it when it looks again, or nothing is loaded.    *)
EXTENDS Launchd, FiniteSetTheorems, TLAPS

(* The inductive invariant, run by run.                                      *)

\* A run is at a step of its own verb, and has answered only when it ended.
OnPath(p) ==
    /\ pc[p] \in Installing => verb(p) = "install"
    /\ pc[p] \in Moving => verb(p) \in {"enable", "disable"}
    /\ pc[p] \in {"withdraw", "remove"} => verb(p) = "uninstall"
    /\ pc[p] \in Starting => verb(p) = "start"
    /\ pc[p] \in {"stop", "kill", "status"} => verb(p) = pc[p]
    /\ pc[p] # "ended" => result[p] = "none"

\* Past its stats, a run found one plist, or an install none; past its read, what
\* it read there is a plist. An install checks the job where launchd would read
\* something else.
Singly == {{"staging"}, {"enabled"}}
Judged == {"check", "present", "write", "recheck", "undo", "put_back"}
HasFound(p) ==
    /\ pc[p] = "read" /\ verb(p) # "list" => at[p] \in Singly
    /\ pc[p] \in Moving \cup Starting \cup {"present", "write", "withdraw", "remove"} => at[p] \in Singly
    /\ pc[p] \in Judged => at[p] = {} \/ (at[p] \in Singly /\ snap[p][where(p)] # Nothing)
    /\ pc[p] \in {"clear", "persist"} => at[p] = {}
    /\ pc[p] \in {"check", "recheck", "undo", "put_back"} => changes(p)

\* What a run has drawn when it comes to each step.
AtMost(p, c, r) == drawn[p].calls <= c /\ drawn[p].requests <= r
Fresh == Reading \cup Moving \cup {"check", "loaded", "withdraw", "stop", "kill", "status"}
Drew(p) ==
    /\ pc[p] \in Fresh => AtMost(p, 0, 0)
    /\ pc[p] = "present" /\ ~changes(p) => AtMost(p, 0, 0)
    /\ pc[p] \in {"clear", "present", "write", "bootstrap"} => AtMost(p, 1, 0)
    /\ pc[p] = "remove" => AtMost(p, 1, 1)
    /\ pc[p] \in {"persist", "recheck", "reloaded"} => AtMost(p, 2, 1)
    /\ pc[p] \in {"undo", "put_back", "live"} => AtMost(p, 3, 1)
    /\ pc[p] = "kick" => AtMost(p, 4, 1)
    /\ pc[p] = "confirm" => AtMost(p, 5, 2)
    /\ pc[p] = "verify" => AtMost(p, 6, 2)
    /\ pc[p] = "bootout" => AtMost(p, 7, 2)
    /\ pc[p] = "load" => AtMost(p, 8, 3)
    /\ pc[p] = "live_again" => AtMost(p, 9, 4)
    /\ pc[p] = "kick_again" => AtMost(p, 10, 4)
    /\ pc[p] = "final" => AtMost(p, 11, 5)
    /\ AtMost(p, needs(verb(p)).calls, needs(verb(p)).requests)

RunInv(p) == OnPath(p) /\ HasFound(p) /\ Drew(p)

-----------------------------------------------------------------------------
(* What the runs do to one another.                                          *)

\* While the job has a process, every run under way has seen it alive.
LivesSeen == alive => \A q \in Runs : pc[q] \in Places \ {"stat_staging", "ended", "crashed"} => q \in lived

\* Between a move's link and its removal both names are there, and no other move
\* is half way.
MovesAreSafe ==
    ~removed => \A p \in Runs : pc[p] = "unlink" =>
                    /\ \A d \in Dirs : plist[d] # Nothing
                    /\ \A q \in Runs : pc[q] = "unlink" => q = p

\* An install that will find its plist gone owes the retry to the run that took it.
Takers == {"install", "uninstall", "enable", "disable"}
Causes(p) == {q \in Runs \ {p} : verb(q) \in Takers /\ pc[q] \in {"ended", "crashed"}}
Owes(p) == pc[p] \in {"check", "present"} /\ at[p] \in Singly /\ plist[where(p)] = Nothing
RetriesOwed ==
    \A p \in Runs : /\ drawn[p].again <= Cardinality(Causes(p))
                    /\ Owes(p) => drawn[p].again + 1 <= Cardinality(Causes(p))

-----------------------------------------------------------------------------
(* The job and the plist, as long as nothing happened that excuses them.     *)

Wrote == {p \in Runs : verb(p) = "install" /\ (result[p] = "done" \/ pc[p] = "recheck")}
Moves == {p \in Runs : verb(p) \in {"enable", "disable"} /\ (result[p] = "done" \/ pc[p] = "unlink")}
Spoils(p) == \/ verb(p) = "uninstall"
             \/ result[p] \in InDoubt \cup {"error"}
             \/ pc[p] \in {"crashed", "undo", "put_back"}
Clean == /\ \A p \in Runs : ~Spoils(p)
         /\ \A p, q \in Wrote : p = q
         /\ Wrote = {} \/ Moves = {}
Untouched == Clean /\ Wrote = {} /\ Moves = {}

OneName == Clean /\ Moves = {} => plist["staging"] = Nothing \/ plist["enabled"] = Nothing
SamePlist == Clean => \A d, e \in Dirs : plist[d] # Nothing /\ plist[e] # Nothing
                          => Definition(plist[d]) = Definition(plist[e])
JobAgrees == Clean /\ (\A p \in Wrote : pc[p] # "recheck") =>
                 \A d \in Dirs : plist[d] # Nothing /\ Loaded => job = Definition(plist[d])

\* What p found at the paths is what is there.
Looks(p) ==
    /\ pc[p] = "stat_enabled" => at[p] = Present("staging")
    /\ pc[p] \in {"check", "clear", "persist"} /\ at[p] = {} => \A d \in Dirs : plist[d] = Nothing
    /\ pc[p] \in {"check", "present", "write"} /\ at[p] # {} => plist[where(p)] = snap[p][where(p)]
ReadsHold == Untouched => \A p \in Runs : Looks(p)

IInv == /\ TypeOK /\ \A p \in Runs : RunInv(p)
        /\ LivesSeen /\ MovesAreSafe /\ RetriesOwed
        /\ OneName /\ SamePlist /\ JobAgrees /\ ReadsHold
        /\ PlistIsSomewhere /\ ConfirmedStartRan

-----------------------------------------------------------------------------
(* Data.                                                                     *)

LEMMA Plain ==
    /\ Nothing \in Contents /\ Foreign \in Contents /\ Unusable \in Contents
    /\ Ours \subseteq Contents /\ Nothing \notin Ours /\ Foreign # Nothing
    /\ Unusable # Nothing
<1>1. \A f \in Ours : f.form \in Forms
    BY DEF Ours
<1>2. Nothing.form = "nothing" /\ Foreign.form = "foreign" /\ Unusable.form = "unusable"
    BY DEF Nothing, Foreign, Unusable, Special
<1> QED BY <1>1, <1>2 DEF Contents, Forms

\* What a plist's spec renders to is one of ours.
LEMMA Rendered ==
    ASSUME NEW s \in Specs
    PROVE  render(s) \in Contents /\ render(s) # Nothing /\ render(s) \in Ours
<1>1. render(s) \in Ours
    BY DEF render, Ours, Forms
<1> QED BY <1>1, Plain

\* What launchd reads of a plist is not nothing, and is a definition.
LEMMA Defined ==
    ASSUME NEW f \in Contents, f # Nothing
    PROVE  Definition(f) \in Definitions /\ Definition(f) # Nothing
<1>1. CASE f.form = "older"
    <2>1. f \in Ours
        BY <1>1 DEF Contents, Unusable, Foreign, Special
    <2>2. f.spec \in Specs
        BY <2>1 DEF Ours
    <2> QED BY <1>1, <2>2, Rendered DEF Definition, Definitions
<1>2. CASE f.form # "older"
    BY <1>2 DEF Definition, Definitions
<1> QED BY <1>1, <1>2

LEMMA DefinedTwice ==
    ASSUME NEW f \in Contents
    PROVE  Definition(Definition(f)) = Definition(f)
BY DEF Definition, render

\* An install has a plist to write.
LEMMA Desired ==
    ASSUME TypeOK, NEW p \in Runs, verb(p) = "install"
    PROVE  desired(p) \in Contents /\ desired(p) # Nothing
<1>1. request[p].spec \in Specs
    BY DEF TypeOK, Requests, verb
<1> QED BY <1>1, Rendered DEF desired

LEMMA DecisionIs ==
    ASSUME NEW f, NEW s, NEW force
    PROVE  Decision(f, s, force) \in Outcomes
<1> DEFINE o == Found(f).ownership
<1>1. o \in {"Ours", "OursUnusable", "Foreign"}
    BY DEF Found
<1>2. CASE o = "Ours"
    BY <1>2 DEF Decision, decide, Outcomes, Writing, Refusing
<1>3. CASE o = "OursUnusable"
    BY <1>3 DEF Decision, decide, Outcomes, Writing, Refusing, Settled
<1>4. CASE o = "Foreign"
    BY <1>4 DEF Decision, decide, Outcomes, Writing, Refusing, Settled
<1> QED BY <1>1, <1>2, <1>3, <1>4

\* The plist a run works at.
LEMMA WhereIs ==
    ASSUME TypeOK, NEW p \in Runs
    PROVE  /\ at[p] = {} => where(p) = "staging"
           /\ \A d \in Dirs : at[p] = {d} => where(p) = d
           /\ at[p] \in Singly => where(p) \in Dirs /\ at[p] = {where(p)}
           /\ Singly = {{d} : d \in Dirs}
<1>1. ASSUME NEW d \in Dirs, at[p] = {d}
      PROVE  where(p) = d
    BY <1>1 DEF where, Creates
<1>2. Singly = {{d} : d \in Dirs}
    BY DEF Singly, Dirs
<1> QED BY <1>1, <1>2 DEF where, Creates

\* What is drawn is counted.
Counted == [calls : Nat, requests : Nat, again : Nat]

LEMMA CountOne ==
    ASSUME NEW r \in Counted
    PROVE  LET t == [r EXCEPT !.calls = @ + 1] IN
           t \in Counted /\ t.calls = r.calls + 1 /\ t.requests = r.requests /\ t.again = r.again
BY DEF Counted

LEMMA CountTwo ==
    ASSUME NEW r \in Counted
    PROVE  LET t == [r EXCEPT !.calls = @ + 1, !.requests = @ + 1] IN
           t \in Counted /\ t.calls = r.calls + 1 /\ t.requests = r.requests + 1 /\ t.again = r.again
<1> DEFINE t == [r EXCEPT !.calls = @ + 1, !.requests = @ + 1]
<1> DEFINE s == [r EXCEPT !.calls = @ + 1]
           u == [s EXCEPT !.requests = @ + 1]
<1>1. s \in Counted /\ s.calls = r.calls + 1 /\ s.requests = r.requests /\ s.again = r.again
    BY CountOne
<1> HIDE DEF s
<1>2. u \in Counted /\ u.calls = s.calls /\ u.requests = s.requests + 1 /\ u.again = s.again
    BY <1>1 DEF Counted
<1>3. t = u
    BY DEF Counted, s
<1> HIDE DEF t, u
<1>4. /\ t \in Counted /\ t.calls = r.calls + 1 /\ t.requests = r.requests + 1
      /\ t.again = r.again
    BY <1>1, <1>2, <1>3
<1> QED BY <1>4 DEF t

LEMMA Counting ==
    ASSUME TypeOK, NEW p \in Runs
    PROVE  /\ drawn \in [Runs -> Counted]
           /\ Queries(p) => /\ drawn' \in [Runs -> Counted]
                            /\ drawn'[p].calls = drawn[p].calls + 1
                            /\ drawn'[p].requests = drawn[p].requests
                            /\ drawn'[p].again = drawn[p].again
                            /\ \A q \in Runs \ {p} : drawn'[q] = drawn[q]
           /\ Sends(p) => /\ drawn' \in [Runs -> Counted]
                          /\ drawn'[p].calls = drawn[p].calls + 1
                          /\ drawn'[p].requests = drawn[p].requests + 1
                          /\ drawn'[p].again = drawn[p].again
                          /\ \A q \in Runs \ {p} : drawn'[q] = drawn[q]
<1> DEFINE r == drawn[p]
<1>1. drawn \in [Runs -> Counted] /\ r \in Counted
    BY DEF TypeOK, Counted
<1>2. ASSUME Queries(p)
      PROVE  drawn' = [drawn EXCEPT ![p] = [r EXCEPT !.calls = @ + 1]]
    BY <1>2, <1>1 DEF Queries
<1>3. ASSUME Sends(p)
      PROVE  drawn' = [drawn EXCEPT ![p] = [r EXCEPT !.calls = @ + 1, !.requests = @ + 1]]
    BY <1>3, <1>1 DEF Sends
<1> QED BY <1>1, <1>2, <1>3, CountOne, CountTwo

\* Of two runs that drew, the one that drew more is bounded by more.
LEMMA Bounding ==
    ASSUME TypeOK, NEW p \in Runs, NEW c \in Nat, NEW r \in Nat, AtMost(p, c, r)
    PROVE  /\ Queries(p) => AtMost(p, c + 1, r)'
           /\ Sends(p) => AtMost(p, c + 1, r + 1)'
<1>1. drawn[p].calls \in Nat /\ drawn[p].requests \in Nat
    BY Counting DEF Counted
<1> QED BY <1>1, Counting DEF AtMost

-----------------------------------------------------------------------------
(* Where a step leads a run.                                                 *)

\* The other runs' affairs are what they were.
Elsewhere(p) ==
    /\ request' = request
    /\ \A q \in Runs \ {p} : /\ pc'[q] = pc[q] /\ result'[q] = result[q] /\ at'[q] = at[q]
                              /\ snap'[q] = snap[q] /\ drawn'[q] = drawn[q]

\* p goes on to one of the places L, or answers one of R.
Goes(p, L, R) ==
    /\ pc' \in [Runs -> Places] /\ result' \in [Runs -> Results]
    /\ \A q \in Runs \ {p} : pc'[q] = pc[q] /\ result'[q] = result[q]
    /\ \/ pc'[p] \in L /\ result'[p] = result[p]
       \/ pc'[p] = "ended" /\ result'[p] \in R

LEMMA GotoGoes ==
    ASSUME TypeOK, NEW p \in Runs, NEW l \in Places, Goto(p, l)
    PROVE  Goes(p, {l}, {})
BY DEF Goto, Goes, TypeOK

LEMMA ReturnsGoes ==
    ASSUME TypeOK, NEW p \in Runs, NEW r \in Results, Returns(p, r)
    PROVE  Goes(p, {}, {r})
<1>1. "ended" \in Places
    BY DEF Places
<1> QED BY <1>1 DEF Returns, Goes, TypeOK

LEMMA WiderGoes ==
    ASSUME NEW p \in Runs, NEW L, NEW R, NEW M, NEW S, Goes(p, L, R), L \subseteq M, R \subseteq S
    PROVE  Goes(p, M, S)
BY DEF Goes

LEMMA AnswersAre ==
    /\ {"none", "done", "error", "undetermined", "not_installed", "ambiguous", "loaded_job",
        "concurrent_change", "slot_taken", "already_exists", "kept", "timed_out",
        "not_started", "not_running", "listed", "listed_unusable", "omitted",
        "listed_undetermined"} \subseteq Results
    /\ InDoubt \subseteq Results /\ Outcomes \ Writing \subseteq Results
BY DEF Results, Outcomes, Writing, Refusing

LEMMA PlacesAre ==
    /\ Reading \cup Installing \cup Moving \cup Starting \cup Others \subseteq Places
    /\ {"ended", "crashed"} \subseteq Places
BY DEF Places

\* What a run that keeps what it read makes of it stays the same.
LEMMA Keeping ==
    ASSUME NEW p \in Runs, at'[p] = at[p], snap'[p] = snap[p], request' = request
    PROVE  /\ where(p)' = where(p) /\ Creates(p)' = Creates(p) /\ changes(p)' = changes(p)
           /\ verb(p)' = verb(p) /\ desired(p)' = desired(p) /\ needs(verb(p))' = needs(verb(p))
BY DEF where, Creates, changes, verb, desired

-----------------------------------------------------------------------------
(* The job.                                                                  *)

JobOK == /\ job \in Definitions \cup {Nothing}
         /\ alive \in BOOLEAN /\ (alive => Loaded)
         /\ late \subseteq {"bootout", "kickstart"}

\* What launchd makes of a request, or does by itself.
JobStep == \/ UNCHANGED jobVars \/ bootout \/ kickstart \/ Exit \/ Respawn
           \/ LeftRunning("bootout") \/ LeftRunning("kickstart")
           \/ \E d \in Dirs : bootstrap(d)
           \/ \E request_ \in late : CarriedOut(request_)

LEMMA JobKeepsType ==
    ASSUME TypeOK, JobStep
    PROVE  /\ JobOK'
           /\ \/ job' = job \/ job' = Nothing
              \/ \E d \in Dirs : plist[d] # Nothing /\ job' = Definition(plist[d])
<1> USE DEF TypeOK
<1>1. CASE UNCHANGED jobVars
    BY <1>1 DEF jobVars, JobOK, Loaded
<1>2. CASE bootout
    BY <1>2 DEF bootout, JobOK, Loaded
<1>3. CASE kickstart
    BY <1>3 DEF kickstart, JobOK, Loaded
<1>4. CASE Exit
    BY <1>4 DEF Exit, JobOK, Loaded
<1>5. CASE Respawn
    BY <1>5 DEF Respawn, JobOK, Loaded
<1>6. ASSUME NEW r \in {"bootout", "kickstart"}, LeftRunning(r)
      PROVE  JobOK' /\ job' = job
    BY <1>6 DEF LeftRunning, JobOK, Loaded
<1>7. CASE \E d \in Dirs : bootstrap(d)
    <2>1. PICK d \in Dirs : bootstrap(d)
        BY <1>7
    <2>2. plist[d] \in Contents /\ plist[d] # Nothing
        BY <2>1 DEF bootstrap
    <2>3. job' \in Definitions /\ job' # Nothing /\ job' = Definition(plist[d])
        BY <2>1, <2>2, Defined DEF bootstrap
    <2>4. alive' \in BOOLEAN /\ late' = late
        BY <2>1 DEF bootstrap
    <2> QED BY <2>2, <2>3, <2>4 DEF JobOK, Loaded
<1>8. CASE \E r \in late : CarriedOut(r)
    <2>1. PICK r \in late : CarriedOut(r)
        BY <1>8
    <2>2. CASE r = "bootout"
        BY <2>1, <2>2 DEF CarriedOut, JobOK, Loaded
    <2>3. CASE r # "bootout"
        BY <2>1, <2>3 DEF CarriedOut, JobOK, Loaded
    <2> QED BY <2>2, <2>3
<1> QED BY <1>1, <1>2, <1>3, <1>4, <1>5, <1>6, <1>7, <1>8 DEF JobStep

\* A run whose step leads somewhere it may go keeps the types, if what it writes
\* and reads is of them.
LEMMA TypesKept ==
    ASSUME TypeOK, NEW p \in Runs, JobStep, NEW L, NEW R, Goes(p, L, R),
           plist' \in [Dirs -> Contents], request' = request,
           at' \in [Runs -> SUBSET Dirs], snap' \in [Runs -> [Dirs -> Contents]],
           drawn' \in [Runs -> Counted], lived' \subseteq Runs, removed' \in BOOLEAN
    PROVE  TypeOK'
BY JobKeepsType DEF TypeOK, JobOK, Goes, Counted

-----------------------------------------------------------------------------
(* What each step does.                                                      *)

LEMMA ClearLabelDoes ==
    ASSUME TypeOK, NEW p \in Runs, RunInv(p), ClearLabel(p)
    PROVE  TypeOK' /\ Elsewhere(p) /\ RunInv(p)' /\ JobStep
<1>1. Goes(p, {"persist"}, {"error"})
    BY GotoGoes, ReturnsGoes, AnswersAre DEF ClearLabel, CallFails, RequestFails, Goes, Places, Installing, Moving, Starting, Others, Reading, InDoubt
<1>2. at' = at /\ snap' = snap /\ request' = request
    BY DEF ClearLabel, locals
<1>3. JobStep /\ lived' \subseteq Runs /\ removed' \in BOOLEAN
    BY DEF ClearLabel, JobStep, CallFails, RequestFails, history, Lives, TypeOK
<1>4. plist' \in [Dirs -> Contents]
    BY DEF ClearLabel, CallFails, RequestFails, TypeOK
<1>5. TypeOK'
    BY <1>1, <1>2, <1>3, <1>4, TypesKept, Counting DEF ClearLabel, TypeOK
<1>6. Elsewhere(p)
    BY <1>1, <1>2, Counting DEF ClearLabel, Goes, Elsewhere
<1>7. /\ where(p)' = where(p) /\ Creates(p)' = Creates(p) /\ changes(p)' = changes(p)
      /\ verb(p)' = verb(p) /\ needs(verb(p))' = needs(verb(p))
    BY <1>2, Keeping
<1>8. pc[p] = "clear" /\ verb(p) = "install" /\ at[p] = {} /\ AtMost(p, 1, 0)
    BY DEF ClearLabel, RunInv, OnPath, Places, Installing, Moving, Starting, Others, Reading, Drew, Fresh, HasFound, Judged
<1>9. AtMost(p, 2, 1)' /\ drawn'[p].calls \in Nat /\ drawn'[p].requests \in Nat
    BY <1>8, Counting, Bounding DEF ClearLabel, Counted
<1>10. OnPath(p)'
    BY <1>1, <1>7, <1>8 DEF OnPath, Goes, Installing, Moving, Starting, RunInv
<1>11. HasFound(p)'
    BY <1>1, <1>2, <1>7, <1>8 DEF HasFound, RunInv, Goes, Judged, Creates, Moving, Starting
<1>12. Drew(p)'
    BY <1>1, <1>7, <1>8, <1>9 DEF Drew, Goes, needs, AtMost, Fresh, Reading, Moving
<1> QED BY <1>3, <1>5, <1>6, <1>10, <1>11, <1>12 DEF RunInv

LEMMA PersistNewDoes ==
    ASSUME TypeOK, NEW p \in Runs, RunInv(p), PersistNew(p)
    PROVE  TypeOK' /\ Elsewhere(p) /\ RunInv(p)' /\ JobStep
<1>1. Goes(p, {"recheck"}, {"slot_taken", "concurrent_change", "error"})
    BY GotoGoes, ReturnsGoes, AnswersAre DEF PersistNew, CallFails, RequestFails, Goes, Places, Installing, Moving, Starting, Others, Reading, InDoubt
<1>2. at' = at /\ snap' = snap /\ request' = request /\ drawn' = drawn
    BY DEF PersistNew, locals
<1>3. JobStep /\ lived' \subseteq Runs /\ removed' \in BOOLEAN
    BY DEF PersistNew, JobStep, CallFails, RequestFails, history, Lives, TypeOK
<1>4. plist' \in [Dirs -> Contents]
    BY Desired DEF PersistNew, CallFails, TypeOK, RunInv, OnPath, Installing
<1>5. TypeOK'
    BY <1>1, <1>2, <1>3, <1>4, TypesKept, Counting DEF PersistNew, TypeOK
<1>6. Elsewhere(p)
    BY <1>1, <1>2, Counting DEF PersistNew, Goes, Elsewhere
<1>7. /\ where(p)' = where(p) /\ Creates(p)' = Creates(p) /\ changes(p)' = changes(p)
      /\ verb(p)' = verb(p) /\ needs(verb(p))' = needs(verb(p))
    BY <1>2, Keeping
<1>8. pc[p] = "persist" /\ verb(p) = "install" /\ at[p] = {} /\ AtMost(p, 2, 1)
    BY DEF PersistNew, RunInv, OnPath, Places, Installing, Moving, Starting, Others, Reading, Drew, Fresh, HasFound, Judged
<1>9. AtMost(p, 2, 1)' /\ drawn'[p].calls \in Nat /\ drawn'[p].requests \in Nat
    BY <1>2, <1>8, Counting DEF Counted, AtMost
<1>10. OnPath(p)'
    BY <1>1, <1>7, <1>8 DEF OnPath, Goes, Installing, Moving, Starting, RunInv
<1>13. changes(p)
    BY <1>8 DEF changes, Creates
<1>11. HasFound(p)'
    BY <1>13, <1>1, <1>2, <1>7, <1>8 DEF HasFound, RunInv, Goes, Judged, Creates, Moving, Starting
<1>12. Drew(p)'
    BY <1>1, <1>7, <1>8, <1>9 DEF Drew, Goes, needs, AtMost, Fresh, Reading, Moving
<1> QED BY <1>3, <1>5, <1>6, <1>10, <1>11, <1>12 DEF RunInv

LEMMA WriteExistingDoes ==
    ASSUME TypeOK, NEW p \in Runs, RunInv(p), WriteExisting(p)
    PROVE  TypeOK' /\ Elsewhere(p) /\ RunInv(p)' /\ JobStep
<1>1. Goes(p, {"recheck"}, {"done", "error"})
    BY GotoGoes, ReturnsGoes, AnswersAre DEF WriteExisting, CallFails, RequestFails, Goes, Places, Installing, Moving, Starting, Others, Reading, InDoubt
<1>2. at' = at /\ snap' = snap /\ request' = request /\ drawn' = drawn
    BY DEF WriteExisting, locals
<1>3. JobStep /\ lived' \subseteq Runs /\ removed' \in BOOLEAN
    BY DEF WriteExisting, JobStep, CallFails, RequestFails, history, Lives, TypeOK
<1>4. plist' \in [Dirs -> Contents]
    BY Desired, WhereIs DEF WriteExisting, CallFails, TypeOK, RunInv, OnPath, Installing
<1>5. TypeOK'
    BY <1>1, <1>2, <1>3, <1>4, TypesKept, Counting DEF WriteExisting, TypeOK
<1>6. Elsewhere(p)
    BY <1>1, <1>2, Counting DEF WriteExisting, Goes, Elsewhere
<1>7. /\ where(p)' = where(p) /\ Creates(p)' = Creates(p) /\ changes(p)' = changes(p)
      /\ verb(p)' = verb(p) /\ needs(verb(p))' = needs(verb(p))
    BY <1>2, Keeping
<1>8. pc[p] = "write" /\ verb(p) = "install" /\ at[p] \in Singly /\ AtMost(p, 1, 0)
    BY DEF WriteExisting, RunInv, OnPath, Places, Installing, Moving, Starting, Others, Reading, Drew, Fresh, HasFound, Judged
<1>9. AtMost(p, 1, 0)' /\ drawn'[p].calls \in Nat /\ drawn'[p].requests \in Nat
    BY <1>2, <1>8, Counting DEF Counted, AtMost
<1>10. OnPath(p)'
    BY <1>1, <1>7, <1>8 DEF OnPath, Goes, Installing, Moving, Starting, RunInv
<1>13. pc'[p] = "recheck" => changes(p)
    BY <1>8, PlacesAre DEF WriteExisting, CallFails, Goto, Returns, TypeOK
<1>11. HasFound(p)'
    BY <1>13, <1>1, <1>2, <1>7, <1>8 DEF HasFound, RunInv, Goes, Judged, Creates, Moving, Starting
<1>12. Drew(p)'
    BY <1>1, <1>7, <1>8, <1>9 DEF Drew, Goes, needs, AtMost, Fresh, Reading, Moving
<1> QED BY <1>3, <1>5, <1>6, <1>10, <1>11, <1>12 DEF RunInv

LEMMA RecheckAfterWriteDoes ==
    ASSUME TypeOK, NEW p \in Runs, RunInv(p), RecheckAfterWrite(p)
    PROVE  TypeOK' /\ Elsewhere(p) /\ RunInv(p)' /\ JobStep
<1>1. Goes(p, {"undo"}, {"done"})
    BY GotoGoes, ReturnsGoes, AnswersAre DEF RecheckAfterWrite, CallFails, RequestFails, Goes, Places, Installing, Moving, Starting, Others, Reading, InDoubt
<1>2. at' = at /\ snap' = snap /\ request' = request
    BY DEF RecheckAfterWrite, locals
<1>3. JobStep /\ lived' \subseteq Runs /\ removed' \in BOOLEAN
    BY DEF RecheckAfterWrite, JobStep, CallFails, RequestFails, history, Lives, TypeOK
<1>4. plist' \in [Dirs -> Contents]
    BY DEF RecheckAfterWrite, CallFails, RequestFails, TypeOK
<1>5. TypeOK'
    BY <1>1, <1>2, <1>3, <1>4, TypesKept, Counting DEF RecheckAfterWrite, TypeOK
<1>6. Elsewhere(p)
    BY <1>1, <1>2, Counting DEF RecheckAfterWrite, Goes, Elsewhere
<1>7. /\ where(p)' = where(p) /\ Creates(p)' = Creates(p) /\ changes(p)' = changes(p)
      /\ verb(p)' = verb(p) /\ needs(verb(p))' = needs(verb(p))
    BY <1>2, Keeping
<1>8. pc[p] = "recheck" /\ verb(p) = "install" /\ AtMost(p, 2, 1)
    BY DEF RecheckAfterWrite, RunInv, OnPath, Places, Installing, Moving, Starting, Others, Reading, Drew, Fresh, HasFound, Judged
<1>9. AtMost(p, 3, 1)' /\ drawn'[p].calls \in Nat /\ drawn'[p].requests \in Nat
    BY <1>8, Counting, Bounding DEF RecheckAfterWrite, Counted
<1>10. OnPath(p)'
    BY <1>1, <1>7, <1>8 DEF OnPath, Goes, Installing, Moving, Starting, RunInv
<1>11. HasFound(p)'
    BY <1>1, <1>2, <1>7, <1>8 DEF HasFound, RunInv, Goes, Judged, Creates, Moving, Starting
<1>12. Drew(p)'
    BY <1>1, <1>7, <1>8, <1>9 DEF Drew, Goes, needs, AtMost, Fresh, Reading, Moving
<1> QED BY <1>3, <1>5, <1>6, <1>10, <1>11, <1>12 DEF RunInv

LEMMA UndoDoes ==
    ASSUME TypeOK, NEW p \in Runs, RunInv(p), Undo(p)
    PROVE  TypeOK' /\ Elsewhere(p) /\ RunInv(p)' /\ JobStep
<1>1. Goes(p, {"put_back"}, {"put_back_blocked", "put_back_failed"})
    BY GotoGoes, ReturnsGoes, AnswersAre DEF Undo, CallFails, RequestFails, Goes, Places, Installing, Moving, Starting, Others, Reading, InDoubt
<1>2. at' = at /\ snap' = snap /\ request' = request /\ drawn' = drawn
    BY DEF Undo, locals
<1>3. JobStep /\ lived' \subseteq Runs /\ removed' \in BOOLEAN
    BY DEF Undo, JobStep, CallFails, RequestFails, history, Lives, TypeOK
<1>4. plist' \in [Dirs -> Contents]
    BY DEF Undo, CallFails, RequestFails, TypeOK
<1>5. TypeOK'
    BY <1>1, <1>2, <1>3, <1>4, TypesKept, Counting DEF Undo, TypeOK
<1>6. Elsewhere(p)
    BY <1>1, <1>2, Counting DEF Undo, Goes, Elsewhere
<1>7. /\ where(p)' = where(p) /\ Creates(p)' = Creates(p) /\ changes(p)' = changes(p)
      /\ verb(p)' = verb(p) /\ needs(verb(p))' = needs(verb(p))
    BY <1>2, Keeping
<1>8. pc[p] = "undo" /\ verb(p) = "install" /\ AtMost(p, 3, 1)
    BY DEF Undo, RunInv, OnPath, Places, Installing, Moving, Starting, Others, Reading, Drew, Fresh, HasFound, Judged
<1>9. AtMost(p, 3, 1)' /\ drawn'[p].calls \in Nat /\ drawn'[p].requests \in Nat
    BY <1>2, <1>8, Counting DEF Counted, AtMost
<1>10. OnPath(p)'
    BY <1>1, <1>7, <1>8 DEF OnPath, Goes, Installing, Moving, Starting, RunInv
<1>11. HasFound(p)'
    BY <1>1, <1>2, <1>7, <1>8 DEF HasFound, RunInv, Goes, Judged, Creates, Moving, Starting
<1>12. Drew(p)'
    BY <1>1, <1>7, <1>8, <1>9 DEF Drew, Goes, needs, AtMost, Fresh, Reading, Moving
<1> QED BY <1>3, <1>5, <1>6, <1>10, <1>11, <1>12 DEF RunInv

LEMMA PutBackDoes ==
    ASSUME TypeOK, NEW p \in Runs, RunInv(p), PutBack(p)
    PROVE  TypeOK' /\ Elsewhere(p) /\ RunInv(p)' /\ JobStep
<1>1. Goes(p, {}, {"in_doubt", "put_back_failed"})
    BY GotoGoes, ReturnsGoes, AnswersAre DEF PutBack, CallFails, RequestFails, Goes, Places, Installing, Moving, Starting, Others, Reading, InDoubt
<1>2. at' = at /\ snap' = snap /\ request' = request /\ drawn' = drawn
    BY DEF PutBack, locals
<1>3. JobStep /\ lived' \subseteq Runs /\ removed' \in BOOLEAN
    BY DEF PutBack, JobStep, CallFails, RequestFails, history, Lives, TypeOK
<1>4. plist' \in [Dirs -> Contents]
    BY WhereIs DEF PutBack, TypeOK
<1>5. TypeOK'
    BY <1>1, <1>2, <1>3, <1>4, TypesKept, Counting DEF PutBack, TypeOK
<1>6. Elsewhere(p)
    BY <1>1, <1>2, Counting DEF PutBack, Goes, Elsewhere
<1>7. /\ where(p)' = where(p) /\ Creates(p)' = Creates(p) /\ changes(p)' = changes(p)
      /\ verb(p)' = verb(p) /\ needs(verb(p))' = needs(verb(p))
    BY <1>2, Keeping
<1>8. pc[p] = "put_back" /\ verb(p) = "install" /\ AtMost(p, 3, 1)
    BY DEF PutBack, RunInv, OnPath, Places, Installing, Moving, Starting, Others, Reading, Drew, Fresh, HasFound, Judged
<1>9. AtMost(p, 3, 1)' /\ drawn'[p].calls \in Nat /\ drawn'[p].requests \in Nat
    BY <1>2, <1>8, Counting DEF Counted, AtMost
<1>10. OnPath(p)'
    BY <1>1, <1>7, <1>8 DEF OnPath, Goes, Installing, Moving, Starting, RunInv
<1>11. HasFound(p)'
    BY <1>1, <1>2, <1>7, <1>8 DEF HasFound, RunInv, Goes, Judged, Creates, Moving, Starting
<1>12. Drew(p)'
    BY <1>1, <1>7, <1>8, <1>9 DEF Drew, Goes, needs, AtMost, Fresh, Reading, Moving
<1> QED BY <1>3, <1>5, <1>6, <1>10, <1>11, <1>12 DEF RunInv

LEMMA LinkDoes ==
    ASSUME TypeOK, NEW p \in Runs, RunInv(p), Link(p)
    PROVE  TypeOK' /\ Elsewhere(p) /\ RunInv(p)' /\ JobStep
<1>1. Goes(p, {"unlink"}, {"already_exists", "error"})
    BY GotoGoes, ReturnsGoes, AnswersAre DEF Link, CallFails, RequestFails, Goes, Places, Installing, Moving, Starting, Others, Reading, InDoubt
<1>2. at' = at /\ snap' = snap /\ request' = request /\ drawn' = drawn
    BY DEF Link, locals
<1>3. JobStep /\ lived' \subseteq Runs /\ removed' \in BOOLEAN
    BY DEF Link, JobStep, CallFails, RequestFails, history, Lives, TypeOK
<1>4. plist' \in [Dirs -> Contents]
    BY WhereIs DEF Link, CallFails, TypeOK, RunInv, HasFound, Moving, Dirs, other
<1>5. TypeOK'
    BY <1>1, <1>2, <1>3, <1>4, TypesKept, Counting DEF Link, TypeOK
<1>6. Elsewhere(p)
    BY <1>1, <1>2, Counting DEF Link, Goes, Elsewhere
<1>7. /\ where(p)' = where(p) /\ Creates(p)' = Creates(p) /\ changes(p)' = changes(p)
      /\ verb(p)' = verb(p) /\ needs(verb(p))' = needs(verb(p))
    BY <1>2, Keeping
<1>8. pc[p] = "link" /\ verb(p) \in {"enable", "disable"} /\ at[p] \in Singly /\ AtMost(p, 0, 0)
    BY DEF Link, RunInv, OnPath, Places, Installing, Moving, Starting, Others, Reading, Drew, Fresh, HasFound, Judged
<1>9. AtMost(p, 0, 0)' /\ drawn'[p].calls \in Nat /\ drawn'[p].requests \in Nat
    BY <1>2, <1>8, Counting DEF Counted, AtMost
<1>10. OnPath(p)'
    BY <1>1, <1>7, <1>8 DEF OnPath, Goes, Installing, Moving, Starting, RunInv
<1>11. HasFound(p)'
    BY <1>1, <1>2, <1>7, <1>8 DEF HasFound, RunInv, Goes, Judged, Creates, Moving, Starting
<1>12. Drew(p)'
    BY <1>1, <1>7, <1>8, <1>9 DEF Drew, Goes, needs, AtMost, Fresh, Reading, Moving
<1> QED BY <1>3, <1>5, <1>6, <1>10, <1>11, <1>12 DEF RunInv

LEMMA WithdrawDoes ==
    ASSUME TypeOK, NEW p \in Runs, RunInv(p), Withdraw(p)
    PROVE  TypeOK' /\ Elsewhere(p) /\ RunInv(p)' /\ JobStep
<1>1. Goes(p, {"remove"}, {"error"})
    BY GotoGoes, ReturnsGoes, AnswersAre DEF Withdraw, CallFails, RequestFails, Goes, Places, Installing, Moving, Starting, Others, Reading, InDoubt
<1>2. at' = at /\ snap' = snap /\ request' = request
    BY DEF Withdraw, locals
<1>3. JobStep /\ lived' \subseteq Runs /\ removed' \in BOOLEAN
    BY DEF Withdraw, JobStep, CallFails, RequestFails, history, Lives, TypeOK
<1>4. plist' \in [Dirs -> Contents]
    BY DEF Withdraw, CallFails, RequestFails, TypeOK
<1>5. TypeOK'
    BY <1>1, <1>2, <1>3, <1>4, TypesKept, Counting DEF Withdraw, TypeOK
<1>6. Elsewhere(p)
    BY <1>1, <1>2, Counting DEF Withdraw, Goes, Elsewhere
<1>7. /\ where(p)' = where(p) /\ Creates(p)' = Creates(p) /\ changes(p)' = changes(p)
      /\ verb(p)' = verb(p) /\ needs(verb(p))' = needs(verb(p))
    BY <1>2, Keeping
<1>8. pc[p] = "withdraw" /\ verb(p) = "uninstall" /\ at[p] \in Singly /\ AtMost(p, 0, 0)
    BY DEF Withdraw, RunInv, OnPath, Places, Installing, Moving, Starting, Others, Reading, Drew, Fresh, HasFound, Judged
<1>9. AtMost(p, 1, 1)' /\ drawn'[p].calls \in Nat /\ drawn'[p].requests \in Nat
    BY <1>8, Counting, Bounding DEF Withdraw, Counted
<1>10. OnPath(p)'
    BY <1>1, <1>7, <1>8 DEF OnPath, Goes, Installing, Moving, Starting, RunInv
<1>11. HasFound(p)'
    BY <1>1, <1>2, <1>7, <1>8 DEF HasFound, RunInv, Goes, Judged, Creates, Moving, Starting
<1>12. Drew(p)'
    BY <1>1, <1>7, <1>8, <1>9 DEF Drew, Goes, needs, AtMost, Fresh, Reading, Moving
<1> QED BY <1>3, <1>5, <1>6, <1>10, <1>11, <1>12 DEF RunInv

LEMMA CorrectDoes ==
    ASSUME TypeOK, NEW p \in Runs, RunInv(p), Correct(p)
    PROVE  TypeOK' /\ Elsewhere(p) /\ RunInv(p)' /\ JobStep
<1>1. Goes(p, {"load"}, {"error"})
    BY GotoGoes, ReturnsGoes, AnswersAre DEF Correct, CallFails, RequestFails, Goes, Places, Installing, Moving, Starting, Others, Reading, InDoubt
<1>2. at' = at /\ snap' = snap /\ request' = request
    BY DEF Correct, locals
<1>3. JobStep /\ lived' \subseteq Runs /\ removed' \in BOOLEAN
    BY DEF Correct, JobStep, CallFails, RequestFails, history, Lives, TypeOK
<1>4. plist' \in [Dirs -> Contents]
    BY DEF Correct, CallFails, RequestFails, TypeOK
<1>5. TypeOK'
    BY <1>1, <1>2, <1>3, <1>4, TypesKept, Counting DEF Correct, TypeOK
<1>6. Elsewhere(p)
    BY <1>1, <1>2, Counting DEF Correct, Goes, Elsewhere
<1>7. /\ where(p)' = where(p) /\ Creates(p)' = Creates(p) /\ changes(p)' = changes(p)
      /\ verb(p)' = verb(p) /\ needs(verb(p))' = needs(verb(p))
    BY <1>2, Keeping
<1>8. pc[p] = "bootout" /\ verb(p) = "start" /\ at[p] \in Singly /\ AtMost(p, 7, 2)
    BY DEF Correct, RunInv, OnPath, Places, Installing, Moving, Starting, Others, Reading, Drew, Fresh, HasFound, Judged
<1>9. AtMost(p, 8, 3)' /\ drawn'[p].calls \in Nat /\ drawn'[p].requests \in Nat
    BY <1>8, Counting, Bounding DEF Correct, Counted
<1>10. OnPath(p)'
    BY <1>1, <1>7, <1>8 DEF OnPath, Goes, Installing, Moving, Starting, RunInv
<1>11. HasFound(p)'
    BY <1>1, <1>2, <1>7, <1>8 DEF HasFound, RunInv, Goes, Judged, Creates, Moving, Starting
<1>12. Drew(p)'
    BY <1>1, <1>7, <1>8, <1>9 DEF Drew, Goes, needs, AtMost, Fresh, Reading, Moving
<1> QED BY <1>3, <1>5, <1>6, <1>10, <1>11, <1>12 DEF RunInv

LEMMA StopDoes ==
    ASSUME TypeOK, NEW p \in Runs, RunInv(p), Stop(p)
    PROVE  TypeOK' /\ Elsewhere(p) /\ RunInv(p)' /\ JobStep
<1>1. Goes(p, {}, {"done", "timed_out", "error"})
    BY GotoGoes, ReturnsGoes, AnswersAre DEF Stop, CallFails, RequestFails, Goes, Places, Installing, Moving, Starting, Others, Reading, InDoubt
<1>2. at' = at /\ snap' = snap /\ request' = request
    BY DEF Stop, locals
<1>3. JobStep /\ lived' \subseteq Runs /\ removed' \in BOOLEAN
    BY DEF Stop, JobStep, CallFails, RequestFails, history, Lives, TypeOK
<1>4. plist' \in [Dirs -> Contents]
    BY DEF Stop, CallFails, RequestFails, TypeOK
<1>5. TypeOK'
    BY <1>1, <1>2, <1>3, <1>4, TypesKept, Counting DEF Stop, TypeOK
<1>6. Elsewhere(p)
    BY <1>1, <1>2, Counting DEF Stop, Goes, Elsewhere
<1>7. /\ where(p)' = where(p) /\ Creates(p)' = Creates(p) /\ changes(p)' = changes(p)
      /\ verb(p)' = verb(p) /\ needs(verb(p))' = needs(verb(p))
    BY <1>2, Keeping
<1>8. pc[p] = "stop" /\ verb(p) = "stop" /\ AtMost(p, 0, 0)
    BY DEF Stop, RunInv, OnPath, Places, Installing, Moving, Starting, Others, Reading, Drew, Fresh, HasFound, Judged
<1>9. AtMost(p, 1, 1)' /\ drawn'[p].calls \in Nat /\ drawn'[p].requests \in Nat
    BY <1>8, Counting, Bounding DEF Stop, Counted
<1>10. OnPath(p)'
    BY <1>1, <1>7, <1>8 DEF OnPath, Goes, Installing, Moving, Starting, RunInv
<1>11. HasFound(p)'
    BY <1>1, <1>2, <1>7, <1>8 DEF HasFound, RunInv, Goes, Judged, Creates, Moving, Starting
<1>12. Drew(p)'
    BY <1>1, <1>7, <1>8, <1>9 DEF Drew, Goes, needs, AtMost, Fresh, Reading, Moving
<1> QED BY <1>3, <1>5, <1>6, <1>10, <1>11, <1>12 DEF RunInv

LEMMA KillDoes ==
    ASSUME TypeOK, NEW p \in Runs, RunInv(p), Kill(p)
    PROVE  TypeOK' /\ Elsewhere(p) /\ RunInv(p)' /\ JobStep
<1>1. Goes(p, {}, {"done", "not_running", "error"})
    BY GotoGoes, ReturnsGoes, AnswersAre DEF Kill, CallFails, RequestFails, Goes, Places, Installing, Moving, Starting, Others, Reading, InDoubt
<1>2. at' = at /\ snap' = snap /\ request' = request
    BY DEF Kill, locals
<1>3. JobStep /\ lived' \subseteq Runs /\ removed' \in BOOLEAN
    BY DEF Kill, JobStep, CallFails, RequestFails, history, Lives, TypeOK
<1>4. plist' \in [Dirs -> Contents]
    BY DEF Kill, CallFails, RequestFails, TypeOK
<1>5. TypeOK'
    BY <1>1, <1>2, <1>3, <1>4, TypesKept, Counting DEF Kill, TypeOK
<1>6. Elsewhere(p)
    BY <1>1, <1>2, Counting DEF Kill, Goes, Elsewhere
<1>7. /\ where(p)' = where(p) /\ Creates(p)' = Creates(p) /\ changes(p)' = changes(p)
      /\ verb(p)' = verb(p) /\ needs(verb(p))' = needs(verb(p))
    BY <1>2, Keeping
<1>8. pc[p] = "kill" /\ verb(p) = "kill" /\ AtMost(p, 0, 0)
    BY DEF Kill, RunInv, OnPath, Places, Installing, Moving, Starting, Others, Reading, Drew, Fresh, HasFound, Judged
<1>9. AtMost(p, 1, 1)' /\ drawn'[p].calls \in Nat /\ drawn'[p].requests \in Nat
    BY <1>8, Counting, Bounding DEF Kill, Counted
<1>10. OnPath(p)'
    BY <1>1, <1>7, <1>8 DEF OnPath, Goes, Installing, Moving, Starting, RunInv
<1>11. HasFound(p)'
    BY <1>1, <1>2, <1>7, <1>8 DEF HasFound, RunInv, Goes, Judged, Creates, Moving, Starting
<1>12. Drew(p)'
    BY <1>1, <1>7, <1>8, <1>9 DEF Drew, Goes, needs, AtMost, Fresh, Reading, Moving
<1> QED BY <1>3, <1>5, <1>6, <1>10, <1>11, <1>12 DEF RunInv

LEMMA StatusDoes ==
    ASSUME TypeOK, NEW p \in Runs, RunInv(p), Status(p)
    PROVE  TypeOK' /\ Elsewhere(p) /\ RunInv(p)' /\ JobStep
<1>1. Goes(p, {}, {"done", "error"})
    BY GotoGoes, ReturnsGoes, AnswersAre DEF Status, CallFails, RequestFails, Goes, Places, Installing, Moving, Starting, Others, Reading, InDoubt
<1>2. at' = at /\ snap' = snap /\ request' = request /\ drawn' = drawn
    BY DEF Status, locals
<1>3. JobStep /\ lived' \subseteq Runs /\ removed' \in BOOLEAN
    BY DEF Status, JobStep, CallFails, RequestFails, history, Lives, TypeOK
<1>4. plist' \in [Dirs -> Contents]
    BY DEF Status, CallFails, RequestFails, TypeOK
<1>5. TypeOK'
    BY <1>1, <1>2, <1>3, <1>4, TypesKept, Counting DEF Status, TypeOK
<1>6. Elsewhere(p)
    BY <1>1, <1>2, Counting DEF Status, Goes, Elsewhere
<1>7. /\ where(p)' = where(p) /\ Creates(p)' = Creates(p) /\ changes(p)' = changes(p)
      /\ verb(p)' = verb(p) /\ needs(verb(p))' = needs(verb(p))
    BY <1>2, Keeping
<1>8. pc[p] = "status" /\ verb(p) = "status" /\ AtMost(p, 0, 0)
    BY DEF Status, RunInv, OnPath, Places, Installing, Moving, Starting, Others, Reading, Drew, Fresh, HasFound, Judged
<1>9. AtMost(p, 0, 0)' /\ drawn'[p].calls \in Nat /\ drawn'[p].requests \in Nat
    BY <1>2, <1>8, Counting DEF Counted, AtMost
<1>10. OnPath(p)'
    BY <1>1, <1>7, <1>8 DEF OnPath, Goes, Installing, Moving, Starting, RunInv
<1>11. HasFound(p)'
    BY <1>1, <1>2, <1>7, <1>8 DEF HasFound, RunInv, Goes, Judged, Creates, Moving, Starting
<1>12. Drew(p)'
    BY <1>1, <1>7, <1>8, <1>9 DEF Drew, Goes, needs, AtMost, Fresh, Reading, Moving
<1> QED BY <1>3, <1>5, <1>6, <1>10, <1>11, <1>12 DEF RunInv

\* The steps of a start, each at two places or three.
LEMMA StartStepIs ==
    ASSUME TypeOK, NEW p \in Runs, RunInv(p),
           NEW L, NEW R, Goes(p, L, R),
           pc[p] \in Starting, L \subseteq Starting,
           at' = at, snap' = snap, request' = request, Drew(p)'
    PROVE  RunInv(p)'
<1>1. /\ where(p)' = where(p) /\ Creates(p)' = Creates(p) /\ changes(p)' = changes(p)
      /\ verb(p)' = verb(p) /\ needs(verb(p))' = needs(verb(p))
    BY Keeping
<1>2. verb(p) = "start" /\ at[p] \in Singly /\ result[p] = "none"
    BY DEF RunInv, OnPath, HasFound, Starting
<1>3. pc'[p] \in Starting \cup {"ended"} /\ (pc'[p] # "ended" => result'[p] = "none")
    BY <1>2 DEF Goes
<1>4. OnPath(p)'
    BY <1>1, <1>2, <1>3 DEF OnPath, Starting, Installing, Moving
<1>5. HasFound(p)'
    BY <1>1, <1>2, <1>3 DEF HasFound, Starting, Judged, Moving
<1> QED BY <1>4, <1>5 DEF RunInv

LEMMA IsLoadedDoes ==
    ASSUME TypeOK, NEW p \in Runs, RunInv(p), IsLoaded(p)
    PROVE  TypeOK' /\ Elsewhere(p) /\ RunInv(p)' /\ JobStep
<1>1. Goes(p, {"live", "bootstrap"}, {"error"})
    BY GotoGoes, ReturnsGoes, AnswersAre DEF IsLoaded, CallFails, RequestFails, Requested, Goes, Places, Starting, live_state
<1>2. at' = at /\ snap' = snap /\ request' = request
    BY DEF IsLoaded
<1>3. JobStep /\ lived' \subseteq Runs /\ removed' \in BOOLEAN /\ plist' \in [Dirs -> Contents]
    BY DEF IsLoaded, JobStep, CallFails, RequestFails, history, Lives, UnderWay, TypeOK
<1>4. Queries(p)
    BY DEF IsLoaded
<1>5. TypeOK'
    BY <1>1, <1>2, <1>3, <1>4, TypesKept, Counting DEF TypeOK
<1>6. Elsewhere(p)
    BY <1>1, <1>2, <1>4, Counting DEF Goes, Elsewhere
<1>7. verb(p) = "start" /\ verb(p)' = verb(p) /\ drawn'[p].calls \in Nat /\ drawn'[p].requests \in Nat
    BY <1>2, <1>4, Counting DEF IsLoaded, RunInv, OnPath, Starting, verb, Counted
<1>8. CASE pc[p] = "loaded"
    <2>1. pc'[p] \in {"live", "bootstrap", "ended"}
        BY <1>8, PlacesAre DEF IsLoaded, CallFails, RequestFails, Requested, Goto, Returns, TypeOK
    <2>2. AtMost(p, 0, 0)
        BY <1>8 DEF RunInv, Drew, Fresh
    <2>3. AtMost(p, 1, 0)'
        BY <2>2, <1>4, Bounding
    <2>4. Drew(p)'
        BY <1>7, <2>1, <2>3 DEF Drew, needs, AtMost, Fresh, Reading, Moving
    <2>5. {"live", "bootstrap"} \subseteq Starting /\ pc[p] \in Starting
        BY <1>8 DEF Starting
    <2> QED BY <1>3, <1>1, <1>2, <1>5, <1>6, <2>4, <2>5, StartStepIs
<1>9. CASE pc[p] = "reloaded"
    <2>1. pc'[p] \in {"live", "ended"}
        BY <1>9, PlacesAre DEF IsLoaded, CallFails, RequestFails, Requested, Goto, Returns, TypeOK
    <2>2. AtMost(p, 2, 1)
        BY <1>9 DEF RunInv, Drew, Fresh
    <2>3. AtMost(p, 3, 1)'
        BY <2>2, <1>4, Bounding
    <2>4. Drew(p)'
        BY <1>7, <2>1, <2>3 DEF Drew, needs, AtMost, Fresh, Reading, Moving
    <2>5. {"live", "bootstrap"} \subseteq Starting /\ pc[p] \in Starting
        BY <1>9 DEF Starting
    <2> QED BY <1>3, <1>1, <1>2, <1>5, <1>6, <2>4, <2>5, StartStepIs
<1> QED BY <1>3, <1>8, <1>9 DEF IsLoaded

LEMMA BootstrapDoes ==
    ASSUME TypeOK, NEW p \in Runs, RunInv(p), Bootstrap(p)
    PROVE  TypeOK' /\ Elsewhere(p) /\ RunInv(p)' /\ JobStep
<1>1. Goes(p, {"live", "live_again", "reloaded"}, {"error"})
    BY GotoGoes, ReturnsGoes, AnswersAre DEF Bootstrap, CallFails, RequestFails, Requested, Goes, Places, Starting, live_state
<1>2. at' = at /\ snap' = snap /\ request' = request
    BY DEF Bootstrap
<1>3. JobStep /\ lived' \subseteq Runs /\ removed' \in BOOLEAN /\ plist' \in [Dirs -> Contents]
    BY WhereIs DEF RunInv, HasFound, Starting, Bootstrap, JobStep, CallFails, RequestFails, history, Lives, UnderWay, TypeOK
<1>4. Sends(p)
    BY DEF Bootstrap
<1>5. TypeOK'
    BY <1>1, <1>2, <1>3, <1>4, TypesKept, Counting DEF TypeOK
<1>6. Elsewhere(p)
    BY <1>1, <1>2, <1>4, Counting DEF Goes, Elsewhere
<1>7. verb(p) = "start" /\ verb(p)' = verb(p) /\ drawn'[p].calls \in Nat /\ drawn'[p].requests \in Nat
    BY <1>2, <1>4, Counting DEF Bootstrap, RunInv, OnPath, Starting, verb, Counted
<1>8. CASE pc[p] = "bootstrap"
    <2>1. pc'[p] \in {"live", "reloaded", "ended"}
        BY <1>8, PlacesAre DEF Bootstrap, CallFails, RequestFails, Requested, Goto, Returns, TypeOK
    <2>2. AtMost(p, 1, 0)
        BY <1>8 DEF RunInv, Drew, Fresh
    <2>3. AtMost(p, 2, 1)'
        BY <2>2, <1>4, Bounding
    <2>4. Drew(p)'
        BY <1>7, <2>1, <2>3 DEF Drew, needs, AtMost, Fresh, Reading, Moving
    <2>5. {"live", "live_again", "reloaded"} \subseteq Starting /\ pc[p] \in Starting
        BY <1>8 DEF Starting
    <2> QED BY <1>3, <1>1, <1>2, <1>5, <1>6, <2>4, <2>5, StartStepIs
<1>9. CASE pc[p] = "load"
    <2>1. pc'[p] \in {"live_again", "ended"}
        BY <1>9, PlacesAre DEF Bootstrap, CallFails, RequestFails, Requested, Goto, Returns, TypeOK
    <2>2. AtMost(p, 8, 3)
        BY <1>9 DEF RunInv, Drew, Fresh
    <2>3. AtMost(p, 9, 4)'
        BY <2>2, <1>4, Bounding
    <2>4. Drew(p)'
        BY <1>7, <2>1, <2>3 DEF Drew, needs, AtMost, Fresh, Reading, Moving
    <2>5. {"live", "live_again", "reloaded"} \subseteq Starting /\ pc[p] \in Starting
        BY <1>9 DEF Starting
    <2> QED BY <1>3, <1>1, <1>2, <1>5, <1>6, <2>4, <2>5, StartStepIs
<1> QED BY <1>3, <1>8, <1>9 DEF Bootstrap

LEMMA LiveDoes ==
    ASSUME TypeOK, NEW p \in Runs, RunInv(p), Live(p)
    PROVE  TypeOK' /\ Elsewhere(p) /\ RunInv(p)' /\ JobStep
<1>1. Goes(p, {"verify", "kick", "final", "kick_again", "bootout"}, {"done", "error"})
    BY GotoGoes, ReturnsGoes, AnswersAre DEF Live, CallFails, RequestFails, Requested, Goes, Places, Starting, live_state
<1>2. at' = at /\ snap' = snap /\ request' = request
    BY DEF Live
<1>3. JobStep /\ lived' \subseteq Runs /\ removed' \in BOOLEAN /\ plist' \in [Dirs -> Contents]
    BY DEF Live, JobStep, CallFails, RequestFails, history, Lives, UnderWay, TypeOK
<1>4. Queries(p)
    BY DEF Live
<1>5. TypeOK'
    BY <1>1, <1>2, <1>3, <1>4, TypesKept, Counting DEF TypeOK
<1>6. Elsewhere(p)
    BY <1>1, <1>2, <1>4, Counting DEF Goes, Elsewhere
<1>7. verb(p) = "start" /\ verb(p)' = verb(p) /\ drawn'[p].calls \in Nat /\ drawn'[p].requests \in Nat
    BY <1>2, <1>4, Counting DEF Live, RunInv, OnPath, Starting, verb, Counted
<1>8. CASE pc[p] = "live"
    <2>1. pc'[p] \in {"verify", "kick", "ended"}
        BY <1>8, PlacesAre DEF Live, CallFails, RequestFails, Requested, Goto, Returns, TypeOK
    <2>2. AtMost(p, 3, 1)
        BY <1>8 DEF RunInv, Drew, Fresh
    <2>3. AtMost(p, 4, 1)'
        BY <2>2, <1>4, Bounding
    <2>4. Drew(p)'
        BY <1>7, <2>1, <2>3 DEF Drew, needs, AtMost, Fresh, Reading, Moving
    <2>5. {"verify", "kick", "final", "kick_again", "bootout"} \subseteq Starting /\ pc[p] \in Starting
        BY <1>8 DEF Starting
    <2> QED BY <1>3, <1>1, <1>2, <1>5, <1>6, <2>4, <2>5, StartStepIs
<1>9. CASE pc[p] = "live_again"
    <2>1. pc'[p] \in {"final", "kick_again", "ended"}
        BY <1>9, PlacesAre DEF Live, CallFails, RequestFails, Requested, Goto, Returns, TypeOK
    <2>2. AtMost(p, 9, 4)
        BY <1>9 DEF RunInv, Drew, Fresh
    <2>3. AtMost(p, 10, 4)'
        BY <2>2, <1>4, Bounding
    <2>4. Drew(p)'
        BY <1>7, <2>1, <2>3 DEF Drew, needs, AtMost, Fresh, Reading, Moving
    <2>5. {"verify", "kick", "final", "kick_again", "bootout"} \subseteq Starting /\ pc[p] \in Starting
        BY <1>9 DEF Starting
    <2> QED BY <1>3, <1>1, <1>2, <1>5, <1>6, <2>4, <2>5, StartStepIs
<1>10. CASE pc[p] = "verify"
    <2>1. pc'[p] \in {"bootout", "ended"}
        BY <1>10, PlacesAre DEF Live, CallFails, RequestFails, Requested, Goto, Returns, TypeOK
    <2>2. AtMost(p, 6, 2)
        BY <1>10 DEF RunInv, Drew, Fresh
    <2>3. AtMost(p, 7, 2)'
        BY <2>2, <1>4, Bounding
    <2>4. Drew(p)'
        BY <1>7, <2>1, <2>3 DEF Drew, needs, AtMost, Fresh, Reading, Moving
    <2>5. {"verify", "kick", "final", "kick_again", "bootout"} \subseteq Starting /\ pc[p] \in Starting
        BY <1>10 DEF Starting
    <2> QED BY <1>3, <1>1, <1>2, <1>5, <1>6, <2>4, <2>5, StartStepIs
<1> QED BY <1>3, <1>8, <1>9, <1>10 DEF Live

LEMMA KickstartDoes ==
    ASSUME TypeOK, NEW p \in Runs, RunInv(p), Kickstart(p)
    PROVE  TypeOK' /\ Elsewhere(p) /\ RunInv(p)' /\ JobStep
<1>1. Goes(p, {"verify", "final", "confirm"}, {"done", "timed_out", "error"})
    BY GotoGoes, ReturnsGoes, AnswersAre DEF Kickstart, CallFails, RequestFails, Requested, Goes, Places, Starting, live_state
<1>2. at' = at /\ snap' = snap /\ request' = request
    BY DEF Kickstart
<1>3. JobStep /\ lived' \subseteq Runs /\ removed' \in BOOLEAN /\ plist' \in [Dirs -> Contents]
    BY DEF Kickstart, JobStep, CallFails, RequestFails, history, Lives, UnderWay, TypeOK
<1>4. Sends(p)
    BY DEF Kickstart
<1>5. TypeOK'
    BY <1>1, <1>2, <1>3, <1>4, TypesKept, Counting DEF TypeOK
<1>6. Elsewhere(p)
    BY <1>1, <1>2, <1>4, Counting DEF Goes, Elsewhere
<1>7. verb(p) = "start" /\ verb(p)' = verb(p) /\ drawn'[p].calls \in Nat /\ drawn'[p].requests \in Nat
    BY <1>2, <1>4, Counting DEF Kickstart, RunInv, OnPath, Starting, verb, Counted
<1>8. CASE pc[p] = "kick"
    <2>1. pc'[p] \in {"verify", "confirm", "ended"}
        BY <1>8, PlacesAre DEF Kickstart, CallFails, RequestFails, Requested, Goto, Returns, TypeOK
    <2>2. AtMost(p, 4, 1)
        BY <1>8 DEF RunInv, Drew, Fresh
    <2>3. AtMost(p, 5, 2)'
        BY <2>2, <1>4, Bounding
    <2>4. Drew(p)'
        BY <1>7, <2>1, <2>3 DEF Drew, needs, AtMost, Fresh, Reading, Moving
    <2>5. {"verify", "final", "confirm"} \subseteq Starting /\ pc[p] \in Starting
        BY <1>8 DEF Starting
    <2> QED BY <1>3, <1>1, <1>2, <1>5, <1>6, <2>4, <2>5, StartStepIs
<1>9. CASE pc[p] = "kick_again"
    <2>1. pc'[p] \in {"final", "ended"}
        BY <1>9, PlacesAre DEF Kickstart, CallFails, RequestFails, Requested, Goto, Returns, TypeOK
    <2>2. AtMost(p, 10, 4)
        BY <1>9 DEF RunInv, Drew, Fresh
    <2>3. AtMost(p, 11, 5)'
        BY <2>2, <1>4, Bounding
    <2>4. Drew(p)'
        BY <1>7, <2>1, <2>3 DEF Drew, needs, AtMost, Fresh, Reading, Moving
    <2>5. {"verify", "final", "confirm"} \subseteq Starting /\ pc[p] \in Starting
        BY <1>9 DEF Starting
    <2> QED BY <1>3, <1>1, <1>2, <1>5, <1>6, <2>4, <2>5, StartStepIs
<1> QED BY <1>3, <1>8, <1>9 DEF Kickstart

LEMMA ConfirmDoes ==
    ASSUME TypeOK, NEW p \in Runs, RunInv(p), Confirm(p)
    PROVE  TypeOK' /\ Elsewhere(p) /\ RunInv(p)' /\ JobStep
<1>1. Goes(p, {"verify"}, {"not_started", "done", "timed_out", "error"})
    BY GotoGoes, ReturnsGoes, AnswersAre DEF Confirm, CallFails, RequestFails, Requested, Goes, Places, Starting, live_state
<1>2. at' = at /\ snap' = snap /\ request' = request
    BY DEF Confirm
<1>3. JobStep /\ lived' \subseteq Runs /\ removed' \in BOOLEAN /\ plist' \in [Dirs -> Contents]
    BY DEF Confirm, JobStep, CallFails, RequestFails, history, Lives, UnderWay, TypeOK
<1>4. Queries(p)
    BY DEF Confirm
<1>5. TypeOK'
    BY <1>1, <1>2, <1>3, <1>4, TypesKept, Counting DEF TypeOK
<1>6. Elsewhere(p)
    BY <1>1, <1>2, <1>4, Counting DEF Goes, Elsewhere
<1>7. verb(p) = "start" /\ verb(p)' = verb(p) /\ drawn'[p].calls \in Nat /\ drawn'[p].requests \in Nat
    BY <1>2, <1>4, Counting DEF Confirm, RunInv, OnPath, Starting, verb, Counted
<1>8. CASE pc[p] = "confirm"
    <2>1. pc'[p] \in {"verify", "ended"}
        BY <1>8, PlacesAre DEF Confirm, CallFails, RequestFails, Requested, Goto, Returns, TypeOK
    <2>2. AtMost(p, 5, 2)
        BY <1>8 DEF RunInv, Drew, Fresh
    <2>3. AtMost(p, 6, 2)'
        BY <2>2, <1>4, Bounding
    <2>4. Drew(p)'
        BY <1>7, <2>1, <2>3 DEF Drew, needs, AtMost, Fresh, Reading, Moving
    <2>5. {"verify"} \subseteq Starting /\ pc[p] \in Starting
        BY <1>8 DEF Starting
    <2> QED BY <1>3, <1>1, <1>2, <1>5, <1>6, <2>4, <2>5, StartStepIs
<1>9. CASE pc[p] = "final"
    <2>1. pc'[p] \in {"ended"}
        BY <1>9, PlacesAre DEF Confirm, CallFails, RequestFails, Requested, Goto, Returns, TypeOK
    <2>2. AtMost(p, 11, 5)
        BY <1>9 DEF RunInv, Drew, Fresh
    <2>3. AtMost(p, 12, 5)'
        BY <2>2, <1>4, Bounding
    <2>4. Drew(p)'
        BY <1>7, <2>1, <2>3 DEF Drew, needs, AtMost, Fresh, Reading, Moving
    <2>5. {"verify"} \subseteq Starting /\ pc[p] \in Starting
        BY <1>9 DEF Starting
    <2> QED BY <1>3, <1>1, <1>2, <1>5, <1>6, <2>4, <2>5, StartStepIs
<1> QED BY <1>3, <1>8, <1>9 DEF Confirm

LEMMA CheckLoadedDoes ==
    ASSUME TypeOK, NEW p \in Runs, RunInv(p), CheckLoaded(p)
    PROVE  TypeOK' /\ Elsewhere(p) /\ RunInv(p)' /\ JobStep
<1>1. Goes(p, {"present", "clear", "persist"}, {"loaded_job", "error"})
    BY GotoGoes, ReturnsGoes, AnswersAre DEF CheckLoaded, CallFails, Goes, Places, Installing
<1>2. at' = at /\ snap' = snap /\ request' = request
    BY DEF CheckLoaded
<1>3. JobStep /\ lived' \subseteq Runs /\ removed' \in BOOLEAN /\ plist' \in [Dirs -> Contents]
    BY DEF CheckLoaded, JobStep, history, TypeOK
<1>4. TypeOK'
    BY <1>1, <1>2, <1>3, TypesKept, Counting DEF CheckLoaded, TypeOK
<1>5. Elsewhere(p)
    BY <1>1, <1>2, Counting DEF CheckLoaded, Goes, Elsewhere
<1>6. /\ where(p)' = where(p) /\ Creates(p)' = Creates(p) /\ changes(p)' = changes(p)
      /\ verb(p)' = verb(p) /\ needs(verb(p))' = needs(verb(p))
    BY <1>2, Keeping
<1>7. pc[p] = "check" /\ verb(p) = "install" /\ AtMost(p, 0, 0) /\ changes(p)
    BY DEF CheckLoaded, RunInv, OnPath, Installing, Drew, Fresh, HasFound
<1>8. AtMost(p, 1, 0)' /\ drawn'[p].calls \in Nat /\ drawn'[p].requests \in Nat
    BY <1>7, Counting, Bounding DEF CheckLoaded, Counted
<1>9. OnPath(p)'
    BY <1>1, <1>6, <1>7 DEF OnPath, Goes, Installing, Moving, Starting, RunInv
<1>10. /\ pc'[p] = "present" => ~Creates(p)
       /\ pc'[p] \in {"clear", "persist"} => Creates(p)
    BY <1>7, PlacesAre DEF CheckLoaded, Goto, Returns, CallFails, TypeOK
<1>11. HasFound(p)'
    BY <1>1, <1>2, <1>6, <1>7, <1>10 DEF HasFound, RunInv, Goes, Judged, Creates, Moving, Starting
<1>12. Drew(p)'
    BY <1>1, <1>6, <1>7, <1>8 DEF Drew, Goes, needs, AtMost, Fresh, Reading, Moving
<1> QED BY <1>3, <1>4, <1>5, <1>9, <1>11, <1>12 DEF RunInv

LEMMA RemoveDoes ==
    ASSUME TypeOK, NEW p \in Runs, RunInv(p), Remove(p)
    PROVE  TypeOK' /\ Elsewhere(p) /\ RunInv(p)' /\ JobStep
<1>1. Goes(p, {}, {"done", "error"})
    BY GotoGoes, ReturnsGoes, AnswersAre DEF Remove, CallFails, Goes
<1>2. at' = at /\ snap' = snap /\ request' = request /\ drawn' = drawn
    BY DEF Remove, locals
<1>3. where(p) \in Dirs
    BY WhereIs DEF Remove, RunInv, HasFound, Moving
<1>4. JobStep /\ lived' \subseteq Runs /\ removed' \in BOOLEAN /\ plist' \in [Dirs -> Contents]
    BY <1>3, Plain DEF Remove, JobStep, CallFails, TypeOK
<1>5. TypeOK'
    BY <1>1, <1>2, <1>4, TypesKept, Counting DEF TypeOK
<1>6. Elsewhere(p)
    BY <1>1, <1>2, Counting DEF Goes, Elsewhere
<1>7. verb(p)' = verb(p) /\ AtMost(p, needs(verb(p)).calls, needs(verb(p)).requests)'
    BY <1>2 DEF RunInv, Drew, verb, AtMost
<1>8. pc'[p] = "ended"
    BY <1>1 DEF Goes
<1> QED BY <1>4, <1>5, <1>6, <1>7, <1>8
        DEF RunInv, OnPath, HasFound, Drew, Installing, Moving, Starting, Judged, Fresh, Reading

LEMMA CrashDoes ==
    ASSUME TypeOK, NEW p \in Runs, RunInv(p), Crash(p)
    PROVE  TypeOK' /\ Elsewhere(p) /\ RunInv(p)' /\ JobStep
<1>1. Goes(p, {"crashed"}, {})
    BY DEF Crash, Goes, TypeOK, Places
<1>2. at' = at /\ snap' = snap /\ request' = request /\ drawn' = drawn
    BY DEF Crash, locals
<1>3. JobStep /\ lived' \subseteq Runs /\ removed' \in BOOLEAN /\ plist' \in [Dirs -> Contents]
    BY DEF Crash, JobStep, history, TypeOK
<1>4. TypeOK'
    BY <1>1, <1>2, <1>3, TypesKept, Counting DEF TypeOK
<1>5. Elsewhere(p)
    BY <1>1, <1>2, Counting DEF Goes, Elsewhere
<1>6. verb(p)' = verb(p) /\ AtMost(p, needs(verb(p)).calls, needs(verb(p)).requests)'
    BY <1>2 DEF RunInv, Drew, verb, AtMost
<1>7. pc'[p] = "crashed" /\ result'[p] = "none"
    BY <1>1 DEF Goes, Crash, RunInv, OnPath
<1> QED BY <1>3, <1>4, <1>5, <1>6, <1>7
        DEF RunInv, OnPath, HasFound, Drew, Installing, Moving, Starting, Judged, Fresh, Reading

\* A run that is still looking drew nothing.
LEMMA StillLooking ==
    ASSUME NEW p \in Runs, request' = request, drawn[p].calls = 0, drawn[p].requests = 0,
           drawn'[p] = drawn[p]
    PROVE  Drew(p)'
<1>1. verb(p)' = verb(p)
    BY DEF verb
<1>2. AtMost(p, 0, 0)' /\ drawn'[p].calls = 0 /\ drawn'[p].requests = 0
    BY DEF AtMost
<1>3. needs(verb(p)).calls \in Nat /\ needs(verb(p)).requests \in Nat
    BY DEF needs
<1>4. AtMost(p, needs(verb(p)).calls, needs(verb(p)).requests)'
    BY <1>1, <1>2, <1>3 DEF AtMost
<1> QED BY <1>2, <1>4 DEF Drew, AtMost

LEMMA NothingDrawn ==
    ASSUME TypeOK, NEW p \in Runs, RunInv(p), pc[p] \in Reading
    PROVE  drawn[p].calls = 0 /\ drawn[p].requests = 0
<1>1. drawn[p].calls \in Nat /\ drawn[p].requests \in Nat
    BY Counting DEF Counted
<1> QED BY <1>1 DEF RunInv, Drew, AtMost, Fresh

LEMMA StatStagingDoes ==
    ASSUME TypeOK, NEW p \in Runs, RunInv(p), StatStaging(p)
    PROVE  TypeOK' /\ Elsewhere(p) /\ RunInv(p)' /\ JobStep
<1>1. Goes(p, {"stat_enabled"}, {"undetermined", "listed_undetermined"})
    BY GotoGoes, ReturnsGoes, AnswersAre DEF StatStaging, Unestablished, Goes, Places, Reading
<1>2. snap' = snap /\ request' = request /\ drawn' = drawn
    BY DEF StatStaging
<1>3. at' \in [Runs -> SUBSET Dirs] /\ \A q \in Runs \ {p} : at'[q] = at[q]
    BY DEF StatStaging, TypeOK, Present, Dirs
<1>4. JobStep /\ lived' \subseteq Runs /\ removed' \in BOOLEAN /\ plist' \in [Dirs -> Contents]
    BY DEF StatStaging, JobStep, TypeOK
<1>5. TypeOK'
    BY <1>1, <1>2, <1>3, <1>4, TypesKept, Counting DEF TypeOK
<1>6. Elsewhere(p)
    BY <1>1, <1>2, <1>3, Counting DEF Goes, Elsewhere
<1>7. Drew(p)'
    BY <1>2, StillLooking, NothingDrawn DEF StatStaging, Reading
<1>8. pc'[p] \in {"stat_enabled", "ended"} /\ (pc'[p] # "ended" => result'[p] = "none")
    BY <1>1 DEF Goes, RunInv, OnPath, StatStaging
<1> QED BY <1>4, <1>5, <1>6, <1>7, <1>8
        DEF RunInv, OnPath, HasFound, Installing, Moving, Starting, Judged

LEMMA StatEnabledDoes ==
    ASSUME TypeOK, NEW p \in Runs, RunInv(p), StatEnabled(p)
    PROVE  TypeOK' /\ Elsewhere(p) /\ RunInv(p)' /\ JobStep
<1> DEFINE found == at[p] \cup Present("enabled")
<1>1. Goes(p, {"check", "read"}, {"omitted", "not_installed", "ambiguous", "undetermined",
                                  "listed_undetermined"})
    BY GotoGoes, ReturnsGoes, AnswersAre
    DEF StatEnabled, Unestablished, Goes, Places, Reading, Installing
<1>2. snap' = snap /\ request' = request /\ drawn' = drawn
    BY DEF StatEnabled
<1>3. found \subseteq Dirs
    BY DEF TypeOK, Present, Dirs
<1>4. at' \in [Runs -> SUBSET Dirs] /\ \A q \in Runs \ {p} : at'[q] = at[q]
    BY <1>3 DEF StatEnabled, TypeOK
<1>5. JobStep /\ lived' \subseteq Runs /\ removed' \in BOOLEAN /\ plist' \in [Dirs -> Contents]
    BY DEF StatEnabled, JobStep, TypeOK, history
<1>6. TypeOK'
    BY <1>1, <1>2, <1>4, <1>5, TypesKept, Counting DEF TypeOK
<1>7. Elsewhere(p)
    BY <1>1, <1>2, <1>4, Counting DEF Goes, Elsewhere
<1>8. Drew(p)'
    BY <1>2, StillLooking, NothingDrawn DEF StatEnabled, Reading
<1>9. pc'[p] \in {"check", "read", "ended"} /\ (pc'[p] # "ended" => result'[p] = "none")
    BY <1>1 DEF Goes, RunInv, OnPath, StatEnabled
<1>10. verb(p)' = verb(p) /\ (pc'[p] = "check" => verb(p) = "install" /\ at'[p] = {})
    BY <1>2, <1>3, PlacesAre DEF StatEnabled, Goto, Returns, Unestablished, TypeOK, verb
<1>11. pc'[p] = "read" => at'[p] = found /\ found # {} /\ (found = Dirs => verb(p) = "list")
    BY <1>2, <1>3, PlacesAre DEF StatEnabled, Goto, Returns, Unestablished, TypeOK, verb
<1>12. found # {} /\ found # Dirs => found \in Singly
    BY <1>3 DEF Dirs, Singly
<1>13. OnPath(p)'
    BY <1>9, <1>10 DEF OnPath, Installing, Moving, Starting
<1>14. at'[p] = {} => changes(p)'
    BY DEF changes, Creates
<1>15. HasFound(p)'
    BY <1>9, <1>10, <1>11, <1>12, <1>14 DEF HasFound, Judged, Moving, Starting
<1> QED BY <1>5, <1>6, <1>7, <1>8, <1>13, <1>15 DEF RunInv

\* One plist is read.
LEMMA SnapOne ==
    ASSUME TypeOK, NEW p \in Runs, NEW d \in Dirs, snap' = [snap EXCEPT ![p][d] = plist[d]]
    PROVE  /\ snap' \in [Runs -> [Dirs -> Contents]]
           /\ \A q \in Runs \ {p} : snap'[q] = snap[q]
           /\ snap'[p][d] = plist[d]
<1>1. snap' = [snap EXCEPT ![p] = [snap[p] EXCEPT ![d] = plist[d]]]
    OBVIOUS
<1>2. snap \in [Runs -> [Dirs -> Contents]] /\ plist[d] \in Contents
    BY DEF TypeOK
<1>3. [snap[p] EXCEPT ![d] = plist[d]] \in [Dirs -> Contents]
    BY <1>2
<1> QED BY <1>1, <1>2, <1>3

LEMMA ScanReadDoes ==
    ASSUME TypeOK, NEW p \in Runs, RunInv(p), ScanRead(p)
    PROVE  TypeOK' /\ Elsewhere(p) /\ RunInv(p)' /\ JobStep
<1>1. ASSUME NEW read
      PROVE  Listed(read) \in {"omitted", "listed_unusable", "listed"}
    BY DEF Listed
<1>2. Goes(p, {"read"}, {"omitted", "listed_unusable", "listed", "undetermined", "listed_undetermined"})
    BY <1>1, GotoGoes, ReturnsGoes, AnswersAre
    DEF ScanRead, Unestablished, Goes, Places, Reading
<1>3. request' = request /\ drawn' = drawn
    BY DEF ScanRead
<1>4. snap' \in [Runs -> [Dirs -> Contents]] /\ \A q \in Runs \ {p} : snap'[q] = snap[q]
    <2> DEFINE d == IF "staging" \in at[p] THEN "staging" ELSE "enabled"
    <2>1. d \in Dirs /\ (snap' = snap \/ snap' = [snap EXCEPT ![p][d] = plist[d]])
        BY DEF ScanRead, Dirs
    <2> HIDE DEF d
    <2> QED BY <2>1, SnapOne DEF TypeOK
<1>5. at' \in [Runs -> SUBSET Dirs] /\ \A q \in Runs \ {p} : at'[q] = at[q]
    <2> DEFINE d == IF "staging" \in at[p] THEN "staging" ELSE "enabled"
    <2>1. at' = at \/ at' = [at EXCEPT ![p] = @ \ {d}]
        BY DEF ScanRead
    <2> HIDE DEF d
    <2> QED BY <2>1 DEF TypeOK
<1>6. JobStep /\ lived' \subseteq Runs /\ removed' \in BOOLEAN /\ plist' \in [Dirs -> Contents]
    BY DEF ScanRead, JobStep, TypeOK, history
<1>7. TypeOK'
    BY <1>2, <1>3, <1>4, <1>5, <1>6, TypesKept, Counting DEF TypeOK
<1>8. Elsewhere(p)
    BY <1>2, <1>3, <1>4, <1>5, Counting DEF Goes, Elsewhere
<1>9. Drew(p)'
    BY <1>3, StillLooking, NothingDrawn DEF ScanRead, Reading
<1>10. pc'[p] \in {"read", "ended"} /\ (pc'[p] # "ended" => result'[p] = "none") /\ verb(p)' = "list"
    BY <1>2, <1>3 DEF Goes, RunInv, OnPath, ScanRead, verb
<1> QED BY <1>6, <1>7, <1>8, <1>9, <1>10
        DEF RunInv, OnPath, HasFound, Installing, Moving, Starting, Judged

\* What the gate makes of a plist: where it sends each verb.
LEMMA JudgeGoes ==
    ASSUME TypeOK, NEW p \in Runs, NEW d \in Dirs, NEW f, Judge(p, d, f), verb(p) # "list"
    PROVE  /\ Goes(p, {"check", "present", "link", "withdraw", "loaded", "stop", "kill", "status"},
                   (Outcomes \ Writing) \cup {"kept", "done"})
           /\ pc'[p] \in {"check", "present"} => verb(p) = "install"
           /\ pc'[p] = "check" => changes_loaded_job(f, desired(p))
           /\ pc'[p] = "link" => verb(p) \in {"enable", "disable"}
           /\ pc'[p] = "withdraw" => verb(p) = "uninstall"
           /\ pc'[p] = "loaded" => verb(p) = "start"
           /\ pc'[p] \in {"stop", "kill", "status"} => verb(p) = pc'[p]
           /\ result'[p] = "done" /\ verb(p) \notin {"enable", "disable"} => result[p] = "done"
<1>1. pc \in [Runs -> Places] /\ result \in [Runs -> Results] /\ verb(p) \in PossibleVerbs
    BY LaunchdAssumption DEF TypeOK, Requests, verb
<1>2. "done" \notin Outcomes
    BY DEF Outcomes, Writing, Refusing
<1>3. CASE verb(p) = "install"
    <2>1. Decision(f, request[p].spec, request[p].force) \in Outcomes
        BY DecisionIs
    <2>2. JudgeInstall(p, f)
        BY <1>3 DEF Judge
    <2>3. CASE Decision(f, request[p].spec, request[p].force) \in Writing
        <3>1. \/ Goto(p, "check") /\ changes_loaded_job(f, desired(p))
              \/ Goto(p, "present")
            BY <2>2, <2>3 DEF JudgeInstall
        <3>2. {"check", "present"} \subseteq Places
            BY DEF Places, Installing
        <3> QED BY <3>1, <3>2, <1>1, <1>3 DEF Goto, Goes
    <2>4. CASE Decision(f, request[p].spec, request[p].force) \notin Writing
        <3>1. Returns(p, Decision(f, request[p].spec, request[p].force))
            BY <2>2, <2>4 DEF JudgeInstall
        <3>2. Decision(f, request[p].spec, request[p].force) \in Results
            BY <2>1, <2>4, AnswersAre
        <3> QED BY <3>1, <3>2, <2>1, <2>4, <1>1, <1>2, PlacesAre DEF Returns, Goes
    <2> QED BY <2>3, <2>4
<1>4. CASE verb(p) # "install"
    <2>1. \/ Returns(p, "RefuseForeign") \/ Returns(p, "kept")
          \/ verb(p) \in {"enable", "disable"} /\ (Returns(p, "done") \/ Goto(p, "link"))
          \/ verb(p) \notin {"enable", "disable"} /\ Goto(p, Gated[verb(p)])
        BY <1>4 DEF Judge
    <2>2. {"RefuseForeign", "kept", "done"} \subseteq Results /\ "RefuseForeign" \in Outcomes \ Writing
        BY AnswersAre DEF Outcomes, Writing, Refusing
    <2>3. CASE Returns(p, "RefuseForeign") \/ Returns(p, "kept")
        BY <2>2, <2>3, <1>1, PlacesAre DEF Returns, Goes
    <2>4. CASE verb(p) \in {"enable", "disable"} /\ Returns(p, "done")
        BY <2>2, <2>4, <1>1, PlacesAre DEF Returns, Goes
    <2>5. CASE verb(p) \in {"enable", "disable"} /\ Goto(p, "link")
        BY <2>5, <1>1, PlacesAre DEF Goto, Goes, Moving
    <2>6. CASE verb(p) \notin {"enable", "disable"} /\ Goto(p, Gated[verb(p)])
        <3>1. verb(p) \in {"uninstall", "start", "stop", "kill", "status"}
            BY <2>6, <1>1, <1>4 DEF PossibleVerbs
        <3>2. ASSUME NEW v \in {"uninstall", "start", "stop", "kill", "status"}
              PROVE  /\ Gated[v] \in {"withdraw", "loaded", "stop", "kill", "status"}
                     /\ Gated[v] = "withdraw" => v = "uninstall"
                     /\ Gated[v] = "loaded" => v = "start"
                     /\ Gated[v] \in {"stop", "kill", "status"} => v = Gated[v]
            BY <3>2 DEF Gated
        <3>3. Gated[verb(p)] \in Places
            BY <3>1, <3>2, PlacesAre DEF Others, Starting
        <3>4. pc'[p] = Gated[verb(p)] /\ result' = result /\ pc' \in [Runs -> Places]
              /\ \A q \in Runs \ {p} : pc'[q] = pc[q]
            BY <2>6, <3>3, <1>1 DEF Goto
        <3> QED BY <3>1, <3>2, <3>4, <1>1 DEF Goes
    <2> QED BY <2>1, <2>3, <2>4, <2>5, <2>6
<1> QED BY <1>3, <1>4

LEMMA ReadDoes ==
    ASSUME TypeOK, NEW p \in Runs, RunInv(p), Read(p)
    PROVE  TypeOK' /\ Elsewhere(p) /\ RunInv(p)' /\ JobStep
<1>1. at[p] \in Singly /\ where(p) \in Dirs /\ at[p] = {where(p)} /\ pc[p] = "read" /\ verb(p) # "list"
    BY WhereIs DEF Read, RunInv, HasFound
<1> DEFINE d == where(p)
<1>2. \/ Returns(p, "not_installed") /\ snap' = snap
      \/ /\ plist[d] # Nothing /\ snap' = [snap EXCEPT ![p][d] = plist[d]] /\ Judge(p, d, plist[d])
      \/ Unestablished(p) /\ snap' = snap
    BY <1>1 DEF Read
<1>3. Goes(p, {"check", "present", "link", "withdraw", "loaded", "stop", "kill", "status"},
           (Outcomes \ Writing) \cup {"kept", "done", "not_installed", "undetermined",
                                      "listed_undetermined"})
    BY <1>1, <1>2, JudgeGoes, ReturnsGoes, AnswersAre DEF Goes, Unestablished
<1>4. at' = at /\ request' = request /\ drawn' = drawn
    BY DEF Read
<1>5. snap' \in [Runs -> [Dirs -> Contents]] /\ \A q \in Runs \ {p} : snap'[q] = snap[q]
    BY <1>1, <1>2, SnapOne DEF TypeOK
<1>6. JobStep /\ lived' \subseteq Runs /\ removed' \in BOOLEAN /\ plist' \in [Dirs -> Contents]
    BY DEF Read, JobStep, TypeOK, history
<1>7. TypeOK'
    BY <1>3, <1>4, <1>5, <1>6, TypesKept, Counting DEF TypeOK
<1>8. Elsewhere(p)
    BY <1>3, <1>4, <1>5, Counting DEF Goes, Elsewhere
<1>9. Drew(p)'
    BY <1>1, <1>4, StillLooking, NothingDrawn DEF Reading
<1>10. where(p)' = where(p) /\ Creates(p)' = Creates(p) /\ verb(p)' = verb(p) /\ desired(p)' = desired(p)
       /\ result[p] = "none"
    BY <1>1, <1>4 DEF where, Creates, verb, desired, RunInv, OnPath
<1>11. CASE plist[d] # Nothing /\ snap' = [snap EXCEPT ![p][d] = plist[d]] /\ Judge(p, d, plist[d])
    <2>1. /\ pc'[p] \in {"check", "present"} => verb(p) = "install"
          /\ pc'[p] = "check" => changes_loaded_job(plist[d], desired(p))
          /\ pc'[p] = "link" => verb(p) \in {"enable", "disable"}
          /\ pc'[p] = "withdraw" => verb(p) = "uninstall"
          /\ pc'[p] = "loaded" => verb(p) = "start"
          /\ pc'[p] \in {"stop", "kill", "status"} => verb(p) = pc'[p]
        BY <1>1, <1>11, JudgeGoes
    <2>2. snap'[p][d] = plist[d] /\ snap'[p][d] # Nothing
        BY <1>1, <1>11 DEF TypeOK
    <2>3. pc'[p] = "check" => changes(p)'
        BY <2>1, <2>2, <1>10 DEF changes
    <2>4. OnPath(p)'
        BY <2>1, <1>3, <1>10 DEF OnPath, Goes, Installing, Moving, Starting
    <2>5. HasFound(p)'
        BY <2>1, <2>2, <2>3, <1>1, <1>3, <1>4, <1>10 DEF HasFound, Goes, Judged, Moving, Starting
    <2> QED BY <1>6, <1>7, <1>8, <1>9, <2>4, <2>5 DEF RunInv
<1>12. CASE Returns(p, "not_installed") \/ Unestablished(p)
    <2>1. pc'[p] = "ended"
        BY <1>12 DEF Returns, Unestablished, TypeOK
    <2> QED BY <1>6, <1>7, <1>8, <1>9, <2>1
            DEF RunInv, OnPath, HasFound, Installing, Moving, Starting, Judged
<1> QED BY <1>6, <1>2, <1>11, <1>12

LEMMA CountAgain ==
    ASSUME NEW r \in Counted
    PROVE  LET t == [r EXCEPT !.again = @ + 1] IN
           t \in Counted /\ t.calls = r.calls /\ t.requests = r.requests /\ t.again = r.again + 1
BY DEF Counted

LEMMA StillPresentDoes ==
    ASSUME TypeOK, NEW p \in Runs, RunInv(p), StillPresent(p)
    PROVE  TypeOK' /\ Elsewhere(p) /\ RunInv(p)' /\ JobStep
<1>1. Goes(p, {"write", "stat_staging"}, {"concurrent_change", "error"})
    BY GotoGoes, ReturnsGoes, AnswersAre
    DEF StillPresent, CallFails, Goes, Places, Installing, Reading
<1>2. request' = request /\ pc[p] = "present" /\ verb(p) = "install" /\ result[p] = "none"
    BY DEF StillPresent, RunInv, OnPath, Installing
<1>3. JobStep /\ lived' \subseteq Runs /\ removed' \in BOOLEAN /\ plist' \in [Dirs -> Contents]
    BY DEF StillPresent, JobStep, TypeOK, history
<1>4. \/ locals' = locals /\ pc'[p] \in {"write", "ended"}
      \/ /\ plist[where(p)] = Nothing /\ ~changes(p)
         /\ pc'[p] = "stat_staging" /\ drawn' = [drawn EXCEPT ![p].again = @ + 1]
         /\ at' = [at EXCEPT ![p] = {}] /\ snap' = [snap EXCEPT ![p] = [d \in Dirs |-> Nothing]]
    BY PlacesAre DEF StillPresent, CallFails, Goto, Returns, TypeOK
<1>5. CASE locals' = locals /\ pc'[p] \in {"write", "ended"}
    <2>1. at' = at /\ snap' = snap /\ drawn' = drawn
        BY <1>5 DEF locals
    <2>2. TypeOK'
        BY <1>1, <1>2, <1>3, <2>1, TypesKept, Counting DEF TypeOK
    <2>3. Elsewhere(p)
        BY <1>1, <1>2, <2>1 DEF Goes, Elsewhere
    <2>4. /\ where(p)' = where(p) /\ Creates(p)' = Creates(p) /\ changes(p)' = changes(p)
          /\ verb(p)' = verb(p) /\ needs(verb(p))' = needs(verb(p))
        BY <1>2, <2>1, Keeping
    <2>5. AtMost(p, 1, 0)' /\ drawn'[p].calls \in Nat /\ drawn'[p].requests \in Nat
        BY <1>2, <2>1, Counting DEF AtMost, RunInv, Drew, Counted
    <2>6. OnPath(p)'
        BY <1>1, <1>2, <1>5, <2>4 DEF OnPath, Goes, Installing, Moving, Starting
    <2>7. HasFound(p)'
        BY <1>2, <1>5, <2>1, <2>4 DEF HasFound, RunInv, Judged, Moving, Starting, Creates
    <2>8. Drew(p)'
        BY <1>2, <1>5, <2>4, <2>5 DEF Drew, needs, AtMost, Fresh, Reading, Moving
    <2> QED BY <1>3, <2>2, <2>3, <2>6, <2>7, <2>8 DEF RunInv
<1>6. CASE /\ plist[where(p)] = Nothing /\ ~changes(p)
           /\ pc'[p] = "stat_staging" /\ drawn' = [drawn EXCEPT ![p].again = @ + 1]
           /\ at' = [at EXCEPT ![p] = {}] /\ snap' = [snap EXCEPT ![p] = [d \in Dirs |-> Nothing]]
    <2>1. drawn' = [drawn EXCEPT ![p] = [drawn[p] EXCEPT !.again = @ + 1]]
        BY <1>6
    <2>2. /\ drawn' \in [Runs -> Counted] /\ \A q \in Runs \ {p} : drawn'[q] = drawn[q]
          /\ drawn'[p].calls = drawn[p].calls /\ drawn'[p].requests = drawn[p].requests
        BY <2>1, CountAgain, Counting
    <2>3. at' \in [Runs -> SUBSET Dirs] /\ snap' \in [Runs -> [Dirs -> Contents]]
        BY <1>6, Plain DEF TypeOK
    <2>4. TypeOK'
        BY <1>1, <1>2, <1>3, <2>2, <2>3, TypesKept
    <2>5. Elsewhere(p)
        BY <1>1, <1>2, <1>6, <2>2 DEF Goes, Elsewhere
    <2>6. verb(p)' = verb(p) /\ result'[p] = "none"
        BY <1>1, <1>2, <1>6 DEF Goes, verb
    <2>7. AtMost(p, 0, 0)' /\ drawn'[p].calls \in Nat /\ drawn'[p].requests \in Nat
        BY <1>2, <1>6, <2>2 DEF AtMost, RunInv, Drew, Counted
    <2>8. Drew(p)'
        BY <1>2, <1>6, <2>6, <2>7 DEF Drew, needs, AtMost
    <2> QED BY <1>3, <1>6, <2>4, <2>5, <2>6, <2>8
            DEF RunInv, OnPath, HasFound, Installing, Moving, Starting, Judged
<1> QED BY <1>3, <1>4, <1>5, <1>6

\* A step of a run keeps the types and what holds of each run.
LEMMA RunKeeps ==
    ASSUME TypeOK, \A q \in Runs : RunInv(q), NEW p \in Runs, RunStep(p) \/ Crash(p)
    PROVE  TypeOK' /\ Elsewhere(p) /\ (\A q \in Runs : RunInv(q)') /\ JobStep
<1>1. RunInv(p)
    OBVIOUS
<1>2. TypeOK' /\ Elsewhere(p) /\ RunInv(p)' /\ JobStep
    BY <1>1, CheckLoadedDoes, ClearLabelDoes, PersistNewDoes, StillPresentDoes, WriteExistingDoes,
       RecheckAfterWriteDoes, UndoDoes, PutBackDoes, LinkDoes, RemoveDoes, WithdrawDoes,
       IsLoadedDoes, BootstrapDoes, LiveDoes, KickstartDoes, ConfirmDoes, CorrectDoes,
       StopDoes, KillDoes, StatusDoes, StatStagingDoes, StatEnabledDoes, ReadDoes, ScanReadDoes,
       CrashDoes
    DEF RunStep, InstallStep, StartStep
<1>3. ASSUME NEW q \in Runs \ {p}
      PROVE  RunInv(q)'
    <2>1. RunInv(q)
        OBVIOUS
    <2>2. pc'[q] = pc[q] /\ result'[q] = result[q] /\ at'[q] = at[q] /\ snap'[q] = snap[q]
          /\ drawn'[q] = drawn[q] /\ request' = request
        BY <1>2 DEF Elsewhere
    <2>3. /\ where(q)' = where(q) /\ Creates(q)' = Creates(q) /\ changes(q)' = changes(q)
          /\ verb(q)' = verb(q) /\ needs(verb(q))' = needs(verb(q))
        BY <2>2, Keeping
    <2> QED BY <2>1, <2>2, <2>3 DEF RunInv, OnPath, HasFound, Drew, AtMost
<1> QED BY <1>2, <1>3

-----------------------------------------------------------------------------
(* Steps that leave the plists where they are.                               *)

\* Neither does such a step begin a change of them, and an install that ends its
\* own well saw no job.
Calm(p) ==
    /\ plist' = plist /\ removed' = removed
    /\ pc[p] \notin {"unlink", "put_back", "ended", "crashed"}
    /\ pc'[p] \notin {"unlink", "recheck"}
    /\ pc[p] = "undo" => pc'[p] = "put_back" \/ result'[p] \in InDoubt
    /\ pc[p] = "recheck" => pc'[p] = "undo" \/ (result'[p] = "done" /\ ~Loaded /\ job' = job)
    /\ verb(p) = "install" /\ result'[p] = "done" => pc[p] = "recheck"

CalmStep(p) ==
    \/ StatStaging(p) \/ StatEnabled(p) \/ Read(p) \/ ScanRead(p) \/ CheckLoaded(p)
    \/ ClearLabel(p) \/ StillPresent(p) \/ RecheckAfterWrite(p) \/ Undo(p) \/ Withdraw(p)
    \/ StartStep(p) \/ Stop(p) \/ Kill(p) \/ Status(p)
Changing(p) == PersistNew(p) \/ WriteExisting(p) \/ PutBack(p) \/ Link(p) \/ Remove(p)

LEMMA CalmSteps ==
    ASSUME TypeOK, NEW p \in Runs, RunInv(p), CalmStep(p)
    PROVE  Calm(p)
<1>1. /\ pc \in [Runs -> Places] /\ result \in [Runs -> Results]
      /\ pc[p] # "ended" => result[p] = "none"
    BY DEF TypeOK, RunInv, OnPath
<1>2. /\ pc[p] \in Starting => verb(p) # "install"
      /\ pc[p] \in {"withdraw", "stop", "kill", "status"} => verb(p) # "install"
    BY DEF RunInv, OnPath
<1>3. CASE StatStaging(p)
    BY <1>3, <1>1, <1>2 DEF StatStaging, Goto, Returns, Calm, history, Starting, Unestablished
<1>4. CASE StatEnabled(p)
    BY <1>4, <1>1, <1>2 DEF StatEnabled, Goto, Returns, Calm, history, Starting, Unestablished
<1>5. CASE Read(p)
    <2>1. PICK d \in at[p] : \/ Returns(p, "not_installed")
                           \/ Judge(p, d, plist[d])
                           \/ Unestablished(p)
        BY <1>5 DEF Read
    <2>2. d \in Dirs /\ pc[p] = "read" /\ verb(p) # "list" /\ plist' = plist /\ removed' = removed
        BY <1>5 DEF Read, TypeOK, history
    <2>3. CASE Judge(p, d, plist[d])
        <3>1. Goes(p, {"check", "present", "link", "withdraw", "loaded", "stop", "kill", "status"},
                   (Outcomes \ Writing) \cup {"kept", "done"})
              /\ (result'[p] = "done" /\ verb(p) \notin {"enable", "disable"} => result[p] = "done")
            BY <2>2, <2>3, JudgeGoes
        <3> QED BY <3>1, <2>2, <1>1 DEF Goes, Calm
    <2>4. CASE Returns(p, "not_installed") \/ Unestablished(p)
        BY <2>2, <2>4, <1>1 DEF Returns, Unestablished, Calm
    <2> QED BY <2>1, <2>3, <2>4
<1>6. CASE ScanRead(p)
    <2>1. ASSUME NEW read
          PROVE  Listed(read) # "done"
        BY DEF Listed
    <2> QED BY <2>1, <1>6, <1>1 DEF ScanRead, Unestablished, Goto, Returns, Calm, history
<1>7. CASE CheckLoaded(p)
    BY <1>7, <1>1, <1>2 DEF CheckLoaded, Goto, Returns, Calm, history, Starting, CallFails
<1>8. CASE ClearLabel(p)
    BY <1>8, <1>1, <1>2 DEF ClearLabel, Goto, Returns, Calm, history, Starting, RequestFails
<1>9. CASE StillPresent(p)
    BY <1>9, <1>1, <1>2 DEF StillPresent, Goto, Returns, Calm, history, Starting, CallFails
<1>10. CASE RecheckAfterWrite(p)
    BY <1>10, <1>1, <1>2 DEF RecheckAfterWrite, Goto, Returns, Calm, history, Starting, jobVars
<1>11. CASE Undo(p)
    BY <1>11, <1>1, <1>2 DEF Undo, Goto, Returns, Calm, history, Starting, InDoubt
<1>12. CASE Withdraw(p)
    BY <1>12, <1>1, <1>2 DEF Withdraw, Goto, Returns, Calm, history, Starting, RequestFails
<1>13. CASE IsLoaded(p)
    BY <1>13, <1>1, <1>2 DEF IsLoaded, Goto, Returns, Calm, history, Starting, CallFails
<1>14. CASE Bootstrap(p)
    BY <1>14, <1>1, <1>2 DEF Bootstrap, Goto, Returns, Calm, history, Starting
<1>15. CASE Live(p)
    BY <1>15, <1>1, <1>2 DEF Live, Goto, Returns, Calm, history, Starting, CallFails, Requested
<1>16. CASE Kickstart(p)
    BY <1>16, <1>1, <1>2 DEF Kickstart, Goto, Returns, Calm, history, Starting, RequestFails, Requested
<1>17. CASE Confirm(p)
    BY <1>17, <1>1, <1>2 DEF Confirm, Goto, Returns, Calm, history, Starting, CallFails, Requested
<1>18. CASE Correct(p)
    BY <1>18, <1>1, <1>2 DEF Correct, Goto, Returns, Calm, history, Starting, RequestFails
<1>19. CASE Stop(p)
    BY <1>19, <1>1, <1>2 DEF Stop, Goto, Returns, Calm, history, Starting, RequestFails
<1>20. CASE Kill(p)
    BY <1>20, <1>1, <1>2 DEF Kill, Goto, Returns, Calm, history, Starting, RequestFails
<1>21. CASE Status(p)
    BY <1>21, <1>1, <1>2 DEF Status, Goto, Returns, Calm, history, Starting, CallFails
<1> QED BY <1>3, <1>4, <1>5, <1>6, <1>7, <1>8, <1>9, <1>10, <1>11, <1>12, <1>13, <1>14, <1>15, <1>16, <1>17, <1>18, <1>19, <1>20, <1>21 DEF CalmStep, StartStep

\* Such a step leaves what its run found true.
LEMMA CalmLooks ==
    ASSUME TypeOK, NEW p \in Runs, RunInv(p), CalmStep(p), Looks(p)
    PROVE  Looks(p)'
<1>1. /\ pc \in [Runs -> Places] /\ at \in [Runs -> SUBSET Dirs]
      /\ snap \in [Runs -> [Dirs -> Contents]]
    BY DEF TypeOK
<1>2. Calm(p) /\ plist' = plist
    BY CalmSteps DEF Calm
<1> DEFINE Lookers == {"stat_enabled", "check", "clear", "persist", "present", "write"}
<1>3. CASE pc'[p] \notin Lookers
    BY <1>3 DEF Looks
<1>4. CASE StatStaging(p)
    <2>1. pc'[p] = "ended" \/ (pc'[p] = "stat_enabled" /\ at'[p] = Present("staging"))
        BY <1>4, <1>1 DEF StatStaging, Unestablished, Goto, Returns
    <2>2. Present("staging")' = Present("staging")
        BY <1>2 DEF Present
    <2> QED BY <2>1, <2>2 DEF Looks
<1>5. CASE StatEnabled(p)
    <2>1. \/ pc'[p] \notin Lookers
          \/ /\ pc'[p] = "check" /\ at'[p] = {} /\ at[p] = {} /\ Present("enabled") = {}
             /\ pc[p] = "stat_enabled"
        BY <1>5, <1>1 DEF StatEnabled, Unestablished, Goto, Returns
    <2>2. CASE /\ pc'[p] = "check" /\ at'[p] = {} /\ at[p] = {} /\ Present("enabled") = {}
               /\ pc[p] = "stat_enabled"
        <3>1. Present("staging") = {}
            BY <2>2 DEF Looks
        <3>2. \A d \in Dirs : plist[d] = Nothing
            BY <2>2, <3>1 DEF Present, Dirs
        <3> QED BY <2>2, <3>2, <1>2 DEF Looks
    <2> QED BY <2>1, <2>2, <1>3
<1>6. CASE Read(p)
    <2> DEFINE d == where(p)
    <2>1. at[p] = {d} /\ d \in Dirs /\ at'[p] = at[p] /\ where(p)' = d
        BY <1>6, WhereIs DEF Read, RunInv, HasFound, where, Creates
    <2>2. \/ pc'[p] = "ended"
          \/ snap' = [snap EXCEPT ![p][d] = plist[d]] /\ Judge(p, d, plist[d])
        BY <1>6, <1>1, <2>1 DEF Read, Unestablished, Returns
    <2>3. CASE snap' = [snap EXCEPT ![p][d] = plist[d]] /\ Judge(p, d, plist[d])
        <3>1. snap'[p][d] = plist'[d]
            BY <2>1, <2>3, <1>2, SnapOne
        <3>2. pc'[p] \in Lookers => pc'[p] \in {"check", "present"}
            BY <1>6, <2>1, <2>3, JudgeGoes DEF Goes, Read
        <3> QED BY <2>1, <3>1, <3>2 DEF Looks
    <2> QED BY <2>2, <2>3, <1>3
<1>7. CASE ScanRead(p)
    BY <1>7, <1>1, <1>3 DEF ScanRead, Unestablished, Goto, Returns
<1>8. CASE CheckLoaded(p) \/ ClearLabel(p)
    <2>1. at' = at /\ snap' = snap /\ request' = request
        BY <1>8 DEF CheckLoaded, ClearLabel
    <2>2. where(p)' = where(p)
        BY <2>1, Keeping
    <2>3. \/ pc[p] = "check" /\ pc'[p] = "present" /\ at[p] # {}
          \/ pc[p] \in {"check", "clear"} /\ pc'[p] \in {"clear", "persist"} /\ at[p] = {}
          \/ pc'[p] \notin Lookers
        BY <1>8, <1>1 DEF CheckLoaded, ClearLabel, Goto, Returns, CallFails, RequestFails, Creates,
           RunInv, HasFound
    <2> QED BY <2>1, <2>2, <2>3, <1>2, <1>3 DEF Looks
<1>9. CASE StillPresent(p)
    <2>1. \/ pc[p] = "present" /\ pc'[p] = "write" /\ at' = at /\ snap' = snap /\ request' = request
          \/ pc'[p] \notin Lookers
        BY <1>9, <1>1 DEF StillPresent, Goto, Returns, CallFails, locals
    <2>2. CASE pc[p] = "present" /\ pc'[p] = "write" /\ at' = at /\ snap' = snap /\ request' = request
        BY <2>2, <1>2, Keeping DEF Looks
    <2> QED BY <2>1, <2>2, <1>3
<1>10. CASE RecheckAfterWrite(p) \/ Undo(p) \/ Withdraw(p)
    BY <1>10, <1>1, <1>3 DEF RecheckAfterWrite, Undo, Withdraw, RequestFails, Goto, Returns
<1>11. CASE StartStep(p)
    BY <1>11, <1>1, <1>3 DEF StartStep, IsLoaded, Bootstrap, Live, Kickstart, Confirm, Correct,
       Requested, CallFails, RequestFails, Goto, Returns
<1>12. CASE Stop(p) \/ Kill(p) \/ Status(p)
    BY <1>12, <1>1, <1>3 DEF Stop, Kill, Status, CallFails, RequestFails, Goto, Returns
<1> QED BY <1>4, <1>5, <1>6, <1>7, <1>8, <1>9, <1>10, <1>11, <1>12 DEF CalmStep

\* Nor does it bring a retry that is not accounted for.
LEMMA CalmOwes ==
    ASSUME TypeOK, NEW p \in Runs, RunInv(p), CalmStep(p)
    PROVE  \/ drawn'[p].again = drawn[p].again /\ (Owes(p)' => Owes(p))
           \/ Owes(p) /\ ~Owes(p)' /\ drawn'[p].again = drawn[p].again + 1
<1>1. /\ pc \in [Runs -> Places] /\ at \in [Runs -> SUBSET Dirs]
      /\ snap \in [Runs -> [Dirs -> Contents]]
    BY DEF TypeOK
<1>2. Calm(p) /\ plist' = plist
    BY CalmSteps DEF Calm
<1>3. CASE StillPresent(p)
    <2>1. CASE locals' = locals /\ pc'[p] \in {"write", "ended"}
        BY <2>1 DEF locals, Owes
    <2>2. CASE /\ plist[where(p)] = Nothing /\ ~changes(p)
               /\ pc'[p] = "stat_staging" /\ drawn' = [drawn EXCEPT ![p].again = @ + 1]
        <3>1. drawn' = [drawn EXCEPT ![p] = [drawn[p] EXCEPT !.again = @ + 1]]
            BY <2>2
        <3>2. drawn'[p].again = drawn[p].again + 1
            BY <3>1, CountAgain, Counting
        <3>3. Owes(p)
            BY <1>3, <2>2 DEF StillPresent, Owes, RunInv, HasFound
        <3>4. ~Owes(p)'
            BY <2>2 DEF Owes
        <3> QED BY <3>2, <3>3, <3>4
    <2> QED BY <2>1, <2>2, <1>1, <1>3 DEF StillPresent, CallFails, Goto, Returns
<1>4. CASE ~StillPresent(p)
    <2>1. drawn'[p].again = drawn[p].again
        <3>1. drawn' = drawn \/ Queries(p) \/ Sends(p)
            BY <1>4 DEF CalmStep, StatStaging, StatEnabled, Read, ScanRead, CheckLoaded, ClearLabel,
               RecheckAfterWrite, Undo, Withdraw, StartStep, IsLoaded, Bootstrap, Live, Kickstart,
               Confirm, Correct, Stop, Kill, Status, locals
        <3> QED BY <3>1, Counting
    <2>2. CASE pc'[p] \notin {"check", "present"}
        BY <2>1, <2>2 DEF Owes
    <2>3. CASE pc'[p] \in {"check", "present"}
        <3>1. StatEnabled(p) \/ Read(p) \/ CheckLoaded(p)
            BY <2>3, <1>1, <1>4 DEF CalmStep, StatStaging, ScanRead, ClearLabel, Unestablished,
               RecheckAfterWrite, Undo, Withdraw, StartStep, IsLoaded, Bootstrap, Live, Kickstart,
               Confirm, Correct, Stop, Kill, Status, Requested, CallFails, RequestFails, Goto, Returns
        <3>2. CASE StatEnabled(p)
            <4>1. pc'[p] = "check" /\ at'[p] = {}
                BY <3>2, <2>3, <1>1 DEF StatEnabled, Unestablished, Goto, Returns
            <4> QED BY <4>1, <2>1 DEF Owes, Singly
        <3>3. CASE Read(p)
            <4>1. at[p] = {where(p)} /\ where(p) \in Dirs /\ at'[p] = at[p] /\ where(p)' = where(p)
                BY <3>3, WhereIs DEF Read, RunInv, HasFound, where, Creates
            <4>2. plist[where(p)] # Nothing
                BY <4>1, <3>3, <2>3, <1>1 DEF Read, Unestablished, Returns
            <4> QED BY <4>1, <4>2, <1>2, <2>1 DEF Owes
        <3>4. CASE CheckLoaded(p)
            <4>1. at' = at /\ snap' = snap /\ request' = request /\ pc[p] = "check"
                BY <3>4 DEF CheckLoaded
            <4> QED BY <4>1, <1>2, <2>1, Keeping DEF Owes
        <3> QED BY <3>1, <3>2, <3>3, <3>4
    <2> QED BY <2>2, <2>3
<1> QED BY <1>3, <1>4

-----------------------------------------------------------------------------
(* What a step does to the others' affairs.                                  *)

LEMMA StepIs ==
    ASSUME NEW p, RunStep(p) \/ Crash(p)
    PROVE  CalmStep(p) \/ Changing(p) \/ Crash(p)
BY DEF RunStep, InstallStep, CalmStep, Changing

\* A change that failed changed nothing.
Fails(p) == /\ plist' = plist /\ removed' = removed /\ jobVars' = jobVars /\ drawn' = drawn
            /\ pc'[p] = "ended" /\ result'[p] \in Results \ {"done"}
            /\ pc[p] \in {"persist", "write", "put_back", "link", "unlink", "remove"}
            /\ pc[p] = "unlink" => result'[p] = "error"
            /\ pc[p] = "put_back" => result'[p] \in InDoubt

LEMMA ChangingIs ==
    ASSUME TypeOK, NEW p \in Runs, RunInv(p), Changing(p)
    PROVE  \/ Fails(p)
           \/ /\ pc[p] = "persist" /\ verb(p) = "install" /\ at[p] = {} /\ pc'[p] = "recheck"
              /\ plist["staging"] = Nothing
              /\ plist' = [plist EXCEPT !["staging"] = desired(p)]
              /\ removed' = (removed /\ \E q \in Runs : pc[q] = "unlink")
           \/ /\ pc[p] = "write" /\ verb(p) = "install" /\ at[p] \in Singly
              /\ plist' = [plist EXCEPT ![where(p)] = desired(p)] /\ removed' = removed
              /\ \/ pc'[p] = "recheck"
                 \/ ~changes(p) /\ pc'[p] = "ended" /\ result'[p] = "done"
           \/ /\ pc[p] = "put_back" /\ pc'[p] = "ended" /\ result'[p] \in InDoubt
              /\ plist' = [plist EXCEPT ![where(p)] = snap[p][where(p)]]
              /\ removed' = (removed \/ Creates(p)) /\ verb(p) = "install"
           \/ /\ pc[p] = "link" /\ pc'[p] = "unlink" /\ at[p] \in Singly
              /\ verb(p) \in {"enable", "disable"}
              /\ plist[where(p)] # Nothing /\ plist[other(where(p))] = Nothing
              /\ plist' = [plist EXCEPT ![other(where(p))] = plist[where(p)]] /\ removed' = removed
           \/ /\ pc[p] \in {"unlink", "remove"} /\ pc'[p] = "ended" /\ result'[p] = "done"
              /\ plist' = [plist EXCEPT ![where(p)] = Nothing] /\ at[p] \in Singly
              /\ removed' = (removed \/ pc[p] = "remove")
              /\ verb(p) \in {"enable", "disable", "uninstall"}
              /\ pc[p] = "unlink" => verb(p) \in {"enable", "disable"}
<1>1. pc \in [Runs -> Places] /\ result \in [Runs -> Results]
    BY DEF TypeOK
<1>2. CASE PersistNew(p)
    BY <1>1, <1>2, AnswersAre DEF PersistNew, CallFails, Goto, Returns, Fails, locals,
       RunInv, OnPath, HasFound, Installing
<1>3. CASE WriteExisting(p)
    BY <1>1, <1>3, AnswersAre DEF WriteExisting, CallFails, Goto, Returns, Fails, locals, history,
       RunInv, OnPath, HasFound, Installing
<1>4. CASE PutBack(p)
    BY <1>1, <1>4, AnswersAre DEF PutBack, Returns, Fails, locals, InDoubt, RunInv, OnPath, Installing
<1>5. CASE Link(p)
    BY <1>1, <1>5, AnswersAre DEF Link, CallFails, Goto, Returns, Fails, locals, history,
       RunInv, OnPath, HasFound, Moving
<1>6. CASE Remove(p)
    BY <1>1, <1>6, AnswersAre DEF Remove, CallFails, Returns, Fails, locals,
       RunInv, OnPath, HasFound, Moving
<1> QED BY <1>2, <1>3, <1>4, <1>5, <1>6 DEF Changing

LEMMA ChangingJob ==
    ASSUME NEW p, Changing(p)
    PROVE  jobVars' = jobVars /\ drawn' = drawn /\ lived' = lived
BY DEF Changing, PersistNew, WriteExisting, PutBack, Link, Remove, locals, history, CallFails

\* A run that steps has not answered yet.
LEMMA NotEnded ==
    ASSUME TypeOK, NEW p \in Runs, RunInv(p), RunStep(p) \/ Crash(p)
    PROVE  pc[p] \notin {"ended", "crashed"} /\ result[p] = "none"
<1>1. pc[p] \notin {"ended", "crashed"}
    BY StepIs, CalmSteps, ChangingIs
    DEF Calm, Crash, Changing, PersistNew, WriteExisting, PutBack, Link, Remove
<1> QED BY <1>1 DEF RunInv, OnPath

\* What excuses the plist, and what wrote or moved it, is not undone.
LEMMA CleanShrinks ==
    ASSUME TypeOK, \A q \in Runs : RunInv(q), NEW p \in Runs, RunStep(p) \/ Crash(p), Elsewhere(p)
    PROVE  Clean' => Clean /\ Wrote \subseteq Wrote' /\ Moves \subseteq Moves'
<1>1. \A q \in Runs : verb(q)' = verb(q)
    BY DEF Elsewhere, verb
<1>2. ASSUME NEW q \in Runs, q # p
      PROVE  /\ Spoils(q)' = Spoils(q) /\ (q \in Wrote) = (q \in Wrote')
             /\ (q \in Moves) = (q \in Moves')
    BY <1>1, <1>2 DEF Elsewhere, Spoils, Wrote, Moves
<1>3. RunInv(p) /\ pc[p] \notin {"ended", "crashed"} /\ result[p] = "none"
    BY NotEnded
<1>4. result[p] \notin InDoubt \cup {"error", "done"}
    BY <1>3 DEF InDoubt
<1>5. /\ Spoils(p) => Spoils(p)'
      /\ p \in Wrote => p \in Wrote' \/ Spoils(p)'
      /\ p \in Moves => p \in Moves' \/ Spoils(p)'
    <2>1. CASE Crash(p)
        BY <2>1, PlacesAre DEF Crash, TypeOK, Spoils
    <2>2. CASE CalmStep(p)
        BY <2>2, <1>1, <1>3, <1>4, CalmSteps DEF Calm, Spoils, Wrote, Moves
    <2>3. CASE Changing(p)
        <3>1. verb(p)' = verb(p) /\ RunInv(p)
            BY <1>1
        <3>2. pc[p] \notin {"recheck", "undo"}
            BY <2>3, <3>1, ChangingIs DEF Fails
        <3>3. Spoils(p) => Spoils(p)'
            BY <2>3, <3>1, <3>2, <1>3, <1>4, ChangingIs DEF Spoils, Fails
        <3>4. p \notin Wrote
            BY <1>4, <3>2 DEF Wrote
        <3>5. p \in Moves => pc[p] = "unlink"
            BY <1>4 DEF Moves
        <3>6. pc[p] = "unlink" => Spoils(p)' \/ (result'[p] = "done" /\ verb(p) \in {"enable", "disable"})
            BY <2>3, <3>1, ChangingIs DEF Spoils, Fails
        <3> QED BY <3>1, <3>3, <3>4, <3>5, <3>6 DEF Moves
    <2> QED BY <2>1, <2>2, <2>3, StepIs
<1>6. ASSUME Clean'
      PROVE  Clean /\ Wrote \subseteq Wrote' /\ Moves \subseteq Moves'
    <2>1. \A q \in Runs : ~Spoils(q)'
        BY <1>6 DEF Clean
    <2>2. \A q \in Runs : ~Spoils(q)
        BY <2>1, <1>2, <1>5
    <2>3. Wrote \subseteq Wrote' /\ Moves \subseteq Moves'
        BY <2>1, <1>2, <1>5 DEF Wrote, Moves
    <2> QED BY <2>2, <2>3, <1>6 DEF Clean
<1> QED BY <1>6

\* The retries of the others: a run that ends adds to their causes.
LEMMA CausesGrow ==
    ASSUME TypeOK, \A r \in Runs : RunInv(r), NEW p \in Runs, RunStep(p) \/ Crash(p), Elsewhere(p),
           NEW q \in Runs
    PROVE  /\ Cardinality(Causes(q)) \in Nat /\ Cardinality(Causes(q))' \in Nat
           /\ Cardinality(Causes(q)) <= Cardinality(Causes(q))'
           /\ p # q /\ verb(p) \in Takers /\ pc'[p] = "ended"
                  => Cardinality(Causes(q)) + 1 <= Cardinality(Causes(q))'
<1>1. Causes(q) \subseteq Runs /\ Causes(q)' \subseteq Runs
    BY DEF Causes
<1>2. IsFiniteSet(Causes(q)) /\ IsFiniteSet(Causes(q)')
    BY <1>1, LaunchdAssumption, FS_Subset
<1>3. pc[p] \notin {"ended", "crashed"} /\ p \notin Causes(q)
    BY NotEnded DEF Causes
<1>4. Causes(q) \subseteq Causes(q)'
    BY <1>3 DEF Causes, Elsewhere, verb
<1>5. ASSUME p # q, verb(p) \in Takers, pc'[p] = "ended"
      PROVE  Cardinality(Causes(q)) + 1 <= Cardinality(Causes(q)')
    <2>1. Causes(q) \cup {p} \subseteq Causes(q)'
        BY <1>4, <1>5 DEF Causes, Elsewhere, verb
    <2>2. Cardinality(Causes(q) \cup {p}) = Cardinality(Causes(q)) + 1
        BY <1>2, <1>3, FS_AddElement
    <2> QED BY <2>1, <2>2, <1>2, FS_Subset
<1>6. Cardinality(Causes(q)) \in Nat /\ Cardinality(Causes(q)') \in Nat
    BY <1>2, FS_CardinalityType
<1>7. Cardinality(Causes(q)) <= Cardinality(Causes(q)')
    BY <1>2, <1>4, FS_Subset
<1> QED BY <1>5, <1>6, <1>7

LEMMA RetriesKeep ==
    ASSUME TypeOK, \A r \in Runs : RunInv(r), RetriesOwed, NEW p \in Runs, RunStep(p) \/ Crash(p),
           Elsewhere(p)
    PROVE  RetriesOwed'
<1>1. \A q \in Runs : RunInv(q) /\ drawn[q].again \in Nat
    BY Counting DEF Counted
<1>2. ASSUME NEW q \in Runs, q # p
      PROVE  /\ (drawn[q].again <= Cardinality(Causes(q)))'
             /\ (Owes(q) => drawn[q].again + 1 <= Cardinality(Causes(q)))'
    <2>1. drawn'[q] = drawn[q] /\ where(q)' = where(q) /\ pc'[q] = pc[q] /\ at'[q] = at[q]
        BY <1>2, Keeping DEF Elsewhere
    <2>2. /\ Cardinality(Causes(q)) \in Nat /\ Cardinality(Causes(q))' \in Nat
          /\ Cardinality(Causes(q)) <= Cardinality(Causes(q))'
          /\ verb(p) \in Takers /\ pc'[p] = "ended" => Cardinality(Causes(q)) + 1 <= Cardinality(Causes(q))'
        BY <1>2, CausesGrow
    <2>3. /\ drawn[q].again <= Cardinality(Causes(q))
          /\ Owes(q) => drawn[q].again + 1 <= Cardinality(Causes(q))
        BY DEF RetriesOwed
    <2>4. CASE plist' = plist
        BY <2>1, <2>2, <2>3, <2>4, <1>1 DEF Owes
    <2>5. CASE plist' # plist
        <3>1. Changing(p)
            BY <2>5, <1>1, StepIs, CalmSteps DEF Calm, Crash
        <3>2. ASSUME pc'[p] # "ended", Owes(q)'
              PROVE  Owes(q)
            <4>1. where(q) \in Dirs /\ plist'[where(q)] = Nothing /\ plist \in [Dirs -> Contents]
                BY <3>2, <2>1, WhereIs DEF Owes, TypeOK
            <4>2. plist[where(q)] = Nothing
                BY <3>1, <3>2, <4>1, <1>1, ChangingIs, Desired, WhereIs DEF Fails
            <4> QED BY <4>2, <3>2, <2>1 DEF Owes
        <3>3. pc'[p] = "ended" => verb(p) \in Takers
            BY <3>1, <2>5, <1>1, ChangingIs DEF Fails, Takers
        <3> QED BY <2>1, <2>2, <2>3, <3>2, <3>3, <1>1
    <2> QED BY <2>4, <2>5
<1>3. /\ (drawn[p].again <= Cardinality(Causes(p)))'
      /\ (Owes(p) => drawn[p].again + 1 <= Cardinality(Causes(p)))'
    <2>1. /\ Cardinality(Causes(p)) \in Nat /\ Cardinality(Causes(p))' \in Nat
          /\ Cardinality(Causes(p)) <= Cardinality(Causes(p))'
        BY CausesGrow
    <2>2. /\ drawn[p].again <= Cardinality(Causes(p))
          /\ Owes(p) => drawn[p].again + 1 <= Cardinality(Causes(p))
        BY DEF RetriesOwed
    <2>3. \/ drawn'[p].again = drawn[p].again /\ (Owes(p)' => Owes(p))
          \/ Owes(p) /\ ~Owes(p)' /\ drawn'[p].again = drawn[p].again + 1
        <3>1. CASE CalmStep(p)
            BY <3>1, <1>1, CalmOwes
        <3>2. CASE Changing(p)
            BY <3>2, <1>1, ChangingIs, ChangingJob DEF Owes, Fails
        <3>3. CASE Crash(p)
            BY <3>3, PlacesAre DEF Crash, Owes, locals, TypeOK
        <3> QED BY <3>1, <3>2, <3>3, StepIs
    <2> QED BY <2>1, <2>2, <2>3, <1>1
<1> QED BY <1>2, <1>3 DEF RetriesOwed

-----------------------------------------------------------------------------
(* The job's process, as the runs see it.                                    *)

LEMMA LivesIs ==
    ASSUME TypeOK, NEW p \in Runs, RunInv(p), RunStep(p) \/ Crash(p), ~StatStaging(p)
    PROVE  /\ p \in UnderWay
           /\ \/ lived' = lived /\ (alive' => alive)
              \/ Lives
<1>1. CASE Crash(p)
    BY <1>1 DEF Crash, UnderWay, jobVars, history
<1>2. CASE Changing(p)
    <2>1. pc[p] \in {"persist", "write", "put_back", "link", "unlink", "remove"}
        BY <1>2 DEF Changing, PersistNew, WriteExisting, PutBack, Link, Remove
    <2> QED BY <1>2, <2>1, ChangingJob DEF UnderWay, jobVars
<1>3. CASE StatEnabled(p) \/ Read(p) \/ ScanRead(p) \/ CheckLoaded(p) \/ StillPresent(p)
           \/ RecheckAfterWrite(p) \/ Undo(p) \/ Status(p)
    BY <1>3 DEF StatEnabled, Read, ScanRead, CheckLoaded, StillPresent, RecheckAfterWrite, Undo,
       Status, UnderWay, jobVars, history
<1>4. CASE IsLoaded(p) \/ Live(p) \/ Confirm(p)
    BY <1>4 DEF IsLoaded, Live, Confirm, UnderWay, jobVars, history
<1>5. CASE ClearLabel(p) \/ Withdraw(p) \/ Correct(p) \/ Stop(p) \/ Kill(p)
    BY <1>5 DEF ClearLabel, Withdraw, Correct, Stop, Kill, UnderWay, jobVars, history, bootout,
       RequestFails, LeftRunning, Exit
<1>6. CASE Bootstrap(p) \/ Kickstart(p)
    BY <1>6 DEF Bootstrap, Kickstart, UnderWay
<1> QED BY <1>1, <1>2, <1>3, <1>4, <1>5, <1>6, StepIs DEF CalmStep, StartStep

\* A start that waits and answers Ok looked at a running job, or was told of it.
LEMMA DoneRan ==
    ASSUME TypeOK, NEW p \in Runs, RunInv(p), LivesSeen, RunStep(p) \/ Crash(p),
           verb(p) = "start", Waits(p), result'[p] = "done"
    PROVE  p \in lived'
<1>1. /\ pc \in [Runs -> Places] /\ result \in [Runs -> Results] /\ result[p] = "none"
    BY NotEnded DEF TypeOK
<1>2. pc[p] \notin Installing \cup Moving \cup {"withdraw", "remove", "stop", "kill", "status"}
    BY DEF RunInv, OnPath
<1>3. CASE Live(p) \/ Confirm(p)
    <2>1. alive /\ lived' = lived /\ p \in UnderWay
        BY <1>1, <1>3 DEF Live, Confirm, live_state, Requested, CallFails, Goto, Returns, history, UnderWay
    <2> QED BY <1>1, <2>1 DEF LivesSeen, UnderWay
<1>4. CASE Kickstart(p)
    <2>1. kickstart /\ Lives /\ p \in UnderWay
        BY <1>1, <1>4 DEF Kickstart, Requested, RequestFails, Goto, Returns, UnderWay
    <2> QED BY <2>1 DEF Lives, kickstart
<1>5. CASE StatStaging(p) \/ StatEnabled(p) \/ ScanRead(p)
    BY <1>1, <1>5 DEF StatStaging, StatEnabled, ScanRead, Unestablished, Goto, Returns
<1>6. CASE Read(p)
    <2>1. PICK d \in at[p] : \/ Returns(p, "not_installed")
                             \/ Judge(p, d, plist[d])
                             \/ Unestablished(p)
        BY <1>6 DEF Read
    <2>2. d \in Dirs
        BY DEF TypeOK
    <2> QED BY <2>1, <2>2, <1>1, JudgeGoes DEF Returns, Unestablished
<1>7. CASE IsLoaded(p) \/ Bootstrap(p) \/ Correct(p) \/ Crash(p)
    BY <1>1, <1>7 DEF IsLoaded, Bootstrap, Correct, Crash, CallFails, RequestFails, Goto, Returns
<1>8. CASE Changing(p)
    BY <1>2, <1>8, ChangingIs DEF Fails, Installing, Moving
<1>9. CASE \/ CheckLoaded(p) \/ ClearLabel(p) \/ StillPresent(p) \/ RecheckAfterWrite(p) \/ Undo(p)
           \/ Withdraw(p) \/ Stop(p) \/ Kill(p) \/ Status(p)
    BY <1>2, <1>9 DEF CheckLoaded, ClearLabel, StillPresent, RecheckAfterWrite, Undo, Withdraw,
       Stop, Kill, Status, Installing
<1> QED BY <1>3, <1>4, <1>5, <1>6, <1>7, <1>8, <1>9, StepIs DEF CalmStep, StartStep

LEMMA LivesKeep ==
    ASSUME TypeOK, \A q \in Runs : RunInv(q), LivesSeen, ConfirmedStartRan, NEW p \in Runs,
           RunStep(p) \/ Crash(p), Elsewhere(p), TypeOK'
    PROVE  LivesSeen' /\ ConfirmedStartRan'
<1>1. RunInv(p)
    OBVIOUS
<1>2. ASSUME NEW q \in Runs \ {p}
      PROVE  /\ pc'[q] = pc[q] /\ result'[q] = result[q] /\ verb(q)' = verb(q) /\ Waits(q)' = Waits(q)
             /\ q \in lived => q \in lived'
    <2>1. lived \ {p} \subseteq lived'
        BY <1>1, LivesIs DEF StatStaging, Lives
    <2> QED BY <2>1 DEF Elsewhere, verb, Waits
<1>3. LivesSeen'
    <2>1. CASE StatStaging(p)
        BY <1>2, <2>1 DEF StatStaging, LivesSeen, jobVars
    <2>2. CASE ~StatStaging(p)
        <3>1. p \in UnderWay /\ ((lived' = lived /\ (alive' => alive)) \/ Lives)
            BY <1>1, <2>2, LivesIs
        <3> QED BY <1>2, <3>1 DEF Lives, LivesSeen, UnderWay, TypeOK
    <2> QED BY <2>1, <2>2
<1>4. ASSUME NEW q \in Runs, verb(q)' = "start", Waits(q)', result'[q] = "done"
      PROVE  q \in lived'
    <2>1. CASE q = p
        <3>1. verb(p) = "start" /\ Waits(p)
            BY <1>4, <2>1 DEF Elsewhere, verb, Waits
        <3> QED BY <1>1, <1>4, <2>1, <3>1, DoneRan
    <2>2. CASE q # p
        BY <1>2, <1>4, <2>2 DEF ConfirmedStartRan
    <2> QED BY <2>1, <2>2
<1>5. ConfirmedStartRan'
    BY <1>4 DEF ConfirmedStartRan
<1> QED BY <1>3, <1>5

-----------------------------------------------------------------------------
(* The plist's names.                                                        *)

LEMMA MovesKeep ==
    ASSUME TypeOK, \A q \in Runs : RunInv(q), MovesAreSafe, PlistIsSomewhere, NEW p \in Runs,
           RunStep(p) \/ Crash(p), Elsewhere(p), TypeOK'
    PROVE  MovesAreSafe' /\ PlistIsSomewhere'
<1>1. RunInv(p) /\ plist \in [Dirs -> Contents] /\ removed \in BOOLEAN /\ "staging" \in Dirs
    BY DEF TypeOK, Dirs
<1>2. \A q \in Runs \ {p} : pc'[q] = pc[q]
    BY DEF Elsewhere
<1>3. CASE plist' = plist /\ removed' = removed /\ pc'[p] # "unlink"
    BY <1>2, <1>3 DEF MovesAreSafe, PlistIsSomewhere
<1>4. CASE CalmStep(p) \/ Crash(p)
    BY <1>1, <1>3, <1>4, CalmSteps, PlacesAre DEF Calm, Crash, TypeOK, history
<1>5. CASE Changing(p)
    <2>1. CASE Fails(p)
        BY <1>3, <2>1 DEF Fails
    <2>2. CASE /\ verb(p) = "install" /\ pc'[p] = "recheck" /\ plist["staging"] = Nothing
               /\ plist' = [plist EXCEPT !["staging"] = desired(p)]
               /\ removed' = (removed /\ \E q \in Runs : pc[q] = "unlink")
        <3>1. desired(p) # Nothing
            BY <2>2, Desired
        <3>2. plist'["staging"] # Nothing
            BY <1>1, <2>2, <3>1
        <3>3. ~removed' => \A q \in Runs : pc[q] # "unlink"
            BY <1>1, <2>2 DEF MovesAreSafe
        <3>4. ~removed' => \A q \in Runs : pc'[q] # "unlink"
            BY <1>2, <2>2, <3>3
        <3> QED BY <1>1, <3>2, <3>4 DEF MovesAreSafe, PlistIsSomewhere
    <2>3. CASE /\ verb(p) = "install" /\ at[p] \in Singly /\ pc'[p] # "unlink"
               /\ plist' = [plist EXCEPT ![where(p)] = desired(p)] /\ removed' = removed
        <3>1. desired(p) # Nothing
            BY <2>3, Desired
        <3>2. \A d \in Dirs : plist[d] # Nothing => plist'[d] # Nothing
            BY <1>1, <2>3, <3>1
        <3> QED BY <1>2, <2>3, <3>2 DEF MovesAreSafe, PlistIsSomewhere
    <2>4. CASE /\ pc[p] = "put_back" /\ pc'[p] = "ended"
               /\ plist' = [plist EXCEPT ![where(p)] = snap[p][where(p)]]
               /\ removed' = (removed \/ Creates(p))
        <3>1. CASE removed'
            BY <3>1 DEF MovesAreSafe, PlistIsSomewhere
        <3>2. CASE ~removed'
            <4>1. ~removed /\ snap[p][where(p)] # Nothing
                BY <1>1, <2>4, <3>2 DEF RunInv, HasFound, Judged, Creates
            <4>2. \A d \in Dirs : plist[d] # Nothing => plist'[d] # Nothing
                BY <1>1, <2>4, <4>1
            <4> QED BY <1>2, <2>4, <4>1, <4>2 DEF MovesAreSafe, PlistIsSomewhere
        <3> QED BY <3>1, <3>2
    <2>5. CASE /\ pc'[p] = "unlink" /\ at[p] \in Singly
               /\ plist[where(p)] # Nothing /\ plist[other(where(p))] = Nothing
               /\ plist' = [plist EXCEPT ![other(where(p))] = plist[where(p)]] /\ removed' = removed
        <3>1. where(p) \in Dirs /\ other(where(p)) \in Dirs
              /\ \A d \in Dirs : d = where(p) \/ d = other(where(p))
            BY <2>5, WhereIs DEF Dirs, other
        <3>2. \A d \in Dirs : plist'[d] # Nothing
            BY <1>1, <2>5, <3>1
        <3>3. ~removed => \A q \in Runs : pc[q] # "unlink"
            BY <2>5, <3>1 DEF MovesAreSafe
        <3> QED BY <1>1, <1>2, <2>5, <3>2, <3>3 DEF MovesAreSafe, PlistIsSomewhere
    <2>6. CASE /\ pc[p] \in {"unlink", "remove"} /\ pc'[p] = "ended"
               /\ plist' = [plist EXCEPT ![where(p)] = Nothing] /\ at[p] \in Singly
               /\ removed' = (removed \/ pc[p] = "remove")
        <3>1. CASE removed'
            BY <3>1 DEF MovesAreSafe, PlistIsSomewhere
        <3>2. CASE ~removed'
            <4>1. ~removed /\ pc[p] = "unlink"
                BY <2>6, <3>2
            <4>2. (\A d \in Dirs : plist[d] # Nothing) /\ \A q \in Runs \ {p} : pc'[q] # "unlink"
                BY <1>2, <4>1 DEF MovesAreSafe
            <4>3. other(where(p)) \in Dirs /\ other(where(p)) # where(p)
                BY DEF other, Dirs
            <4>4. plist'[other(where(p))] # Nothing
                BY <1>1, <2>6, <4>2, <4>3
            <4>5. \A q \in Runs : pc'[q] # "unlink"
                BY <2>6, <4>2
            <4> QED BY <4>3, <4>4, <4>5 DEF MovesAreSafe, PlistIsSomewhere
        <3> QED BY <3>1, <3>2
    <2> QED BY <1>1, <1>5, <2>1, <2>2, <2>3, <2>4, <2>5, <2>6, ChangingIs
<1> QED BY <1>4, <1>5, StepIs

-----------------------------------------------------------------------------
(* The job and the plist.                                                    *)

Agree == OneName /\ SamePlist /\ JobAgrees /\ ReadsHold

\* Where the plists stay, an agreement stays: what launchd loads is one of them.
LEMMA StillAgree ==
    ASSUME TypeOK, Agree, plist' = plist, JobStep,
           Clean /\ Wrote \subseteq Wrote' /\ Moves \subseteq Moves',
           \A q \in Wrote : pc[q] = "recheck" => pc'[q] = "recheck" \/ (~Loaded /\ job' = job),
           \A q \in Wrote' : pc'[q] = "recheck" => pc[q] = "recheck"
    PROVE  OneName' /\ SamePlist' /\ JobAgrees'
<1>1. OneName' /\ SamePlist'
    BY DEF Agree, OneName, SamePlist
<1>2. JobAgrees'
    <2> SUFFICES ASSUME Clean', \A q \in Wrote' : pc'[q] # "recheck",
                        NEW d \in Dirs, plist[d] # Nothing, job' # Nothing
                 PROVE  job' = Definition(plist[d])
        BY DEF JobAgrees, Loaded
    <2>1. Clean /\ Wrote \subseteq Wrote'
        OBVIOUS
    <2>2. \A e \in Dirs : plist[e] # Nothing => Definition(plist[e]) = Definition(plist[d])
        BY <2>1 DEF Agree, SamePlist
    <2>3. CASE \E e \in Dirs : plist[e] # Nothing /\ job' = Definition(plist[e])
        BY <2>2, <2>3
    <2>4. CASE job' = job
        <3>1. \A q \in Wrote : pc[q] # "recheck"
            BY <2>1, <2>4 DEF Loaded
        <3> QED BY <2>1, <2>4, <3>1 DEF Agree, JobAgrees, Loaded
    <2> QED BY <2>3, <2>4, JobKeepsType
<1> QED BY <1>1, <1>2

\* The other runs' findings stand while nothing is written or moved.
LEMMA LooksStand ==
    ASSUME NEW q \in Runs, NEW p \in Runs \ {q}, Elsewhere(p), plist' = plist, Looks(q)
    PROVE  Looks(q)'
<1>1. pc'[q] = pc[q] /\ at'[q] = at[q] /\ snap'[q] = snap[q] /\ where(q)' = where(q)
    BY Keeping DEF Elsewhere
<1>2. Present("staging")' = Present("staging")
    BY DEF Present
<1> QED BY <1>1, <1>2 DEF Looks

LEMMA AgreeKeeps ==
    ASSUME TypeOK, \A q \in Runs : RunInv(q), Agree, NEW p \in Runs,
           RunStep(p) \/ Crash(p), Elsewhere(p), JobStep, TypeOK'
    PROVE  Agree'
<1>1. RunInv(p) /\ plist \in [Dirs -> Contents] /\ Dirs = {"staging", "enabled"}
      /\ pc[p] \notin {"ended", "crashed"} /\ result[p] = "none"
    BY NotEnded DEF TypeOK, Dirs
<1>2. CASE ~Clean'
    BY <1>2 DEF Agree, OneName, SamePlist, JobAgrees, ReadsHold, Untouched
<1> SUFFICES ASSUME Clean'
             PROVE  Agree'
    BY <1>2
<1>3. /\ Clean /\ Wrote \subseteq Wrote' /\ Moves \subseteq Moves' /\ ~Spoils(p)'
      /\ Untouched' => Untouched
    BY CleanShrinks DEF Clean, Untouched
<1>4. /\ \A q \in Runs \ {p} : /\ pc'[q] = pc[q] /\ result'[q] = result[q]
      /\ \A q \in Runs : verb(q)' = verb(q)
    BY DEF Elsewhere, verb
<1>5. p \in Wrote => pc[p] = "recheck"
    BY <1>1 DEF Wrote
<1>6. CASE CalmStep(p)
    <2>1. Calm(p) /\ plist' = plist
        BY <1>1, <1>6, CalmSteps DEF Calm
    <2>2. \A q \in Wrote : pc[q] = "recheck" => pc'[q] = "recheck" \/ (~Loaded /\ job' = job)
        BY <1>3, <1>4, <2>1 DEF Calm, Wrote, Spoils
    <2>3. \A q \in Wrote' : pc'[q] = "recheck" => pc[q] = "recheck"
        BY <1>4, <2>1 DEF Calm, Wrote
    <2>4. OneName' /\ SamePlist' /\ JobAgrees'
        BY <1>3, <2>1, <2>2, <2>3, StillAgree
    <2>5. ReadsHold'
        BY <1>1, <1>3, <1>6, <2>1, CalmLooks, LooksStand DEF ReadsHold, Agree
    <2> QED BY <2>4, <2>5 DEF Agree
<1>7. CASE Crash(p)
    BY <1>3, <1>7, PlacesAre DEF Crash, TypeOK, Spoils
<1>8. CASE Changing(p)
    <2>1. job' = job /\ alive' = alive
        BY <1>8, ChangingJob DEF jobVars
    <2>2. CASE Fails(p)
        <3>1. plist' = plist /\ pc'[p] = "ended" /\ pc[p] # "recheck" /\ p \notin Wrote
            BY <1>5, <2>2 DEF Fails
        <3>2. OneName' /\ SamePlist' /\ JobAgrees'
            <4>1. \A q \in Wrote : pc[q] = "recheck" => pc'[q] = "recheck"
                BY <1>4, <3>1 DEF Wrote
            <4>2. \A q \in Wrote' : pc'[q] = "recheck" => pc[q] = "recheck"
                BY <1>4, <3>1 DEF Wrote
            <4> QED BY <1>3, <3>1, <4>1, <4>2, StillAgree
        <3>3. Looks(p)'
            BY <3>1 DEF Looks
        <3>4. ReadsHold'
            BY <1>3, <3>1, <3>3, LooksStand DEF ReadsHold, Agree
        <3> QED BY <3>2, <3>4 DEF Agree
    <2>3. CASE /\ pc[p] = "persist" /\ verb(p) = "install" /\ at[p] = {} /\ pc'[p] = "recheck"
               /\ plist["staging"] = Nothing
               /\ plist' = [plist EXCEPT !["staging"] = desired(p)]
        <3>1. p \in Wrote' /\ p \notin Wrote
            BY <1>4, <1>5, <2>3 DEF Wrote
        <3>2. Untouched /\ ~Untouched'
            BY <1>3, <3>1 DEF Clean, Untouched
        <3>3. Looks(p)
            BY <3>2 DEF Agree, ReadsHold
        <3>4. plist["enabled"] = Nothing
            BY <1>1, <2>3, <3>3 DEF Looks
        <3>5. plist'["enabled"] = Nothing
            BY <1>1, <2>3, <3>4
        <3>6. OneName' /\ SamePlist'
            BY <1>1, <3>5 DEF OneName, SamePlist
        <3> QED BY <2>3, <3>1, <3>2, <3>6 DEF Agree, JobAgrees, ReadsHold
    <2>4. CASE /\ pc[p] = "write" /\ verb(p) = "install" /\ at[p] \in Singly
               /\ plist' = [plist EXCEPT ![where(p)] = desired(p)]
               /\ \/ pc'[p] = "recheck"
                  \/ ~changes(p) /\ pc'[p] = "ended" /\ result'[p] = "done"
        <3>1. p \in Wrote' /\ p \notin Wrote
            BY <1>4, <1>5, <2>4 DEF Wrote
        <3>2. Untouched /\ ~Untouched'
            BY <1>3, <3>1 DEF Clean, Untouched
        <3>3. Looks(p)
            BY <3>2 DEF Agree, ReadsHold
        <3>4. where(p) \in Dirs /\ at[p] # {} /\ snap[p][where(p)] # Nothing
            BY <1>1, <2>4, WhereIs DEF RunInv, HasFound, Judged, Singly
        <3>5. plist[where(p)] = snap[p][where(p)]
            BY <2>4, <3>3, <3>4 DEF Looks
        <3>6. \A d \in Dirs : d # where(p) => plist[d] = Nothing
            BY <1>1, <3>2, <3>4, <3>5 DEF Agree, OneName, Untouched
        <3>7. \A d \in Dirs : d # where(p) => plist'[d] = Nothing
            BY <1>1, <2>4, <3>6
        <3>8. plist'[where(p)] = desired(p)
            BY <1>1, <2>4, <3>4
        <3>9. OneName' /\ SamePlist'
            BY <1>1, <3>4, <3>7 DEF OneName, SamePlist
        <3>10. JobAgrees'
            <4>1. CASE pc'[p] = "recheck"
                BY <3>1, <4>1 DEF JobAgrees
            <4>2. CASE ~changes(p)
                <5>1. Definition(plist[where(p)]) = Definition(desired(p))
                    BY <3>5, <4>2 DEF changes, changes_loaded_job
                <5>2. Loaded => job = Definition(desired(p))
                    BY <3>2, <3>4, <3>5, <5>1 DEF Agree, JobAgrees, Untouched
                <5> QED BY <2>1, <3>7, <3>8, <5>2 DEF JobAgrees, Loaded
            <4> QED BY <2>4, <4>1, <4>2
        <3> QED BY <3>2, <3>9, <3>10 DEF Agree, ReadsHold
    <2>5. CASE result'[p] \in InDoubt
        BY <1>3, <2>5 DEF Spoils
    <2>6. CASE /\ pc[p] = "link" /\ pc'[p] = "unlink" /\ at[p] \in Singly
               /\ verb(p) \in {"enable", "disable"}
               /\ plist[where(p)] # Nothing
               /\ plist' = [plist EXCEPT ![other(where(p))] = plist[where(p)]]
        <3>1. where(p) \in Dirs /\ other(where(p)) \in Dirs
              /\ \A d \in Dirs : d = where(p) \/ d = other(where(p))
            BY <2>6, WhereIs DEF Dirs, other
        <3>2. \A d \in Dirs : plist'[d] = plist[where(p)]
            BY <1>1, <2>6, <3>1 DEF other
        <3>3. p \in Moves'
            BY <1>4, <2>6 DEF Moves
        <3>4. Wrote' = {} /\ Wrote = {} /\ Moves' # {}
            BY <1>3, <3>3 DEF Clean
        <3>5. SamePlist'
            BY <3>2 DEF SamePlist
        <3>6. Loaded => job = Definition(plist[where(p)])
            BY <1>3, <2>6, <3>1, <3>4 DEF Agree, JobAgrees
        <3>7. JobAgrees'
            BY <2>1, <3>2, <3>6 DEF JobAgrees, Loaded
        <3> QED BY <3>4, <3>5, <3>7 DEF Agree, OneName, ReadsHold, Untouched
    <2>7. CASE /\ pc[p] \in {"unlink", "remove"} /\ pc'[p] = "ended" /\ result'[p] = "done"
               /\ plist' = [plist EXCEPT ![where(p)] = Nothing]
               /\ verb(p) \in {"enable", "disable", "uninstall"}
        <3>1. verb(p) \in {"enable", "disable"}
            BY <1>3, <1>4, <2>7 DEF Spoils
        <3>2. p \in Moves'
            BY <1>4, <2>7, <3>1 DEF Moves
        <3>3. Wrote' = {} /\ Wrote = {} /\ Moves' # {}
            BY <1>3, <3>2 DEF Clean
        <3>4. \A d \in Dirs : plist'[d] # Nothing => plist'[d] = plist[d]
            BY <1>1, <2>7
        <3>5. SamePlist'
            BY <1>3, <3>4 DEF SamePlist, Agree
        <3>6. JobAgrees'
            BY <1>3, <2>1, <3>3, <3>4 DEF JobAgrees, Agree, Loaded
        <3> QED BY <3>3, <3>5, <3>6 DEF Agree, OneName, ReadsHold, Untouched
    <2> QED BY <1>1, <1>8, <2>2, <2>3, <2>4, <2>5, <2>6, <2>7, ChangingIs
<1> QED BY <1>6, <1>7, <1>8, StepIs

-----------------------------------------------------------------------------
(* The invariant.                                                            *)

\* At first.
LEMMA InitHolds == Init => IInv
<1> SUFFICES ASSUME Init
             PROVE  IInv
    OBVIOUS
<1>1. \A d \in Dirs : plist[d] \in Contents
    BY LaunchdAssumption DEF Init
<1>2. job \in Definitions \cup {Nothing}
    <2>1. Definition(Foreign) = Foreign /\ Definition(Nothing) = Nothing
        BY DEF Definition, Foreign, Nothing, Special
    <2>2. Foreign \in Definitions
        BY <2>1, Plain, Defined
    <2>3. \A d \in Dirs : Definition(plist[d]) \in Definitions \cup {Nothing}
        BY <1>1, <2>1, Defined
    <2> QED BY <2>2, <2>3 DEF Init
<1>3. TypeOK
    <2>1. plist \in [Dirs -> Contents]
        BY <1>1 DEF Init
    <2>2. alive \in BOOLEAN /\ (alive => Loaded) /\ late \subseteq {"bootout", "kickstart"}
        BY DEF Init, Loaded
    <2>3. request \in [Runs -> Requests] /\ pc \in [Runs -> Places] /\ result \in [Runs -> Results]
        BY PlacesAre, AnswersAre DEF Init, Reading
    <2>4. /\ at \in [Runs -> SUBSET Dirs] /\ snap \in [Runs -> [Dirs -> Contents]]
          /\ drawn \in [Runs -> [calls : Nat, requests : Nat, again : Nat]]
        BY Plain DEF Init
    <2>5. lived \subseteq Runs /\ removed \in BOOLEAN
        BY DEF Init
    <2> QED BY <1>2, <2>1, <2>2, <2>3, <2>4, <2>5 DEF TypeOK
<1>4. ASSUME NEW p \in Runs
      PROVE  RunInv(p)
    <2>1. pc[p] = "stat_staging" /\ result[p] = "none" /\ drawn[p].calls = 0 /\ drawn[p].requests = 0
        BY DEF Init
    <2>2. needs(verb(p)).calls \in Nat /\ needs(verb(p)).requests \in Nat
        BY DEF needs
    <2> QED BY <2>1, <2>2 DEF RunInv, OnPath, HasFound, Drew, AtMost, Installing, Moving, Starting, Judged
<1>5. LivesSeen /\ MovesAreSafe /\ ConfirmedStartRan
    BY DEF Init, LivesSeen, MovesAreSafe, ConfirmedStartRan
<1>6. RetriesOwed
    <2> SUFFICES ASSUME NEW p \in Runs
                 PROVE  drawn[p].again <= Cardinality(Causes(p)) /\ ~Owes(p)
        BY DEF RetriesOwed
    <2>1. Causes(p) \subseteq Runs
        BY DEF Causes
    <2>2. Cardinality(Causes(p)) \in Nat
        BY <2>1, LaunchdAssumption, FS_Subset, FS_CardinalityType
    <2> QED BY <2>2 DEF Init, Owes
<1>7. PlistIsSomewhere
    BY DEF Init, PlistIsSomewhere
<1>8. \A p \in Runs : p \notin Wrote /\ p \notin Moves /\ Looks(p)
    BY DEF Init, Wrote, Moves, Looks
<1>9. OneName /\ SamePlist
    BY DEF Init, OneName, SamePlist, Dirs
<1>10. JobAgrees
    <2>1. Definition(Nothing) = Nothing
        BY DEF Definition, Nothing, Special
    <2> QED BY <2>1, <1>8 DEF Init, JobAgrees, Dirs, Loaded
<1> QED BY <1>3, <1>4, <1>5, <1>6, <1>7, <1>8, <1>9, <1>10 DEF IInv, ReadsHold

\* Where no run steps, the job changes at most to what it is, or to nothing.
LEMMA RestKeeps ==
    ASSUME IInv, plist' = plist, request' = request, pc' = pc, at' = at, snap' = snap,
           drawn' = drawn, result' = result, removed' = removed,
           JobStep, job' \in {job, Nothing}, Lives \/ (alive' = alive /\ lived' = lived)
    PROVE  IInv'
<1>1. /\ plist' = plist /\ request' = request /\ pc' = pc /\ at' = at /\ snap' = snap
      /\ drawn' = drawn /\ result' = result /\ removed' = removed
    OBVIOUS
<1>2. JobStep /\ job' \in {job, Nothing} /\ (Lives \/ (alive' = alive /\ lived' = lived))
    OBVIOUS
<1>3. TypeOK'
    BY <1>1, <1>2, JobKeepsType DEF IInv, TypeOK, JobOK, Lives, UnderWay
<1>4. \A p \in Runs : RunInv(p)'
    <2>1. ASSUME NEW p \in Runs
          PROVE  RunInv(p)'
        <3>1. /\ where(p)' = where(p) /\ Creates(p)' = Creates(p) /\ changes(p)' = changes(p)
              /\ verb(p)' = verb(p) /\ needs(verb(p))' = needs(verb(p))
            BY <1>1, Keeping
        <3>2. RunInv(p)
            BY DEF IInv
        <3> QED BY <1>1, <3>1, <3>2 DEF RunInv, OnPath, HasFound, Drew, AtMost
    <2> QED BY <2>1
<1>5. LivesSeen' /\ ConfirmedStartRan'
    <2>1. lived \subseteq lived' /\ (alive' => UnderWay \subseteq lived')
        BY <1>2 DEF Lives, IInv, LivesSeen, UnderWay, TypeOK
    <2>2. LivesSeen'
        BY <1>1, <2>1 DEF LivesSeen, UnderWay
    <2>3. ConfirmedStartRan'
        BY <1>1, <2>1 DEF IInv, ConfirmedStartRan, verb, Waits
    <2> QED BY <2>2, <2>3
<1>6. MovesAreSafe' /\ PlistIsSomewhere'
    BY <1>1 DEF IInv, MovesAreSafe, PlistIsSomewhere
<1>7. RetriesOwed'
    <2>1. ASSUME NEW p \in Runs
          PROVE  Causes(p)' = Causes(p) /\ Owes(p)' = Owes(p)
        BY <1>1, Keeping DEF Causes, Owes, verb
    <2> QED BY <1>1, <2>1 DEF IInv, RetriesOwed
<1>8. /\ \A p \in Runs : Spoils(p)' = Spoils(p) /\ Looks(p)' = Looks(p)
      /\ Wrote' = Wrote /\ Moves' = Moves
    <2>1. \A p \in Runs : where(p)' = where(p) /\ verb(p)' = verb(p)
        BY <1>1, Keeping
    <2>2. Present("staging")' = Present("staging")
        BY <1>1 DEF Present
    <2> QED BY <1>1, <2>1, <2>2 DEF Spoils, Looks, Wrote, Moves
<1>9. Clean' = Clean /\ Untouched' = Untouched
    BY <1>8 DEF Clean, Untouched
<1>10. OneName' /\ SamePlist' /\ ReadsHold'
    BY <1>1, <1>8, <1>9 DEF IInv, OneName, SamePlist, ReadsHold
<1>11. JobAgrees'
    BY <1>1, <1>2, <1>8, <1>9 DEF IInv, JobAgrees, Loaded
<1> QED BY <1>3, <1>4, <1>5, <1>6, <1>7, <1>10, <1>11 DEF IInv

\* What launchd does by itself.
LEMMA LaunchdKeeps ==
    ASSUME IInv, LaunchdActs
    PROVE  IInv'
<1>1. /\ plist' = plist /\ request' = request /\ pc' = pc /\ at' = at /\ snap' = snap
      /\ drawn' = drawn /\ result' = result /\ removed' = removed
    BY DEF LaunchdActs, locals
<1>2. JobStep /\ job' \in {job, Nothing} /\ Lives
    BY DEF LaunchdActs, LaunchdStep, JobStep, Exit, Respawn, CarriedOut
<1> QED BY <1>1, <1>2, RestKeeps

LEMMA StutterKeeps ==
    ASSUME IInv, UNCHANGED vars
    PROVE  IInv'
<1>1. /\ plist' = plist /\ request' = request /\ pc' = pc /\ at' = at /\ snap' = snap
      /\ drawn' = drawn /\ result' = result /\ removed' = removed
    BY DEF vars, locals, history
<1>2. JobStep /\ job' = job /\ alive' = alive /\ lived' = lived
    BY DEF vars, jobVars, JobStep, history
<1> QED BY <1>1, <1>2, RestKeeps

LEMMA RunKeepsAll ==
    ASSUME IInv, NEW p \in Runs, RunStep(p) \/ Crash(p)
    PROVE  IInv'
<1>1. TypeOK' /\ Elsewhere(p) /\ (\A q \in Runs : RunInv(q)') /\ JobStep
    BY RunKeeps DEF IInv
<1>2. LivesSeen' /\ ConfirmedStartRan'
    BY <1>1, LivesKeep DEF IInv
<1>3. MovesAreSafe' /\ PlistIsSomewhere'
    BY <1>1, MovesKeep DEF IInv
<1>4. RetriesOwed'
    BY <1>1, RetriesKeep DEF IInv
<1>5. Agree'
    BY <1>1, AgreeKeeps DEF IInv, Agree
<1> QED BY <1>1, <1>2, <1>3, <1>4, <1>5 DEF IInv, Agree

LEMMA SpecIInv == Spec => []IInv
<1>1. IInv /\ [Next]_vars => IInv'
    BY RunKeepsAll, LaunchdKeeps, StutterKeeps DEF Next
<1> QED BY <1>1, InitHolds, PTL DEF Spec

-----------------------------------------------------------------------------
(* What follows.                                                             *)

\* WithinBounds: whatever the runs do to one another, none draws more calls or
\* requests from its reservation than it counted before its first one (manager.rs
\* and launchctl.rs would fail half way), and an install reads again at most once
\* for each run that took its plist away.
THEOREM BoundsAreKept == Spec => []WithinBounds
<1>1. IInv => WithinBounds
    BY DEF IInv, WithinBounds, WithinReservation, RetriesAreCaused, RunInv, Drew, AtMost, RetriesOwed,
       Causes, Takers
<1> QED BY <1>1, SpecIInv, PTL

\* PlistIsSomewhere: overlapping enables and disables, and a crash between
\* move_no_clobber's link and its removal, never lose an installed plist.
THEOREM PlistIsKept == Spec => []PlistIsSomewhere
<1>1. IInv => PlistIsSomewhere
    BY DEF IInv
<1> QED BY <1>1, SpecIInv, PTL

\* ConfirmedStartRan: a start that waits and answers Ok did so over a job that
\* had a process since the start began, also one another start bootstrapped.
THEOREM ConfirmedStartsRan == Spec => []ConfirmedStartRan
<1>1. IInv => ConfirmedStartRan
    BY DEF IInv
<1> QED BY <1>1, SpecIInv, PTL

\* LoadedIsOnDisk: recheck_after_write suffices: once all ended well, launchd runs
\* what the one install wrote.
THEOREM LoadedStaysOnDisk == Spec => []LoadedIsOnDisk
<1>1. ASSUME IInv
      PROVE  LoadedIsOnDisk
    <2> SUFFICES ASSUME AllEnded,
                        \A p \in Runs : verb(p) # "uninstall" /\ result[p] \notin InDoubt \cup {"error"},
                        \A p, q \in Installed : p = q,
                        Installed = {} \/ Moved = {}
                 PROVE  \A d \in Dirs : plist[d] # Nothing /\ Loaded => job = Definition(plist[d])
        BY DEF LoadedIsOnDisk
    <2>1. \A p \in Runs : pc[p] = "ended" /\ ~Spoils(p)
        BY DEF AllEnded, Spoils
    <2>2. Wrote = Installed /\ Moves = Moved
        BY <2>1 DEF Wrote, Installed, Moves, Moved
    <2>3. Clean
        BY <2>1, <2>2 DEF Clean
    <2> QED BY <1>1, <2>1, <2>3 DEF IInv, JobAgrees, Wrote
<1> QED BY <1>1, SpecIInv, PTL
=============================================================================
