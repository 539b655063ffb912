--------------------------- MODULE ScmApplyProofs ---------------------------
(***************************************************************************)
(* ScmApply, for every set of processes, specs and verbs, every bound on   *)
(* what fails and on what the administrator does: every write of an update *)
(* goes to the service that was read, a service of goetia's is without its *)
(* marker only in the window of write_parameters, it can always log on, an *)
(* install that answers done reads back, and uninstall answers the truth.  *)
(*                                                                         *)
(* The inductive invariant says of each process where its verb can be      *)
(* (InPlace), which handle it still has open (Holding), that an open       *)
(* handle keeps the record it was opened for (Held), and, while nobody     *)
(* else has written, how much of what it wants the record shows            *)
(* (Progress).  Every step of a process has one shape: it Turns its own    *)
(* part of the state and leaves a record that is Sound for the others; the *)
(* lemma StepKeeps does the rest once for all of them, and each action's   *)
(* lemma shows only that it is of that shape.  The administrator's actions *)
(* go through MeddlingKeeps, and Create, which makes the service, is by    *)
(* itself.                                                                 *)
(***************************************************************************)
EXTENDS ScmApply, FiniteSetTheorems, TLAPS

\* The places of an install, from its writes on, and of an uninstall.
Applying == {"clear", "write", "environ", "failure", "failureflag"}
Installing == {"live", "environment", "prepare", "create", "open", "change"} \cup Applying
Uninstalling == {"actor", "disable", "settle", "settle_marked", "delete"}

\* The record is one.
IsParameters(params) ==
    /\ params = [k \in DOMAIN params |-> params[k]]
    /\ DOMAIN params \subseteq DOMAIN Folded

IsService(s) ==
    /\ s = [there |-> s.there, obj |-> s.obj, marked |-> s.marked, start |-> s.start,
            image |-> s.image, account |-> s.account, secret |-> s.secret,
            actions |-> s.actions, flag |-> s.flag, environment |-> s.environment,
            parameters |-> s.parameters]
    /\ s.environment = [lines |-> s.environment.lines, odd |-> s.environment.odd]
    /\ IsParameters(s.parameters)
    /\ {s.there, s.marked, s.secret, s.flag} \subseteq BOOLEAN
    /\ s.obj \in Nat /\ (s.there => s.obj # 0)
    /\ s.start \in StartTypes

IsSnap(n) ==
    /\ n = [obj |-> n.obj, start |-> n.start, parameters |-> n.parameters,
            live |-> n.live, written |-> n.written]
    /\ n.obj \in Nat /\ n.written \in Nat

\* The services made so far are the processes that made one, and the
\* administrator's.
Makers == {p \in Runs : pc[p] \in Applying /\ snap[p].obj = 0}

Types ==
    /\ IsService(service)
    /\ ours \subseteq 1..service.obj
    /\ service.obj <= 1 + Cardinality(Makers) + meddled
    /\ rights \subseteq {registration(s, "running").account : s \in Specs} \cup {"LocalSystem"}
    /\ source \in BOOLEAN
    /\ handle \in [Runs -> Nat]
    /\ request \in [Runs -> Requests]
    /\ pc \in [Runs -> Places]
    /\ next \in [Runs -> 1..5]
    /\ result \in [Runs -> Results]
    /\ meddled \in 0..MaxMeddling /\ mishaps \in 0..MaxMishaps
    /\ alone \in [Runs -> BOOLEAN]
    /\ \A p \in Runs : IsSnap(snap[p])
    /\ snap = [p \in Runs |-> snap[p]]

InPlace(p) ==
    /\ pc[p] \in Installing => Installs(p)
    /\ pc[p] = "flip" => request[p].verb \in {"enable", "disable"}
    /\ pc[p] \in Uninstalling => request[p].verb = "uninstall"
    /\ pc[p] = "create" => snap[p].obj = 0
    /\ pc[p] \in {"open", "change"} => snap[p].obj # 0
    /\ pc[p] = "change" => snap[p].start \in StartTypes
    /\ pc[p] \notin {"write", "environ", "failure", "failureflag"} => next[p] = 1
    /\ pc[p] = "write" => next[p] \in 1..4

\* What a process that has not ended holds open.
Holding(p) ==
    result[p] = "none" =>
        /\ pc[p] \in {"read", "delete"} => handle[p] = 0
        /\ Installs(p) /\ pc[p] # "read" => handle[p] = snap[p].obj
        /\ pc[p] \in {"disable", "settle", "settle_marked"}
               => handle[p] = snap[p].written /\ handle[p] # 0
        /\ pc[p] = "settle_marked" => service.marked
        /\ pc[p] \in {"create", "open", "change"} =>
               /\ source
               /\ account_needs_password(desired(p).account) => desired(p).account \in rights

\* An open handle keeps the service it was opened for.
Held(p) == handle[p] # 0 => service.there /\ service.obj = handle[p]

\* The parameters written before the n-th.
Written(p, n) ==
    [k \in {Order[i] : i \in 1..(n - 1)} |-> desired(p).parameters[k]]

\* What the record t shows of an install at the place l that is to write the
\* n-th parameter.
Shows(p, t, l, n) ==
    /\ l = "write" => t.parameters = Written(p, n)
    /\ l \in {"environ", "failure", "failureflag"} => t.parameters = desired(p).parameters
    /\ l \in {"failure", "failureflag"}
           => t.environment = [lines |-> desired(p).environment, odd |-> FALSE]
    /\ l = "failureflag" =>
           IF desired(p).failure = {} THEN ~t.flag ELSE t.actions = "restart"

Made(p, t) ==
    /\ t.there
    /\ t.image = desired(p).image /\ t.account = desired(p).account
    /\ t.start = IF snap[p].obj = 0 THEN "demand" ELSE snap[p].start
    /\ snap[p].obj = 0 => ~t.marked

\* How far a process that is alone has come.
Progress(p) ==
    alone[p] /\ result[p] = "none" =>
        /\ pc[p] \in Applying => Made(p, service) /\ Shows(p, service, pc[p], next[p])
        /\ pc[p] = "disable" => service.start = snap[p].start
        /\ pc[p] \in {"settle", "delete"}
               => service.there /\ ~service.marked /\ service.start = "disabled"

Knows(p) == InPlace(p) /\ Holding(p) /\ Held(p) /\ Progress(p)

IInv == Types /\ UnmarkedIsWindow /\ CanLogOn /\ \A p \in Runs : Knows(p)
-----------------------------------------------------------------------------
(* The record, and what the writes make of it. *)

\* The field a write sets, and those it leaves alone.
LEMMA SetThere ==
  ASSUME NEW s, IsService(s), NEW x \in BOOLEAN, s.obj # 0
  PROVE  LET t == [s EXCEPT !.there = x] IN
         /\ IsService(t) /\ t.there = x
         /\ t.obj = s.obj /\ t.marked = s.marked /\ t.start = s.start /\ t.image = s.image
            /\ t.account = s.account /\ t.secret = s.secret /\ t.actions = s.actions /\
            t.flag = s.flag /\ t.environment = s.environment /\ t.parameters = s.parameters
BY DEF IsService

LEMMA SetStart ==
  ASSUME NEW s, IsService(s), NEW x \in StartTypes
  PROVE  LET t == [s EXCEPT !.start = x] IN
         /\ IsService(t) /\ t.start = x
         /\ t.there = s.there /\ t.obj = s.obj /\ t.marked = s.marked /\ t.image = s.image
            /\ t.account = s.account /\ t.secret = s.secret /\ t.actions = s.actions /\
            t.flag = s.flag /\ t.environment = s.environment /\ t.parameters = s.parameters
BY DEF IsService

LEMMA SetImage ==
  ASSUME NEW s, IsService(s), NEW x
  PROVE  LET t == [s EXCEPT !.image = x] IN
         /\ IsService(t) /\ t.image = x
         /\ t.there = s.there /\ t.obj = s.obj /\ t.marked = s.marked /\ t.start = s.start
            /\ t.account = s.account /\ t.secret = s.secret /\ t.actions = s.actions /\
            t.flag = s.flag /\ t.environment = s.environment /\ t.parameters = s.parameters
BY DEF IsService

LEMMA SetAccount ==
  ASSUME NEW s, IsService(s), NEW x
  PROVE  LET t == [s EXCEPT !.account = x] IN
         /\ IsService(t) /\ t.account = x
         /\ t.there = s.there /\ t.obj = s.obj /\ t.marked = s.marked /\ t.start = s.start
            /\ t.image = s.image /\ t.secret = s.secret /\ t.actions = s.actions /\ t.flag =
            s.flag /\ t.environment = s.environment /\ t.parameters = s.parameters
BY DEF IsService

LEMMA SetSecret ==
  ASSUME NEW s, IsService(s), NEW x \in BOOLEAN
  PROVE  LET t == [s EXCEPT !.secret = x] IN
         /\ IsService(t) /\ t.secret = x
         /\ t.there = s.there /\ t.obj = s.obj /\ t.marked = s.marked /\ t.start = s.start
            /\ t.image = s.image /\ t.account = s.account /\ t.actions = s.actions /\ t.flag
            = s.flag /\ t.environment = s.environment /\ t.parameters = s.parameters
BY DEF IsService

LEMMA SetMarked ==
  ASSUME NEW s, IsService(s), NEW x \in BOOLEAN
  PROVE  LET t == [s EXCEPT !.marked = x] IN
         /\ IsService(t) /\ t.marked = x
         /\ t.there = s.there /\ t.obj = s.obj /\ t.start = s.start /\ t.image = s.image /\
            t.account = s.account /\ t.secret = s.secret /\ t.actions = s.actions /\ t.flag
            = s.flag /\ t.environment = s.environment /\ t.parameters = s.parameters
BY DEF IsService

LEMMA SetFlag ==
  ASSUME NEW s, IsService(s), NEW x \in BOOLEAN
  PROVE  LET t == [s EXCEPT !.flag = x] IN
         /\ IsService(t) /\ t.flag = x
         /\ t.there = s.there /\ t.obj = s.obj /\ t.marked = s.marked /\ t.start = s.start
            /\ t.image = s.image /\ t.account = s.account /\ t.secret = s.secret /\
            t.actions = s.actions /\ t.environment = s.environment /\ t.parameters =
            s.parameters
BY DEF IsService

LEMMA SetActions ==
  ASSUME NEW s, IsService(s), NEW x
  PROVE  LET t == [s EXCEPT !.actions = x] IN
         /\ IsService(t) /\ t.actions = x
         /\ t.there = s.there /\ t.obj = s.obj /\ t.marked = s.marked /\ t.start = s.start
            /\ t.image = s.image /\ t.account = s.account /\ t.secret = s.secret /\ t.flag =
            s.flag /\ t.environment = s.environment /\ t.parameters = s.parameters
BY DEF IsService

LEMMA SetEnvironment ==
  ASSUME NEW s, IsService(s), NEW x, NEW y
  PROVE  LET t == [s EXCEPT !.environment = [lines |-> x, odd |-> y]] IN
         /\ IsService(t) /\ t.environment = [lines |-> x, odd |-> y]
         /\ t.there = s.there /\ t.obj = s.obj /\ t.marked = s.marked /\ t.start = s.start
         /\ t.image = s.image /\ t.account = s.account /\ t.secret = s.secret
         /\ t.parameters = s.parameters
BY DEF IsService

LEMMA SetParameters ==
  ASSUME NEW s, IsService(s), NEW x, IsParameters(x)
  PROVE  LET t == [s EXCEPT !.parameters = x] IN
         /\ IsService(t) /\ t.parameters = x
         /\ t.there = s.there /\ t.obj = s.obj /\ t.marked = s.marked /\ t.start = s.start
         /\ t.image = s.image /\ t.account = s.account /\ t.secret = s.secret
BY DEF IsService

LEMMA EmptyIs ==
  IsParameters(Empty) /\ DOMAIN Empty = {} /\ ~HasMarker(Empty)
BY DEF IsParameters, Empty, HasMarker, Spelled

LEMMA AbsentIs ==
  ASSUME NEW obj \in Nat
  PROVE  /\ IsService(Absent(obj))
         /\ ~Absent(obj).there /\ Absent(obj).obj = obj /\ ~Absent(obj).marked
         /\ Absent(obj).parameters = Empty
         /\ Absent(obj).account = "LocalSystem" /\ Absent(obj).secret = FALSE
<1> DEFINE e == Empty
<1>1. IsParameters(e)
  BY EmptyIs
<1>2. Absent(obj) = [there |-> FALSE, obj |-> obj, marked |-> FALSE, start |-> "demand",
        image |-> "none", account |-> "LocalSystem", secret |-> FALSE, actions |-> "none",
        flag |-> FALSE, environment |-> [lines |-> {}, odd |-> FALSE], parameters |-> e]
  BY DEF Absent
<1> HIDE DEF e
<1>3. QED  BY <1>1, <1>2 DEF IsService, StartTypes, e

LEMMA ServiceInfoIs ==
  ASSUME NEW s, IsService(s), s.obj # 0, NEW reg, NEW start \in StartTypes, NEW account,
         NEW secret \in BOOLEAN
  PROVE  LET t == service_info(s, reg, start, account, secret) IN
         /\ IsService(t) /\ t.there /\ t.obj = s.obj /\ t.marked = s.marked
         /\ t.image = reg.image /\ t.start = start /\ t.account = account
         /\ t.secret = secret /\ t.parameters = s.parameters
<1> DEFINE image == reg.image
           a == [s EXCEPT !.there = TRUE]
           b == [a EXCEPT !.image = image]
           c == [b EXCEPT !.start = start]
           d == [c EXCEPT !.account = account]
           e == [d EXCEPT !.secret = secret]
<1>1. /\ IsService(a) /\ a.there = TRUE /\ a.obj = s.obj /\ a.marked = s.marked
      /\ a.parameters = s.parameters
  BY SetThere
<1>2. service_info(s, reg, start, account, secret) = e
  BY DEF service_info
<1> HIDE DEF image, a
<1>3. /\ IsService(b) /\ b.there = TRUE /\ b.obj = s.obj /\ b.marked = s.marked
      /\ b.parameters = s.parameters /\ b.image = image
  BY <1>1, SetImage
<1> HIDE DEF b
<1>4. /\ IsService(c) /\ c.there = TRUE /\ c.obj = s.obj /\ c.marked = s.marked
      /\ c.parameters = s.parameters /\ c.image = image /\ c.start = start
  BY <1>3, SetStart
<1> HIDE DEF c
<1>5. /\ IsService(d) /\ d.there = TRUE /\ d.obj = s.obj /\ d.marked = s.marked
      /\ d.parameters = s.parameters /\ d.image = image /\ d.start = start
      /\ d.account = account
  BY <1>4, SetAccount
<1> HIDE DEF d
<1>6. /\ IsService(e) /\ e.there = TRUE /\ e.obj = s.obj /\ e.marked = s.marked
      /\ e.parameters = s.parameters /\ e.image = image /\ e.start = start
      /\ e.account = account /\ e.secret = secret
  BY <1>5, SetSecret
<1> HIDE DEF e
<1>7. QED  BY <1>2, <1>6 DEF image

LEMMA CreatedIs ==
  ASSUME NEW obj \in Nat, obj # 0, NEW reg, NEW secret \in BOOLEAN
  PROVE  LET t == Created(obj, reg, secret) IN
         /\ IsService(t) /\ t.there /\ t.obj = obj /\ ~t.marked
         /\ t.image = reg.image /\ t.start = "demand" /\ t.account = reg.account
         /\ t.secret = secret /\ t.parameters = Empty
<1>1. "demand" \in StartTypes
  BY DEF StartTypes
<1>2. IsService(Absent(obj)) /\ Absent(obj).obj = obj /\ ~Absent(obj).marked
      /\ Absent(obj).parameters = Empty
  BY AbsentIs
<1> DEFINE t == service_info(Absent(obj), reg, "demand", reg.account, secret)
<1>3. /\ IsService(t) /\ t.there /\ t.obj = obj /\ t.marked = Absent(obj).marked
      /\ t.image = reg.image /\ t.start = "demand" /\ t.account = reg.account
      /\ t.secret = secret /\ t.parameters = Empty
  BY <1>1, <1>2, ServiceInfoIs
<1>4. QED  BY <1>2, <1>3 DEF Created
-----------------------------------------------------------------------------
(* The shape of a step of p, and what it asks of the rest of the state.      *)

Turns(p, l, r, h, n, s) ==
    /\ pc' = [pc EXCEPT ![p] = l] /\ result' = [result EXCEPT ![p] = r]
    /\ handle' = [handle EXCEPT ![p] = h] /\ next' = [next EXCEPT ![p] = n]
    /\ snap' = [snap EXCEPT ![p] = s] /\ request' = request

\* The others' part.
Others(p) ==
    \A q \in Runs \ {p} :
        /\ pc'[q] = pc[q] /\ result'[q] = result[q] /\ handle'[q] = handle[q]
        /\ next'[q] = next[q] /\ snap'[q] = snap[q]

Own(p, l, r, h, n, s) ==
    /\ pc'[p] = l /\ result'[p] = r /\ handle'[p] = h /\ next'[p] = n /\ snap'[p] = s
    /\ request' = request

LEMMA TurnsIs ==
  ASSUME Types, NEW p \in Runs, NEW l \in Places, NEW r \in Results, NEW h \in Nat,
         NEW n \in 1..5, NEW s, IsSnap(s), Turns(p, l, r, h, n, s)
  PROVE  /\ Own(p, l, r, h, n, s) /\ Others(p)
         /\ pc' \in [Runs -> Places] /\ result' \in [Runs -> Results]
         /\ handle' \in [Runs -> Nat] /\ next' \in [Runs -> 1..5]
         /\ \A q \in Runs : IsSnap(snap'[q])
         /\ snap' = [q \in Runs |-> snap'[q]]
<1>1. /\ pc \in [Runs -> Places] /\ result \in [Runs -> Results]
      /\ handle \in [Runs -> Nat] /\ next \in [Runs -> 1..5]
      /\ \A q \in Runs : IsSnap(snap[q])
      /\ snap = [q \in Runs |-> snap[q]]
  BY DEF Types
<1>2. snap' = [q \in Runs |-> snap'[q]] /\ \A q \in Runs : snap'[q] = IF q = p THEN s ELSE snap[q]
  BY <1>1 DEF Turns
<1>3. QED  BY <1>1, <1>2 DEF Turns, Own, Others

\* The accounts' part of CanLogOn, of one record after a step.
LogsOnNext(t) ==
    /\ source'
    /\ t.secret = account_needs_password(t.account)
    /\ t.secret => t.account \in rights'

\* t differs from s in its parameters, environment or failure actions alone.
Like(s, t) ==
    /\ IsService(t)
    /\ t.there = s.there /\ t.obj = s.obj /\ t.marked = s.marked
    /\ t.image = s.image /\ t.account = s.account /\ t.secret = s.secret
    /\ t.start = s.start

LEMMA BecomesIs ==
  ASSUME IsService(service), NEW t, IsService(t), t.there = service.there, t.obj = service.obj,
         Becomes(t) \/ service' = t
  PROVE  /\ IsService(service') /\ service'.obj = service.obj
         /\ service' = t \/ (service' = Absent(service.obj) /\ t.marked)
         /\ \A q \in Runs : handle'[q] = service.obj => service' = t
<1>1. service.obj \in Nat
  BY DEF IsService
<1>2. service' = t \/ (service' = Absent(service.obj) /\ t.marked)
  BY DEF Becomes
<1>3. QED  BY <1>1, <1>2, AbsentIs DEF Becomes

LEMMA OthersKnow ==
  ASSUME IInv, NEW p \in Runs, Others(p), request' = request, rights \subseteq rights',
         source => source', NEW q \in Runs \ {p},
         handle[q] # 0 => /\ service'.there /\ service'.obj = service.obj
                          /\ (service.marked => service'.marked),
         alone'[q] => alone[q] /\ service' = service
  PROVE  Knows(q)'
<1>1. Knows(q)
  BY DEF IInv
<1>2. /\ pc'[q] = pc[q] /\ result'[q] = result[q] /\ handle'[q] = handle[q]
      /\ next'[q] = next[q] /\ snap'[q] = snap[q]
  BY DEF Others
<1>3. request'[q] = request[q] /\ desired(q)' = desired(q) /\ Installs(q)' = Installs(q)
  BY DEF desired, Installs
<1>4. InPlace(q)'
  BY <1>1, <1>2, <1>3 DEF Knows, InPlace
<1>5. Held(q)'
  BY <1>1, <1>2 DEF Knows, Held
<1>6. Holding(q)'
  BY <1>1, <1>2, <1>3 DEF Knows, Holding
<1>7. Progress(q)'
  <2>1. CASE ~alone'[q]
    BY <2>1 DEF Progress
  <2>2. CASE alone'[q]
    <3>1. alone[q] /\ service' = service
      BY <2>2
    <3>2. QED  BY <1>1, <1>2, <1>3, <3>1 DEF Knows, Progress, Made, Shows, Written
  <2>3. QED  BY <2>1, <2>2
<1>8. QED  BY <1>4, <1>5, <1>6, <1>7 DEF Knows

\* The window, as a step to the place l and the parameter n leaves it.
Window(p, l, n) == Installs(p) /\ l \in {"clear", "write"} /\ n = 1

\* What a step may make of the record: it stays the same service, under an
\* account that can log on, and its marker only goes where p is in its window.
Sound(p, t, l, n) ==
    /\ IsService(t) /\ t.there = service.there /\ t.obj = service.obj
    /\ service.there /\ service.marked => t.marked
    /\ (t.account = service.account /\ t.secret = service.secret) \/ LogsOnNext(t)
    /\ HasMarker(service.parameters) => HasMarker(t.parameters) \/ Window(p, l, n)
    /\ InWindow(p) => Window(p, l, n) \/ HasMarker(t.parameters)

\* What a step does to the rest.
Around(p) ==
    /\ rights \subseteq rights' /\ (source => source') /\ source' \in BOOLEAN
    /\ rights' \subseteq {registration(s, "running").account : s \in Specs} \cup {"LocalSystem"}
    /\ ours' = ours /\ meddled' = meddled /\ mishaps' \in 0..MaxMishaps
    /\ alone' \in [Runs -> BOOLEAN]
    /\ \A q \in Runs \ {p} : alone'[q] => alone[q] /\ service' = service

LEMMA SharedKeeps ==
  ASSUME IInv, NEW p \in Runs, Others(p), request' = request, Around(p),
         NEW t, Sound(p, t, pc'[p], next'[p]), Becomes(t) \/ service' = t
  PROVE  UnmarkedIsWindow' /\ CanLogOn'
<1>1. /\ IsService(service) /\ UnmarkedIsWindow /\ CanLogOn /\ service.obj \in Nat
  BY DEF IInv, Types, IsService
<1>2. /\ service'.obj = service.obj
      /\ service' = t \/ service' = Absent(service.obj)
  BY <1>1, BecomesIs DEF Sound
<1>3. CASE service' = Absent(service.obj)
  BY <1>1, <1>3, AbsentIs DEF UnmarkedIsWindow, CanLogOn
<1>4. CASE service' = t
  <2>1. \A q \in Runs \ {p} : InWindow(q)' = InWindow(q)
    BY DEF Others, InWindow, Installs
  <2>2. InWindow(p)' = Window(p, pc'[p], next'[p])
    BY DEF InWindow, Window, Installs
  <2>3. UnmarkedIsWindow'
    <3>1. CASE HasMarker(t.parameters) \/ InWindow(p)'
      BY <1>4, <3>1 DEF UnmarkedIsWindow
    <3>2. CASE ~HasMarker(t.parameters) /\ ~InWindow(p)'
      BY <1>1, <1>4, <2>1, <2>2, <3>2 DEF UnmarkedIsWindow, Sound, Around
    <3>3. QED  BY <3>1, <3>2
  <2>4. CanLogOn'
    BY <1>1, <1>4 DEF CanLogOn, Sound, LogsOnNext, Around
  <2>5. QED  BY <2>3, <2>4
<1>5. QED  BY <1>2, <1>3, <1>4

LEMMA MakersGrow ==
  ASSUME Types, Makers \subseteq Makers'
  PROVE  Cardinality(Makers) <= Cardinality(Makers')
         /\ Cardinality(Makers) \in Nat /\ Cardinality(Makers') \in Nat
<1>1. IsFiniteSet(Runs) /\ Makers \subseteq Runs /\ Makers' \subseteq Runs
  BY ScmApplyAssumption DEF Makers
<1>2. IsFiniteSet(Makers) /\ IsFiniteSet(Makers')
  BY <1>1, FS_Subset
<1>3. QED  BY <1>2, FS_Subset, FS_CardinalityType

LEMMA StepKeeps ==
  ASSUME IInv, NEW p \in Runs, NEW l \in Places, NEW r \in Results, NEW h \in Nat,
         NEW n \in 1..5, NEW s, IsSnap(s), Turns(p, l, r, h, n, s),
         h # 0 => service.there /\ h = service.obj,
         NEW t, Sound(p, t, l, n), Becomes(t) \/ service' = t,
         Around(p), p \in Makers => l \in Applying /\ s.obj = 0,
         InPlace(p)', Holding(p)', Progress(p)'
  PROVE  IInv'
<1>1. Types /\ IsService(service) /\ service.obj \in Nat
  BY DEF IInv, Types, IsService
<1>2. /\ Own(p, l, r, h, n, s) /\ Others(p)
      /\ pc' \in [Runs -> Places] /\ result' \in [Runs -> Results]
      /\ handle' \in [Runs -> Nat] /\ next' \in [Runs -> 1..5]
      /\ \A q \in Runs : IsSnap(snap'[q])
      /\ snap' = [q \in Runs |-> snap'[q]]
  BY <1>1, TurnsIs
<1>3. request' = request
  BY DEF Turns
<1>4. /\ IsService(service') /\ service'.obj = service.obj
      /\ \A q \in Runs : handle'[q] = service.obj => service' = t
  BY <1>1, BecomesIs DEF Sound
<1>5. UnmarkedIsWindow' /\ CanLogOn'
  BY <1>2, <1>3, SharedKeeps DEF Own
<1>6. Makers \subseteq Makers'
  BY <1>2 DEF Makers, Others, Own
<1>7. Types'
  BY <1>1, <1>2, <1>3, <1>4, <1>6, MakersGrow DEF Types, Around
<1>8. ASSUME NEW q \in Runs \ {p} PROVE Knows(q)'
  <2>1. handle[q] # 0 => service.there /\ service.obj = handle[q]
    BY DEF IInv, Knows, Held
  <2>2. handle[q] # 0 => service' = t
    BY <1>2, <1>4, <2>1 DEF Others
  <2>3. QED  BY <1>2, <1>3, <1>4, <2>1, <2>2, OthersKnow DEF Around, Sound
<1>9. Held(p)'
  BY <1>2, <1>4 DEF Own, Held, Sound
<1>10. QED  BY <1>5, <1>7, <1>8, <1>9 DEF IInv, Knows

-----------------------------------------------------------------------------
(* What every step starts from. *)

LEMMA At ==
  ASSUME IInv, NEW p \in Runs
  PROVE  /\ Types /\ Knows(p) /\ IsService(service) /\ service.obj \in Nat
         /\ pc[p] \in Places /\ result[p] \in Results /\ handle[p] \in Nat
         /\ next[p] \in 1..5 /\ IsSnap(snap[p])
         /\ handle[p] # 0 => service.there /\ handle[p] = service.obj
         /\ service.there => service.obj # 0
         /\ source \in BOOLEAN /\ mishaps \in 0..MaxMishaps
BY DEF IInv, Types, IsService, Knows, Held

LEMMA Idle ==
  ASSUME Types, NEW p \in Runs
  PROVE  /\ pc = [pc EXCEPT ![p] = pc[p]] /\ result = [result EXCEPT ![p] = result[p]]
         /\ handle = [handle EXCEPT ![p] = handle[p]] /\ next = [next EXCEPT ![p] = next[p]]
         /\ snap = [snap EXCEPT ![p] = snap[p]]
BY DEF Types

LEMMA SameIsSound ==
  ASSUME IInv, NEW p \in Runs, NEW l, NEW n, InWindow(p) => Window(p, l, n)
  PROVE  Sound(p, service, l, n)
BY At DEF Sound

LEMMA AroundIs ==
  ASSUME IInv, NEW p \in Runs, UNCHANGED <<rights, source, ours, meddled>>,
         mishaps' \in 0..MaxMishaps, Alone(p) \/ UNCHANGED <<service, alone>>
  PROVE  Around(p) /\ alone'[p] = alone[p]
<1>1. alone \in [Runs -> BOOLEAN] /\ source \in BOOLEAN
      /\ rights \subseteq {registration(s, "running").account : s \in Specs} \cup {"LocalSystem"}
  BY DEF IInv, Types
<1>2. alone' \in [Runs -> BOOLEAN] /\ alone'[p] = alone[p]
  BY <1>1 DEF Alone
<1>3. \A q \in Runs \ {p} : alone'[q] => alone[q] /\ service' = service
  BY <1>1 DEF Alone
<1>4. QED  BY <1>1, <1>2, <1>3 DEF Around

\* A process that ends where it is.
LEMMA EndKeeps ==
  ASSUME IInv, NEW p \in Runs, NEW r \in Results \ {"none"}, NEW h \in Nat,
         NEW s, IsSnap(s), s.obj = snap[p].obj, s.start = snap[p].start,
         Turns(p, pc[p], r, h, next[p], s),
         h # 0 => service.there /\ h = service.obj,
         NEW t, Sound(p, t, pc[p], next[p]), Becomes(t) \/ service' = t, Around(p)
  PROVE  IInv'
<1>1. Own(p, pc[p], r, h, next[p], s)
  BY At, TurnsIs
<1>2. Holding(p)' /\ Progress(p)'
  BY <1>1 DEF Own, Holding, Progress
<1>3. InPlace(p)'
  BY <1>1, At DEF Own, Knows, InPlace, Installs
<1>4. p \in Makers => pc[p] \in Applying /\ s.obj = 0
  BY DEF Makers
<1>5. QED  BY <1>1, <1>2, <1>3, <1>4, At, StepKeeps

\* Ends, over a snapshot that the step may have read.
LEMMA EndsKeep ==
  ASSUME IInv, NEW p \in Runs, NEW r \in Results \ {"none"},
         NEW s, IsSnap(s), s.obj = snap[p].obj, s.start = snap[p].start, snap' = [snap EXCEPT ![p] = s],
         Returns(p, r), Holds(p, 0), NEW t, Becomes(t), Alone(p),
         Sound(p, t, pc[p], next[p]),
         UNCHANGED <<rights, source, next, request, ours, meddled>>, mishaps' \in 0..MaxMishaps
  PROVE  IInv'
<1>1. Turns(p, pc[p], r, 0, next[p], s)
  BY At, Idle DEF Turns, Returns, Holds
<1>2. Around(p)
  BY AroundIs
<1>3. QED  BY <1>1, <1>2, EndKeeps

LEMMA FailsKeeps ==
  ASSUME IInv, NEW p \in Runs, NEW l, NEW r \in Results \ {"none"}, Fails(p, l, r)
  PROVE  IInv'
<1>1. /\ Returns(p, r) /\ Holds(p, 0) /\ Becomes(service) /\ Alone(p)
      /\ UNCHANGED <<rights, source, next, request, snap, ours, meddled>>
      /\ mishaps < MaxMishaps /\ mishaps' = mishaps + 1
  BY DEF Fails, Keeps
<1>2. snap' = [snap EXCEPT ![p] = snap[p]]
  BY <1>1, At, Idle
<1>3. mishaps' \in 0..MaxMishaps
  BY <1>1, At, ScmApplyAssumption
<1>4. Sound(p, service, pc[p], next[p])
  BY SameIsSound DEF InWindow, Window
<1>5. QED  BY <1>1, <1>2, <1>3, <1>4, At, EndsKeep

LEMMA CallFailsKeeps ==
  ASSUME IInv, NEW p \in Runs, CallFails(p)
  PROVE  IInv'
<1>1. {"undetermined", "RefuseUnusable", "error", "not_deleted", "unchanged", "not_stopped",
       "not_deleted_disabled"} \subseteq Results \ {"none"}
  BY DEF Results, Refusing
<1>2. PICK l, r : r \in Results \ {"none"} /\ Fails(p, l, r)
  <2>1. CASE \E l \in {"read", "parameters", "live", "create", "open", "change", "clear",
                 "write", "environ", "failure", "failureflag", "flip", "settle_marked"} :
           Fails(p, l, IF l \in {"read", "parameters"} THEN "undetermined"
                       ELSE IF l = "live" THEN "RefuseUnusable" ELSE "error")
    BY <1>1, <2>1
  <2>2. CASE \/ Fails(p, "read", "error") \/ Fails(p, "environment", "RefuseUnusable")
             \/ Fails(p, "actor", "not_deleted") \/ Fails(p, "disable", "unchanged")
             \/ Fails(p, "settle", "not_stopped") \/ Fails(p, "delete", "not_deleted_disabled")
    BY <1>1, <2>2
  <2>3. QED  BY <2>1, <2>2 DEF CallFails
<1>3. QED  BY <1>2, FailsKeeps

LEMMA CrashKeeps ==
  ASSUME IInv, NEW p \in Runs, Crash(p)
  PROVE  IInv'
<1>1. /\ Returns(p, "killed") /\ Holds(p, 0) /\ Becomes(service) /\ Alone(p)
      /\ UNCHANGED <<rights, source, next, request, snap, ours, meddled>>
      /\ mishaps < MaxMishaps /\ mishaps' = mishaps + 1
  BY DEF Crash, Ends, Keeps
<1>2. snap' = [snap EXCEPT ![p] = snap[p]] /\ "killed" \in Results \ {"none"}
  BY <1>1, At, Idle DEF Results
<1>3. mishaps' \in 0..MaxMishaps
  BY <1>1, At, ScmApplyAssumption
<1>4. Sound(p, service, pc[p], next[p])
  BY SameIsSound DEF InWindow, Window
<1>5. QED  BY <1>1, <1>2, <1>3, <1>4, At, EndsKeep

\* Ends with nothing read and nothing written, as most answers are.
LEMMA QuietEndKeeps ==
  ASSUME IInv, NEW p \in Runs, NEW r \in Results \ {"none"}, Ends(p, r), Keeps,
         UNCHANGED history
  PROVE  IInv'
<1>1. /\ Returns(p, r) /\ Holds(p, 0) /\ Becomes(service) /\ Alone(p)
      /\ UNCHANGED <<rights, source, next, request, snap, ours, meddled>>
      /\ mishaps' \in 0..MaxMishaps
  BY At DEF Ends, Keeps, history
<1>2. snap' = [snap EXCEPT ![p] = snap[p]]
  BY <1>1, At, Idle
<1>3. Sound(p, service, pc[p], next[p])
  BY SameIsSound DEF InWindow, Window
<1>4. QED  BY <1>1, <1>2, <1>3, At, EndsKeep
-----------------------------------------------------------------------------
(* Snapshots. *)

LEMMA SnapObj ==
  ASSUME NEW s, IsSnap(s), NEW x \in Nat
  PROVE  LET t == [s EXCEPT !.obj = x] IN
         IsSnap(t) /\ t.obj = x /\ t.start = s.start /\ t.written = s.written
BY DEF IsSnap

LEMMA SnapStart ==
  ASSUME NEW s, IsSnap(s), NEW x
  PROVE  LET t == [s EXCEPT !.start = x] IN
         IsSnap(t) /\ t.start = x /\ t.obj = s.obj /\ t.written = s.written
BY DEF IsSnap

LEMMA SnapParameters ==
  ASSUME NEW s, IsSnap(s), NEW x
  PROVE  LET t == [s EXCEPT !.parameters = x] IN
         IsSnap(t) /\ t.parameters = x /\ t.start = s.start /\ t.obj = s.obj /\ t.written = s.written
BY DEF IsSnap

LEMMA SnapLive ==
  ASSUME NEW s, IsSnap(s), NEW x
  PROVE  LET t == [s EXCEPT !.live = x] IN
         IsSnap(t) /\ t.live = x /\ t.start = s.start /\ t.obj = s.obj /\ t.written = s.written
BY DEF IsSnap

LEMMA SnapWritten ==
  ASSUME NEW s, IsSnap(s), NEW x \in Nat
  PROVE  LET t == [s EXCEPT !.written = x] IN
         IsSnap(t) /\ t.written = x /\ t.start = s.start /\ t.obj = s.obj
BY DEF IsSnap

LEMMA SnapAt ==
  ASSUME Types, NEW p \in Runs
  PROVE  /\ IsSnap(snap[p])
         /\ \A x : [snap EXCEPT ![p].start = x] = [snap EXCEPT ![p] = [snap[p] EXCEPT !.start = x]]
         /\ \A x : [snap EXCEPT ![p].parameters = x] = [snap EXCEPT ![p] = [snap[p] EXCEPT !.parameters = x]]
         /\ \A x : [snap EXCEPT ![p].live = x] = [snap EXCEPT ![p] = [snap[p] EXCEPT !.live = x]]
         /\ \A x : [snap EXCEPT ![p].written = x] = [snap EXCEPT ![p] = [snap[p] EXCEPT !.written = x]]
         /\ \A x, y : [snap EXCEPT ![p].obj = x, ![p].start = y]
                          = [snap EXCEPT ![p] = [[snap[p] EXCEPT !.obj = x] EXCEPT !.start = y]]
         /\ \A x, y : [snap EXCEPT ![p].live = x, ![p].parameters = y]
                          = [snap EXCEPT ![p] = [[snap[p] EXCEPT !.live = x] EXCEPT !.parameters = y]]
         /\ \A x, y : [snap EXCEPT ![p].written = x, ![p].start = y]
                          = [snap EXCEPT ![p] = [[snap[p] EXCEPT !.written = x] EXCEPT !.start = y]]
<1>1. IsSnap(snap[p]) /\ snap = [q \in Runs |-> snap[q]]
  BY DEF Types
<1>2. \A x : [snap EXCEPT ![p].start = x] = [snap EXCEPT ![p] = [snap[p] EXCEPT !.start = x]]
  OBVIOUS
<1>3. \A x : [snap EXCEPT ![p].parameters = x] = [snap EXCEPT ![p] = [snap[p] EXCEPT !.parameters = x]]
  OBVIOUS
<1>4. \A x : [snap EXCEPT ![p].live = x] = [snap EXCEPT ![p] = [snap[p] EXCEPT !.live = x]]
  OBVIOUS
<1>5. \A x : [snap EXCEPT ![p].written = x] = [snap EXCEPT ![p] = [snap[p] EXCEPT !.written = x]]
  OBVIOUS
<1>6. \A x, y : [snap EXCEPT ![p].obj = x, ![p].start = y]
                  = [snap EXCEPT ![p] = [[snap[p] EXCEPT !.obj = x] EXCEPT !.start = y]]
  BY <1>1
<1>7. \A x, y : [snap EXCEPT ![p].live = x, ![p].parameters = y]
                  = [snap EXCEPT ![p] = [[snap[p] EXCEPT !.live = x] EXCEPT !.parameters = y]]
  BY <1>1
<1>8. \A x, y : [snap EXCEPT ![p].written = x, ![p].start = y]
                  = [snap EXCEPT ![p] = [[snap[p] EXCEPT !.written = x] EXCEPT !.start = y]]
  BY <1>1
<1>9. QED  BY <1>1, <1>2, <1>3, <1>4, <1>5, <1>6, <1>7, <1>8

-----------------------------------------------------------------------------
(* Reading. *)

LEMMA RefuseKeeps ==
  ASSUME IInv, NEW p \in Runs, Refuse(p)
  PROVE  IInv'
<1>1. /\ Returns(p, "invalid") /\ UNCHANGED <<service, rights, source, handle, next, request, snap,
                                              alone, ours, meddled, mishaps>>
  BY DEF Refuse, external, history
<1>2. Turns(p, pc[p], "invalid", handle[p], next[p], snap[p]) /\ "invalid" \in Results \ {"none"}
  BY <1>1, At, Idle DEF Turns, Returns, Results
<1>3. Sound(p, service, pc[p], next[p]) /\ Around(p)
  BY <1>1, At, SameIsSound, AroundIs DEF InWindow, Window
<1>4. QED  BY <1>1, <1>2, <1>3, At, EndKeeps

LEMMA OpenKeeps ==
  ASSUME IInv, NEW p \in Runs, Open(p)
  PROVE  IInv'
<1>1. /\ pc[p] = "read" /\ result[p] = "none" /\ next[p] = 1 /\ handle[p] = 0
      /\ alone' = [alone EXCEPT ![p] = TRUE]
      /\ UNCHANGED <<service, rights, source, next, request, ours, meddled, mishaps>>
  BY At DEF Open, Runs_, external, history, Knows, InPlace, Holding
<1> DEFINE obj == IF service.there THEN service.obj ELSE 0
           read == [snap[p] EXCEPT !.obj = obj]
           s == [read EXCEPT !.start = service.start]
<1>2. obj \in Nat
  BY At
<1>3. snap' = [snap EXCEPT ![p] = s]
  BY At, SnapAt DEF Open
<1>4. IsSnap(s) /\ s.obj = obj
  <2>1. IsSnap(read) /\ read.obj = obj
    BY <1>2, At, SnapObj
  <2> HIDE DEF read
  <2>2. QED  BY <2>1, SnapStart
<1> HIDE DEF s, read
<1>5. Around(p)
  <2>1. alone \in [Runs -> BOOLEAN]
    BY DEF IInv, Types
  <2>2. alone' \in [Runs -> BOOLEAN] /\ \A q \in Runs \ {p} : alone'[q] = alone[q]
    BY <1>1, <2>1
  <2>3. QED  BY <1>1, <2>2 DEF Around, IInv, Types
<1>6. \A l, n : Sound(p, service, l, n)
  BY <1>1, SameIsSound DEF InWindow
<1>7. p \notin Makers
  BY <1>1 DEF Makers, Applying
<1>8. CASE service.there
  <2> DEFINE l == "parameters"
  <2>1. Turns(p, l, "none", obj, next[p], s) /\ l \in Places /\ "none" \in Results
    BY <1>1, <1>3, <1>8, At, Idle DEF Turns, Open, Kept, Holds, Goto, Places, Results
  <2>2. Own(p, l, "none", obj, next[p], s)
    BY <1>2, <1>4, <2>1, At, TurnsIs
  <2>3. InPlace(p)' /\ Holding(p)' /\ Progress(p)'
    BY <1>1, <1>4, <2>2 DEF Own, InPlace, Holding, Progress, Installing, Uninstalling, Applying, Installs
  <2>4. QED  BY <1>1, <1>2, <1>4, <1>5, <1>6, <1>7, <1>8, <2>1, <2>3, At, StepKeeps
<1>9. CASE ~service.there /\ Goto(p, "prepare") /\ Installs(p) /\ handle' = handle
  <2> DEFINE l == "prepare"
  <2>1. Turns(p, l, "none", 0, next[p], s) /\ l \in Places /\ "none" \in Results
    BY <1>1, <1>3, <1>9, At, Idle DEF Turns, Goto, Places, Results
  <2>2. Own(p, l, "none", 0, next[p], s)
    BY <1>4, <2>1, At, TurnsIs
  <2>3. InPlace(p)' /\ Holding(p)' /\ Progress(p)'
    BY <1>1, <1>4, <1>9, <2>2 DEF Own, InPlace, Holding, Progress, Installing, Uninstalling, Applying, Installs
  <2>4. QED  BY <1>1, <1>4, <1>5, <1>6, <1>7, <2>1, <2>3, At, StepKeeps
<1>10. CASE ~service.there /\ Returns(p, "not_installed") /\ handle' = handle
  <2> DEFINE r == "not_installed"
  <2>1. Turns(p, pc[p], r, 0, next[p], s) /\ r \in Results \ {"none"}
    BY <1>1, <1>3, <1>10, At, Idle DEF Turns, Returns, Results
  <2>2. Own(p, pc[p], r, 0, next[p], s)
    BY <1>4, <2>1, At, TurnsIs
  <2>3. InPlace(p)' /\ Holding(p)' /\ Progress(p)'
    BY <1>1, <1>4, <2>2 DEF Own, InPlace, Holding, Progress, Installing, Uninstalling, Applying, Installs
  <2>4. QED  BY <1>1, <1>4, <1>5, <1>6, <1>7, <2>1, <2>3, At, StepKeeps
<1>11. QED  BY <1>8, <1>9, <1>10 DEF Open

\* A step from a place to the next that writes nothing.
LEMMA ReadsOn ==
  ASSUME IInv, NEW p \in Runs, NEW l \in Places \ {"flip"}, NEW s, IsSnap(s),
         s.obj = snap[p].obj, s.start = snap[p].start, snap' = [snap EXCEPT ![p] = s],
         pc[p] \in {"parameters", "live", "environment"}, result[p] = "none",
         l \in {"live", "environment", "prepare"}, Installs(p), Goto(p, l),
         UNCHANGED <<service, rights, source, handle, next, request, alone, ours, meddled, mishaps>>
  PROVE  IInv'
<1>1. Turns(p, l, "none", handle[p], next[p], s) /\ "none" \in Results
  BY At, Idle DEF Turns, Goto, Results
<1>2. Own(p, l, "none", handle[p], next[p], s)
  BY <1>1, At, TurnsIs
<1>3. Around(p)
  BY At, AroundIs
<1>4. Sound(p, service, l, next[p]) /\ p \notin Makers
  BY SameIsSound DEF InWindow, Makers, Applying
<1>5. InPlace(p)' /\ Holding(p)' /\ Progress(p)'
  BY <1>2, At DEF Own, Knows, InPlace, Holding, Progress, Installing, Uninstalling, Applying, Installs
<1>6. QED  BY <1>1, <1>3, <1>4, <1>5, At, StepKeeps

LEMMA ReadLiveKeeps ==
  ASSUME IInv, NEW p \in Runs, ReadLive(p)
  PROVE  IInv'
<1> DEFINE s == [snap[p] EXCEPT !.live = service]
<1>1. IsSnap(s) /\ s.obj = snap[p].obj /\ s.start = snap[p].start
  BY At, SnapLive
<1>2. snap' = [snap EXCEPT ![p] = s]
  BY At, SnapAt DEF ReadLive
<1>3. pc[p] = "live" /\ result[p] = "none" /\ Installs(p) /\ Goto(p, "environment")
  BY At DEF ReadLive, Runs_, Knows, InPlace, Installing
<1>4. "environment" \in Places \ {"flip"}
  BY DEF Places
<1>5. UNCHANGED <<service, rights, source, handle, next, request, alone, ours, meddled, mishaps>>
  BY DEF ReadLive, external, history
<1> HIDE DEF s
<1>6. QED  BY <1>1, <1>2, <1>3, <1>4, <1>5, ReadsOn

LEMMA DecisionIs ==
  ASSUME NEW p, NEW force
  PROVE  Decision(p, force) \notin Writing
             => Decision(p, force) \in Results \ {"none", "done", "unchanged", "not_stopped",
                                                  "not_deleted_disabled"}
BY DEF Decision, decide, Writing, Results, Refusing

LEMMA ReadEnvironmentKeeps ==
  ASSUME IInv, NEW p \in Runs, ReadEnvironment(p)
  PROVE  IInv'
<1> DEFINE judged == [snap[p] EXCEPT !.live = Absent(0)]
           s == [judged EXCEPT !.parameters = Empty]
<1>1. IsSnap(s) /\ s.obj = snap[p].obj /\ s.start = snap[p].start
  <2>1. IsSnap(judged) /\ judged.obj = snap[p].obj /\ judged.start = snap[p].start
    BY At, SnapLive
  <2> HIDE DEF judged
  <2>2. QED  BY <2>1, SnapParameters
<1>2. snap' = [snap EXCEPT ![p] = s]
  BY At, SnapAt DEF ReadEnvironment
<1>3. /\ pc[p] = "environment" /\ result[p] = "none" /\ Installs(p)
      /\ UNCHANGED <<rights, source, next, request, ours, meddled, mishaps>>
  BY At DEF ReadEnvironment, Runs_, Knows, InPlace, Installing, history
<1> HIDE DEF s, judged
<1>4. PICK force \in BOOLEAN :
          IF Decision(p, force) \in Writing
          THEN Goto(p, "prepare") /\ UNCHANGED <<handle, service, alone>>
          ELSE Ends(p, Decision(p, force))
  BY DEF ReadEnvironment
<1>5. CASE Decision(p, force) \in Writing
  <2>1. "prepare" \in Places \ {"flip"}
    BY DEF Places
  <2>2. QED  BY <1>1, <1>2, <1>3, <1>4, <1>5, <2>1, ReadsOn
<1>6. CASE Decision(p, force) \notin Writing
  <2>1. Decision(p, force) \in Results \ {"none"}
    BY <1>6, DecisionIs
  <2>2. Sound(p, service, pc[p], next[p])
    BY SameIsSound DEF InWindow, Window
  <2>3. QED  BY <1>1, <1>2, <1>3, <1>4, <1>6, <2>1, <2>2, At, EndsKeep DEF Ends
<1>7. QED  BY <1>5, <1>6

LEMMA OwnershipIs ==
  ASSUME NEW params
  PROVE  Ownership(params) # "Ours" => Settled[Ownership(params)] \in Refusing
BY DEF Ownership, Settled, Refusing

LEMMA ReadParametersKeeps ==
  ASSUME IInv, NEW p \in Runs, ReadParameters(p)
  PROVE  IInv'
<1> DEFINE s == [snap[p] EXCEPT !.parameters = service.parameters]
           owned == Ownership(service.parameters)
<1>1. IsSnap(s) /\ s.obj = snap[p].obj /\ s.start = snap[p].start
  BY At, SnapParameters
<1>2. snap' = [snap EXCEPT ![p] = s]
  BY At, SnapAt DEF ReadParameters
<1>3. /\ pc[p] = "parameters" /\ result[p] = "none" /\ next[p] = 1
      /\ UNCHANGED <<rights, source, next, request, ours, meddled, mishaps>>
  BY At DEF ReadParameters, Runs_, history, Knows, InPlace
<1>4. \A l, n : Sound(p, service, l, n)
  BY <1>3, SameIsSound DEF InWindow
<1>5. p \notin Makers
  BY <1>3 DEF Makers, Applying
<1>6. mishaps' \in 0..MaxMishaps
  BY <1>3, At
<1> HIDE DEF s
<1>7. ASSUME NEW r \in Results \ {"none"}, Ends(p, r) PROVE IInv'
  BY <1>1, <1>2, <1>3, <1>4, <1>6, <1>7, EndsKeep DEF Ends
<1>8. CASE Installs(p)
  <2>1. CASE owned = "Ours"
    <3>1. Goto(p, "live") /\ UNCHANGED <<handle, service, alone>> /\ "live" \in Places \ {"flip"}
      BY <1>8, <2>1 DEF ReadParameters, Places
    <3>2. QED  BY <1>1, <1>2, <1>3, <1>8, <3>1, ReadsOn
  <2>2. CASE owned # "Ours"
    <3>1. Ends(p, Settled[owned])
      BY <1>8, <2>2 DEF ReadParameters
    <3>2. Settled[owned] \in Results \ {"none"}
      BY <2>2, OwnershipIs DEF Results, Refusing
    <3>3. QED  BY <1>7, <3>1, <3>2
  <2>3. QED  BY <2>1, <2>2
<1>9. CASE Ends(p, "foreign")
  BY <1>7, <1>9 DEF Results
<1>10. CASE /\ request[p].verb = "uninstall" /\ ~Installs(p)
            /\ Goto(p, "actor") /\ Holds(p, 0) /\ Becomes(service) /\ Alone(p)
  <2>1. Turns(p, "actor", "none", 0, next[p], s) /\ "actor" \in Places /\ "none" \in Results
    BY <1>2, <1>3, <1>10, At, Idle DEF Turns, Holds, Goto, Places, Results
  <2>2. Own(p, "actor", "none", 0, next[p], s)
    BY <1>1, <2>1, At, TurnsIs
  <2>3. Around(p)
    BY <1>3, <1>6, <1>10, AroundIs
  <2>4. InPlace(p)' /\ Holding(p)' /\ Progress(p)'
    BY <1>3, <1>10, <2>2 DEF Own, InPlace, Holding, Progress, Installing, Uninstalling, Applying, Installs
  <2>5. QED  BY <1>1, <1>4, <1>5, <1>10, <2>1, <2>3, <2>4, At, StepKeeps
<1>11. CASE /\ request[p].verb # "uninstall" /\ ~Installs(p)
            /\ Goto(p, "flip") /\ UNCHANGED <<handle, service, alone>>
  <2>1. Turns(p, "flip", "none", handle[p], next[p], s) /\ "flip" \in Places /\ "none" \in Results
    BY <1>2, <1>3, <1>11, At, Idle DEF Turns, Goto, Places, Results
  <2>2. Own(p, "flip", "none", handle[p], next[p], s)
    BY <1>1, <2>1, At, TurnsIs
  <2>3. Around(p)
    BY <1>3, <1>6, <1>11, AroundIs
  <2>4. request[p].verb \in {"enable", "disable"}
    <3>1. request[p] \in Requests
      BY DEF IInv, Types
    <3>2. request[p].verb \in Verbs
      BY <3>1 DEF Requests
    <3>3. QED  BY <1>11, <3>2, ScmApplyAssumption DEF Installs
  <2>5. InPlace(p)' /\ Holding(p)' /\ Progress(p)'
    BY <1>3, <1>11, <2>2, <2>4 DEF Own, InPlace, Holding, Progress, Installing, Uninstalling, Applying, Installs
  <2>6. QED  BY <1>1, <1>4, <1>5, <1>11, <2>1, <2>3, <2>5, At, StepKeeps
<1>12. QED  BY <1>8, <1>9, <1>10, <1>11 DEF ReadParameters
-----------------------------------------------------------------------------
(* apply. *)

LEMMA DesiredIs ==
  ASSUME IInv, NEW p \in Runs, Installs(p)
  PROVE  /\ request[p].spec \in Specs
         /\ desired(p).account \in {registration(s, "running").account : s \in Specs}
         /\ Secret(p) = account_needs_password(desired(p).account) /\ Secret(p) \in BOOLEAN
<1>1. request[p] \in Requests
  BY DEF IInv, Types
<1>2. request[p].spec \in Specs
  BY <1>1 DEF Requests, Installs
<1>3. QED  BY <1>2 DEF desired, Secret, account_needs_password

LEMMA PrepareKeeps ==
  ASSUME IInv, NEW p \in Runs, Prepare(p)
  PROVE  IInv'
<1> DEFINE account == desired(p).account
           granted == rights \cup {a \in {account} : account_needs_password(a)}
           Accounts == {registration(s, "running").account : s \in Specs} \cup {"LocalSystem"}
<1>1. /\ pc[p] = "prepare" /\ result[p] = "none" /\ next[p] = 1 /\ Installs(p)
      /\ handle[p] = snap[p].obj
      /\ UNCHANGED <<next, snap, request, ours, meddled>>
  BY At DEF Prepare, Runs_, Knows, InPlace, Installing, Holding
<1>2. account \in Accounts /\ rights \subseteq Accounts /\ source \in BOOLEAN
  BY <1>1, At, DesiredIs DEF Types
<1>3. \A l, n : Sound(p, service, l, n)
  BY <1>1, SameIsSound DEF InWindow
<1>4. snap' = [snap EXCEPT ![p] = snap[p]]
  BY <1>1, At, Idle
<1>5. {"password", "error"} \subseteq Results \ {"none"}
  BY DEF Results
<1>6. alone \in [Runs -> BOOLEAN]
  BY At DEF Types
<1>7. CASE Ends(p, "password") /\ UNCHANGED <<rights, source, mishaps>>
  BY <1>1, <1>3, <1>4, <1>5, <1>7, At, EndsKeep DEF Ends
<1>8. CASE /\ rights' = granted /\ source' = TRUE
           /\ Goto(p, IF snap[p].obj = 0 THEN "create" ELSE "open")
           /\ UNCHANGED <<handle, service, alone, mishaps>>
  <2> DEFINE l == IF snap[p].obj = 0 THEN "create" ELSE "open"
  <2>1. l \in Places /\ "none" \in Results /\ l \in {"create", "open"}
    BY DEF Places, Results
  <2>2. Turns(p, l, "none", handle[p], next[p], snap[p])
    BY <1>1, <1>4, <1>8, At, Idle DEF Turns, Goto
  <2>3. Own(p, l, "none", handle[p], next[p], snap[p])
    BY <2>1, <2>2, At, TurnsIs
  <2>4. Around(p)
    BY <1>1, <1>2, <1>6, <1>8, At DEF Around
  <2>5. p \notin Makers
    BY <1>1 DEF Makers, Applying
  <2>6. desired(p)' = desired(p)
    BY <1>1 DEF desired
  <2>7. InPlace(p)' /\ Holding(p)' /\ Progress(p)'
    BY <1>1, <1>8, <2>1, <2>3, <2>6
       DEF Own, InPlace, Holding, Progress, Installing, Uninstalling, Applying, Installs
  <2>8. QED  BY <1>3, <1>8, <2>1, <2>2, <2>4, <2>5, <2>7, At, StepKeeps
<1>9. CASE /\ mishaps < MaxMishaps /\ mishaps' = mishaps + 1
           /\ UNCHANGED rights \/ rights' = granted
           /\ Ends(p, "error") /\ UNCHANGED source
  <2>1. mishaps' \in 0..MaxMishaps
    BY <1>9, At, ScmApplyAssumption
  <2>2. rights \subseteq rights' /\ rights' \subseteq Accounts
    BY <1>2, <1>9
  <2>3. Around(p)
    BY <1>1, <1>2, <1>6, <1>9, <2>1, <2>2 DEF Around, Ends, Alone
  <2>4. Turns(p, pc[p], "error", 0, next[p], snap[p])
    BY <1>1, <1>4, <1>9, At, Idle DEF Turns, Ends, Returns, Holds
  <2>5. QED  BY <1>3, <1>5, <1>9, <2>3, <2>4, At, EndKeeps DEF Ends
<1>10. QED
  BY <1>7, <1>8, <1>9 DEF Prepare, grant_service_logon_right, register_event_source

LEMMA CreateKeeps ==
  ASSUME IInv, NEW p \in Runs, Create(p)
  PROVE  IInv'
<1>1. /\ pc[p] = "create" /\ result[p] = "none" /\ next[p] = 1 /\ Installs(p)
      /\ snap[p].obj = 0 /\ handle[p] = 0 /\ source
      /\ account_needs_password(desired(p).account) => desired(p).account \in rights
      /\ UNCHANGED <<rights, source, next, snap, request, meddled, mishaps>>
  BY At DEF Create, Runs_, history, Knows, InPlace, Installing, Holding
<1>2. snap' = [snap EXCEPT ![p] = snap[p]]
  BY <1>1, At, Idle
<1>3. CASE service.there
  <2>1. \A l, n : Sound(p, service, l, n)
    BY <1>1, SameIsSound DEF InWindow
  <2>2. "error" \in Results \ {"none"} /\ Ends(p, "error") /\ UNCHANGED ours
    BY <1>3 DEF Create, Results
  <2>3. QED  BY <1>1, <1>2, <2>1, <2>2, At, EndsKeep DEF Ends
<1>4. CASE ~service.there
  <2> DEFINE obj == service.obj + 1
             t == Created(obj, desired(p), Secret(p))
  <2>1. /\ Goto(p, "clear") /\ handle' = handle /\ service' = t
        /\ ours' = ours \cup {obj} /\ Alone(p)
    BY <1>4 DEF Create
  <2>2. obj \in Nat /\ obj # 0 /\ obj # service.obj /\ service.obj <= obj
    BY At
  <2>3. Secret(p) \in BOOLEAN /\ Secret(p) = account_needs_password(desired(p).account)
    BY <1>1, DesiredIs
  <2> DEFINE wanted == desired(p)
             secret == Secret(p)
  <2> HIDE DEF wanted, secret, obj
  <2>4. /\ IsService(t) /\ t.there /\ t.obj = obj /\ ~t.marked
        /\ t.image = wanted.image /\ t.start = "demand" /\ t.account = wanted.account
        /\ t.secret = secret /\ t.parameters = Empty
    BY <2>2, <2>3, CreatedIs DEF wanted, secret
  <2> HIDE DEF t
  <2>5. Turns(p, "clear", "none", handle[p], next[p], snap[p])
        /\ "clear" \in Places /\ "none" \in Results
    BY <1>1, <1>2, <2>1, At, Idle DEF Turns, Goto, Places, Results
  <2>6. /\ Own(p, "clear", "none", handle[p], next[p], snap[p]) /\ Others(p)
        /\ pc' \in [Runs -> Places] /\ result' \in [Runs -> Results]
        /\ handle' \in [Runs -> Nat] /\ next' \in [Runs -> 1..5]
        /\ \A q \in Runs : IsSnap(snap'[q])
        /\ snap' = [q \in Runs |-> snap'[q]]
    BY <2>5, At, TurnsIs
  <2>7. service' # service
    BY <2>1, <2>2, <2>4
  <2>8. alone \in [Runs -> BOOLEAN]
    BY At DEF Types
  <2>9. alone' \in [Runs -> BOOLEAN] /\ \A q \in Runs \ {p} : ~alone'[q]
    BY <2>1, <2>7, <2>8 DEF Alone
  <2>10. desired(p)' = wanted /\ Installs(p)'
    BY <1>1 DEF desired, wanted, Installs
  <2>11. Types'
    <3>1. Makers' = Makers \cup {p} /\ p \notin Makers
      BY <1>1, <2>6 DEF Makers, Own, Others, Applying
    <3>2. IsFiniteSet(Makers)
      BY ScmApplyAssumption, FS_Subset DEF Makers
    <3>3. Cardinality(Makers') = Cardinality(Makers) + 1 /\ Cardinality(Makers) \in Nat
      BY <3>1, <3>2, FS_AddElement, FS_CardinalityType
    <3>4. service.obj <= 1 + Cardinality(Makers) + meddled /\ meddled \in Nat
      BY At, ScmApplyAssumption DEF Types
    <3>5. service'.obj <= 1 + Cardinality(Makers)' + meddled'
      BY <1>1, <2>1, <2>4, <3>3, <3>4, At DEF obj
    <3>6. ours' \subseteq 1..service'.obj
      BY <2>1, <2>2, <2>4, At DEF Types
    <3>7. QED  BY <1>1, <2>1, <2>4, <2>6, <2>9, <3>5, <3>6, At DEF Types
  <2>12. UnmarkedIsWindow'
    BY <1>1, <2>6, <2>10 DEF UnmarkedIsWindow, InWindow, Own
  <2>13. CanLogOn'
    BY <1>1, <2>1, <2>3, <2>4 DEF CanLogOn, wanted, secret
  <2>14. ASSUME NEW q \in Runs \ {p} PROVE Knows(q)'
    <3>1. handle[q] = 0
      BY <1>4, At
    <3>2. QED  BY <1>1, <2>6, <2>9, <3>1, OthersKnow
  <2>15. InPlace(p)' /\ Holding(p)' /\ Held(p)'
    BY <1>1, <2>6, <2>10
       DEF Own, InPlace, Holding, Held, Installing, Uninstalling, Applying, Installs
  <2>16. Progress(p)'
    BY <1>1, <2>1, <2>4, <2>6, <2>10 DEF Own, Progress, Made, Shows, Applying
  <2>17. QED  BY <2>11, <2>12, <2>13, <2>14, <2>15, <2>16 DEF IInv, Knows
<1>5. QED  BY <1>3, <1>4

LEMMA OpenToUpdateKeeps ==
  ASSUME IInv, NEW p \in Runs, OpenToUpdate(p)
  PROVE  IInv'
<1> DEFINE s == [snap[p] EXCEPT !.start = service.start]
<1>1. IsSnap(s) /\ s.obj = snap[p].obj /\ s.start = service.start
  BY At, SnapStart
<1>2. snap' = [snap EXCEPT ![p] = s]
  BY At, SnapAt DEF OpenToUpdate
<1> HIDE DEF s
<1>3. /\ pc[p] = "open" /\ result[p] = "none" /\ next[p] = 1 /\ Installs(p)
      /\ handle[p] = snap[p].obj /\ snap[p].obj # 0 /\ Goto(p, "change")
      /\ source /\ (account_needs_password(desired(p).account) => desired(p).account \in rights)
      /\ UNCHANGED <<service, rights, source, handle, next, request, alone, ours, meddled, mishaps>>
  BY At DEF OpenToUpdate, external, history, Runs_, Knows, InPlace, Installing, Holding
<1>4. Turns(p, "change", "none", handle[p], next[p], s) /\ "change" \in Places /\ "none" \in Results
  BY <1>2, <1>3, At, Idle DEF Turns, Goto, Places, Results
<1>5. Own(p, "change", "none", handle[p], next[p], s)
  BY <1>1, <1>4, At, TurnsIs
<1>6. Around(p) /\ Sound(p, service, "change", next[p]) /\ p \notin Makers
  BY <1>3, At, AroundIs, SameIsSound DEF InWindow, Makers, Applying
<1>7. service.start \in StartTypes /\ desired(p)' = desired(p)
  BY <1>3, At DEF IsService, desired
<1>8. InPlace(p)' /\ Holding(p)' /\ Progress(p)'
  BY <1>1, <1>3, <1>5, <1>7
     DEF Own, InPlace, Holding, Progress, Installing, Uninstalling, Applying, Installs
<1>9. QED  BY <1>1, <1>3, <1>4, <1>6, <1>8, At, StepKeeps
\* What p, holding the service or alone with it, makes of it is there.
LEMMA WriteIs ==
  ASSUME IInv, NEW p \in Runs, NEW t, IsService(t), t.there = service.there, t.obj = service.obj,
         Becomes(t) \/ service' = t, handle'[p] = handle[p],
         handle[p] = snap[p].obj, snap[p].obj = 0 => ~t.marked
  PROVE  service' = t
<1>1. /\ service' = t \/ (service' = Absent(service.obj) /\ t.marked)
      /\ \A q \in Runs : handle'[q] = service.obj => service' = t
  BY At, BecomesIs
<1>2. snap[p].obj # 0 => handle'[p] = service.obj
  BY At
<1>3. QED  BY <1>1, <1>2

\* A write of an install, from a place of its writing to the next.
LEMMA WriteKeeps ==
  ASSUME IInv, NEW p \in Runs, pc[p] \in Applying, result[p] = "none",
         NEW l \in {"write", "environ", "failure", "failureflag"}, NEW n \in 1..5,
         NEW s, IsSnap(s), s.obj = snap[p].obj, s.start = snap[p].start,
         snap' = [snap EXCEPT ![p] = s], next' = [next EXCEPT ![p] = n],
         Goto(p, l), UNCHANGED <<rights, source, handle, request, ours, meddled, mishaps>>,
         NEW t, Becomes(t), Alone(p),
         Like(service, t),
         HasMarker(service.parameters) => HasMarker(t.parameters) \/ Window(p, l, n),
         InWindow(p) => Window(p, l, n) \/ HasMarker(t.parameters),
         l = "write" => n \in 1..4,
         alone[p] => Shows(p, t, l, n)
  PROVE  IInv'
<1>1. Installs(p) /\ handle[p] = snap[p].obj
  BY At DEF Knows, InPlace, Holding, Installing, Applying
<1>2. l \in Places /\ "none" \in Results /\ l \in Applying
  BY DEF Places, Results, Applying
<1>3. Turns(p, l, "none", handle[p], n, s)
  BY At, Idle DEF Turns, Goto
<1>4. Own(p, l, "none", handle[p], n, s)
  BY <1>2, <1>3, At, TurnsIs
<1>5. Around(p) /\ alone'[p] = alone[p]
  BY At, AroundIs
<1>6. Sound(p, t, l, n)
  BY DEF Sound, Like
<1>7. p \in Makers => s.obj = 0
  BY DEF Makers
<1>8. InPlace(p)'
  BY <1>1, <1>2, <1>4 DEF Own, InPlace, Installing, Uninstalling, Applying, Installs
<1>9. Holding(p)'
  BY <1>1, <1>2, <1>4 DEF Own, Holding, Applying, Installs
<1>10. Progress(p)'
  <2>1. CASE ~alone[p]
    BY <1>5, <2>1 DEF Progress
  <2>2. CASE alone[p]
    <3>1. Made(p, service)
      BY <2>2, At DEF Knows, Progress
    <3>2. service' = t
      BY <1>1, <1>4, <3>1, WriteIs DEF Own, Made, Like
    <3>3. desired(p)' = desired(p)
      BY <1>4 DEF Own, desired
    <3>4. Made(p, service)'
      BY <1>4, <3>1, <3>2, <3>3 DEF Made, Own, Like
    <3>5. Shows(p, service, pc[p], next[p])'
      BY <1>4, <2>2, <3>2, <3>3 DEF Shows, Written, Own
    <3>6. pc'[p] \notin {"disable", "settle", "delete"}
      BY <1>4 DEF Own
    <3>7. QED  BY <3>4, <3>5, <3>6 DEF Progress
  <2>3. QED  BY <2>1, <2>2
<1>11. QED
  BY <1>2, <1>3, <1>5, <1>6, <1>7, <1>8, <1>9, <1>10, At, StepKeeps

LEMMA ChangeConfigKeeps ==
  ASSUME IInv, NEW p \in Runs, ChangeConfig(p)
  PROVE  IInv'
<1>1. /\ pc[p] = "change" /\ result[p] = "none" /\ next[p] = 1 /\ Installs(p)
      /\ handle[p] = snap[p].obj /\ snap[p].obj # 0 /\ snap[p].start \in StartTypes
      /\ source /\ (account_needs_password(desired(p).account) => desired(p).account \in rights)
      /\ UNCHANGED <<rights, source, next, snap, request, ours, meddled, mishaps>>
  BY At DEF ChangeConfig, Keeps, history, Runs_, Knows, InPlace, Installing, Holding
<1>2. CASE service.marked
  <2>1. Ends(p, "error") /\ "error" \in Results \ {"none"}
    BY <1>2 DEF ChangeConfig, Results
  <2>2. QED  BY <2>1, QuietEndKeeps DEF ChangeConfig
<1>3. CASE ~service.marked
  <2> DEFINE wanted == desired(p)
             secret == Secret(p)
             start == snap[p].start
             t == Changed(service, wanted, start, secret)
  <2>1. Goto(p, "clear") /\ handle' = handle /\ Becomes(t) /\ Alone(p)
    BY <1>3 DEF ChangeConfig
  <2>2. service.there /\ service.obj # 0 /\ service.obj = handle[p]
    BY <1>1, At
  <2>3. secret \in BOOLEAN /\ secret = account_needs_password(wanted.account)
    BY <1>1, DesiredIs
  <2>4. start \in StartTypes
    BY <1>1
  <2> HIDE DEF wanted, secret, start
  <2>5. /\ IsService(t) /\ t.there /\ t.obj = service.obj /\ t.marked = service.marked
        /\ t.image = wanted.image /\ t.start = start /\ t.account = wanted.account
        /\ t.secret = secret /\ t.parameters = service.parameters
    BY <2>2, <2>3, <2>4, At, ServiceInfoIs DEF Changed
  <2> HIDE DEF t
  <2>6. LogsOnNext(t)
    BY <1>1, <2>3, <2>5 DEF LogsOnNext, wanted
  <2>7. Sound(p, t, "clear", next[p])
    BY <1>1, <2>2, <2>5, <2>6 DEF Sound, InWindow
  <2>8. Around(p) /\ p \notin Makers
    BY <1>1, <2>1, At, AroundIs DEF Makers
  <2>9. Turns(p, "clear", "none", handle[p], next[p], snap[p])
        /\ "clear" \in Places /\ "none" \in Results
    BY <1>1, <2>1, At, Idle DEF Turns, Goto, Places, Results
  <2>10. Own(p, "clear", "none", handle[p], next[p], snap[p])
    BY <2>9, At, TurnsIs
  <2>11. service' = t
    BY <1>1, <2>1, <2>2, <2>5, WriteIs
  <2>12. desired(p)' = wanted /\ Installs(p)'
    BY <1>1 DEF desired, wanted, Installs
  <2>13. InPlace(p)' /\ Holding(p)'
    BY <1>1, <2>10, <2>12
       DEF Own, InPlace, Holding, Installing, Uninstalling, Applying, Installs
  <2>14. Progress(p)'
    BY <1>1, <2>5, <2>10, <2>11, <2>12 DEF Own, Progress, Made, Shows, Applying, start
  <2>15. QED  BY <2>1, <2>2, <2>7, <2>8, <2>9, <2>13, <2>14, At, StepKeeps
<1>4. QED  BY <1>2, <1>3

LEMMA OrderIs ==
  /\ Order[1] = "Marker" /\ Order[2] = "Schema" /\ Order[3] = "Spec" /\ Order[4] = "Version"
  /\ Len(Order) = 4
  /\ \A n \in 1..4 : Order[n] \in {"Marker", "Schema", "Spec", "Version"}
<1>1. /\ Order[1] = "Marker" /\ Order[2] = "Schema" /\ Order[3] = "Spec" /\ Order[4] = "Version"
      /\ Len(Order) = 4
  BY DEF Order
<1>2. \A n \in 1..4 : n = 1 \/ n = 2 \/ n = 3 \/ n = 4
  OBVIOUS
<1>3. QED  BY <1>1, <1>2

LEMMA WrittenNone ==
  ASSUME NEW p
  PROVE  Written(p, 1) = Empty
<1>1. {Order[i] : i \in 1..(1 - 1)} = {}
  OBVIOUS
<1>2. QED  BY <1>1 DEF Written, Empty

LEMMA WrittenNext ==
  ASSUME NEW p, NEW n \in 1..4
  PROVE  Written(p, n + 1) =
             [k \in DOMAIN Written(p, n) \cup {Order[n]} |->
                  IF k = Order[n] THEN desired(p).parameters[Order[n]] ELSE Written(p, n)[k]]
<1> DEFINE want == desired(p).parameters
           D == {Order[i] : i \in 1..(n - 1)}
<1>1. 1..((n + 1) - 1) = 1..(n - 1) \cup {n}
  OBVIOUS
<1>2. {Order[i] : i \in 1..((n + 1) - 1)} = D \cup {Order[n]}
  BY <1>1
<1>3. Written(p, n) = [k \in D |-> want[k]]
  BY DEF Written
<1>4. Written(p, n + 1) = [k \in D \cup {Order[n]} |-> want[k]]
  BY <1>2 DEF Written
<1> HIDE DEF D, want
<1>5. QED  BY <1>3, <1>4 DEF want

LEMMA WrittenAll ==
  ASSUME NEW p
  PROVE  Written(p, 5) = desired(p).parameters
<1> DEFINE want == desired(p).parameters
<1>1. /\ DOMAIN want = {"Marker", "Schema", "Spec", "Version"}
      /\ want = [k \in DOMAIN want |-> want[k]]
  BY DEF desired, registration, parameters
<1>2. 1..(5 - 1) = {1, 2, 3, 4}
  OBVIOUS
<1>3. {Order[i] : i \in 1..(5 - 1)} = {"Marker", "Schema", "Spec", "Version"}
  BY <1>2, OrderIs
<1>4. Written(p, 5) = [k \in {Order[i] : i \in 1..(5 - 1)} |-> want[k]]
  BY DEF Written
<1> HIDE DEF want
<1>5. QED  BY <1>1, <1>3, <1>4 DEF want

LEMMA ClearParametersKeeps ==
  ASSUME IInv, NEW p \in Runs, ClearParameters(p)
  PROVE  IInv'
<1>1. /\ pc[p] = "clear" /\ result[p] = "none" /\ next[p] = 1 /\ Installs(p)
      /\ UNCHANGED <<rights, source, next, request, ours, meddled>>
  BY At DEF ClearParameters, Runs_, Knows, InPlace, Installing, Applying
<1> DEFINE s == [snap[p] EXCEPT !.written = service.obj]
           e == Empty
           t == [service EXCEPT !.parameters = e]
<1>2. IsSnap(s) /\ s.obj = snap[p].obj /\ s.start = snap[p].start
  BY At, SnapWritten
<1>3. IsParameters(e)
  BY EmptyIs
<1> HIDE DEF e
<1>4. Like(service, t) /\ t.parameters = e
  BY <1>3, At, SetParameters DEF Like
<1>5. CASE ~service.there
  <2>1. Ends(p, "error") /\ UNCHANGED <<snap, mishaps>> /\ "error" \in Results \ {"none"}
    BY <1>5 DEF ClearParameters, Results
  <2>2. QED  BY <1>1, <2>1, QuietEndKeeps DEF Keeps, history
<1>6. CASE service.there /\ Goto(p, "write") /\ UNCHANGED <<handle, mishaps>> /\ Becomes(t) /\ Alone(p)
  <2>1. snap' = [snap EXCEPT ![p] = s]
    BY <1>6, At, SnapAt DEF ClearParameters
  <2>2. next' = [next EXCEPT ![p] = 1]
    BY <1>1, At, Idle
  <2>3. Shows(p, t, "write", 1)
    BY <1>1, <1>4, WrittenNone DEF Shows, e
  <2>4. Window(p, "write", 1)
    BY <1>1 DEF Window
  <2>5. pc[p] \in Applying /\ 1 \in 1..5 /\ 1 \in 1..4
    BY <1>1 DEF Applying
  <2> HIDE DEF t, s
  <2>6. QED
    BY <1>1, <1>2, <1>4, <1>6, <2>1, <2>2, <2>3, <2>4, <2>5, WriteKeeps
<1>7. CASE /\ service.there /\ mishaps < MaxMishaps /\ mishaps' = mishaps + 1
           /\ Holds(p, 0) /\ Returns(p, "error") /\ Becomes(t) /\ Alone(p)
  <2>1. snap' = [snap EXCEPT ![p] = s]
    BY <1>7, At, SnapAt DEF ClearParameters
  <2>2. Window(p, pc[p], next[p])
    BY <1>1 DEF Window
  <2>3. Sound(p, t, pc[p], next[p])
    BY <1>4, <2>2 DEF Sound, Like
  <2>4. mishaps' \in 0..MaxMishaps /\ "error" \in Results \ {"none"}
    BY <1>7, At, ScmApplyAssumption DEF Results
  <2> HIDE DEF t, s
  <2>5. QED  BY <1>1, <1>2, <1>7, <2>1, <2>3, <2>4, EndsKeep
<1>8. QED  BY <1>5, <1>6, <1>7 DEF ClearParameters, Cleared, e

LEMMA WriteParameterKeeps ==
  ASSUME IInv, NEW p \in Runs, WriteParameter(p)
  PROVE  IInv'
<1>1. /\ pc[p] = "write" /\ result[p] = "none" /\ next[p] \in 1..4 /\ Installs(p)
      /\ UNCHANGED <<rights, source, snap, request, ours, meddled, mishaps>>
  BY At DEF WriteParameter, Runs_, history, Knows, InPlace, Installing, Applying
<1>2. snap' = [snap EXCEPT ![p] = snap[p]]
  BY <1>1, At, Idle
<1>3. CASE ~service.there \/ service.obj # snap[p].written
  <2>1. Ends(p, "error") /\ UNCHANGED next /\ "error" \in Results \ {"none"}
    BY <1>3 DEF WriteParameter, Results
  <2>2. QED  BY <1>1, <2>1, QuietEndKeeps DEF Keeps, history
<1>4. CASE service.there /\ service.obj = snap[p].written
  <2> DEFINE f == Order[next[p]]
             value == desired(p).parameters[f]
             old == service.parameters
             x == [k \in DOMAIN old \cup {f} |-> IF k = f THEN value ELSE old[k]]
             t == [service EXCEPT !.parameters = x]
             n == next[p] + 1
             l == IF next[p] = 4 THEN "environ" ELSE "write"
  <2>1. /\ next' = [next EXCEPT ![p] = n] /\ handle' = handle /\ Alone(p)
        /\ Goto(p, l) /\ Becomes(t)
    BY <1>4, OrderIs DEF WriteParameter, Field
  <2>2. f \in {"Marker", "Schema", "Spec", "Version"} /\ (next[p] = 1 => f = "Marker")
    BY <1>1, OrderIs
  <2>3. n \in 1..5 /\ (l = "write" => n \in 1..4) /\ l \in {"write", "environ"}
    BY <1>1
  <2>4. IsParameters(old)
    BY At DEF IsService
  <2>5. alone[p] => old = Written(p, next[p])
    BY <1>1, At DEF Knows, Progress, Shows, Applying
  <2>6. alone[p] => x = Written(p, n)
    <3>1. Written(p, n) = [k \in DOMAIN Written(p, next[p]) \cup {f} |->
                               IF k = f THEN value ELSE Written(p, next[p])[k]]
      BY <1>1, WrittenNext
    <3> HIDE DEF f, value, n
    <3>2. QED  BY <2>5, <3>1
  <2>7. alone[p] /\ l = "environ" => x = desired(p).parameters
    <3>1. l = "environ" => n = 5
      BY <1>1
    <3> HIDE DEF x, n, l
    <3>2. QED  BY <2>6, <3>1, WrittenAll
  <2> HIDE DEF f, value, old
  <2>8. IsParameters(x)
    BY <2>2, <2>4 DEF IsParameters, Folded
  <2>9. HasMarker(old) => HasMarker(x)
    BY DEF HasMarker, Spelled
  <2>10. next[p] = 1 => HasMarker(x)
    BY <2>2 DEF HasMarker, Spelled, Folded
  <2> HIDE DEF x
  <2>11. Like(service, t) /\ t.parameters = x
    BY <2>8, At, SetParameters DEF Like
  <2> HIDE DEF t
  <2>12. alone[p] => Shows(p, t, l, n)
    BY <2>3, <2>6, <2>7, <2>11 DEF Shows
  <2>13. InWindow(p) => HasMarker(t.parameters)
    BY <2>10, <2>11 DEF InWindow
  <2> HIDE DEF n, l
  <2>14. QED
    BY <1>1, <1>2, <2>1, <2>3, <2>9, <2>11, <2>12, <2>13, At, WriteKeeps DEF Applying, old
<1>5. QED  BY <1>3, <1>4

LEMMA WriteEnvironmentKeeps ==
  ASSUME IInv, NEW p \in Runs, WriteEnvironment(p)
  PROVE  IInv'
<1>1. /\ pc[p] = "environ" /\ result[p] = "none"
      /\ UNCHANGED <<rights, source, next, snap, request, ours, meddled, mishaps>>
  BY At DEF WriteEnvironment, Keeps, Runs_, history
<1>2. snap' = [snap EXCEPT ![p] = snap[p]] /\ next' = [next EXCEPT ![p] = next[p]]
  BY <1>1, At, Idle
<1>3. CASE ~service.there
  <2>1. Ends(p, "error") /\ "error" \in Results \ {"none"}
    BY <1>3 DEF WriteEnvironment, Results
  <2>2. QED  BY <2>1, QuietEndKeeps DEF WriteEnvironment
<1>4. CASE service.there
  <2> DEFINE lines == desired(p).environment
             t == [service EXCEPT !.environment = [lines |-> lines, odd |-> FALSE]]
  <2>1. Goto(p, "failure") /\ handle' = handle /\ Becomes(t) /\ Alone(p)
    BY <1>4 DEF WriteEnvironment, Environment
  <2>2. alone[p] => service.parameters = desired(p).parameters
    BY <1>1, At DEF Knows, Progress, Shows, Applying
  <2> HIDE DEF lines
  <2>3. /\ Like(service, t) /\ t.environment = [lines |-> lines, odd |-> FALSE]
        /\ t.parameters = service.parameters
    BY At, SetEnvironment DEF Like
  <2> HIDE DEF t
  <2>4. alone[p] => Shows(p, t, "failure", next[p])
    BY <2>2, <2>3 DEF Shows, lines
  <2>5. ~InWindow(p)
    BY <1>1 DEF InWindow
  <2>6. QED  BY <1>1, <1>2, <2>1, <2>3, <2>4, <2>5, At, WriteKeeps DEF Applying
<1>5. QED  BY <1>3, <1>4

\* What sc.exe failure and failureflag leave of the record, and what they set.
Retried(s, t, reg, step) ==
    /\ Like(s, t) /\ t.parameters = s.parameters /\ t.environment = s.environment
    /\ step = "failure" => IF reg.failure = {} THEN ~t.flag ELSE t.actions = "restart"
    /\ step # "failure" => IF reg.failure = {} THEN t.actions = "none" /\ t.flag = s.flag
                                               ELSE t.flag = TRUE /\ t.actions = s.actions

LEMMA FailureIs ==
  ASSUME NEW s, IsService(s), NEW reg, NEW step \in {"failure", "failureflag"}
  PROVE  Retried(s, Failure(s, reg, step), reg, step)
<1>1. CASE reg.failure = {} /\ step = "failure"
  BY <1>1, SetFlag DEF Failure, Retried, Like
<1>2. CASE reg.failure = {} /\ step # "failure"
  BY <1>2, SetActions DEF Failure, Retried, Like
<1>3. CASE reg.failure # {} /\ step = "failure"
  BY <1>3, SetActions DEF Failure, Retried, Like
<1>4. CASE reg.failure # {} /\ step # "failure"
  BY <1>4, SetFlag DEF Failure, Retried, Like
<1>5. QED  BY <1>1, <1>2, <1>3, <1>4

LEMMA FailureActionsKeep ==
  ASSUME IInv, NEW p \in Runs, NEW step \in {"failure", "failureflag"},
         apply_failure_actions(p, step)
  PROVE  IInv'
<1>1. /\ pc[p] = step /\ result[p] = "none"
      /\ UNCHANGED <<rights, source, next, snap, request, ours, meddled, mishaps>>
  BY At DEF apply_failure_actions, Keeps, Runs_, history
<1>2. snap' = [snap EXCEPT ![p] = snap[p]] /\ next' = [next EXCEPT ![p] = next[p]]
  BY <1>1, At, Idle
<1>3. CASE ~service.there \/ service.marked
  <2>1. Ends(p, "error") /\ "error" \in Results \ {"none"}
    BY <1>3 DEF apply_failure_actions, Results
  <2>2. QED  BY <2>1, QuietEndKeeps DEF apply_failure_actions
<1> DEFINE wanted == desired(p)
           t == Failure(service, wanted, step)
<1>4. Retried(service, t, wanted, step)
  BY At, FailureIs
<1>5. ~InWindow(p)
  BY <1>1 DEF InWindow
<1>6. CASE service.there /\ ~service.marked /\ step = "failure"
  <2>1. Goto(p, "failureflag") /\ handle' = handle /\ Becomes(t) /\ Alone(p)
    BY <1>6 DEF apply_failure_actions
  <2>2. alone[p] => service.parameters = desired(p).parameters
                    /\ service.environment = [lines |-> desired(p).environment, odd |-> FALSE]
    BY <1>1, <1>6, At DEF Knows, Progress, Shows, Applying
  <2> HIDE DEF t
  <2>3. alone[p] => Shows(p, t, "failureflag", next[p])
    BY <1>4, <1>6, <2>2 DEF Shows, Retried
  <2>4. QED  BY <1>1, <1>2, <1>4, <1>5, <2>1, <2>3, At, WriteKeeps DEF Applying, Retried
<1>7. CASE service.there /\ ~service.marked /\ step # "failure"
  <2>1. Holds(p, 0) /\ Returns(p, "done") /\ Becomes(t) /\ Alone(p) /\ "done" \in Results \ {"none"}
    BY <1>7 DEF apply_failure_actions, Results
  <2> HIDE DEF t
  <2>2. Sound(p, t, pc[p], next[p])
    BY <1>4, <1>5 DEF Sound, Like, Retried
  <2>3. QED  BY <1>1, <1>2, <2>1, <2>2, At, EndsKeep
<1>8. QED  BY <1>3, <1>6, <1>7

-----------------------------------------------------------------------------
(* enable and disable; uninstall. *)

LEMMA SetStartTypeKeeps ==
  ASSUME IInv, NEW p \in Runs, set_start_type(p)
  PROVE  IInv'
<1>1. /\ pc[p] = "flip"
      /\ UNCHANGED <<rights, source, next, snap, request, ours, meddled>>
      /\ mishaps' \in 0..MaxMishaps
  BY At DEF set_start_type, Keeps, Runs_, history
<1>2. CASE service.marked
  BY <1>2, QuietEndKeeps DEF set_start_type, Results
<1>3. CASE ~service.marked
  <2> DEFINE x == IF request[p].verb = "enable" THEN "auto" ELSE "demand"
             t == [service EXCEPT !.start = x]
  <2>1. Holds(p, 0) /\ Returns(p, "done") /\ Becomes(t) /\ Alone(p) /\ "done" \in Results \ {"none"}
    BY <1>3 DEF set_start_type, Results
  <2>2. x \in StartTypes
    BY DEF StartTypes
  <2> HIDE DEF x
  <2>3. IsService(t) /\ t.there = service.there /\ t.obj = service.obj /\ t.marked = service.marked
        /\ t.account = service.account /\ t.secret = service.secret
        /\ t.parameters = service.parameters
    BY <2>2, At, SetStart
  <2> HIDE DEF t
  <2>4. Sound(p, t, pc[p], next[p])
    BY <1>1, <2>3 DEF Sound, InWindow
  <2>5. snap' = [snap EXCEPT ![p] = snap[p]]
    BY <1>1, At, Idle
  <2>6. QED  BY <1>1, <2>1, <2>4, <2>5, At, EndsKeep
<1>4. QED  BY <1>2, <1>3

LEMMA OpenActorKeeps ==
  ASSUME IInv, NEW p \in Runs, OpenActor(p)
  PROVE  IInv'
<1>1. /\ pc[p] = "actor" /\ result[p] = "none" /\ next[p] = 1 /\ request[p].verb = "uninstall"
      /\ UNCHANGED <<rights, source, next, request, ours, meddled, mishaps>>
  BY At DEF OpenActor, Runs_, history, Knows, InPlace, Uninstalling, Applying
<1>2. CASE ~service.there
  BY <1>1, <1>2, QuietEndKeeps DEF OpenActor, Results, Keeps, history
<1>3. CASE service.there
  <2> DEFINE a == [snap[p] EXCEPT !.written = service.obj]
             s == [a EXCEPT !.start = service.start]
             h == service.obj
  <2>1. IsSnap(a) /\ a.written = h
    BY At, SnapWritten
  <2>2. IsSnap(s) /\ s.written = h /\ s.start = service.start
    BY <2>1, SnapStart
  <2>3. snap' = [snap EXCEPT ![p] = s]
    <3>1. snap' = [snap EXCEPT ![p].written = service.obj, ![p].start = service.start]
      BY <1>3 DEF OpenActor
    <3>2. Types
      BY At
    <3>3. QED  BY <3>1, <3>2, SnapAt
  <2> HIDE DEF s
  <2>4. handle' = [handle EXCEPT ![p] = h] /\ Goto(p, "disable") /\ UNCHANGED <<service, alone>>
    BY <1>3 DEF OpenActor, Holds
  <2>5. h \in Nat /\ h # 0
    BY <1>3, At
  <2>6. Turns(p, "disable", "none", h, next[p], s) /\ "disable" \in Places /\ "none" \in Results
    BY <1>1, <2>3, <2>4, At, Idle DEF Turns, Goto, Places, Results
  <2>7. Own(p, "disable", "none", h, next[p], s)
    BY <2>2, <2>5, <2>6, At, TurnsIs
  <2>8. Sound(p, service, "disable", next[p])
    BY <1>1, SameIsSound DEF InWindow
  <2>9. Around(p) /\ p \notin Makers
    BY <1>1, <2>4, At, AroundIs DEF Makers, Applying
  <2>10. InPlace(p)' /\ Holding(p)' /\ Progress(p)'
    BY <1>1, <2>2, <2>4, <2>5, <2>7
       DEF Own, InPlace, Holding, Progress, Installing, Uninstalling, Applying, Installs
  <2>11. QED  BY <1>3, <2>2, <2>4, <2>5, <2>6, <2>8, <2>9, <2>10, At, StepKeeps
<1>4. QED  BY <1>2, <1>3

LEMMA DisableBeforeDeleteKeeps ==
  ASSUME IInv, NEW p \in Runs, DisableBeforeDelete(p)
  PROVE  IInv'
<1>1. /\ pc[p] = "disable" /\ result[p] = "none" /\ next[p] = 1 /\ request[p].verb = "uninstall"
      /\ handle[p] = snap[p].written /\ handle[p] # 0 /\ service.there /\ handle[p] = service.obj
      /\ UNCHANGED <<rights, source, handle, next, snap, request, ours, meddled, mishaps>>
  BY At DEF DisableBeforeDelete, Keeps, Runs_, history, Knows, InPlace, Holding, Uninstalling, Applying
<1>2. CASE service.marked
  <2>1. Goto(p, "settle_marked") /\ UNCHANGED <<service, alone>>
    BY <1>2 DEF DisableBeforeDelete
  <2>2. Turns(p, "settle_marked", "none", handle[p], next[p], snap[p])
        /\ "settle_marked" \in Places /\ "none" \in Results
    BY <1>1, <2>1, At, Idle DEF Turns, Goto, Places, Results
  <2>3. Own(p, "settle_marked", "none", handle[p], next[p], snap[p])
    BY <2>2, At, TurnsIs
  <2>4. Sound(p, service, "settle_marked", next[p])
    BY <1>1, SameIsSound DEF InWindow
  <2>5. Around(p) /\ p \notin Makers
    BY <1>1, <2>1, At, AroundIs DEF Makers, Applying
  <2>6. InPlace(p)' /\ Holding(p)' /\ Progress(p)'
    BY <1>1, <1>2, <2>1, <2>3
       DEF Own, InPlace, Holding, Progress, Installing, Uninstalling, Applying, Installs
  <2>7. QED  BY <1>1, <2>1, <2>2, <2>4, <2>5, <2>6, At, StepKeeps
<1>3. CASE ~service.marked
  <2> DEFINE x == "disabled"
             t == [service EXCEPT !.start = x]
  <2>1. Becomes(t) /\ Goto(p, "settle") /\ Alone(p)
    BY <1>3 DEF DisableBeforeDelete, Disabled
  <2>2. x \in StartTypes
    BY DEF StartTypes
  <2> HIDE DEF x
  <2>3. IsService(t) /\ t.there = service.there /\ t.obj = service.obj /\ t.marked = service.marked
        /\ t.account = service.account /\ t.secret = service.secret /\ t.start = x
        /\ t.parameters = service.parameters
    BY <2>2, At, SetStart
  <2> HIDE DEF t
  <2>4. service' = t
    BY <1>3, <2>1, <2>3 DEF Becomes
  <2>5. Turns(p, "settle", "none", handle[p], next[p], snap[p])
        /\ "settle" \in Places /\ "none" \in Results
    BY <1>1, <2>1, At, Idle DEF Turns, Goto, Places, Results
  <2>6. Own(p, "settle", "none", handle[p], next[p], snap[p])
    BY <2>5, At, TurnsIs
  <2>7. Sound(p, t, "settle", next[p])
    BY <1>1, <2>3 DEF InWindow, Sound
  <2>8. Around(p) /\ p \notin Makers
    BY <1>1, <2>1, At, AroundIs DEF Makers, Applying
  <2>9. InPlace(p)' /\ Holding(p)' /\ Progress(p)'
    BY <1>1, <1>3, <2>3, <2>4, <2>6
       DEF Own, InPlace, Holding, Progress, Installing, Uninstalling, Applying, Installs, x
  <2>10. QED  BY <1>1, <2>4, <2>5, <2>7, <2>8, <2>9, At, StepKeeps
<1>4. QED  BY <1>2, <1>3

LEMMA StoppedKeeps ==
  ASSUME IInv, NEW p \in Runs, Stopped(p)
  PROVE  IInv'
<1>1. CASE Runs_(p, "settle_marked") /\ Ends(p, "done")
  BY <1>1, QuietEndKeeps DEF Stopped, Results
<1>2. CASE /\ Runs_(p, "settle")
           /\ Closed(p) /\ Becomes(service) /\ Alone(p)
           /\ Goto(p, "delete")
  <2>1. /\ pc[p] = "settle" /\ result[p] = "none" /\ next[p] = 1 /\ request[p].verb = "uninstall"
        /\ handle' = [handle EXCEPT ![p] = 0]
        /\ UNCHANGED <<rights, source, next, snap, request, ours, meddled, mishaps>>
    BY <1>2, At DEF Stopped, Closed, Holds, Keeps, Runs_, history, Knows, InPlace, Uninstalling, Applying
  <2>2. Turns(p, "delete", "none", 0, next[p], snap[p])
        /\ "delete" \in Places /\ "none" \in Results
    BY <1>2, <2>1, At, Idle DEF Turns, Goto, Places, Results
  <2>3. Own(p, "delete", "none", 0, next[p], snap[p])
    BY <2>2, At, TurnsIs
  <2>4. Sound(p, service, "delete", next[p])
    BY <2>1, SameIsSound DEF InWindow
  <2>5. Around(p) /\ p \notin Makers /\ alone'[p] = alone[p]
    BY <1>2, <2>1, At, AroundIs DEF Makers, Applying
  <2>6. InPlace(p)' /\ Holding(p)'
    BY <2>1, <2>3
       DEF Own, InPlace, Holding, Installing, Uninstalling, Applying, Installs
  <2>7. Progress(p)'
    <3>1. alone[p] => service.there /\ ~service.marked /\ service.start = "disabled"
      BY <2>1, At DEF Knows, Progress
    <3>2. alone[p] => service' = service
      BY <1>2, <3>1 DEF Becomes
    <3>3. QED  BY <2>3, <2>5, <3>1, <3>2 DEF Own, Progress, Applying
  <2>8. QED  BY <1>2, <2>2, <2>4, <2>5, <2>6, <2>7, At, StepKeeps
<1>3. QED  BY <1>1, <1>2 DEF Stopped

LEMMA DeleteServiceKeeps ==
  ASSUME IInv, NEW p \in Runs, DeleteService(p)
  PROVE  IInv'
<1> DEFINE x == service.there
           t == [service EXCEPT !.marked = x]
<1>1. /\ pc[p] = "delete" /\ result[p] = "none" /\ handle[p] = 0
      /\ Returns(p, "done") /\ Becomes(t) /\ Alone(p) /\ "done" \in Results \ {"none"}
      /\ UNCHANGED <<rights, source, handle, next, snap, request, ours, meddled, mishaps>>
  BY At DEF DeleteService, Keeps, Runs_, history, Knows, Holding, Results
<1>2. x \in BOOLEAN
  BY At DEF IsService
<1>3. IsService(t) /\ t.there = service.there /\ t.obj = service.obj /\ t.marked = service.there
      /\ t.account = service.account /\ t.secret = service.secret
      /\ t.parameters = service.parameters
  <2> HIDE DEF x
  <2>1. IsService(t) /\ t.there = service.there /\ t.obj = service.obj /\ t.marked = x
        /\ t.account = service.account /\ t.secret = service.secret
        /\ t.parameters = service.parameters
    BY <1>2, At, SetMarked
  <2>2. QED  BY <2>1 DEF x
<1> HIDE DEF t
<1>4. Sound(p, t, pc[p], next[p])
  BY <1>1, <1>3 DEF Sound, InWindow
<1>5. Turns(p, pc[p], "done", handle[p], next[p], snap[p])
  BY <1>1, At, Idle DEF Turns, Returns
<1>6. Around(p)
  BY <1>1, At, AroundIs
<1>7. QED  BY <1>1, <1>4, <1>5, <1>6, At, EndKeeps

-----------------------------------------------------------------------------
(* The administrator. *)

LEMMA SpoilIs ==
  ASSUME NEW s, IsParameters(s), NEW t \in Spoil(s)
  PROVE  IsParameters(t)
<1>1. {"Marker", "Stray", "marker"} \subseteq DOMAIN Folded
  BY DEF Folded
<1>2. DOMAIN s \subseteq DOMAIN Folded
  BY DEF IsParameters
<1>3. CASE t = [k \in DOMAIN s \ {"Marker"} |-> s[k]]
  BY <1>2, <1>3 DEF IsParameters
<1>4. CASE t = [k \in DOMAIN s \cup {"Stray"} |-> IF k = "Stray" THEN "hand" ELSE s[k]]
  BY <1>1, <1>2, <1>4 DEF IsParameters
<1>5. CASE t = [k \in DOMAIN s \cup {"marker"} |-> IF k = "marker" THEN "goetia" ELSE s[k]]
  BY <1>1, <1>2, <1>5 DEF IsParameters
<1>6. CASE t = [k \in DOMAIN s |-> IF k = "Spec" THEN blob(NoSpec, "running") ELSE s[k]]
  BY <1>2, <1>6 DEF IsParameters
<1>7. QED  BY <1>3, <1>4, <1>5, <1>6 DEF Spoil

\* An edit leaves the service and its account.
Spared(s, t) ==
    /\ IsService(t) /\ t.there = s.there /\ t.obj = s.obj /\ t.marked = s.marked
    /\ t.account = s.account /\ t.secret = s.secret

LEMMA SetOdd ==
  ASSUME NEW s, IsService(s), NEW x \in BOOLEAN
  PROVE  Spared(s, [s EXCEPT !.environment.odd = x])
BY DEF IsService, Spared

LEMMA EditedIs ==
  ASSUME NEW s, IsService(s), NEW t \in Edited(s)
  PROVE  Spared(s, t)
<1>1. s.flag \in BOOLEAN /\ IsParameters(s.parameters)
  BY DEF IsService
<1> DEFINE unset == ~s.flag
           lines == s.environment.lines
           odd == s.environment.odd
<1>2. s.environment = [lines |-> lines, odd |-> odd] /\ unset \in BOOLEAN
  BY <1>1 DEF IsService
<1>3. CASE t = [s EXCEPT !.image = "theirs"]
  BY <1>3, SetImage DEF Spared
<1>4. CASE t = [s EXCEPT !.actions = "none"]
  BY <1>4, SetActions DEF Spared
<1>5. CASE t = [s EXCEPT !.flag = ~@]
  <2>1. t = [s EXCEPT !.flag = unset]
    BY <1>5
  <2> HIDE DEF unset
  <2>2. QED  BY <1>2, <2>1, SetFlag DEF Spared
<1>6. CASE t = [s EXCEPT !.environment.odd = TRUE]
  BY <1>6, SetOdd DEF Spared
<1>7. CASE t = [s EXCEPT !.environment.lines = {"HAND=1"}]
  <2>1. t = [s EXCEPT !.environment = [lines |-> {"HAND=1"}, odd |-> odd]]
    BY <1>2, <1>7
  <2> HIDE DEF odd
  <2>2. QED  BY <2>1, SetEnvironment DEF Spared
<1>8. ASSUME NEW x \in StartTypes, t = [s EXCEPT !.start = x] PROVE Spared(s, t)
  BY <1>8, SetStart DEF Spared
<1>9. ASSUME NEW x \in Spoil(s.parameters), t = [s EXCEPT !.parameters = x] PROVE Spared(s, t)
  <2>1. IsParameters(x)
    BY <1>1, SpoilIs
  <2>2. QED  BY <1>9, <2>1, SetParameters DEF Spared
<1>10. QED  BY <1>3, <1>4, <1>5, <1>6, <1>7, <1>8, <1>9 DEF Edited

\* A service of the administrator's own.
LEMMA TheirsIs ==
  ASSUME NEW obj \in Nat, obj # 0
  PROVE  LET t == [Absent(obj) EXCEPT !.there = TRUE, !.image = "theirs"] IN
         IsService(t) /\ t.obj = obj /\ t.account = "LocalSystem" /\ t.parameters = Empty
<1> DEFINE x == TRUE
           a == Absent(obj)
           b == [a EXCEPT !.there = x]
           c == [b EXCEPT !.image = "theirs"]
<1>1. IsService(a) /\ a.obj = obj /\ a.account = "LocalSystem" /\ a.parameters = Empty
  BY AbsentIs
<1>2. x \in BOOLEAN
  OBVIOUS
<1>3. [Absent(obj) EXCEPT !.there = TRUE, !.image = "theirs"] = c
  OBVIOUS
<1> HIDE DEF x, a
<1>4. IsService(b) /\ b.obj = a.obj /\ b.account = a.account /\ b.parameters = a.parameters
  BY <1>1, <1>2, SetThere
<1> HIDE DEF b
<1>5. IsService(c) /\ c.obj = b.obj /\ c.account = b.account /\ c.parameters = b.parameters
  BY <1>4, SetImage
<1> HIDE DEF c
<1>6. QED  BY <1>1, <1>3, <1>4, <1>5

\* Whatever the administrator made of the record, no open handle lost its service.
LEMMA MeddlingKeeps ==
  ASSUME IInv, UNCHANGED <<rights, source, handle, request, pc, next, snap, result, mishaps>>,
         alone' = [p \in Runs |-> FALSE], meddled < MaxMeddling, meddled' = meddled + 1,
         ours' \subseteq ours, IsService(service'),
         service.obj <= service'.obj, service'.obj <= service.obj + 1,
         \A p \in Runs : handle[p] # 0 =>
             /\ service'.there /\ service'.obj = service.obj
             /\ service.marked => service'.marked,
         UnmarkedIsWindow', CanLogOn'
  PROVE  IInv'
<1>1. Types'
  <2>1. Types /\ service.obj \in Nat /\ service'.obj \in Nat
    BY DEF IInv, Types, IsService
  <2>2. Makers' = Makers /\ Cardinality(Makers) \in Nat
    <3>1. Makers' = Makers
      BY DEF Makers
    <3>2. QED  BY <2>1, <3>1, MakersGrow
  <2>3. meddled \in Nat /\ meddled' \in 0..MaxMeddling
    BY <2>1, ScmApplyAssumption DEF Types
  <2>4. service'.obj <= 1 + Cardinality(Makers)' + meddled'
    BY <2>1, <2>2, <2>3 DEF Types
  <2>5. ours' \subseteq 1..service'.obj
    BY <2>1 DEF Types
  <2>6. alone' \in [Runs -> BOOLEAN]
    OBVIOUS
  <2>7. QED  BY <2>1, <2>3, <2>4, <2>5, <2>6 DEF Types
<1>2. ASSUME NEW q \in Runs PROVE Knows(q)'
  <2>1. Knows(q)
    BY DEF IInv
  <2>2. desired(q)' = desired(q) /\ Installs(q)' = Installs(q)
    BY DEF desired, Installs
  <2>3. InPlace(q)'
    BY <2>1, <2>2 DEF Knows, InPlace
  <2>4. Holding(q)'
    BY <2>1, <2>2 DEF Knows, Holding
  <2>5. Held(q)'
    BY <2>1 DEF Knows, Held
  <2>6. Progress(q)'
    BY DEF Progress
  <2>7. QED  BY <2>3, <2>4, <2>5, <2>6 DEF Knows
<1>3. QED  BY <1>1, <1>2 DEF IInv

LEMMA MeddleKeeps ==
  ASSUME IInv, Meddle
  PROVE  IInv'
<1>1. /\ UNCHANGED <<rights, source, request, pc, next, snap, result, mishaps>>
      /\ alone' = [p \in Runs |-> FALSE] /\ meddled < MaxMeddling /\ meddled' = meddled + 1
  BY DEF Meddle
<1>2. /\ IsService(service) /\ service.obj \in Nat /\ UnmarkedIsWindow /\ CanLogOn
      /\ ours \subseteq 1..service.obj
      /\ \A p \in Runs : handle[p] # 0 => service.there /\ service.obj = handle[p]
  BY DEF IInv, Types, IsService, Knows, Held
<1>3. \A p \in Runs : InWindow(p)' = InWindow(p)
  BY <1>1 DEF InWindow, Installs
<1>4. CASE /\ service.there
           /\ \E s \in Edited(service) : service' = s
           /\ ours' = IF HasMarker(service.parameters) /\ ~HasMarker(service'.parameters)
                      THEN ours \ {service.obj} ELSE ours
           /\ UNCHANGED handle
  <2>1. Spared(service, service')
    BY <1>2, <1>4, EditedIs
  <2>2. ours' \subseteq ours
    BY <1>4
  <2>3. UnmarkedIsWindow'
    BY <1>2, <1>3, <1>4, <2>1 DEF UnmarkedIsWindow, Spared
  <2>4. CanLogOn'
    BY <1>1, <1>2, <2>1, <2>2 DEF CanLogOn, Spared
  <2>5. QED  BY <1>1, <1>2, <1>4, <2>1, <2>2, <2>3, <2>4, MeddlingKeeps DEF Spared
<1>5. CASE /\ service.there
           /\ UNCHANGED <<handle, ours>>
           /\ Becomes([service EXCEPT !.marked = TRUE])
  <2> DEFINE t == [service EXCEPT !.marked = TRUE]
  <2>1. IsService(t) /\ t.there = service.there /\ t.obj = service.obj /\ t.marked
        /\ t.account = service.account /\ t.secret = service.secret
        /\ t.parameters = service.parameters
    BY <1>2, SetMarked
  <2> HIDE DEF t
  <2>2. Becomes(t)
    BY <1>5 DEF t
  <2>3. /\ IsService(service') /\ service'.obj = service.obj
        /\ service' = t \/ service' = Absent(service.obj)
        /\ \A q \in Runs : handle'[q] = service.obj => service' = t
    BY <1>2, <2>1, <2>2, BecomesIs
  <2>4. ~Absent(service.obj).there
    BY <1>2, AbsentIs
  <2>5. UnmarkedIsWindow'
    BY <1>2, <1>3, <1>5, <2>1, <2>3, <2>4 DEF UnmarkedIsWindow
  <2>6. CanLogOn'
    BY <1>1, <1>2, <1>5, <2>1, <2>3, <2>4 DEF CanLogOn
  <2>7. ASSUME NEW q \in Runs, handle[q] # 0
        PROVE  service'.there /\ service'.obj = service.obj /\ service'.marked
    BY <1>2, <1>5, <2>1, <2>3, <2>7
  <2>8. service.obj <= service'.obj /\ service'.obj <= service.obj + 1
    BY <1>2, <2>3
  <2>9. QED  BY <1>1, <1>2, <1>5, <2>3, <2>5, <2>6, <2>7, <2>8, MeddlingKeeps
<1>6. CASE /\ ~service.there
           /\ service' = [Absent(service.obj + 1) EXCEPT !.there = TRUE, !.image = "theirs"]
           /\ UNCHANGED <<handle, ours>>
  <2> DEFINE obj == service.obj + 1
  <2>1. IsService(service') /\ service'.obj = obj
    <3>1. obj \in Nat /\ obj # 0
      BY <1>2
    <3> HIDE DEF obj
    <3>2. service' = [Absent(obj) EXCEPT !.there = TRUE, !.image = "theirs"]
      BY <1>6 DEF obj
    <3>3. QED  BY <3>1, <3>2, TheirsIs
  <2>2. service'.obj \notin ours'
    BY <1>2, <1>6, <2>1
  <2>3. UnmarkedIsWindow' /\ CanLogOn'
    BY <2>2 DEF UnmarkedIsWindow, CanLogOn
  <2>4. QED  BY <1>1, <1>2, <1>6, <2>1, <2>3, MeddlingKeeps
<1>7. QED  BY <1>4, <1>5, <1>6 DEF Meddle

-----------------------------------------------------------------------------
(* The inductive invariant.                                                  *)

LEMMA InstalledIs ==
  ASSUME NEW spec, NEW version, NEW start \in StartTypes
  PROVE  LET t == Installed(spec, version, start)
             account == registration(spec, version).account IN
         /\ IsService(t) /\ t.there /\ t.obj = 1 /\ t.account = account
         /\ t.secret = account_needs_password(account)
<1> DEFINE reg == registration(spec, version)
           account == reg.account
           secret == account_needs_password(account)
           params == reg.parameters
           set == reg.failure # {}
           actions == IF reg.failure = {} THEN "none" ELSE "restart"
           lines == reg.environment
           t0 == Created(1, reg, secret)
           t1 == [t0 EXCEPT !.start = start]
           t2 == [t1 EXCEPT !.actions = actions]
           t3 == [t2 EXCEPT !.flag = set]
           t4 == [t3 EXCEPT !.environment = [lines |-> lines, odd |-> FALSE]]
           t5 == [t4 EXCEPT !.parameters = params]
<1>1. set \in BOOLEAN /\ secret \in BOOLEAN
  BY DEF account_needs_password
<1>2. IsParameters(params)
  BY DEF registration, parameters, IsParameters, Folded
<1>3. Installed(spec, version, start) = t5
  <2> HIDE DEF t0
  <2>1. Installed(spec, version, start) =
           [t0 EXCEPT !.start = start, !.actions = actions, !.flag = set,
                      !.environment = [lines |-> lines, odd |-> FALSE], !.parameters = params]
    BY DEF Installed, t0
  <2>2. QED  BY <2>1
<1> HIDE DEF set, actions, lines, params, secret, reg
<1>4. IsService(t0) /\ t0.there /\ t0.obj = 1 /\ t0.account = account /\ t0.secret = secret
  BY <1>1, CreatedIs
<1> HIDE DEF t0
<1>5. IsService(t1) /\ t1.there /\ t1.obj = 1 /\ t1.account = account /\ t1.secret = secret
  BY <1>4, SetStart
<1> HIDE DEF t1
<1>6. IsService(t2) /\ t2.there /\ t2.obj = 1 /\ t2.account = account /\ t2.secret = secret
  BY <1>5, SetActions
<1> HIDE DEF t2
<1>7. IsService(t3) /\ t3.there /\ t3.obj = 1 /\ t3.account = account /\ t3.secret = secret
  BY <1>1, <1>6, SetFlag
<1> HIDE DEF t3
<1>8. IsService(t4) /\ t4.there /\ t4.obj = 1 /\ t4.account = account /\ t4.secret = secret
  BY <1>7, SetEnvironment
<1> HIDE DEF t4
<1>9. IsService(t5) /\ t5.there /\ t5.obj = 1 /\ t5.account = account /\ t5.secret = secret
  BY <1>2, <1>8, SetParameters
<1> HIDE DEF t5
<1>10. QED  BY <1>3, <1>9 DEF reg, secret

\* What the first service may be.
First(s) ==
    /\ IsService(s) /\ s.obj <= 1
    /\ s.account \in {registration(x, "running").account : x \in Specs} \cup {"LocalSystem"}
    /\ HasMarker(s.parameters) =>
           s.there /\ s.obj = 1 /\ s.secret = account_needs_password(s.account)

LEMMA FirstIs ==
  ASSUME Init
  PROVE  First(service)
<1> DEFINE Accounts == {registration(x, "running").account : x \in Specs} \cup {"LocalSystem"}
<1>1. CASE service = Absent(0)
  <2> DEFINE a == Absent(0)
  <2>1. IsService(a) /\ a.obj = 0 /\ a.account = "LocalSystem" /\ a.parameters = Empty
    BY AbsentIs
  <2> HIDE DEF a
  <2>2. a.account \in Accounts /\ ~HasMarker(a.parameters)
    BY <2>1, EmptyIs
  <2>3. First(a)
    BY <2>1, <2>2 DEF First
  <2>4. QED  BY <1>1, <2>3 DEF a
<1>2. CASE service = [Absent(1) EXCEPT !.there = TRUE, !.image = "theirs"]
  <2> DEFINE one == 1
             t == [Absent(one) EXCEPT !.there = TRUE, !.image = "theirs"]
  <2>1. IsService(t) /\ t.obj = one /\ t.account = "LocalSystem" /\ t.parameters = Empty
    <3>1. one \in Nat /\ one # 0
      OBVIOUS
    <3> HIDE DEF one
    <3>2. QED  BY <3>1, TheirsIs
  <2> HIDE DEF t
  <2>2. t.account \in Accounts /\ ~HasMarker(t.parameters)
    BY <2>1, EmptyIs
  <2>3. First(t)
    BY <2>1, <2>2 DEF First
  <2>4. QED  BY <1>2, <2>3 DEF t
<1>3. ASSUME NEW s \in Specs, NEW v \in Versions, service = Installed(s, v, "demand")
      PROVE  First(service)
  <2>1. registration(s, v).account = registration(s, "running").account
    BY DEF registration
  <2>2. "demand" \in StartTypes
    BY DEF StartTypes
  <2>3. QED  BY <1>3, <2>1, <2>2, InstalledIs DEF First
<1>4. ASSUME NEW s \in Specs, service = Installed([s EXCEPT !.id = "other"], "running", "auto")
      PROVE  First(service)
  <2> DEFINE o == [s EXCEPT !.id = "other"]
  <2>1. o.user = s.user
    BY ScmRecordAssumption
  <2> HIDE DEF o
  <2>2. registration(o, "running").account = registration(s, "running").account
    BY <2>1 DEF registration
  <2>3. "auto" \in StartTypes /\ service = Installed(o, "running", "auto")
    BY <1>4 DEF StartTypes, o
  <2>4. QED  BY <2>2, <2>3, InstalledIs DEF First
<1>5. \/ service = Absent(0)
      \/ service = [Absent(1) EXCEPT !.there = TRUE, !.image = "theirs"]
      \/ \E s \in Specs, v \in Versions : service = Installed(s, v, "demand")
      \/ \E s \in Specs : service = Installed([s EXCEPT !.id = "other"], "running", "auto")
  <2> DEFINE S == {Installed(s, v, "demand") : s \in Specs, v \in Versions}
             O == {Installed([s EXCEPT !.id = "other"], "running", "auto") : s \in Specs}
             b == [Absent(1) EXCEPT !.there = TRUE, !.image = "theirs"]
  <2>1. service \in {Absent(0), b} \cup S \cup O
    BY DEF Init
  <2>2. service \in S => \E s \in Specs, v \in Versions : service = Installed(s, v, "demand")
    OBVIOUS
  <2>3. service \in O
            => \E s \in Specs : service = Installed([s EXCEPT !.id = "other"], "running", "auto")
    OBVIOUS
  <2> HIDE DEF S, O
  <2>4. QED  BY <2>1, <2>2, <2>3
<1>6. QED  BY <1>1, <1>2, <1>3, <1>4, <1>5

LEMMA InitHolds ==
  ASSUME Init
  PROVE  IInv
<1>1. /\ IsService(service) /\ service.obj \in Nat /\ service.obj <= 1
      /\ service.account \in {registration(x, "running").account : x \in Specs} \cup {"LocalSystem"}
      /\ HasMarker(service.parameters) =>
           service.there /\ service.obj = 1 /\ service.secret = account_needs_password(service.account)
      /\ service.there \in BOOLEAN
  BY FirstIs DEF First, IsService
<1>2. /\ rights = {service.account} /\ source = service.there
      /\ handle = [p \in Runs |-> 0] /\ request \in [Runs -> Requests]
      /\ pc = [p \in Runs |-> "read"] /\ next = [p \in Runs |-> 1]
      /\ snap = [p \in Runs |-> NoSnap] /\ result = [p \in Runs |-> "none"]
      /\ meddled = 0 /\ mishaps = 0 /\ alone = [p \in Runs |-> FALSE]
  BY DEF Init
<1>3. ours = {} \/ (ours = {service.obj} /\ HasMarker(service.parameters))
  BY DEF Init, HasMarker
<1>4. IsSnap(NoSnap)
  BY DEF IsSnap, NoSnap
<1>5. Makers = {} /\ Cardinality(Makers) = 0
  BY <1>2, FS_EmptySet DEF Makers, Applying
<1>6. Types
  <2>1. "read" \in Places /\ "none" \in Results
    BY DEF Places, Results
  <2>2. MaxMeddling \in Nat /\ MaxMishaps \in Nat
    BY ScmApplyAssumption
  <2>3. ours \subseteq 1..service.obj
    BY <1>1, <1>3
  <2>4. service.obj <= 1 + Cardinality(Makers) + meddled
    BY <1>1, <1>2, <1>5
  <2>5. QED  BY <1>1, <1>2, <1>4, <2>1, <2>2, <2>3, <2>4 DEF Types
<1>7. UnmarkedIsWindow /\ CanLogOn
  BY <1>1, <1>2, <1>3 DEF UnmarkedIsWindow, CanLogOn
<1>8. ASSUME NEW p \in Runs PROVE Knows(p)
  BY <1>2 DEF Knows, InPlace, Holding, Held, Progress, Installing, Uninstalling, Applying
<1>9. QED  BY <1>6, <1>7, <1>8 DEF IInv

LEMMA NextKeeps ==
  ASSUME IInv, Next
  PROVE  IInv'
<1>1. CASE Meddle
  BY <1>1, MeddleKeeps
<1>2. ASSUME NEW p \in Runs, Step(p) PROVE IInv'
  <2>1. CASE Refuse(p) \/ Open(p) \/ ReadParameters(p) \/ ReadLive(p) \/ ReadEnvironment(p)
    BY <2>1, RefuseKeeps, OpenKeeps, ReadParametersKeeps, ReadLiveKeeps, ReadEnvironmentKeeps
  <2>2. CASE Prepare(p) \/ Create(p) \/ OpenToUpdate(p) \/ ChangeConfig(p)
    BY <2>2, PrepareKeeps, CreateKeeps, OpenToUpdateKeeps, ChangeConfigKeeps
  <2>3. CASE ClearParameters(p) \/ WriteParameter(p) \/ WriteEnvironment(p)
    BY <2>3, ClearParametersKeeps, WriteParameterKeeps, WriteEnvironmentKeeps
  <2>4. CASE apply_failure_actions(p, "failure") \/ apply_failure_actions(p, "failureflag")
    BY <2>4, FailureActionsKeep
  <2>5. CASE \/ set_start_type(p) \/ OpenActor(p) \/ DisableBeforeDelete(p) \/ Stopped(p)
             \/ DeleteService(p)
    BY <2>5, SetStartTypeKeeps, OpenActorKeeps, DisableBeforeDeleteKeeps, StoppedKeeps,
       DeleteServiceKeeps
  <2>6. QED  BY <1>2, <2>1, <2>2, <2>3, <2>4, <2>5 DEF Step
<1>3. QED  BY <1>1, <1>2, CallFailsKeeps, CrashKeeps DEF Next

LEMMA SpecIInv == Spec => []IInv
<1>1. Init => IInv
  BY InitHolds
<1>2. IInv /\ [Next]_vars => IInv'
  <2>1. ASSUME IInv, UNCHANGED vars PROVE IInv'
    <3>1. UNCHANGED <<service, rights, source, handle, request, pc, next, snap, result,
                      meddled, mishaps, alone, ours>>
      BY <2>1 DEF vars, external, history
    <3>2. Types'
      BY <2>1, <3>1 DEF IInv, Types, Makers
    <3>3. UnmarkedIsWindow' /\ CanLogOn'
      BY <2>1, <3>1 DEF IInv, UnmarkedIsWindow, CanLogOn, InWindow, Installs
    <3>4. ASSUME NEW q \in Runs PROVE Knows(q)'
      <4>1. Knows(q)
        BY <2>1 DEF IInv
      <4>2. desired(q)' = desired(q) /\ Installs(q)' = Installs(q)
        BY <3>1 DEF desired, Installs
      <4>3. InPlace(q)' /\ Holding(q)' /\ Held(q)'
        BY <3>1, <4>1, <4>2 DEF Knows, InPlace, Holding, Held
      <4>4. Progress(q)'
        BY <3>1, <4>1, <4>2 DEF Knows, Progress, Made, Shows, Written
      <4>5. QED  BY <4>3, <4>4 DEF Knows
    <3>5. QED  BY <3>2, <3>3, <3>4 DEF IInv
  <2>2. QED  BY <2>1, NextKeeps
<1>3. QED  BY <1>1, <1>2, PTL DEF Spec

\* Whatever others delete, mark and make again meanwhile, every write of an update
\* goes to the service the install read: the handle kept from the read holds its
\* record there (install and apply of scm/manager.rs).
THEOREM UpdatesStaySound == Spec => []UpdatesAreSound
<1>1. IInv => UpdatesAreSound
  <2> SUFFICES ASSUME IInv PROVE UpdatesAreSound
    OBVIOUS
  <2>1. Types /\ IsFiniteSet(Runs) /\ MaxMeddling \in Nat
    BY ScmApplyAssumption DEF IInv
  <2>2. Makers \subseteq Runs
    BY DEF Makers
  <2>3. /\ Cardinality(Makers) <= Cardinality(Runs)
        /\ Cardinality(Makers) \in Nat /\ Cardinality(Runs) \in Nat
    BY <2>1, <2>2, FS_Subset, FS_CardinalityType
  <2>4. service.obj \in 0..MaxObj
    BY <2>1, <2>3 DEF Types, IsService, MaxObj
  <2>5. handle \in [Runs -> 0..MaxObj]
    <3>1. \A p \in Runs : handle[p] = 0 \/ handle[p] = service.obj
      BY DEF IInv, Knows, Held
    <3>2. 0 \in 0..MaxObj
      BY <2>1, <2>3 DEF MaxObj
    <3>3. QED  BY <2>1, <2>4, <3>1, <3>2 DEF Types
  <2>6. ours \subseteq 1..MaxObj
    BY <2>1, <2>3, <2>4 DEF Types, MaxObj
  <2>7. Len(Order) + 1 = 5
    BY OrderIs
  <2>8. service.start \in StartTypes /\ DOMAIN service.parameters \subseteq DOMAIN Folded
    BY <2>1 DEF Types, IsService, IsParameters
  <2>9. TypeOK
    BY <2>1, <2>4, <2>5, <2>6, <2>7, <2>8 DEF Types, TypeOK
  <2>10. UpdatesWhatItRead
    BY DEF IInv, Knows, Holding, Held, UpdatesWhatItRead, Updating
  <2>11. QED  BY <2>9, <2>10 DEF UpdatesAreSound
<1>2. QED  BY <1>1, SpecIInv, PTL

\* A service goetia installed is without its marker only between two writes of an
\* install, or where one stopped there (write_parameters of scm/manager/registry.rs).
THEOREM MarkerGoesInTheWindow == Spec => []UnmarkedIsWindow
<1>1. IInv => UnmarkedIsWindow
  BY DEF IInv
<1>2. QED  BY <1>1, SpecIInv, PTL

\* Every service goetia wrote can log on: its event source is registered, it has a
\* password where its account needs one, and that account the right
\* (prepare and apply of scm/manager.rs).
THEOREM PreconditionsComeFirst == Spec => []CanLogOn
<1>1. IInv => CanLogOn
  BY DEF IInv
<1>2. QED  BY <1>1, SpecIInv, PTL

-----------------------------------------------------------------------------
(* What the answers promise.                                                 *)

\* The answers a promise is about.
Told == {"done", "unchanged", "not_stopped", "not_deleted_disabled"}

LEMMA Answered ==
  ASSUME Types, NEW p \in Runs, NEW r \in Results, Returns(p, r)
  PROVE  result'[p] = r
BY DEF Types, Returns

\* A step of q answers for q alone.
AnswersFor(q) == result' = result \/ \E r : result' = [result EXCEPT ![q] = r]

LEMMA OwnResult ==
  ASSUME NEW q \in Runs, Step(q) \/ CallFails(q) \/ Crash(q)
  PROVE  AnswersFor(q)
<1>1. \A l : Goto(q, l) => AnswersFor(q)
  BY DEF Goto, AnswersFor
<1>2. \A r : Returns(q, r) => AnswersFor(q)
  BY DEF Returns, AnswersFor
<1>3. \A r : Ends(q, r) => AnswersFor(q)
  BY <1>2 DEF Ends
<1>4. \A l, r : Fails(q, l, r) => AnswersFor(q)
  BY <1>2 DEF Fails
<1>5. CASE Refuse(q) \/ Open(q) \/ ReadParameters(q) \/ ReadLive(q) \/ ReadEnvironment(q)
  BY <1>1, <1>2, <1>3, <1>5 DEF Refuse, Open, ReadParameters, ReadLive, ReadEnvironment
<1>6. CASE Prepare(q) \/ Create(q) \/ OpenToUpdate(q) \/ ChangeConfig(q)
  BY <1>1, <1>3, <1>6 DEF Prepare, Create, OpenToUpdate, ChangeConfig
<1>7. CASE ClearParameters(q) \/ WriteParameter(q) \/ WriteEnvironment(q)
  BY <1>1, <1>2, <1>3, <1>7 DEF ClearParameters, WriteParameter, WriteEnvironment
<1>8. CASE apply_failure_actions(q, "failure") \/ apply_failure_actions(q, "failureflag")
  BY <1>1, <1>2, <1>3, <1>8 DEF apply_failure_actions
<1>9. CASE \/ set_start_type(q) \/ OpenActor(q) \/ DisableBeforeDelete(q) \/ Stopped(q)
           \/ DeleteService(q)
  BY <1>1, <1>2, <1>3, <1>9
     DEF set_start_type, OpenActor, DisableBeforeDelete, Stopped, DeleteService
<1>10. CASE CallFails(q)
  BY <1>4, <1>10 DEF CallFails
<1>11. CASE Crash(q)
  BY <1>3, <1>11 DEF Crash
<1>12. QED
  BY <1>5, <1>6, <1>7, <1>8, <1>9, <1>10, <1>11 DEF Step

LEMMA AnswersItself ==
  ASSUME Types, Next, NEW p \in Runs, result'[p] # result[p]
  PROVE  Step(p) \/ CallFails(p) \/ Crash(p)
<1>1. ~Meddle
  BY DEF Meddle
<1>2. PICK q \in Runs : Step(q) \/ CallFails(q) \/ Crash(q)
  BY <1>1 DEF Next
<1>3. result' = result \/ \E r : result' = [result EXCEPT ![q] = r]
  BY <1>2, OwnResult DEF AnswersFor
<1>4. q = p
  BY <1>3 DEF Types
<1>5. QED  BY <1>2, <1>4

\* Reading and writing tell nothing of the kind.
LEMMA ReadingTellsNothing ==
  ASSUME IInv, NEW p \in Runs,
         Refuse(p) \/ Open(p) \/ ReadParameters(p) \/ ReadLive(p) \/ ReadEnvironment(p)
  PROVE  result[p] = "none" /\ result'[p] \notin Told
<1>1. Types /\ result[p] = "none"
  BY At DEF Refuse, Open, ReadParameters, ReadLive, ReadEnvironment, Runs_
<1>2. \A l : Goto(p, l) => result'[p] \notin Told
  BY <1>1 DEF Goto, Told
<1>3. \A r \in Results \ Told : Returns(p, r) => result'[p] \notin Told
  BY <1>1, Answered
<1>4. \A r \in Results \ Told : Ends(p, r) => result'[p] \notin Told
  BY <1>3 DEF Ends
<1>5. CASE Refuse(p)
  <2>1. "invalid" \in Results \ Told
    BY DEF Results, Told
  <2>2. QED  BY <1>1, <1>3, <1>5, <2>1 DEF Refuse
<1>6. CASE Open(p)
  <2>1. "not_installed" \in Results \ Told
    BY DEF Results, Told
  <2>2. QED  BY <1>1, <1>2, <1>3, <1>6, <2>1 DEF Open
<1>7. CASE ReadParameters(p)
  <2> DEFINE owned == Ownership(service.parameters)
  <2>1. "foreign" \in Results \ Told /\ Refusing \subseteq Results \ Told
    BY DEF Results, Refusing, Told
  <2>2. owned # "Ours" => Settled[owned] \in Results \ Told
    BY <2>1, OwnershipIs
  <2>3. \/ \E l : Goto(p, l)
        \/ Ends(p, "foreign")
        \/ owned # "Ours" /\ Ends(p, Settled[owned])
    BY <1>7 DEF ReadParameters
  <2>4. QED  BY <1>1, <1>2, <1>4, <2>1, <2>2, <2>3
<1>8. CASE ReadLive(p)
  BY <1>1, <1>2, <1>8 DEF ReadLive
<1>9. CASE ReadEnvironment(p)
  <2>1. PICK force \in BOOLEAN :
            \/ Goto(p, "prepare")
            \/ Decision(p, force) \notin Writing /\ Ends(p, Decision(p, force))
    BY <1>9 DEF ReadEnvironment
  <2>2. Decision(p, force) \notin Writing => Decision(p, force) \in Results \ Told
    BY DecisionIs DEF Told
  <2>3. QED  BY <1>1, <1>2, <1>4, <2>1, <2>2
<1>10. QED  BY <1>1, <1>5, <1>6, <1>7, <1>8, <1>9

LEMMA WritingTellsNothing ==
  ASSUME IInv, NEW p \in Runs,
         \/ Prepare(p) \/ Create(p) \/ OpenToUpdate(p) \/ ChangeConfig(p) \/ ClearParameters(p)
         \/ WriteParameter(p) \/ WriteEnvironment(p) \/ apply_failure_actions(p, "failure")
         \/ DisableBeforeDelete(p) \/ Crash(p)
  PROVE  result'[p] \notin Told
<1>1. Types /\ result[p] = "none"
  BY At DEF Prepare, Create, OpenToUpdate, ChangeConfig, ClearParameters, WriteParameter,
            WriteEnvironment, apply_failure_actions, DisableBeforeDelete, Crash, Runs_
<1>2. \A l : Goto(p, l) => result'[p] \notin Told
  BY <1>1 DEF Goto, Told
<1>3. {"password", "error", "killed"} \subseteq Results \ Told
  BY DEF Results, Told
<1>4. \A r \in {"password", "error", "killed"} : Returns(p, r) => result'[p] \notin Told
  BY <1>1, <1>3, Answered
<1>5. \A r \in {"password", "error", "killed"} : Ends(p, r) => result'[p] \notin Told
  BY <1>4 DEF Ends
<1>6. CASE Prepare(p)
  BY <1>2, <1>5, <1>6 DEF Prepare
<1>7. CASE Create(p) \/ OpenToUpdate(p) \/ ChangeConfig(p)
  BY <1>2, <1>5, <1>7 DEF Create, OpenToUpdate, ChangeConfig
<1>8. CASE ClearParameters(p)
  BY <1>2, <1>4, <1>5, <1>8 DEF ClearParameters
<1>9. CASE WriteParameter(p) \/ WriteEnvironment(p)
  BY <1>2, <1>5, <1>9 DEF WriteParameter, WriteEnvironment
<1>10. CASE apply_failure_actions(p, "failure")
  BY <1>2, <1>5, <1>10 DEF apply_failure_actions
<1>11. CASE DisableBeforeDelete(p)
  BY <1>2, <1>11 DEF DisableBeforeDelete
<1>12. CASE Crash(p)
  BY <1>5, <1>12 DEF Crash
<1>13. QED  BY <1>6, <1>7, <1>8, <1>9, <1>10, <1>11, <1>12

\* The failures that tell what uninstall left.
LEMMA FailuresTell ==
  ASSUME IInv, NEW p \in Runs, CallFails(p), result'[p] \in Told
  PROVE  \/ Fails(p, "disable", "unchanged") /\ result'[p] = "unchanged"
         \/ Fails(p, "settle", "not_stopped") /\ result'[p] = "not_stopped"
         \/ Fails(p, "delete", "not_deleted_disabled") /\ result'[p] = "not_deleted_disabled"
<1>1. Types
  BY At
<1>2. {"undetermined", "RefuseUnusable", "error", "not_deleted"} \subseteq Results \ Told
      /\ {"unchanged", "not_stopped", "not_deleted_disabled"} \subseteq Results
  BY DEF Results, Refusing, Told
<1>3. \A l : \A r \in Results : Fails(p, l, r) => result'[p] = r
  BY <1>1, Answered DEF Fails
<1>4. \A l : \A r \in {"undetermined", "RefuseUnusable", "error", "not_deleted"} : ~Fails(p, l, r)
  BY <1>2, <1>3
<1>5. \A l : ~Fails(p, l, IF l \in {"read", "parameters"} THEN "undetermined"
                          ELSE IF l = "live" THEN "RefuseUnusable" ELSE "error")
  BY <1>4
<1>6. \/ Fails(p, "disable", "unchanged") \/ Fails(p, "settle", "not_stopped")
      \/ Fails(p, "delete", "not_deleted_disabled")
  BY <1>4, <1>5 DEF CallFails
<1>7. QED  BY <1>2, <1>3, <1>6

LEMMA TellingIs ==
  ASSUME IInv, Next, NEW p \in Runs, result[p] = "none", result'[p] \in Told
  PROVE  \/ apply_failure_actions(p, "failureflag") \/ set_start_type(p) \/ OpenActor(p)
         \/ Stopped(p) \/ DeleteService(p)
         \/ Fails(p, "disable", "unchanged") /\ result'[p] = "unchanged"
         \/ Fails(p, "settle", "not_stopped") /\ result'[p] = "not_stopped"
         \/ Fails(p, "delete", "not_deleted_disabled") /\ result'[p] = "not_deleted_disabled"
<1>1. result'[p] # result[p] /\ Types
  BY At DEF Told
<1>2. Step(p) \/ CallFails(p) \/ Crash(p)
  BY <1>1, AnswersItself
<1>3. QED  BY <1>2, ReadingTellsNothing, WritingTellsNothing, FailuresTell DEF Step

\* The steps that may tell more than one thing tell done.
LEMMA DoneIs ==
  ASSUME IInv, NEW p \in Runs, result'[p] \in Told,
         \/ apply_failure_actions(p, "failureflag") \/ set_start_type(p) \/ OpenActor(p)
         \/ Stopped(p) \/ DeleteService(p)
  PROVE  result'[p] = "done"
<1>1. Types /\ "done" \in Results /\ "error" \in Results /\ "error" \notin Told
  BY At DEF Results, Told
<1>2. result[p] = "none"
  BY DEF apply_failure_actions, set_start_type, OpenActor, Stopped, DeleteService, Runs_
<1>3. \A l : ~Goto(p, l)
  BY <1>2 DEF Goto, Told
<1>4. Returns(p, "done") \/ Returns(p, "error")
  BY <1>3 DEF apply_failure_actions, set_start_type, OpenActor, Stopped, DeleteService, Ends
<1>5. QED  BY <1>1, <1>4, Answered

LEMMA BuiltinIs ==
  /\ windows_builtin("LocalSystem") = {"LocalSystem"}
  /\ windows_builtin("LocalService") = {"LocalService"}
<1>1. DOMAIN Spellings = {"LocalSystem", "LocalService"}
      /\ Spellings["LocalSystem"] = {"LocalSystem", "system"}
      /\ Spellings["LocalService"] = {"LocalService", "local service"}
  BY DEF Spellings
<1>2. ASSUME NEW name \in {"LocalSystem", "LocalService"}
      PROVE  windows_builtin(name) = {name}
  <2>1. windows_builtin(name) = {b \in {"LocalSystem", "LocalService"} : name \in Spellings[b]}
    BY <1>1 DEF windows_builtin
  <2>2. \A b \in {"LocalSystem", "LocalService"} : name \in Spellings[b] <=> b = name
    BY <1>1
  <2>3. QED  BY <2>1, <2>2
<1>3. QED  BY <1>2

LEMMA CanonicalTwice ==
  ASSUME NEW name
  PROVE  canonical_account(canonical_account(name)) = canonical_account(name)
<1>1. CASE windows_builtin(name) = {}
  BY <1>1 DEF canonical_account
<1>2. CASE windows_builtin(name) # {}
  <2>1. canonical_account(name) \in windows_builtin(name)
    BY <1>2 DEF canonical_account
  <2>2. canonical_account(name) = "LocalSystem" \/ canonical_account(name) = "LocalService"
    BY <2>1 DEF windows_builtin, Spellings
  <2>3. canonical_account("LocalSystem") = "LocalSystem"
        /\ canonical_account("LocalService") = "LocalService"
    BY BuiltinIs DEF canonical_account
  <2>4. QED  BY <2>2, <2>3
<1>3. QED  BY <1>1, <1>2

LEMMA AccountIs ==
  ASSUME NEW spec, NEW version
  PROVE  canonical_account(registration(spec, version).account) = registration(spec, version).account
<1>1. canonical_account("LocalSystem") = "LocalSystem"
  BY BuiltinIs DEF canonical_account
<1>2. \/ registration(spec, version).account = "LocalSystem"
      \/ registration(spec, version).account = canonical_account(resolve(spec.user))
  BY DEF registration
<1>3. QED  BY <1>1, <1>2, CanonicalTwice

\* An install nobody wrote beside reads back as what it wants.
LEMMA DoneReads ==
  ASSUME IInv, NEW p \in Runs, alone[p], apply_failure_actions(p, "failureflag"),
         result'[p] = "done"
  PROVE  /\ ReadBack(service') = desired(p)
         /\ service'.start = IF snap[p].obj = 0 THEN "demand" ELSE snap[p].start
<1> DEFINE wanted == desired(p)
           t == Failure(service, wanted, "failureflag")
<1>1. pc[p] = "failureflag" /\ result[p] = "none"
  BY DEF apply_failure_actions, Runs_
<1>2. Made(p, service) /\ Shows(p, service, "failureflag", next[p])
  BY <1>1, At DEF Knows, Progress, Applying
<1>3. ~service.marked /\ Becomes(t)
  <2>1. ~Returns(p, "error")
    BY At, Answered DEF Results
  <2>2. QED  BY <2>1 DEF apply_failure_actions, Ends
<1>4. Retried(service, t, wanted, "failureflag")
  BY At, FailureIs
<1> HIDE DEF t
<1>5. service' = t
  BY <1>3, <1>4 DEF Becomes, Retried, Like
<1>6. /\ t.image = wanted.image /\ t.account = wanted.account
      /\ t.parameters = wanted.parameters
      /\ t.start = IF snap[p].obj = 0 THEN "demand" ELSE snap[p].start
      /\ t.environment = [lines |-> wanted.environment, odd |-> FALSE]
  BY <1>2, <1>4 DEF Made, Shows, Retried, Like
<1>7. environment_lines(t.environment) = wanted.environment
  <2> DEFINE lines == wanted.environment
             raw == [lines |-> lines, odd |-> FALSE]
  <2>1. ~raw.odd /\ raw.lines = lines
    OBVIOUS
  <2>2. t.environment = raw
    BY <1>6
  <2> HIDE DEF raw, lines
  <2>3. {x \in {raw} : x.odd} = {}
    BY <2>1
  <2>4. {"(odd)" : x \in {y \in {raw} : y.odd}} = {}
    BY <2>3
  <2>5. environment_lines(raw) = lines
    BY <2>1, <2>4 DEF environment_lines
  <2>6. QED  BY <2>2, <2>5 DEF lines
<1>8. read_failure_actions(t) = wanted.failure
  <2>1. wanted.failure = {} \/ wanted.failure = {<<"restart", TRUE>>}
    BY DEF desired, registration
  <2>2. CASE wanted.failure = {}
    <3>1. t.actions = "none"
      BY <1>4, <2>2 DEF Retried
    <3>2. QED  BY <2>2, <3>1 DEF read_failure_actions
  <2>3. CASE wanted.failure # {}
    <3>1. t.actions = "restart" /\ t.flag = TRUE
      BY <1>2, <1>4, <2>3 DEF Retried, Shows
    <3>2. QED  BY <2>1, <2>3, <3>1 DEF read_failure_actions
  <2>4. QED  BY <2>2, <2>3
<1>9. canonical_account(t.account) = wanted.account
  BY <1>6, AccountIs DEF desired
<1>10. wanted = [image |-> wanted.image, account |-> wanted.account, failure |-> wanted.failure,
                 environment |-> wanted.environment, parameters |-> wanted.parameters]
  BY DEF desired, registration
<1> HIDE DEF wanted
<1>11. ReadBack(t) = wanted
  BY <1>6, <1>7, <1>8, <1>9, <1>10 DEF ReadBack, read_live_registration
<1>12. QED  BY <1>5, <1>6, <1>11 DEF wanted

\* An install nobody wrote beside, over whatever it found, that answers done leaves
\* what reads back as what it wants, and an update the start type it found
\* (apply of scm/manager.rs, write_parameters of scm/manager/registry.rs).
THEOREM InstallsReadBack == Spec => DoneReadsBack
<1> DEFINE A == \A p \in Runs :
                  Installs(p) /\ Answers(p, "done") /\ alone[p] =>
                     /\ ReadBack(service') = desired(p)
                     /\ service'.start = IF snap[p].obj = 0 THEN "demand" ELSE snap[p].start
<1>1. IInv /\ [Next]_vars => [A]_vars
  <2> SUFFICES ASSUME IInv, Next PROVE A
    OBVIOUS
  <2>1. SUFFICES ASSUME NEW p \in Runs, Installs(p), Answers(p, "done"), alone[p]
                 PROVE  /\ ReadBack(service') = desired(p)
                        /\ service'.start = IF snap[p].obj = 0 THEN "demand" ELSE snap[p].start
    OBVIOUS
  <2>2. result[p] = "none" /\ result'[p] = "done" /\ "done" \in Told
    BY <2>1 DEF Answers, Told
  <2>3. \/ apply_failure_actions(p, "failureflag") \/ set_start_type(p) \/ OpenActor(p)
        \/ Stopped(p) \/ DeleteService(p)
    BY <2>2, TellingIs
  <2>4. pc[p] # "flip" /\ pc[p] \notin {"actor", "settle", "settle_marked", "delete"}
    BY <2>1, At DEF Knows, InPlace, Uninstalling, Installs
  <2>5. apply_failure_actions(p, "failureflag")
    BY <2>3, <2>4 DEF set_start_type, OpenActor, Stopped, DeleteService, Runs_
  <2>6. QED  BY <2>1, <2>2, <2>5, DoneReads
<1>2. QED  BY <1>1, SpecIInv, PTL DEF Spec, DoneReadsBack

LEMMA DoneIsGone ==
  ASSUME IInv, NEW p \in Runs, request[p].verb = "uninstall", result'[p] = "done",
         \/ apply_failure_actions(p, "failureflag") \/ set_start_type(p) \/ OpenActor(p)
         \/ Stopped(p) \/ DeleteService(p),
         service'.there
  PROVE  service'.marked /\ \E q \in Runs \ {p} : handle'[q] = service'.obj
<1>1. /\ IsService(service) /\ service.obj \in Nat /\ (service.there => service.obj # 0)
      /\ handle \in [Runs -> Nat]
  BY At DEF Types
<1>2. ~Absent(service.obj).there
  BY <1>1, AbsentIs
<1>3. pc[p] # "flip" /\ pc[p] # "failureflag"
  BY At DEF Knows, InPlace, Installing, Applying, Installs
<1>4. \/ OpenActor(p) \/ Stopped(p) \/ DeleteService(p)
  BY <1>3 DEF apply_failure_actions, set_start_type, Runs_
\* A record that Becomes left there, marked, is held by somebody.
<1>5. ASSUME NEW t, Becomes(t), t.there => t.marked, t.there = service.there,
             t.obj = service.obj, handle'[p] = 0
      PROVE  service'.marked /\ \E q \in Runs \ {p} : handle'[q] = service'.obj
  <2>1. service' = t /\ (t.marked => \E q \in Runs : handle'[q] = t.obj)
    BY <1>2, <1>5 DEF Becomes
  <2>2. QED  BY <1>1, <1>5, <2>1
<1>6. CASE OpenActor(p)
  <2>1. ~service.there /\ Becomes(service)
    <3>1. ~Goto(p, "disable")
      BY <1>6 DEF Goto, OpenActor, Runs_
    <3>2. QED  BY <1>6, <3>1 DEF OpenActor, Ends
  <2>2. QED  BY <1>2, <2>1 DEF Becomes
<1>7. CASE Stopped(p)
  <2>1. pc[p] = "settle_marked" /\ result[p] = "none" /\ Becomes(service) /\ Holds(p, 0)
    <3>1. result[p] = "none" /\ ~Goto(p, "delete")
      BY <1>7 DEF Stopped, Goto, Runs_
    <3>2. QED  BY <1>7, <3>1 DEF Stopped, Ends, Runs_
  <2>2. service.marked /\ handle'[p] = 0
    BY <1>1, <2>1, At DEF Knows, Holding, Holds
  <2>3. QED  BY <1>5, <2>1, <2>2
<1>8. CASE DeleteService(p)
  <2> DEFINE x == service.there
             t == [service EXCEPT !.marked = x]
  <2>1. Becomes(t) /\ handle' = handle /\ pc[p] = "delete" /\ result[p] = "none"
    BY <1>8 DEF DeleteService, Runs_
  <2>2. handle'[p] = 0
    BY <2>1, At DEF Knows, Holding
  <2>3. x \in BOOLEAN
    BY <1>1 DEF IsService
  <2>4. t.there = service.there /\ t.obj = service.obj /\ t.marked = service.there
    <3> HIDE DEF x
    <3>1. t.there = service.there /\ t.obj = service.obj /\ t.marked = x
      BY <1>1, <2>3, SetMarked
    <3>2. QED  BY <3>1 DEF x
  <2> HIDE DEF t
  <2>5. QED  BY <1>5, <2>1, <2>2, <2>4
<1>9. QED  BY <1>4, <1>6, <1>7, <1>8

LEMMA FailuresAreTrue ==
  ASSUME IInv, NEW p \in Runs, alone[p], ~service.marked
  PROVE  /\ Fails(p, "disable", "unchanged") => service'.there /\ service'.start = snap[p].start
         /\ Fails(p, "settle", "not_stopped") \/ Fails(p, "delete", "not_deleted_disabled") =>
                service'.there /\ ~service'.marked /\ service'.start = "disabled"
<1>1. \A l, r : Fails(p, l, r) => service' = service /\ pc[p] = l /\ result[p] = "none"
  BY DEF Fails, Becomes, Runs_
<1>2. Fails(p, "disable", "unchanged") => service.there /\ service.start = snap[p].start
  BY <1>1, At DEF Knows, Holding, Progress
<1>3. Fails(p, "settle", "not_stopped") \/ Fails(p, "delete", "not_deleted_disabled") =>
          service.there /\ service.start = "disabled"
  BY <1>1, At DEF Knows, Progress
<1>4. QED  BY <1>1, <1>2, <1>3

\* uninstall answers the truth: done leaves the service deleted, or marked and kept by
\* another process's handle alone; a failure leaves the start type unchanged, or the
\* service disabled and not deleted, as it says (uninstall of scm/manager.rs).
THEOREM UninstallAnswersTruly == Spec => UninstallIsTrue
<1> DEFINE G == \A p \in Runs :
                  request[p].verb = "uninstall" /\ Answers(p, "done")
                      /\ service'.there /\ service'.obj = snap[p].written =>
                      service'.marked /\ \E q \in Runs \ {p} : handle'[q] = service'.obj
           F == \A p \in Runs :
                  alone[p] /\ ~service.marked =>
                    /\ Answers(p, "unchanged") => service'.there /\ service'.start = snap[p].start
                    /\ Answers(p, "not_stopped") \/ Answers(p, "not_deleted_disabled") =>
                         service'.there /\ ~service'.marked /\ service'.start = "disabled"
<1>1. IInv /\ [Next]_vars => [G]_vars
  <2> SUFFICES ASSUME IInv, Next PROVE G
    OBVIOUS
  <2>1. SUFFICES ASSUME NEW p \in Runs, request[p].verb = "uninstall", Answers(p, "done"),
                        service'.there
                 PROVE  service'.marked /\ \E q \in Runs \ {p} : handle'[q] = service'.obj
    OBVIOUS
  <2>2. result[p] = "none" /\ result'[p] = "done" /\ "done" \in Told
    BY <2>1 DEF Answers, Told
  <2>3. \/ apply_failure_actions(p, "failureflag") \/ set_start_type(p) \/ OpenActor(p)
        \/ Stopped(p) \/ DeleteService(p)
    BY <2>2, TellingIs
  <2>4. QED  BY <2>1, <2>2, <2>3, DoneIsGone
<1>2. IInv /\ [Next]_vars => [F]_vars
  <2> SUFFICES ASSUME IInv, Next PROVE F
    OBVIOUS
  <2>1. SUFFICES ASSUME NEW p \in Runs, alone[p], ~service.marked,
                        NEW r \in {"unchanged", "not_stopped", "not_deleted_disabled"},
                        Answers(p, r)
                 PROVE  /\ r = "unchanged" => service'.there /\ service'.start = snap[p].start
                        /\ r # "unchanged" =>
                              service'.there /\ ~service'.marked /\ service'.start = "disabled"
    OBVIOUS
  <2>2. result[p] = "none" /\ result'[p] = r /\ r \in Told /\ r # "done"
    BY <2>1 DEF Answers, Told
  <2>3. \/ Fails(p, "disable", "unchanged") /\ r = "unchanged"
        \/ Fails(p, "settle", "not_stopped") /\ r = "not_stopped"
        \/ Fails(p, "delete", "not_deleted_disabled") /\ r = "not_deleted_disabled"
    BY <2>2, TellingIs, DoneIs
  <2>4. QED  BY <2>1, <2>3, FailuresAreTrue
<1>3. QED
  BY <1>1, <1>2, SpecIInv, PTL DEF Spec, UninstallIsTrue, UninstalledIsGone, FailureIsTrue
=============================================================================
