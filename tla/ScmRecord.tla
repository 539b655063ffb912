----------------------------- MODULE ScmRecord ------------------------------
(* One service as the SCM database and its registry key hold it, and what    *)
(* goetia makes of it: the registration it wants (scm/generate.rs), and the  *)
(* one it reads back (scm/manager.rs, scm/manager/registry.rs).              *)
EXTENDS Naturals, FiniteSets

CONSTANTS Specs,    \* specs, as [kind, command, user, env, restart, id] records
          NoSpec    \* what a blob that does not decode holds

ASSUME ScmRecordAssumption ==
    \A s \in Specs : DOMAIN s = {"id", "kind", "command", "user", "env", "restart"}

Versions == {"running", "older"}
StartTypes == {"demand", "auto", "disabled"}

\* A field's name and the spellings RegQueryValueEx takes for it.
Folded == [Marker |-> "Marker", marker |-> "Marker", Schema |-> "Schema",
           Spec |-> "Spec", Version |-> "Version", Stray |-> "Stray"]

\* BTreeMap's order, in which the values are written.
Order == <<"Marker", "Schema", "Spec", "Version">>

Empty == [f \in {} |-> ""]

blob(spec, version) == [spec |-> spec, version |-> version]

parameters(spec, version) ==
    [Marker |-> "goetia", Schema |-> "1", Spec |-> blob(spec, version), Version |-> version]

\* Users authored as a SID, and the names LookupAccountSid has for them.
Sids == {"S-1-5-18", "S-1-5-19"}
account_name_from_sid_string(sid) == IF sid = "S-1-5-18" THEN "system" ELSE "local service"

resolve(user) == IF user \in Sids THEN account_name_from_sid_string(user) ELSE user

\* The built-in accounts a name spells: one or none.
Spellings == [LocalSystem |-> {"LocalSystem", "system"}, LocalService |-> {"LocalService", "local service"}]
windows_builtin(name) == {b \in DOMAIN Spellings : name \in Spellings[b]}

canonical_account(resolved) ==
    IF windows_builtin(resolved) = {} THEN resolved ELSE CHOOSE b \in windows_builtin(resolved) : TRUE

\* Neither a built-in nor a virtual account has a password.
account_needs_password(account) == windows_builtin(account) = {} /\ account # "virtual"

Registrable(spec) == spec.restart # "always"

registration(spec, version) ==
    [image       |-> IF spec.kind = "simple" THEN "shim" ELSE spec.command,
     account     |-> IF spec.user = "root" THEN "LocalSystem" ELSE canonical_account(resolve(spec.user)),
     failure     |-> IF spec.restart = "never" THEN {} ELSE {<<"restart", TRUE>>},
     environment |-> IF spec.kind = "managed" THEN spec.env ELSE {},
     parameters  |-> parameters(spec, version)]

-----------------------------------------------------------------------------
(* The record. `obj` numbers the services that have had the name; `secret`:  *)
(* SCM was given a password with the account.                                *)

Absent(obj) ==
    [there |-> FALSE, obj |-> obj, marked |-> FALSE, start |-> "demand", image |-> "none",
     account |-> "LocalSystem", secret |-> FALSE, actions |-> "none", flag |-> FALSE,
     environment |-> [lines |-> {}, odd |-> FALSE], parameters |-> Empty]

\* The ServiceInfo of a create or an update, on the record `s`. An update spells
\* LocalSystem out, for change_config without an account would leave the old one.
service_info(s, reg, start, account, secret) ==
    [s EXCEPT !.there = TRUE, !.image = reg.image, !.start = start,
              !.account = account, !.secret = secret]

Created(obj, reg, secret) ==
    service_info(Absent(obj), reg, "demand", reg.account, secret)

\* Broken: the start type to restate is not asked for.
Changed_Unread(s, reg, start, secret) == service_info(s, reg, "none", reg.account, secret)

Changed(s, reg, start, secret) == service_info(s, reg, start, reg.account, secret)

\* A record as installed by `version` with nothing touched since.
Installed(spec, version, start) ==
    LET reg == registration(spec, version)
    IN  [Created(1, reg, account_needs_password(reg.account)) EXCEPT
            !.start = start,
            !.actions = IF reg.failure = {} THEN "none" ELSE "restart",
            !.flag = reg.failure # {},
            !.environment = [lines |-> reg.environment, odd |-> FALSE],
            !.parameters = reg.parameters]

-----------------------------------------------------------------------------
(* Reading it back.                                                          *)

\* The values spelled like `field`; more than one is an error.
get_field(params, field) == {params[k] : k \in {k \in DOMAIN params : Folded[k] = field}}
Spelled(params, field) == {k \in DOMAIN params : Folded[k] = field}

\* No marker is foreign; a marker must be goetia's, and everything beside it
\* must be there once and agree with what Spec decodes to.
HasMarker(params) == Spelled(params, "Marker") # {}

Decodes(params) ==
    /\ \A f \in {"Marker", "Schema", "Spec", "Version"} : Cardinality(Spelled(params, f)) = 1
    /\ get_field(params, "Marker") = {"goetia"}
    /\ get_field(params, "Schema") = {"1"}
    /\ \A b \in get_field(params, "Spec") :
           b.spec # NoSpec /\ get_field(params, "Version") = {b.version}

extract(params) == CHOOSE b \in get_field(params, "Spec") : TRUE

\* A value not laid out as goetia writes it reads with a line no spec has.
environment_lines(raw) == raw.lines \cup {"(odd)" : x \in {y \in {raw} : y.odd}}

\* Actions that restart nothing read as none, whatever their flag.
read_failure_actions(s) == {<<a, s.flag>> : a \in {s.actions} \ {"none"}}

read_live_registration(s, env, params) ==
    [image       |-> s.image,
     account     |-> canonical_account(s.account),
     failure     |-> read_failure_actions(s),
     environment |-> env,
     parameters  |-> params]

ReadBack(s) == read_live_registration(s, environment_lines(s.environment), s.parameters)
=============================================================================
