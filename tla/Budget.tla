------------------------------- MODULE Budget -------------------------------
(* How long a command may wait (manager/budget.rs): a budget, the instant it *)
(* resolves to, and the milliseconds a wait is given of what is left.        *)
(* Instants and durations count the clock's own unit, the nanosecond.        *)
EXTENDS Naturals

CONSTANTS Millis,      \* nanoseconds in a millisecond
          MaxU32,      \* the number SleepEx takes for ever
          MaxInstant   \* the last instant the clock can tell

ASSUME BudgetAssumption == Millis \in Nat \ {0} /\ MaxU32 \in Nat \ {0, 1} /\ MaxInstant \in Nat

Immediate == [kind |-> "Immediate", d |-> 0]
Unbounded == [kind |-> "Unbounded", d |-> 0]
Bounded(d) == [kind |-> "Bounded", d |-> d]

IsBudget(b) == b \in {Immediate, Unbounded} \cup [kind : {"Bounded"}, d : Nat]

\* A zero-length bound is no wait, everywhere a caller asks.
waits(b) == b # Immediate /\ b # Bounded(0)

\* A deadline is the set of its instant, empty when there is none: a bound past
\* the clock's end is no bound.
start_at(b, now) ==
    IF b = Immediate THEN {now}
    ELSE {t \in {now + b.d} : b # Unbounded /\ t <= MaxInstant}

remaining_at(deadline, now) == {IF t > now THEN t - now ELSE 0 : t \in deadline}

expired(deadline, now) == remaining_at(deadline, now) = {0}

\* What a later step of the same command may spend.
budget_for_at(deadline, now) ==
    IF deadline = {} THEN Unbounded
    ELSE IF expired(deadline, now) THEN Immediate
    ELSE Bounded(CHOOSE r \in remaining_at(deadline, now) : TRUE)

\* Broken: what is left is rounded down.
millis_ceil_Floors(d) ==
    LET floor == d \div Millis
    IN  IF floor < MaxU32 THEN floor ELSE MaxU32 - 1

millis_ceil(d) ==
    LET ceil == d \div Millis + (IF d % Millis = 0 THEN 0 ELSE 1)
    IN  IF ceil < MaxU32 THEN ceil ELSE MaxU32 - 1

remaining_millis_capped_at(deadline, now) == {millis_ceil(r) : r \in remaining_at(deadline, now)}

\* sleep_until_woken gives up when there is nothing to sleep for.
gives_up(deadline, now) == remaining_millis_capped_at(deadline, now) = {0}
=============================================================================
