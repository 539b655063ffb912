---------------------------- MODULE BudgetProofs ----------------------------
(* What Budget's arithmetic gives a wait, for every duration and every clock. *)
EXTENDS Budget, TLAPS

\* Division by the milliseconds, in the form the proofs use.
LEMMA Divides ==
    ASSUME NEW d \in Nat
    PROVE  /\ d \div Millis \in Nat
           /\ d % Millis \in 0..(Millis - 1)
           /\ d = Millis * (d \div Millis) + (d % Millis)
<1>1. Millis \in Nat /\ Millis > 0
  BY BudgetAssumption
<1> QED
  BY <1>1, SMT

\* millis_ceil is 0 only for no time at all, and never the number that sleeps
\* for ever.
THEOREM MillisCeilBounds ==
    ASSUME NEW d \in Nat
    PROVE  /\ millis_ceil(d) \in Nat
           /\ millis_ceil(d) < MaxU32
           /\ millis_ceil(d) = 0 <=> d = 0
<1>1. /\ d \div Millis \in Nat
      /\ d % Millis \in Nat
      /\ d = Millis * (d \div Millis) + (d % Millis)
  BY Divides, BudgetAssumption
<1>2. d = 0 => d \div Millis = 0 /\ d % Millis = 0
  BY BudgetAssumption, SMT
<1>3. (d \div Millis = 0 /\ d % Millis = 0) => d = 0
  BY <1>1, BudgetAssumption, SMT
<1> QED
  BY <1>1, <1>2, <1>3, BudgetAssumption, SMT DEF millis_ceil

\* What millis_ceil rounds is never shortened, except by the cap.
THEOREM MillisCeilCovers ==
    ASSUME NEW d \in Nat
    PROVE  Millis * millis_ceil(d) >= d \/ millis_ceil(d) = MaxU32 - 1
<1> DEFINE q == d \div Millis
           r == d % Millis
<1>1. q \in Nat /\ r \in 0..(Millis - 1) /\ d = Millis * q + r
  BY Divides
<1>2. CASE r = 0
  <2>1. millis_ceil(d) = q \/ millis_ceil(d) = MaxU32 - 1
    BY <1>1, <1>2 DEF millis_ceil
  <2> QED
    BY <1>1, <1>2, <2>1, BudgetAssumption, SMT
<1>3. CASE r # 0
  <2>1. millis_ceil(d) = q + 1 \/ millis_ceil(d) = MaxU32 - 1
    BY <1>1, <1>3 DEF millis_ceil
  <2>2. Millis * (q + 1) = Millis * q + Millis
    BY <1>1, BudgetAssumption, SMT
  <2> QED
    BY <1>1, <2>1, <2>2, BudgetAssumption, SMT
<1> QED
  BY <1>2, <1>3

\* A deadline at an instant t has this left.
LEMMA RemainingOf ==
    ASSUME NEW t \in Nat, NEW now \in Nat
    PROVE  remaining_at({t}, now) = {IF t > now THEN t - now ELSE 0}
BY DEF remaining_at

\* The wait in milliseconds gives up exactly when its deadline has passed, as
\* MillisKeepDeadline says of every state of the commands.
THEOREM GivesUpWhenExpired ==
    ASSUME NEW t \in Nat, NEW now \in Nat
    PROVE  gives_up({t}, now) <=> expired({t}, now)
<1> DEFINE left == IF t > now THEN t - now ELSE 0
<1>1. left \in Nat
  OBVIOUS
<1>2. remaining_at({t}, now) = {left}
  BY RemainingOf
<1>3. remaining_millis_capped_at({t}, now) = {millis_ceil(left)}
  BY <1>2, Zenon DEF remaining_millis_capped_at
<1>4. millis_ceil(left) = 0 <=> left = 0
  BY <1>1, MillisCeilBounds
<1> HIDE DEF left
<1> QED
  BY <1>2, <1>3, <1>4 DEF gives_up, expired

\* A later step's budget waits exactly if its deadline has not passed: spent is
\* Immediate, unbounded stays Unbounded.
THEOREM LaterBudgetWaits ==
    ASSUME NEW deadline \in SUBSET Nat, NEW now \in Nat,
           deadline = {} \/ \E t \in Nat : deadline = {t}
    PROVE  waits(budget_for_at(deadline, now)) <=> ~expired(deadline, now)
<1>1. CASE deadline = {}
  <2>1. remaining_at(deadline, now) = {}
    BY <1>1 DEF remaining_at
  <2>2. ~expired(deadline, now)
    BY <2>1 DEF expired
  <2> QED
    BY <1>1, <2>2 DEF budget_for_at, waits, Unbounded, Immediate, Bounded
<1>2. ASSUME NEW t \in Nat, deadline = {t}
      PROVE  waits(budget_for_at(deadline, now)) <=> ~expired(deadline, now)
  <2> DEFINE left == IF t > now THEN t - now ELSE 0
  <2>1. left \in Nat
    OBVIOUS
  <2>2. remaining_at(deadline, now) = {left}
    BY <1>2, RemainingOf
  <2> HIDE DEF left
  <2>3. expired(deadline, now) <=> left = 0
    BY <2>2 DEF expired
  <2>4. CASE left = 0
    BY <1>2, <2>3, <2>4 DEF budget_for_at, waits
  <2>5. CASE left # 0
    <3>1. budget_for_at(deadline, now) = Bounded(left)
      BY <1>2, <2>2, <2>3, <2>5 DEF budget_for_at
    <3> QED
      BY <2>3, <2>5, <3>1 DEF waits, Bounded, Immediate
  <2> QED
    BY <2>4, <2>5
<1> QED
  BY <1>1, <1>2
=============================================================================
