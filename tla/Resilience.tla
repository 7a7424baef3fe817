----------------------------- MODULE Resilience -----------------------------
(***************************************************************************)
(* withRetry and makeResilient (src/infrastructure/resilience): concurrent *)
(* calls, each a loop of attempts with exponential backoff, bounded by a   *)
(* number of attempts and by elapsed time.  Times are in milliseconds of a *)
(* clock that only goes forward.  What is logged and counted is left out.  *)
(***************************************************************************)
EXTENDS Naturals

CONSTANTS
  Call,          \* the calls of the operation
  MaxAttempts,   \* RETRY_MAX_ATTEMPTS
  BaseDelay,     \* RETRY_BASE_DELAY_MS
  MaxDelay,      \* RETRY_MAX_DELAY_MS
  MaxElapsed,    \* RETRY_MAX_ELAPSED_MS
  AttemptTime,   \* the longest an attempt takes to settle
  Slack,         \* the latest a timer fires after it is due
  LastStart      \* bound: no call starts later than this

\* The ranges of the configuration schema (config/env.ts).
ASSUME PolicyIsValid ==
  /\ MaxAttempts \in 1 .. 10
  /\ BaseDelay \in Nat \ {0}
  /\ MaxDelay \in Nat \ {0}
  /\ MaxElapsed \in Nat \ {0}
ASSUME EnvironmentIsTimed == AttemptTime \in Nat /\ Slack \in Nat /\ LastStart \in Nat

\* What the proofs use of the exponential: the policy has at most ten attempts.
ASSUME PowersAreNatural == \A n \in 0 .. 9 : 2 ^ n \in Nat

VARIABLES
  now,
  state,       \* state[c]: "idle", "calling", "sleeping", "returned", "threw"
  attempt,     \* attempt[c]: how many attempts c has begun
  startedAt,   \* startedAt[c]: when withRetry was entered
  since,       \* since[c]: when c began its attempt or fell asleep
  due,         \* due[c]: when the sleep of c ends
  error        \* error[c]: what the wrapped error of a call that threw says

vars == <<now, state, attempt, startedAt, since, due, error>>

State == {"idle", "calling", "sleeping", "returned", "threw"}

\* error-classifiers.ts puts every driver error into one of two kinds.
Kind == {"transient", "permanent"}

TypeOK ==
  /\ now \in Nat
  /\ state \in [Call -> State]
  /\ attempt \in [Call -> 0 .. MaxAttempts]
  /\ startedAt \in [Call -> Nat]
  /\ since \in [Call -> Nat]
  /\ due \in [Call -> Nat]
  /\ error \in [Call -> {"none", "RETRY_EXHAUSTED", "PERMANENT"}]

Init ==
  /\ now = 0
  /\ state = [c \in Call |-> "idle"]
  /\ attempt = [c \in Call |-> 0]
  /\ startedAt = [c \in Call |-> 0]
  /\ since = [c \in Call |-> 0]
  /\ due = [c \in Call |-> 0]
  /\ error = [c \in Call |-> "none"]

\* computeBackoffDelay: the exponential with its cap.
Capped(n) ==
  LET exponential == BaseDelay * 2 ^ (n - 1)
  IN  IF exponential < MaxDelay THEN exponential ELSE MaxDelay

\* wrapDatabaseError, wrapStorageError.
Wrapped(kind) == IF kind = "transient" THEN "RETRY_EXHAUSTED" ELSE "PERMANENT"

Pending(c) == state[c] \in {"calling", "sleeping"}

----------------------------------------------------------------------------
(* Variants with a plausible bug, one per property; none is part of Spec.  *)

\* The attempt counter is compared before it counts the attempt.
AttemptsRemainOffByOne(c) == attempt[c] <= MaxAttempts

\* The elapsed-time budget is not looked at.
TimeRemainsAlways(c) == attempt[c] \in Nat

\* Jitter takes the whole of the delay, not half of it.
DelaysFromZero(n) == {d \in 0 .. MaxDelay : d <= Capped(n)}

\* The attempt that may still follow is taken for the last one.
AttemptsRemainTooFew(c) == attempt[c] < MaxAttempts - 1

\* The promise of the timer is never resolved.
WakeNever(c) == attempt[c] > MaxAttempts /\ UNCHANGED vars

----------------------------------------------------------------------------
(* One call. *)

\* What jitter can make of the capped exponential: half of it to all of it,
\* rounded.
Delays(n) == {d \in 0 .. MaxDelay : 2 * d >= Capped(n) /\ d <= Capped(n)}

Begin(c) ==
  /\ state[c] = "idle"
  /\ now <= LastStart
  /\ state' = [state EXCEPT ![c] = "calling"]
  /\ attempt' = [attempt EXCEPT ![c] = 1]
  /\ startedAt' = [startedAt EXCEPT ![c] = now]
  /\ since' = [since EXCEPT ![c] = now]
  /\ UNCHANGED <<now, due, error>>

Return(c) ==
  /\ state[c] = "calling"
  /\ state' = [state EXCEPT ![c] = "returned"]
  /\ UNCHANGED <<now, attempt, startedAt, since, due, error>>

AttemptsRemain(c) == attempt[c] < MaxAttempts
TimeRemains(c) == now - startedAt[c] < MaxElapsed

Sleep(c) ==
  /\ state' = [state EXCEPT ![c] = "sleeping"]
  /\ since' = [since EXCEPT ![c] = now]
  /\ \E delay \in Delays(attempt[c]) : due' = [due EXCEPT ![c] = now + delay]
  /\ UNCHANGED error

GiveUp(c, kind) ==
  /\ state' = [state EXCEPT ![c] = "threw"]
  /\ error' = [error EXCEPT ![c] = Wrapped(kind)]
  /\ UNCHANGED <<since, due>>

Fail(c) ==
  /\ state[c] = "calling"
  /\ \E kind \in Kind :
       IF kind = "transient" /\ AttemptsRemain(c) /\ TimeRemains(c)
         THEN Sleep(c)
         ELSE GiveUp(c, kind)
  /\ UNCHANGED <<now, attempt, startedAt>>

Wake(c) ==
  /\ state[c] = "sleeping"
  /\ now >= due[c]
  /\ state' = [state EXCEPT ![c] = "calling"]
  /\ attempt' = [attempt EXCEPT ![c] = @ + 1]
  /\ since' = [since EXCEPT ![c] = now]
  /\ UNCHANGED <<now, startedAt, due, error>>

\* Time passes while no attempt and no timer is overdue.  It stops when there
\* is nothing left to time.
Tick ==
  /\ now < LastStart \/ \E c \in Call : Pending(c)
  /\ \A c \in Call :
       /\ state[c] = "calling" => now < since[c] + AttemptTime
       /\ state[c] = "sleeping" => now < due[c] + Slack
  /\ now' = now + 1
  /\ UNCHANGED <<state, attempt, startedAt, since, due, error>>

CallNext(c) == Begin(c) \/ Return(c) \/ Fail(c) \/ Wake(c)

Next == Tick \/ \E c \in Call : CallNext(c)

Spec == Init /\ [][Next]_vars

\* Attempts settle and timers fire.
Fairness ==
  /\ WF_vars(Tick)
  /\ \A c \in Call : WF_vars(Return(c) \/ Fail(c)) /\ WF_vars(Wake(c))

FairSpec == Spec /\ Fairness

----------------------------------------------------------------------------
(* Properties. *)

\* The longest a call can take, from the entry of withRetry to its end: the
\* last failure that may be retried happens before MaxElapsed, and the sleep
\* and the attempt after it are not cut short.
Longest == MaxElapsed - 1 + MaxDelay + Slack + AttemptTime

\* A caller waits no longer than that, however the attempts fail.
EndsInTime ==
  \A c \in Call : Pending(c) => now - startedAt[c] <= Longest

\* Half of the n-th delay, rounded up: the shortest sleep that jitter leaves.
LeastDelay(n) == (Capped(n) + 1) \div 2

\* The least time that has passed when a call begins its n-th attempt, of the
\* ten that a policy can allow.
LeastWait[n \in 1 .. 10] ==
  IF n = 1 THEN 0 ELSE LeastWait[n - 1] + LeastDelay(n - 1)

\* Backoff relieves a database in trouble: the attempts of a call are spread
\* over at least half of the exponential delays, jitter notwithstanding.
AttemptsAreSpread ==
  \A c \in Call : state[c] = "calling" =>
    since[c] - startedAt[c] >= LeastWait[attempt[c]]

\* A transient failure that is over soon does not reach the client: whoever is
\* told that the retries are exhausted waited until the time for them was over
\* or, jitter notwithstanding, for the backoff before every attempt there is.
ShortOutagesAreSurvived ==
  \A c \in Call : error[c] = "RETRY_EXHAUSTED" =>
    now - startedAt[c] >= MaxElapsed \/ now - startedAt[c] >= LeastWait[MaxAttempts]

\* withRetry is what RequestFlow takes it for.
Abstract == INSTANCE ResilientCall WITH
  phase <- [c \in Call |-> IF Pending(c) THEN "trying" ELSE state[c]],
  tries <- [c \in Call |-> IF state[c] = "sleeping" THEN attempt[c] + 1 ELSE attempt[c]]

KeepsPromise == Abstract!Spec

\* Every call ends, as long as attempts settle and timers fire.
EveryCallEnds == \A c \in Call : Pending(c) ~> ~Pending(c)

----------------------------------------------------------------------------
(* What the repository says of itself and the code does not do. *)

\* README.md, on RETRY_MAX_ELAPSED_MS: "Cap on total wall-clock time spent
\* retrying one operation": no retry begins when that time is over.
RetriesWithinCap ==
  \A c \in Call : state[c] = "calling" /\ attempt[c] > 1 =>
    since[c] - startedAt[c] < MaxElapsed
=============================================================================
