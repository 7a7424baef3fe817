-------------------------- MODULE ResilienceProofs --------------------------
(***************************************************************************)
(* Proofs about Resilience, for every retry policy the configuration       *)
(* accepts, any set of calls and any bound on attempts and timers.         *)
(***************************************************************************)
EXTENDS Resilience, TLAPS

\* While an attempt runs, it began on time; while a call sleeps, the failure
\* it sleeps after happened within MaxElapsed.
Timely(c) ==
  /\ state[c] = "calling" =>
       /\ attempt[c] \in 1 .. MaxAttempts
       /\ startedAt[c] <= since[c] /\ since[c] <= now
       /\ now <= since[c] + AttemptTime
       /\ since[c] - startedAt[c] <= MaxElapsed - 1 + MaxDelay + Slack
  /\ state[c] = "sleeping" =>
       /\ attempt[c] \in 1 .. MaxAttempts - 1
       /\ startedAt[c] <= since[c] /\ since[c] <= now
       /\ since[c] - startedAt[c] <= MaxElapsed - 1
       /\ due[c] <= since[c] + MaxDelay
       /\ now <= due[c] + Slack

TimeInv == TypeOK /\ \A c \in Call : Timely(c)

LEMMA InitTimeInv == Init => TimeInv
BY PolicyIsValid DEF Init, TimeInv, TypeOK, Timely, State

\* Only the call that moves changes; the clock stands still meanwhile.
LEMMA OneCallMoves ==
  ASSUME TimeInv, NEW c \in Call, now' = now, TypeOK', Timely(c)',
         \A d \in Call \ {c} : /\ state'[d] = state[d] /\ attempt'[d] = attempt[d]
                               /\ startedAt'[d] = startedAt[d] /\ since'[d] = since[d]
                               /\ due'[d] = due[d]
  PROVE  TimeInv'
BY DEF TimeInv, Timely

LEMMA BeginKeepsTime ==
  ASSUME TimeInv, NEW c \in Call, Begin(c)
  PROVE  TimeInv'
<1> USE DEF TimeInv, TypeOK, State
<1>1. TypeOK'
  BY PolicyIsValid DEF Begin
<1>2. Timely(c)'
  BY PolicyIsValid, EnvironmentIsTimed DEF Begin, Timely
<1> QED BY <1>1, <1>2, OneCallMoves DEF Begin

LEMMA ReturnKeepsTime ==
  ASSUME TimeInv, NEW c \in Call, Return(c)
  PROVE  TimeInv'
<1> USE DEF TimeInv, TypeOK, State
<1>1. TypeOK'
  BY DEF Return
<1>2. Timely(c)'
  BY DEF Return, Timely
<1> QED BY <1>1, <1>2, OneCallMoves DEF Return

LEMMA WakeKeepsTime ==
  ASSUME TimeInv, NEW c \in Call, Wake(c)
  PROVE  TimeInv'
<1> USE DEF TimeInv, TypeOK, State
<1>1. attempt[c] \in 1 .. MaxAttempts - 1
  BY DEF Wake, Timely
<1>2. TypeOK'
  BY <1>1, PolicyIsValid DEF Wake
<1>3. Timely(c)'
  BY <1>1, PolicyIsValid, EnvironmentIsTimed DEF Wake, Timely
<1> QED BY <1>2, <1>3, OneCallMoves DEF Wake

LEMMA FailKeepsTime ==
  ASSUME TimeInv, NEW c \in Call, Fail(c)
  PROVE  TimeInv'
<1> USE DEF TimeInv, TypeOK, State
<1>1. PICK kind \in Kind :
        IF kind = "transient" /\ AttemptsRemain(c) /\ TimeRemains(c)
          THEN Sleep(c) ELSE GiveUp(c, kind)
  BY DEF Fail
<1>2. CASE Sleep(c) /\ AttemptsRemain(c) /\ TimeRemains(c)
  <2>1. PICK delay \in Delays(attempt[c]) : due' = [due EXCEPT ![c] = now + delay]
    BY <1>2 DEF Sleep
  <2>2. delay \in Nat /\ delay <= MaxDelay
    BY PolicyIsValid DEF Delays
  <2>3. TypeOK'
    BY <1>2, <2>1, <2>2 DEF Fail, Sleep
  <2>4. Timely(c)'
    BY <1>2, <2>1, <2>2, PolicyIsValid, EnvironmentIsTimed
       DEF Fail, Sleep, AttemptsRemain, TimeRemains, Timely
  <2> QED BY <1>2, <2>1, <2>3, <2>4, OneCallMoves DEF Fail, Sleep
<1>3. CASE GiveUp(c, kind)
  <2>1. TypeOK'
    BY <1>3 DEF Fail, GiveUp, Wrapped
  <2>2. Timely(c)'
    BY <1>3 DEF Fail, GiveUp, Timely
  <2> QED BY <1>3, <2>1, <2>2, OneCallMoves DEF Fail, GiveUp
<1> QED BY <1>1, <1>2, <1>3

LEMMA TickKeepsTime == TimeInv /\ Tick => TimeInv'
BY EnvironmentIsTimed, PolicyIsValid DEF TimeInv, TypeOK, State, Timely, Tick

LEMMA NextKeepsTime == TimeInv /\ [Next]_vars => TimeInv'
<1> SUFFICES ASSUME TimeInv, [Next]_vars PROVE TimeInv'
  OBVIOUS
<1>1. CASE Tick
  BY <1>1, TickKeepsTime
<1>2. ASSUME NEW c \in Call, CallNext(c)
      PROVE  TimeInv'
  BY <1>2, BeginKeepsTime, ReturnKeepsTime, FailKeepsTime, WakeKeepsTime DEF CallNext
<1>3. CASE UNCHANGED vars
  BY <1>3 DEF TimeInv, TypeOK, Timely, vars
<1> QED BY <1>1, <1>2, <1>3 DEF Next

LEMMA TimeInvHolds == Spec => []TimeInv
<1>1. Init => TimeInv
  BY InitTimeInv
<1>2. TimeInv /\ [Next]_vars => TimeInv'
  BY NextKeepsTime
<1> QED BY <1>1, <1>2, PTL DEF Spec

\* The state of withRetry has the types TypeOK gives it; the number of
\* attempts never exceeds the policy.
THEOREM ResilienceTypeCorrect == Spec => []TypeOK
<1>1. TimeInv => TypeOK
  BY DEF TimeInv
<1> QED BY <1>1, TimeInvHolds, PTL

\* No caller of a repository waits longer than Longest, whatever the policy,
\* the number of concurrent calls and the failures.
THEOREM CallsEndInTime == Spec => []EndsInTime
<1>1. TimeInv => EndsInTime
  BY PolicyIsValid, EnvironmentIsTimed
     DEF TimeInv, TypeOK, Timely, EndsInTime, Pending, Longest, State
<1> QED BY <1>1, TimeInvHolds, PTL

----------------------------------------------------------------------------
(* Resilience implements ResilientCall. *)


LEMMA InitRefines == Init => Abstract!Init
BY DEF Init, Abstract!Init, Pending

LEMMA StepRefines ==
  ASSUME TimeInv, [Next]_vars
  PROVE  [Abstract!Next]_(Abstract!callVars)
<1> USE DEF TimeInv, TypeOK, State, Pending
<1>1. CASE Tick \/ UNCHANGED vars
  BY <1>1 DEF Tick, vars, Abstract!callVars
<1>2. ASSUME NEW c \in Call, Begin(c)
      PROVE  Abstract!Begin(c)
  BY <1>2 DEF Begin, Abstract!Begin
<1>3. ASSUME NEW c \in Call, Return(c)
      PROVE  Abstract!Settle(c)
  BY <1>3 DEF Return, Abstract!Settle
<1>4. ASSUME NEW c \in Call, Fail(c)
      PROVE  Abstract!Again(c) \/ Abstract!Settle(c)
  <2>1. PICK kind \in Kind :
          IF kind = "transient" /\ AttemptsRemain(c) /\ TimeRemains(c)
            THEN Sleep(c) ELSE GiveUp(c, kind)
    BY <1>4 DEF Fail
  <2>2. CASE Sleep(c) /\ AttemptsRemain(c)
    BY <1>4, <2>2, PolicyIsValid DEF Fail, Sleep, AttemptsRemain, Abstract!Again
  <2>3. CASE GiveUp(c, kind)
    BY <1>4, <2>3 DEF Fail, GiveUp, Abstract!Settle
  <2> QED BY <2>1, <2>2, <2>3
<1>5. ASSUME NEW c \in Call, Wake(c)
      PROVE  UNCHANGED Abstract!callVars
  BY <1>5 DEF Wake, Abstract!callVars
<1> QED BY <1>1, <1>2, <1>3, <1>4, <1>5 DEF Next, CallNext, Abstract!Next

\* withRetry, with its clock, its jitter and its two budgets, is an
\* implementation of the retries that the model of a request builds on.
THEOREM RetryKeepsPromise == Spec => KeepsPromise
<1>1. Init => Abstract!Init
  BY InitRefines
<1>2. TimeInv /\ [Next]_vars => [Abstract!Next]_(Abstract!callVars)
  BY StepRefines
<1> QED BY <1>1, <1>2, TimeInvHolds, PTL DEF Spec, KeepsPromise, Abstract!Spec

----------------------------------------------------------------------------
(* The attempts of a call are spread. *)

LEMMA LeastDelays ==
  ASSUME NEW n \in 1 .. 10
  PROVE  Capped(n) \in Nat /\ LeastDelay(n) \in Nat
<1> DEFINE power == 2 ^ (n - 1)
<1>1. power \in Nat
  <2>1. n - 1 \in 0 .. 9
    OBVIOUS
  <2> QED BY <2>1, PowersAreNatural, Zenon
<1>2. Capped(n) = IF BaseDelay * power < MaxDelay THEN BaseDelay * power ELSE MaxDelay
  BY Zenon DEF Capped
<1> HIDE DEF power
<1>3. Capped(n) \in Nat
  BY <1>1, <1>2, PolicyIsValid
<1> QED BY <1>3 DEF LeastDelay

\* LeastWait satisfies the equation that defines it: the ten sums it stands
\* for are a function that does.
LEMMA LeastWaitUnfolds ==
  LeastWait = [n \in 1 .. 10 |->
                 IF n = 1 THEN 0 ELSE LeastWait[n - 1] + LeastDelay(n - 1)]
<1> DEFINE s2 == 0 + LeastDelay(1)
           s3 == s2 + LeastDelay(2)
           s4 == s3 + LeastDelay(3)
           s5 == s4 + LeastDelay(4)
           s6 == s5 + LeastDelay(5)
           s7 == s6 + LeastDelay(6)
           s8 == s7 + LeastDelay(7)
           s9 == s8 + LeastDelay(8)
           s10 == s9 + LeastDelay(9)
           wait == [n \in 1 .. 10 |->
             IF n = 1 THEN 0 ELSE IF n = 2 THEN s2 ELSE IF n = 3 THEN s3 ELSE
             IF n = 4 THEN s4 ELSE IF n = 5 THEN s5 ELSE IF n = 6 THEN s6 ELSE
             IF n = 7 THEN s7 ELSE IF n = 8 THEN s8 ELSE IF n = 9 THEN s9 ELSE s10]
           Sum(f) == f = [n \in 1 .. 10 |->
                            IF n = 1 THEN 0 ELSE f[n - 1] + LeastDelay(n - 1)]
<1>1. \A n \in 1 .. 10 : wait[n] = IF n = 1 THEN 0 ELSE wait[n - 1] + LeastDelay(n - 1)
  OBVIOUS
<1>2. Sum(wait)
  BY <1>1
<1>3. LeastWait = CHOOSE f : Sum(f)
  BY DEF LeastWait
<1> HIDE DEF Sum, wait
<1>4. Sum(LeastWait)
  BY <1>2, <1>3
<1> QED BY <1>4 DEF Sum

LEMMA LeastWaitGrows ==
  /\ LeastWait[1] = 0
  /\ \A n \in 1 .. 9 : LeastWait[n + 1] = LeastWait[n] + LeastDelay(n)
  /\ \A n \in 1 .. 10 : LeastWait[n] \in Nat
<1> DEFINE Wait(n) == LeastWait[n]
           Delay(n) == LeastDelay(n)
<1>1. \A n \in 1 .. 10 : Wait(n) = IF n = 1 THEN 0 ELSE Wait(n - 1) + Delay(n - 1)
  BY LeastWaitUnfolds
<1>2. \A n \in 1 .. 10 : Delay(n) \in Nat
  BY LeastDelays
<1> HIDE DEF Wait, Delay
<1>3. Wait(1) = 0 /\ \A n \in 1 .. 9 : Wait(n + 1) = Wait(n) + Delay(n)
  BY <1>1
<1>4. Wait(2) \in Nat /\ Wait(3) \in Nat /\ Wait(4) \in Nat
  BY <1>2, <1>3
<1>5. Wait(5) \in Nat /\ Wait(6) \in Nat /\ Wait(7) \in Nat
  BY <1>2, <1>3, <1>4
<1>6. Wait(8) \in Nat /\ Wait(9) \in Nat /\ Wait(10) \in Nat
  BY <1>2, <1>3, <1>5
<1>7. \A n \in 1 .. 10 : Wait(n) \in Nat
  BY <1>3, <1>4, <1>5, <1>6
<1> QED BY <1>3, <1>7 DEF Wait, Delay

\* A sleep that jitter allows is no shorter than LeastDelay.
LEMMA DelaysAreLong ==
  ASSUME NEW n \in 1 .. 10, NEW delay \in Delays(n)
  PROVE  delay \in Nat /\ LeastDelay(n) <= delay
BY LeastDelays, PolicyIsValid DEF Delays, LeastDelay

\* A running attempt has waited for the sum of the shortest sleeps before it;
\* a sleeping call will have waited for one more when it is due.
SpreadAt(c) ==
  /\ state[c] = "calling" => since[c] - startedAt[c] >= LeastWait[attempt[c]]
  /\ state[c] = "sleeping" => due[c] - startedAt[c] >= LeastWait[attempt[c] + 1]

LEMMA FailKeepsSpread ==
  ASSUME TimeInv, NEW c \in Call, SpreadAt(c), Fail(c)
  PROVE  SpreadAt(c)'
<1> USE DEF TimeInv, TypeOK, State
<1>1. PICK kind \in Kind :
        IF kind = "transient" /\ AttemptsRemain(c) /\ TimeRemains(c)
          THEN Sleep(c) ELSE GiveUp(c, kind)
  BY DEF Fail
<1>2. CASE Sleep(c) /\ AttemptsRemain(c)
  <2>1. PICK delay \in Delays(attempt[c]) : due' = [due EXCEPT ![c] = now + delay]
    BY <1>2 DEF Sleep
  <2>2. attempt[c] \in 1 .. 9
    BY <1>2, PolicyIsValid DEF Fail, Timely, AttemptsRemain
  <2>3. delay \in Nat /\ LeastDelay(attempt[c]) <= delay
    BY <2>2, DelaysAreLong
  <2>4. now - startedAt[c] >= LeastWait[attempt[c]]
    BY <2>2, LeastWaitGrows DEF Fail, SpreadAt, Timely
  <2>5. now + delay - startedAt[c] >= LeastWait[attempt[c] + 1]
    BY <2>2, <2>3, <2>4, LeastWaitGrows, LeastDelays
  <2> QED BY <1>2, <2>1, <2>3, <2>5 DEF Fail, Sleep, SpreadAt
<1>3. CASE GiveUp(c, kind)
  BY <1>3 DEF GiveUp, SpreadAt
<1> QED BY <1>1, <1>2, <1>3

LEMMA NextKeepsSpread ==
  ASSUME TimeInv, \A c \in Call : SpreadAt(c), [Next]_vars
  PROVE  (\A c \in Call : SpreadAt(c))'
<1> USE DEF TimeInv, TypeOK, State
<1>1. CASE Tick \/ UNCHANGED vars
  BY <1>1 DEF Tick, vars, SpreadAt
<1>2. ASSUME NEW c \in Call, CallNext(c)
      PROVE  (\A d \in Call : SpreadAt(d))'
  <2>1. SpreadAt(c)'
    <3>1. CASE Begin(c)
      BY <3>1, LeastWaitGrows DEF Begin, SpreadAt
    <3>2. CASE Return(c)
      BY <3>2 DEF Return, SpreadAt
    <3>3. CASE Fail(c)
      BY <3>3, FailKeepsSpread
    <3>4. CASE Wake(c)
      <4>1. attempt[c] + 1 \in 1 .. 10
        BY <3>4, PolicyIsValid DEF Wake, Timely
      <4>2. LeastWait[attempt[c] + 1] \in Nat
        BY <4>1, LeastWaitGrows
      <4>3. now - startedAt[c] >= LeastWait[attempt[c] + 1]
        BY <3>4, <4>2 DEF Wake, SpreadAt
      <4> QED BY <3>4, <4>3 DEF Wake, SpreadAt
    <3> QED BY <1>2, <3>1, <3>2, <3>3, <3>4 DEF CallNext
  <2>2. ASSUME NEW d \in Call, d # c
        PROVE  SpreadAt(d)'
    BY <1>2, <2>2 DEF CallNext, Begin, Return, Fail, Sleep, GiveUp, Wake, SpreadAt
  <2> QED BY <2>1, <2>2
<1> QED BY <1>1, <1>2 DEF Next

\* Backoff spreads the attempts of a call over at least half of the exponential
\* delays, for every policy, whatever jitter draws and however late timers fire.
THEOREM BackoffSpreadsAttempts == Spec => []AttemptsAreSpread
<1>1. Init => \A c \in Call : SpreadAt(c)
  BY DEF Init, SpreadAt
<1>2. TimeInv /\ (\A c \in Call : SpreadAt(c)) /\ [Next]_vars
        => (\A c \in Call : SpreadAt(c))'
  BY NextKeepsSpread
<1>3. (\A c \in Call : SpreadAt(c)) => AttemptsAreSpread
  BY DEF SpreadAt, AttemptsAreSpread
<1> QED BY <1>1, <1>2, <1>3, TimeInvHolds, PTL DEF Spec

----------------------------------------------------------------------------
(* Nothing is given up early. *)

\* At the time a call is told that its retries are exhausted, they are; and
\* what has passed since it began only grows.
OutlastedAt(c) ==
  /\ error[c] = "RETRY_EXHAUSTED" =>
       /\ state[c] = "threw"
       /\ now - startedAt[c] >= MaxElapsed \/ now - startedAt[c] >= LeastWait[MaxAttempts]
  /\ state[c] # "threw" => error[c] = "none"

LEMMA LeastWaitOfAll == MaxAttempts \in 1 .. 10 /\ LeastWait[MaxAttempts] \in Nat
BY PolicyIsValid, LeastWaitGrows

LEMMA FailOutlasts ==
  ASSUME TimeInv, NEW c \in Call, SpreadAt(c), OutlastedAt(c), Fail(c)
  PROVE  OutlastedAt(c)'
<1> USE DEF TimeInv, TypeOK, State
<1>1. PICK kind \in Kind :
        IF kind = "transient" /\ AttemptsRemain(c) /\ TimeRemains(c)
          THEN Sleep(c) ELSE GiveUp(c, kind)
  BY DEF Fail
<1>2. state[c] = "calling" /\ UNCHANGED <<now, startedAt>>
  BY DEF Fail
<1>3. CASE Sleep(c)
  BY <1>2, <1>3 DEF Sleep, OutlastedAt
<1>4. CASE GiveUp(c, kind) /\ kind = "permanent"
  BY <1>2, <1>4 DEF GiveUp, Wrapped, OutlastedAt
<1>5. CASE GiveUp(c, kind) /\ ~AttemptsRemain(c)
  <2>1. attempt[c] = MaxAttempts
    BY <1>2, <1>5, PolicyIsValid DEF Timely, AttemptsRemain
  <2>2. now - startedAt[c] >= LeastWait[MaxAttempts]
    BY <1>2, <2>1, LeastWaitOfAll DEF SpreadAt, Timely
  <2> QED BY <1>2, <1>5, <2>2 DEF GiveUp, OutlastedAt
<1>6. CASE GiveUp(c, kind) /\ ~TimeRemains(c)
  <2>1. now - startedAt[c] >= MaxElapsed
    BY <1>2, <1>6, PolicyIsValid DEF TimeRemains
  <2> QED BY <1>2, <1>6, <2>1 DEF GiveUp, OutlastedAt
<1> QED BY <1>1, <1>3, <1>4, <1>5, <1>6 DEF Kind

LEMMA NextOutlasts ==
  ASSUME TimeInv, \A c \in Call : SpreadAt(c), \A c \in Call : OutlastedAt(c), [Next]_vars
  PROVE  (\A c \in Call : OutlastedAt(c))'
<1> USE DEF TimeInv, TypeOK, State
<1>1. CASE Tick \/ UNCHANGED vars
  BY <1>1, PolicyIsValid, LeastWaitOfAll DEF Tick, vars, OutlastedAt
<1>2. ASSUME NEW c \in Call, CallNext(c)
      PROVE  (\A d \in Call : OutlastedAt(d))'
  <2>1. OutlastedAt(c)'
    <3>1. CASE Fail(c)
      BY <3>1, FailOutlasts
    <3>2. CASE Begin(c) \/ Return(c) \/ Wake(c)
      BY <3>2 DEF Begin, Return, Wake, OutlastedAt
    <3> QED BY <1>2, <3>1, <3>2 DEF CallNext
  <2>2. ASSUME NEW d \in Call, d # c
        PROVE  OutlastedAt(d)'
    BY <1>2, <2>2 DEF CallNext, Begin, Return, Fail, Sleep, GiveUp, Wake, OutlastedAt
  <2> QED BY <2>1, <2>2
<1> QED BY <1>1, <1>2 DEF Next

\* An outage that is shorter than the backoff of the policy and than its time
\* budget is survived, for every policy, whatever jitter draws: a call that is
\* told its retries are exhausted was at it for as long as that.
THEOREM OutagesAreOutlasted == Spec => []ShortOutagesAreSurvived
<1>1. Init => (\A c \in Call : SpreadAt(c)) /\ (\A c \in Call : OutlastedAt(c))
  BY DEF Init, SpreadAt, OutlastedAt
<1>2. TimeInv /\ (\A c \in Call : SpreadAt(c)) /\ (\A c \in Call : OutlastedAt(c)) /\ [Next]_vars
        => (\A c \in Call : SpreadAt(c))' /\ (\A c \in Call : OutlastedAt(c))'
  BY NextKeepsSpread, NextOutlasts
<1>3. (\A c \in Call : OutlastedAt(c)) => ShortOutagesAreSurvived
  BY DEF OutlastedAt, ShortOutagesAreSurvived
<1> QED BY <1>1, <1>2, <1>3, TimeInvHolds, PTL DEF Spec
=============================================================================
