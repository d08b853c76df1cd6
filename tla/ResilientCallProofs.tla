-------------------------- MODULE ResilientCallProofs --------------------------
(****************************************************************************)
(* Theorems about retries around the circuit breaker, for any callers, any  *)
(* agents and any maxRetries.  Every step of the composition is a step of   *)
(* the breaker or leaves it alone, so the breaker's theorems hold here too; *)
(* the rest is what the retry loop knows of its own calls.                  *)
(****************************************************************************)
EXTENDS ResilientCall, CircuitBreakerProofs, WellFoundedInduction

\* The loop is inside a guard exactly when it attempts.
AttemptIsGuard == \A c \in Calls : phase[c] = "attempt" <=> pc[c] # "idle"

LoopTyped ==
  /\ phase \in [Calls -> {"idle", "attempt", "sleep", "service"}]
  /\ attempt \in [Calls -> 0..MaxRetries]
  /\ runs \in [Calls -> 0..(MaxRetries + 1)]
  /\ result \in [Calls -> Results]

\* How often op has run by now, seen from the loop counter.
RunsCounted ==
  \A c \in Calls :
    /\ pc[c] = "queued" => runs[c] = attempt[c]
    /\ pc[c] = "running" => runs[c] = attempt[c] + 1
    /\ phase[c] = "sleep" => runs[c] = attempt[c] + 1 /\ attempt[c] < MaxRetries

LoopInv ==
  /\ LoopTyped
  /\ ChainOfGuards
  /\ AttemptIsGuard
  /\ RunsCounted
  /\ MaxRetriesMeansAllRan

-----------------------------------------------------------------------------
\* The composition's steps are steps of the breaker.
LEMMA BreakerSteps == IInv /\ [RNext]_rvars => [Next]_vars
<1> SUFFICES ASSUME IInv, [RNext]_rvars PROVE [Next]_vars
  OBVIOUS
<1>1. \A c \in Calls : target[c] \in Agents
  BY DEF IInv, TypeOK
<1>2. ASSUME NEW c \in Calls, NEW a \in Agents, Do(c, a)
      PROVE  Next
  BY <1>2 DEF Do, Next
<1>3. ASSUME NEW c \in Calls, Attempt(c) \/ Wake(c)
      PROVE  Next
  BY <1>1, <1>3 DEF Attempt, Wake, Next
<1>4. ASSUME NEW c \in Calls, NEW outcome \in Outcomes, Caught(c, outcome)
      PROVE  Next
  BY <1>4 DEF Caught, Next
<1>5. ASSUME NEW c \in Calls, NEW outcome \in Outcomes,
             ServiceRequest(c) \/ ServiceReply(c, outcome)
      PROVE  UNCHANGED vars
  BY <1>5 DEF ServiceRequest, ServiceReply
<1>6. ASSUME NEW ids \in Queries, circuitState(ids)
      PROVE  Next
  BY <1>6 DEF circuitState, Next
<1>7. CASE Tick
  BY <1>7 DEF Next
<1>8. CASE UNCHANGED rvars
  BY <1>8 DEF rvars
<1>9. ASSUME NEW c \in Calls, ServiceRequest(c)
      PROVE  UNCHANGED vars
  BY <1>9 DEF ServiceRequest
<1> QED
  BY <1>2, <1>3, <1>4, <1>5, <1>6, <1>7, <1>8, <1>9 DEF RNext

-----------------------------------------------------------------------------
(* The inductive step.  Each action moves one caller; the others stay.      *)

\* What LoopInv asks of one caller.
CallFits(c) ==
  /\ phase[c] = "attempt" <=> pc[c] # "idle"
  /\ pc[c] = "queued" => runs[c] = attempt[c]
  /\ pc[c] = "running" => runs[c] = attempt[c] + 1
  /\ phase[c] = "sleep" => runs[c] = attempt[c] + 1 /\ attempt[c] < MaxRetries
  /\ phase[c] = "idle" =>
       /\ result[c] = "maxRetries" => runs[c] = MaxRetries + 1
       /\ result[c] = "circuitOpen" => runs[c] <= MaxRetries

\* The chain and the callers one by one are the whole invariant.
LEMMA OneByOne == LoopInv <=> LoopTyped /\ ChainOfGuards /\ \A c \in Calls : CallFits(c)
  BY DEF LoopInv, CallFits, AttemptIsGuard, RunsCounted, MaxRetriesMeansAllRan

\* A step that leaves every caller but c alone keeps the others' share.
LEMMA OthersFit ==
  ASSUME LoopInv, NEW c \in Calls, LoopTyped', ChainOfGuards', CallFits(c)',
         \A d \in Calls \ {c} :
           /\ phase'[d] = phase[d] /\ attempt'[d] = attempt[d] /\ pc'[d] = pc[d]
           /\ runs'[d] = runs[d] /\ result'[d] = result[d]
  PROVE  LoopInv'
<1>1. \A d \in Calls \ {c} : CallFits(d)
  BY OneByOne
<1>2. \A d \in Calls \ {c} : CallFits(d)'
  BY <1>1 DEF CallFits
<1>3. LoopTyped' /\ ChainOfGuards' /\ \A d \in Calls : CallFits(d)'
  BY <1>2
<1> QED
  BY <1>3 DEF LoopInv, CallFits, AttemptIsGuard, RunsCounted, MaxRetriesMeansAllRan

\* Nobody is in the chain and no request is under way.
LEMMA LoopInit == RInit => LoopInv
  BY RetriesAssumption DEF RInit, Init, LoopInv, LoopTyped, ChainOfGuards, AttemptIsGuard,
     RunsCounted, MaxRetriesMeansAllRan, Results

\* A request starts: its count of runs and its loop counter start at zero.
LEMMA DoStep ==
  ASSUME IInv, LoopInv, NEW c \in Calls, NEW a \in Agents, Do(c, a)
  PROVE  LoopInv'
<1>1. /\ ChainOfGuards' /\ pc[c] = "idle"
      /\ \A d \in Calls : pc'[d] = IF d = c THEN "queued" ELSE pc[d]
  BY GuardFacts DEF Do, LoopInv
<1>2. LoopTyped'
  BY RetriesAssumption DEF Do, LoopInv, LoopTyped
<1>3. phase'[c] = "attempt" /\ attempt'[c] = 0 /\ runs'[c] = 0
  BY DEF Do, LoopInv, LoopTyped
<1>4. CallFits(c)'
  BY <1>1, <1>3 DEF CallFits
<1>5. \A d \in Calls \ {c} :
        /\ phase'[d] = phase[d] /\ attempt'[d] = attempt[d] /\ pc'[d] = pc[d]
        /\ runs'[d] = runs[d] /\ result'[d] = result[d]
  BY <1>1 DEF Do, LoopInv, LoopTyped
<1> QED
  BY <1>1, <1>2, <1>4, <1>5, OthersFit

\* The next turn of the loop: the sleeper had retries left.
LEMMA WakeStep ==
  ASSUME IInv, LoopInv, NEW c \in Calls, Wake(c)
  PROVE  LoopInv'
<1>1. /\ ChainOfGuards' /\ pc[c] = "idle"
      /\ \A d \in Calls : pc'[d] = IF d = c THEN "queued" ELSE pc[d]
  BY GuardFacts DEF Wake, LoopInv, IInv, TypeOK
<1>2. phase[c] = "sleep" /\ runs[c] = attempt[c] + 1 /\ attempt[c] < MaxRetries
  BY DEF Wake, LoopInv, RunsCounted
<1>3. /\ attempt[c] \in Nat /\ attempt'[c] = attempt[c] + 1
      /\ phase'[c] = "attempt" /\ runs'[c] = runs[c]
  BY RetriesAssumption DEF Wake, LoopInv, LoopTyped
<1>4. LoopTyped'
  <2>1. attempt' \in [Calls -> 0..MaxRetries]
    BY <1>2, RetriesAssumption DEF Wake, LoopInv, LoopTyped
  <2> QED
    BY <2>1 DEF Wake, LoopInv, LoopTyped
<1>5. CallFits(c)'
  BY <1>1, <1>2, <1>3 DEF CallFits
<1>6. \A d \in Calls \ {c} :
        /\ phase'[d] = phase[d] /\ attempt'[d] = attempt[d] /\ pc'[d] = pc[d]
        /\ runs'[d] = runs[d] /\ result'[d] = result[d]
  BY <1>1 DEF Wake, LoopInv, LoopTyped
<1> QED
  BY <1>1, <1>4, <1>5, <1>6, OthersFit

\* The lock is reached: op runs once more, or the open circuit ends the
\* request with at most maxRetries runs behind it.
LEMMA AttemptStep ==
  ASSUME IInv, LoopInv, NEW c \in Calls, Attempt(c)
  PROVE  LoopInv'
<1>1. /\ phase[c] = "attempt" /\ pc[c] = "queued" /\ HoldsLock(c)
      /\ runs[c] = attempt[c] /\ attempt[c] \in 0..MaxRetries
  BY DEF Attempt, Enter, LoopInv, LoopTyped, RunsCounted
<1>2. CASE getState(target[c]) = OPEN
  <2>1. /\ lockChain' = Tail(lockChain)
        /\ \A d \in Calls : pc'[d] = IF d = c THEN "idle" ELSE pc[d]
    BY <1>2 DEF Attempt, Enter, IInv, TypeOK
  <2>2. Finish(c, "circuitOpen") /\ UNCHANGED runs
    BY <2>1 DEF Attempt
  <2>3. ChainOfGuards'
    BY <1>1, <2>1, TailFacts DEF LoopInv
  <2>4. LoopTyped'
    BY <2>2 DEF Finish, LoopInv, LoopTyped, Results
  <2>5. CallFits(c)'
    <3>1. /\ phase'[c] = "idle" /\ result'[c] = "circuitOpen"
          /\ pc'[c] = "idle" /\ runs'[c] = runs[c]
      BY <2>1, <2>2 DEF Finish, LoopInv, LoopTyped
    <3>2. runs'[c] <= MaxRetries
      BY <1>1, <3>1, RetriesAssumption
    <3> QED
      BY <3>1, <3>2 DEF CallFits
  <2>6. \A d \in Calls \ {c} :
          /\ phase'[d] = phase[d] /\ attempt'[d] = attempt[d] /\ pc'[d] = pc[d]
          /\ runs'[d] = runs[d] /\ result'[d] = result[d]
    BY <2>1, <2>2 DEF Finish, LoopInv, LoopTyped
  <2> QED
    BY <2>3, <2>4, <2>5, <2>6, OthersFit
<1>3. CASE getState(target[c]) # OPEN
  <2>1. /\ lockChain' = lockChain
        /\ \A d \in Calls : pc'[d] = IF d = c THEN "running" ELSE pc[d]
    BY <1>3 DEF Attempt, Enter, IInv, TypeOK
  <2>2. /\ runs' = [runs EXCEPT ![c] = @ + 1]
        /\ UNCHANGED <<phase, attempt, delay, result>>
    BY <2>1 DEF Attempt
  <2>3. ChainOfGuards'
    BY <1>1, <2>1 DEF ChainOfGuards, LoopInv, IInv, TypeOK
  <2>4. runs'[c] = attempt'[c] + 1 /\ runs'[c] \in 0..(MaxRetries + 1)
    BY <1>1, <2>2, RetriesAssumption DEF LoopInv, LoopTyped
  <2>5. LoopTyped'
    BY <2>2, <2>4 DEF LoopInv, LoopTyped
  <2>6. CallFits(c)'
    BY <1>1, <2>1, <2>2, <2>4 DEF CallFits
  <2>7. \A d \in Calls \ {c} :
          /\ phase'[d] = phase[d] /\ attempt'[d] = attempt[d] /\ pc'[d] = pc[d]
          /\ runs'[d] = runs[d] /\ result'[d] = result[d]
    BY <2>1, <2>2 DEF LoopInv, LoopTyped
  <2> QED
    BY <2>3, <2>5, <2>6, <2>7, OthersFit
<1> QED
  BY <1>2, <1>3

\* op settles: the loop sleeps when it may retry, and MaxRetriesError is
\* left for a counter that stands at maxRetries.
LEMMA CaughtStep ==
  ASSUME IInv, LoopInv, NEW c \in Calls, NEW outcome \in Outcomes, Caught(c, outcome)
  PROVE  LoopInv'
<1>1. /\ pc[c] = "running" /\ HoldsLock(c) /\ runs[c] = attempt[c] + 1
      /\ attempt[c] \in 0..MaxRetries
  BY DEF Caught, Settle, LoopInv, LoopTyped, RunsCounted, IInv, RunnerHoldsLock
<1>2. /\ lockChain' = Tail(lockChain) /\ UNCHANGED runs
      /\ \A d \in Calls : pc'[d] = IF d = c THEN "idle" ELSE pc[d]
  BY DEF Caught, Settle, IInv, TypeOK
<1>3. ChainOfGuards'
  BY <1>1, <1>2, TailFacts DEF LoopInv
<1>4. CASE isRetryable(outcome) /\ attempt[c] < MaxRetries
  <2>1. phase' = [phase EXCEPT ![c] = "sleep"] /\ UNCHANGED <<attempt, result>>
    BY <1>4 DEF Caught
  <2>2. LoopTyped'
    BY <1>2, <2>1 DEF LoopInv, LoopTyped
  <2>3. CallFits(c)'
    <3>1. /\ phase'[c] = "sleep" /\ pc'[c] = "idle"
          /\ runs'[c] = runs[c] /\ attempt'[c] = attempt[c]
      BY <1>2, <2>1 DEF LoopInv, LoopTyped
    <3> QED
      BY <1>1, <1>4, <3>1 DEF CallFits
  <2>4. \A d \in Calls \ {c} :
          /\ phase'[d] = phase[d] /\ attempt'[d] = attempt[d] /\ pc'[d] = pc[d]
          /\ runs'[d] = runs[d] /\ result'[d] = result[d]
    BY <1>2, <2>1 DEF LoopInv, LoopTyped
  <2> QED
    BY <1>3, <2>2, <2>3, <2>4, OthersFit
<1>5. CASE ~(isRetryable(outcome) /\ attempt[c] < MaxRetries)
  <2> DEFINE res == IF isRetryable(outcome) /\ MaxRetries > 0 THEN "maxRetries"
                                                              ELSE outcome
  <2>1. Finish(c, res)
    BY <1>5 DEF Caught
  <2>2. res \in Results /\ res # "circuitOpen"
    BY DEF Results, Outcomes
  <2>3. res = "maxRetries" => attempt[c] = MaxRetries
    <3>1. res = "maxRetries" => isRetryable(outcome)
      BY DEF Outcomes
    <3> QED
      BY <1>1, <1>5, <3>1, RetriesAssumption
  <2> HIDE DEF res
  <2>4. LoopTyped'
    BY <1>2, <2>1, <2>2 DEF Finish, LoopInv, LoopTyped
  <2>5. CallFits(c)'
    <3>1. /\ phase'[c] = "idle" /\ pc'[c] = "idle" /\ result'[c] = res
          /\ runs'[c] = runs[c]
      BY <1>2, <2>1 DEF Finish, LoopInv, LoopTyped
    <3> QED
      BY <1>1, <2>2, <2>3, <3>1 DEF CallFits
  <2>6. \A d \in Calls \ {c} :
          /\ phase'[d] = phase[d] /\ attempt'[d] = attempt[d] /\ pc'[d] = pc[d]
          /\ runs'[d] = runs[d] /\ result'[d] = result[d]
    BY <1>2, <2>1 DEF Finish, LoopInv, LoopTyped
  <2> QED
    BY <1>3, <2>4, <2>5, <2>6, OthersFit
<1> QED
  BY <1>4, <1>5

\* A service call is one request outside the guard, whatever it returns.
LEMMA ServiceStep ==
  ASSUME IInv, LoopInv, NEW c \in Calls, NEW outcome \in Outcomes,
         ServiceRequest(c) \/ ServiceReply(c, outcome)
  PROVE  LoopInv'
<1>1. UNCHANGED vars /\ UNCHANGED <<attempt>>
  BY DEF ServiceRequest, ServiceReply, Finish
<1>2. ChainOfGuards' /\ pc' = pc
  BY <1>1 DEF ChainOfGuards, LoopInv, vars
<1>3. CASE ServiceRequest(c)
  <2>1. LoopTyped'
    BY <1>3, RetriesAssumption DEF ServiceRequest, LoopInv, LoopTyped
  <2>2. phase[c] = "idle" /\ phase'[c] = "service" /\ pc[c] = "idle"
    BY <1>3 DEF ServiceRequest, LoopInv, LoopTyped, AttemptIsGuard
  <2>3. CallFits(c)'
    BY <1>2, <2>2 DEF CallFits
  <2>4. \A d \in Calls \ {c} :
          /\ phase'[d] = phase[d] /\ attempt'[d] = attempt[d] /\ pc'[d] = pc[d]
          /\ runs'[d] = runs[d] /\ result'[d] = result[d]
    BY <1>2, <1>3 DEF ServiceRequest, LoopInv, LoopTyped
  <2> QED
    BY <1>2, <2>1, <2>3, <2>4, OthersFit
<1>4. CASE ServiceReply(c, outcome)
  <2>1. LoopTyped'
    BY <1>4 DEF ServiceReply, Finish, LoopInv, LoopTyped, Results
  <2>2. /\ phase'[c] = "idle" /\ pc[c] = "idle" /\ result'[c] = outcome
        /\ outcome # "maxRetries" /\ outcome # "circuitOpen"
    BY <1>4 DEF ServiceReply, Finish, LoopInv, LoopTyped, AttemptIsGuard, Outcomes
  <2>3. CallFits(c)'
    BY <1>2, <2>2 DEF CallFits
  <2>4. \A d \in Calls \ {c} :
          /\ phase'[d] = phase[d] /\ attempt'[d] = attempt[d] /\ pc'[d] = pc[d]
          /\ runs'[d] = runs[d] /\ result'[d] = result[d]
    BY <1>2, <1>4 DEF ServiceReply, Finish, LoopInv, LoopTyped
  <2> QED
    BY <1>2, <2>1, <2>3, <2>4, OthersFit
<1> QED
  BY <1>3, <1>4

\* A read-out of the circuit and the passing of time touch no caller.
LEMMA LoopUntouched ==
  ASSUME LoopInv, UNCHANGED <<lockChain, pc, phase, attempt, runs, result>>
  PROVE  LoopInv'
<1>1. LoopTyped' /\ ChainOfGuards'
  BY DEF LoopInv, LoopTyped, ChainOfGuards
<1>2. AttemptIsGuard' /\ RunsCounted' /\ MaxRetriesMeansAllRan'
  BY DEF LoopInv, AttemptIsGuard, RunsCounted, MaxRetriesMeansAllRan
<1> QED
  BY <1>1, <1>2 DEF LoopInv

\* Every step of the composition keeps the invariant.
LEMMA LoopNext == IInv /\ LoopInv /\ [RNext]_rvars => LoopInv'
<1> SUFFICES ASSUME IInv, LoopInv, [RNext]_rvars PROVE LoopInv'
  OBVIOUS
<1>1. ASSUME NEW ids \in Queries, circuitState(ids)
      PROVE  LoopInv'
  BY <1>1, LoopUntouched DEF circuitState, Query, loop
<1>2. CASE Tick /\ UNCHANGED loop
  BY <1>2, LoopUntouched DEF Tick, loop
<1>3. CASE UNCHANGED rvars
  BY <1>3, LoopUntouched DEF rvars, vars, loop
<1>4. ASSUME NEW c \in Calls, ServiceRequest(c)
      PROVE  LoopInv'
  BY <1>4, ServiceStep DEF Outcomes
<1> QED
  BY <1>1, <1>2, <1>3, <1>4, DoStep, AttemptStep, CaughtStep, WakeStep, ServiceStep
     DEF RNext

-----------------------------------------------------------------------------
(* The backoff.  doubled is a recursive function, and TLA+ defines it as    *)
(* some function that satisfies its equation: that there is one is a        *)
(* theorem, and the values follow from the equation.                        *)

\* A set of numbers has a least one.
LEMMA LeastNumber ==
  ASSUME NEW T \in SUBSET Nat, T # {}
  PROVE  \E x \in T : \A y \in T : x <= y
<1> DEFINE R == OpToRel(<, Nat)
<1>1. \A x, y \in Nat : <<x, y>> \in R <=> x < y
  BY DEF OpToRel
<1>2. IsWellFoundedOn(R, Nat)
  BY NatLessThanWellFounded
<1> HIDE DEF R
<1>3. PICK x \in T : \A y \in T : ~ (<<y, x>> \in R)
  BY <1>2, WFMin
<1>4. ASSUME NEW y \in T
      PROVE  x <= y
  <2>1. x \in Nat /\ y \in Nat
    OBVIOUS
  <2>2. ~ (y < x)
    BY <1>1, <1>3, <2>1
  <2> QED
    BY <2>1, <2>2
<1> QED
  BY <1>4

\* f[n] is x0 after n steps.
Repeats(f, step, x0) == f[0] = x0 /\ \A n \in Nat : f[n + 1] = step[f[n]]

\* A step that is repeated from x0 defines a value for each number.
LEMMA Iterate ==
  ASSUME NEW S, NEW step \in [S -> S], NEW x0 \in S
  PROVE  \E f \in [Nat -> S] : Repeats(f, step, x0)
<1> DEFINE Run(n) == {f \in [0 .. n -> S] :
                        f[0] = x0 /\ \A i \in Nat : i < n => f[i + 1] = step[f[i]]}
<1>1. ASSUME NEW n \in Nat
      PROVE  Run(n) # {}
  <2> DEFINE T == {k \in Nat : Run(k) = {}}
  <2> SUFFICES T = {}
    OBVIOUS
  <2> SUFFICES ASSUME T # {} PROVE FALSE
    OBVIOUS
  <2>1. PICK k \in T : \A j \in T : k <= j
    <3> HIDE DEF T
    <3>1. T \in SUBSET Nat
      BY DEF T
    <3> QED
      BY <3>1, LeastNumber
  <2>2. CASE k = 0
    <3>1. [i \in 0 .. 0 |-> x0] \in Run(0)
      OBVIOUS
    <3> QED
      BY <2>2, <3>1
  <2>3. CASE k # 0
    <3>1. k - 1 \in Nat /\ k \in Nat
      BY <2>3
    <3>2. PICK f \in Run(k - 1) : TRUE
      <4>1. k - 1 \notin T
        <5> HIDE DEF T
        <5>1. ~(k <= k - 1)
          BY <3>1
        <5> QED
          BY <2>1, <5>1
      <4> QED
        BY <3>1, <4>1
    <3> DEFINE g == [i \in 0 .. k |-> IF i = k THEN step[f[k - 1]] ELSE f[i]]
    <3>3. f \in [0 .. k - 1 -> S] /\ f[0] = x0
          /\ \A i \in Nat : i < k - 1 => f[i + 1] = step[f[i]]
      BY <3>2
    <3>4. g \in [0 .. k -> S]
      <4>1. f[k - 1] \in S
        BY <3>1, <3>3
      <4>2. \A i \in 0 .. k : i # k => i \in 0 .. k - 1
        BY <3>1
      <4> QED
        BY <3>3, <4>1, <4>2
    <3>5. g[0] = x0
      BY <3>1, <3>3, <2>3
    <3>6. ASSUME NEW i \in Nat, i < k
          PROVE  g[i + 1] = step[g[i]]
      <4>1. CASE i + 1 = k
        BY <3>1, <3>6, <4>1
      <4>2. CASE i + 1 # k
        <5>1. i \in 0 .. k /\ i + 1 \in 0 .. k /\ i # k /\ i < k - 1
          BY <3>1, <3>6, <4>2
        <5>2. g[i + 1] = f[i + 1] /\ g[i] = f[i]
          BY <4>2, <5>1
        <5> QED
          BY <3>3, <5>1, <5>2
      <4> QED
        BY <4>1, <4>2
    <3>7. g \in Run(k)
      <4> HIDE DEF g
      <4> QED
        BY <3>4, <3>5, <3>6
    <3> QED
      BY <3>7
  <2> QED
    BY <2>2, <2>3
<1>2. ASSUME NEW n \in Nat, NEW m \in Nat, NEW f \in Run(n), NEW g \in Run(m),
             NEW i \in Nat, i <= n, i <= m
      PROVE  f[i] = g[i]
  <2> DEFINE T == {j \in Nat : j <= n /\ j <= m /\ f[j] # g[j]}
  <2> SUFFICES ASSUME T # {} PROVE FALSE
    BY <1>2
  <2>1. PICK k \in T : \A j \in T : k <= j
    <3> HIDE DEF T
    <3>1. T \in SUBSET Nat
      BY DEF T
    <3> QED
      BY <3>1, LeastNumber
  <2>2. k # 0
    OBVIOUS
  <2>3. k - 1 \in Nat /\ k - 1 < n /\ k - 1 < m /\ k - 1 \notin T
    BY <2>1, <2>2
  <2>4. f[k - 1] = g[k - 1]
    BY <2>3
  <2>5. f[(k - 1) + 1] = step[f[k - 1]] /\ g[(k - 1) + 1] = step[g[k - 1]]
    BY <2>3
  <2>6. (k - 1) + 1 = k
    OBVIOUS
  <2> QED
    BY <2>4, <2>5, <2>6
<1> DEFINE run == [n \in Nat |-> CHOOSE f \in Run(n) : TRUE]
           F == [n \in Nat |-> run[n][n]]
<1>3. ASSUME NEW n \in Nat
      PROVE  run[n] \in Run(n)
  BY <1>1
<1>4. ASSUME NEW n \in Nat
      PROVE  /\ run[n] \in [0 .. n -> S] /\ run[n][0] = x0 /\ F[n] = run[n][n] /\ F[n] \in S
             /\ \A i \in Nat : i < n => run[n][i + 1] = step[run[n][i]]
  <2> HIDE DEF run
  <2>1. run[n] \in Run(n)
    BY <1>3
  <2> QED
    BY <2>1
<1>5. ASSUME NEW n \in Nat
      PROVE  F[n + 1] = step[F[n]]
  <2>1. n + 1 \in Nat /\ n < n + 1
    OBVIOUS
  <2>2. F[n + 1] = run[n + 1][n + 1] /\ F[n] = run[n][n]
    BY <2>1
  <2>3. run[n + 1][n + 1] = step[run[n + 1][n]]
    <3> HIDE DEF run, F
    <3> QED
      BY <1>4, <2>1
  <2>4. run[n + 1][n] = run[n][n]
    <3>1. run[n + 1] \in Run(n + 1) /\ run[n] \in Run(n)
      BY <1>3, <2>1
    <3> HIDE DEF run, F, Run
    <3> QED
      BY <1>2, <2>1, <3>1
  <2> HIDE DEF run, F, Run
  <2> QED
    BY <2>2, <2>3, <2>4
<1>6. F \in [Nat -> S] /\ F[0] = x0
  <2>1. F \in [Nat -> S]
    <3> HIDE DEF run
    <3> QED
      BY <1>4
  <2>2. F[0] = x0
    <3> HIDE DEF run, F
    <3> QED
      BY <1>4
  <2> QED
    BY <2>1, <2>2
<1> HIDE DEF F
<1> QED
  BY <1>5, <1>6 DEF Repeats

\* The function the code's backoff computes exists, so doubled satisfies its
\* own equation.
LEMMA DoubledEquation ==
  /\ doubled[0] = InitialBackoff
  /\ \A n \in Nat : doubled[n + 1] = IF 2 * doubled[n] > MaxBackoff THEN MaxBackoff
                                                                   ELSE 2 * doubled[n]
<1> DEFINE step == [x \in Nat |-> IF 2 * x > MaxBackoff THEN MaxBackoff ELSE 2 * x]
           Equation(f) == [n \in Nat |->
                        IF n = 0 THEN InitialBackoff
                        ELSE IF 2 * f[n - 1] > MaxBackoff THEN MaxBackoff ELSE 2 * f[n - 1]]
<1>1. step \in [Nat -> Nat] /\ InitialBackoff \in Nat
  BY BackoffAssumption
<1>2. PICK F \in [Nat -> Nat] : Repeats(F, step, InitialBackoff)
  <2> HIDE DEF step
  <2> QED
    BY <1>1, Iterate
<1>3. F = Equation(F)
  <2>1. ASSUME NEW n \in Nat
        PROVE  F[n] = Equation(F)[n]
    <3>1. CASE n = 0
      BY <1>2, <3>1 DEF Repeats
    <3>2. CASE n # 0
      <4>1. n - 1 \in Nat /\ (n - 1) + 1 = n
        BY <3>2
      <4>2. F[n] = step[F[n - 1]] /\ F[n - 1] \in Nat
        BY <1>2, <4>1 DEF Repeats
      <4> QED
        BY <3>2, <4>2
    <3> QED
      BY <3>1, <3>2
  <2> QED
    BY <1>2, <2>1
<1>4. doubled = CHOOSE f : f = Equation(f)
  BY DEF doubled
<1>5. doubled = Equation(doubled)
  <2> HIDE DEF Equation
  <2> QED
    BY <1>3, <1>4
<1> HIDE DEF step
<1>6. \A n \in Nat : doubled[n] = Equation(doubled)[n]
  <2> HIDE DEF Equation
  <2> QED
    BY <1>5
<1>7. doubled[0] = InitialBackoff
  BY <1>6
<1>8. ASSUME NEW n \in Nat
      PROVE  doubled[n + 1] = IF 2 * doubled[n] > MaxBackoff THEN MaxBackoff
                                                            ELSE 2 * doubled[n]
  <2>1. n + 1 \in Nat /\ n + 1 # 0 /\ (n + 1) - 1 = n
    OBVIOUS
  <2>2. doubled[n + 1] = Equation(doubled)[n + 1]
    BY <1>6, <2>1
  <2> QED
    BY <2>1, <2>2
<1> QED
  BY <1>7, <1>8

\* The doubling never passes the larger of the two configured bounds.
LEMMA DoubledBounded ==
  ASSUME NEW n \in Nat
  PROVE  doubled[n] \in Nat /\ (doubled[n] <= InitialBackoff \/ doubled[n] <= MaxBackoff)
<1> DEFINE Good(k) == /\ doubled[k] \in Nat
                      /\ doubled[k] <= InitialBackoff \/ doubled[k] <= MaxBackoff
           T == {k \in Nat : ~Good(k)}
<1> SUFFICES ASSUME T # {} PROVE FALSE
  OBVIOUS
<1>1. PICK k \in T : \A j \in T : k <= j
  <2> HIDE DEF T
  <2>1. T \in SUBSET Nat
    BY DEF T
  <2> QED
    BY <2>1, LeastNumber
<1>2. k # 0
  BY DoubledEquation, BackoffAssumption
<1>3. k - 1 \in Nat /\ k - 1 \notin T /\ (k - 1) + 1 = k
  BY <1>1, <1>2
<1>4. Good(k - 1)
  BY <1>3
<1>5. doubled[k] = IF 2 * doubled[k - 1] > MaxBackoff THEN MaxBackoff ELSE 2 * doubled[k - 1]
  BY <1>3, DoubledEquation
<1>6. Good(k)
  BY <1>4, <1>5, BackoffAssumption
<1> QED
  BY <1>6

\* What BackoffBounded asks of one delay.
WithinBounds(d) ==
  \/ d <= InitialBackoff * (10000 + 100 * Jitter)
  \/ d <= MaxBackoff * (10000 + 100 * Jitter)

\* The jitter stretches a delay by at most its percentage, and never below 0.
LEMMA BackoffBound ==
  ASSUME NEW n \in Nat, NEW rand \in Rands
  PROVE  backoff(n, rand) \in Nat /\ WithinBounds(backoff(n, rand))
<1> DEFINE e == 2 * rand - 100
           k == 10000 + e * Jitter
           m == 10000 + 100 * Jitter
<1>1. e \in -100 .. 100 /\ Jitter \in 0 .. 100
  BY JitterAssumption
<1>2. e * Jitter \in Int /\ -100 * Jitter <= e * Jitter /\ e * Jitter <= 100 * Jitter
  <2> HIDE DEF e
  <2> QED
    BY <1>1
<1>3. k \in Nat /\ k <= m /\ m \in Nat
  <2> HIDE DEF e
  <2> QED
    BY <1>1, <1>2
<1>4. backoff(n, rand) = doubled[n] * k
  BY DEF backoff
<1> HIDE DEF e, k, m
<1>5. ASSUME NEW d \in Nat, NEW B \in Nat, d <= B
      PROVE  d * k \in Nat /\ d * k <= B * m
  <2>1. d * k \in Nat /\ d * k <= B * k
    BY <1>3, <1>5
  <2>2. B * k <= B * m /\ B * k \in Nat /\ B * m \in Nat
    BY <1>3
  <2> QED
    BY <2>1, <2>2
<1>6. InitialBackoff \in Nat /\ MaxBackoff \in Nat
  BY BackoffAssumption
<1>7. doubled[n] \in Nat /\ (doubled[n] <= InitialBackoff \/ doubled[n] <= MaxBackoff)
  BY DoubledBounded
<1>8. /\ doubled[n] * k \in Nat
      /\ doubled[n] * k <= InitialBackoff * m \/ doubled[n] * k <= MaxBackoff * m
  BY <1>5, <1>6, <1>7
<1> QED
  BY <1>4, <1>8 DEF m, WithinBounds

\* A sleeping request's delay came from backoff; nobody else has one.
DelayInv == delay \in [Calls -> Nat] /\ \A c \in Calls : WithinBounds(delay[c])

\* A delay of nothing is within any bound.
LEMMA NoDelay == WithinBounds(0)
<1> DEFINE m == 10000 + 100 * Jitter
<1>1. m \in Nat /\ InitialBackoff \in Nat /\ MaxBackoff \in Nat
  BY BackoffAssumption, JitterAssumption
<1> HIDE DEF m
<1>2. 0 <= InitialBackoff * m /\ 0 <= MaxBackoff * m
  BY <1>1
<1> QED
  BY <1>2 DEF m, WithinBounds

\* Only Caught sets a delay, and it takes it from backoff.
LEMMA DelayNext == LoopInv /\ DelayInv /\ [RNext]_rvars => DelayInv'
<1> SUFFICES ASSUME LoopInv, DelayInv, [RNext]_rvars PROVE DelayInv'
  OBVIOUS
<1>1. CASE UNCHANGED delay
  BY <1>1 DEF DelayInv
<1>2. ASSUME NEW c \in Calls, NEW d \in Nat, WithinBounds(d),
             delay' = [delay EXCEPT ![c] = d]
      PROVE  DelayInv'
  <2>1. delay' \in [Calls -> Nat] /\ \A b \in Calls : delay'[b] = IF b = c THEN d ELSE delay[b]
    BY <1>2 DEF DelayInv
  <2>2. \A b \in Calls : WithinBounds(delay'[b])
    BY <1>2, <2>1 DEF DelayInv
  <2>3. \A b \in Calls : WithinBounds(delay[b])'
    BY <2>2 DEF WithinBounds
  <2> QED
    BY <2>1, <2>3 DEF DelayInv
<1>3. ASSUME NEW c \in Calls, Wake(c)
      PROVE  DelayInv'
  BY <1>2, <1>3, NoDelay DEF Wake
<1>4. ASSUME NEW c \in Calls, NEW outcome \in Outcomes, Caught(c, outcome)
      PROVE  DelayInv'
  <2>1. CASE isRetryable(outcome) /\ attempt[c] < MaxRetries
    <3>1. PICK rand \in Rands : delay' = [delay EXCEPT ![c] = backoff(attempt[c], rand)]
      BY <1>4, <2>1 DEF Caught
    <3>2. attempt[c] \in Nat
      BY DEF LoopInv, LoopTyped
    <3> DEFINE d == backoff(attempt[c], rand)
    <3>3. d \in Nat /\ WithinBounds(d)
      BY <3>2, BackoffBound
    <3>4. delay' = [delay EXCEPT ![c] = d]
      BY <3>1
    <3> HIDE DEF d
    <3> QED
      BY <1>2, <3>3, <3>4
  <2>2. CASE ~(isRetryable(outcome) /\ attempt[c] < MaxRetries)
    BY <1>1, <1>4, <2>2 DEF Caught, Finish
  <2> QED
    BY <2>1, <2>2
<1>5. ASSUME NEW c \in Calls, Attempt(c)
      PROVE  UNCHANGED delay
  BY <1>5 DEF Attempt, Finish
<1>6. ASSUME NEW c \in Calls, NEW a \in Agents, Do(c, a)
      PROVE  UNCHANGED delay
  BY <1>6 DEF Do
<1>7. ASSUME NEW c \in Calls, NEW outcome \in Outcomes,
             ServiceRequest(c) \/ ServiceReply(c, outcome)
      PROVE  UNCHANGED delay
  BY <1>7 DEF ServiceRequest, ServiceReply, Finish
<1>8. ASSUME NEW c \in Calls, ServiceRequest(c)
      PROVE  UNCHANGED delay
  BY <1>8 DEF ServiceRequest
<1>9. ASSUME \/ \E ids \in Queries : circuitState(ids)
             \/ Tick /\ UNCHANGED loop
             \/ UNCHANGED rvars
      PROVE  UNCHANGED delay
  BY <1>9 DEF circuitState, loop, rvars
<1> QED
  BY <1>1, <1>3, <1>4, <1>5, <1>6, <1>7, <1>8, <1>9 DEF RNext

-----------------------------------------------------------------------------
(* The theorems. *)

\* Whatever the retry loops and the services do, the breaker behaves as
\* CircuitBreaker's own specification says (circuit.ts:62-162 under
\* retry.ts:78-93), so every theorem about it holds under them.
THEOREM WrappedBreaker == RSpec => Spec
<1>1. RInit => Init
  BY DEF RInit
<1> QED
  BY <1>1, InitInv, NextInv, BreakerSteps, PTL DEF RSpec, Spec

\* The invariants of the breaker and of the loops hold throughout.
THEOREM LoopInvariance == RSpec => [](IInv /\ LoopInv)
<1>1. RInit => IInv
  BY InitInv DEF RInit
<1>2. IInv /\ [RNext]_rvars => IInv'
  BY BreakerSteps, NextInv
<1> QED
  BY <1>1, <1>2, LoopInit, LoopNext, PTL DEF RSpec

\* A request that sleeps between two attempts (retry.ts:90-91) is never in the
\* breaker's lock chain (circuit.ts:67-80).
THEOREM SleepersHoldNoLock == RSpec => []BackoffHoldsNoLock
<1>1. IInv /\ LoopInv => BackoffHoldsNoLock
  BY DEF IInv, TypeOK, LoopInv, ChainOfGuards, AttemptIsGuard, BackoffHoldsNoLock
<1> QED
  BY <1>1, LoopInvariance, PTL

\* MaxRetriesError is thrown after exactly maxRetries + 1 runs of op, and
\* CircuitOpenError with at least one run to spare (retry.ts:64-93).
THEOREM AllRunsSpent == RSpec => []MaxRetriesMeansAllRan
<1>1. LoopInv => MaxRetriesMeansAllRan
  BY DEF LoopInv
<1> QED
  BY <1>1, LoopInvariance, PTL

\* When nobody reports failures from outside, no agent opens under an operation
\* that a retry loop is running on it (circuit.ts:146-162).
THEOREM NoOpenUnderRetries ==
  ASSUME "recordFailure" \notin DirectOps
  PROVE  RSpec => []NoOpenUnderOperation
  BY WrappedBreaker, NoOpenUnderRunner, PTL

\* retry.ts:73-97 around circuit.ts:67-80: as long as a request attempts, the
\* lock is held by a request that attempts too and is queued or running: no
\* retry loop blocks another one, whatever the outcomes and the backoffs.
NobodyBlocked ==
  \A c \in Calls : phase[c] = "attempt" =>
    \E h \in Calls : /\ HoldsLock(h) /\ phase[h] = "attempt"
                     /\ pc[h] \in {"queued", "running"}

\* No request under retries is blocked for good by the others.
THEOREM RetriesNotBlocked == RSpec => []NobodyBlocked
<1>1. IInv /\ LoopInv /\ LockServesAll => NobodyBlocked
  BY DEF IInv, TypeOK, LoopInv, AttemptIsGuard, LockServesAll, NobodyBlocked
<1> QED
  BY <1>1, LoopInvariance, WrappedBreaker, NobodyLockedOut, PTL

\* The promise of the breaker's header (circuit.ts:7-16) holds with retry loops
\* and unguarded service calls around it.
THEOREM RetriesKeepPromise == RSpec => ImplementsPromise
  BY WrappedBreaker, BreakerRefinesPromise, PTL

\* Every delay is a number within the bounds (retry.ts:38-54).
THEOREM DelayInvariance == RSpec => []DelayInv
<1>1. RInit => DelayInv
  BY NoDelay DEF RInit, DelayInv
<1>2. IInv /\ LoopInv => LoopInv
  OBVIOUS
<1> QED
  BY <1>1, <1>2, DelayNext, LoopInvariance, PTL DEF RSpec

\* Whatever the attempt and the random number, nobody sleeps longer than the
\* larger configured bound with its jitter (retry.ts:38-54).
THEOREM SleepsBounded == RSpec => []BackoffBounded
<1>1. DelayInv => BackoffBounded
  BY DEF DelayInv, BackoffBounded, WithinBounds
<1> QED
  BY <1>1, DelayInvariance, PTL

\* The variables of the retry loops keep their types, and the loop counter
\* never passes maxRetries.
THEOREM LoopTypeCorrect == RSpec => []RTypeOK
<1>1. IInv /\ LoopInv /\ DelayInv => RTypeOK
  BY DEF IInv, LoopInv, LoopTyped, DelayInv, RTypeOK
<1> QED
  BY <1>1, LoopInvariance, DelayInvariance, PTL
=============================================================================
