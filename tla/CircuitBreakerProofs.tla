------------------------ MODULE CircuitBreakerProofs ------------------------
(****************************************************************************)
(* The circuit breaker's safety properties for any agents, any callers, any *)
(* threshold and any timeout, and that it implements AbstractBreaker.       *)
(****************************************************************************)
EXTENDS CircuitBreaker, TLAPS

USE DEF CLOSED, OPEN, HALF_OPEN, CircuitState

(* The inductive invariant.  Only the head of the lock chain runs, which is *)
(* what makes operations exclusive; a half-open agent has not failed since  *)
(* its recovery time, which is what makes a probe legitimate.               *)
RunnerHoldsLock == \A c \in Calls : pc[c] = "running" => HoldsLock(c)

IInv ==
  /\ TypeOK
  /\ RunnerHoldsLock
  /\ ClosedBelowThreshold
  /\ HalfOpenOnlyAfterTimeout

-----------------------------------------------------------------------------
(* What polling does to one agent, and when the polled list is one agent.   *)

\* The argument list of guard's isOpen: one agent, always polled.
LEMMA PolledOne ==
  ASSUME NEW a \in Agents
  PROVE  Polled(<<a>>) = {a}
  BY DEF Polled

\* getState never invents a state, never turns a closed agent, and makes an
\* agent half-open only past its recovery time.
LEMMA GetStateFacts ==
  ASSUME TypeOK, NEW a \in Agents
  PROVE  /\ getState(a) \in CircuitState
         /\ getState(a) = CLOSED <=> state[a] = CLOSED
         /\ getState(a) = HALF_OPEN => state[a] = HALF_OPEN \/ age[a] > RecoveryTimeout
         /\ getState(a) # OPEN => state[a] # OPEN \/ age[a] > RecoveryTimeout
  BY DEF TypeOK, getState

\* Polling any list of agents keeps the breaker's own invariant.
LEMMA PollKeepsInv ==
  ASSUME TypeOK, ClosedBelowThreshold, HalfOpenOnlyAfterTimeout,
         NEW ids, Poll(ids), UNCHANGED <<failures, age>>
  PROVE  /\ state' \in [Agents -> CircuitState]
         /\ ClosedBelowThreshold'
         /\ HalfOpenOnlyAfterTimeout'
<1>1. \A a \in Agents : state'[a] \in {state[a], getState(a)}
  BY DEF Poll
<1>2. state' \in [Agents -> CircuitState]
  BY GetStateFacts DEF Poll, TypeOK
<1>3. \A a \in Agents : state'[a] = CLOSED => state[a] = CLOSED
  BY <1>1, GetStateFacts
<1>4. \A a \in Agents : state'[a] = HALF_OPEN => age[a] > RecoveryTimeout
  BY <1>1, GetStateFacts DEF HalfOpenOnlyAfterTimeout
<1> QED
  BY <1>2, <1>3, <1>4 DEF ClosedBelowThreshold, HalfOpenOnlyAfterTimeout

\* A failure, a success and a reset keep the breaker's own invariant.
LEMMA RecordKeepsInv ==
  ASSUME TypeOK, ClosedBelowThreshold, HalfOpenOnlyAfterTimeout,
         NEW a \in Agents, recordFailure(a) \/ recordSuccess(a) \/ reset(a)
  PROVE  /\ state' \in [Agents -> CircuitState]
         /\ failures' \in [Agents -> 0..FailureThreshold]
         /\ age' \in [Agents -> 0..Expired]
         /\ ClosedBelowThreshold'
         /\ HalfOpenOnlyAfterTimeout'
<1> USE ThresholdAssumption, TimeoutAssumption
<1>1. CASE recordFailure(a)
  BY <1>1 DEF recordFailure, TypeOK, ClosedBelowThreshold, HalfOpenOnlyAfterTimeout, Expired
<1>2. CASE recordSuccess(a)
  BY <1>2 DEF recordSuccess, TypeOK, ClosedBelowThreshold, HalfOpenOnlyAfterTimeout, Expired
<1>3. CASE reset(a)
  BY <1>3 DEF reset, TypeOK, ClosedBelowThreshold, HalfOpenOnlyAfterTimeout, Expired
<1> QED
  BY <1>1, <1>2, <1>3

-----------------------------------------------------------------------------
(* The inductive step, one action at a time. *)

\* The fresh breaker satisfies the invariant.
LEMMA InitInv == Init => IInv
<1> USE ThresholdAssumption, TimeoutAssumption
<1> SUFFICES ASSUME Init PROVE IInv
  OBVIOUS
<1>1. TypeOK
  BY DEF Init, TypeOK, Expired
<1> QED
  BY <1>1 DEF Init, IInv, RunnerHoldsLock, ClosedBelowThreshold,
              HalfOpenOnlyAfterTimeout

\* The callers' steps: a call joins the chain, enters or settles.
LEMMA GuardStep ==
  ASSUME IInv, NEW c \in Calls, NEW a \in Agents, Guard(c, a)
  PROVE  IInv'
<1> USE DEF IInv
<1>1. TypeOK'
  BY DEF Guard, TypeOK, breaker
<1>2. RunnerHoldsLock'
  <2> SUFFICES ASSUME NEW d \in Calls, pc'[d] = "running"
               PROVE  HoldsLock(d)'
    BY DEF RunnerHoldsLock
  <2>1. pc[d] = "running"
    BY DEF Guard, TypeOK
  <2>2. lockChain # <<>> /\ Head(lockChain) = d
    BY <2>1 DEF RunnerHoldsLock, HoldsLock
  <2> QED
    BY <2>2 DEF Guard, HoldsLock, TypeOK
<1>3. ClosedBelowThreshold' /\ HalfOpenOnlyAfterTimeout'
  BY DEF Guard, breaker, ClosedBelowThreshold, HalfOpenOnlyAfterTimeout
<1> QED
  BY <1>1, <1>2, <1>3

\* A call reaches the lock: it short-circuits or starts its operation.
LEMMA EnterStep ==
  ASSUME IInv, NEW c \in Calls, Enter(c)
  PROVE  IInv'
<1> USE DEF IInv
<1>1. /\ state' \in [Agents -> CircuitState]
      /\ ClosedBelowThreshold'
      /\ HalfOpenOnlyAfterTimeout'
  BY PollKeepsInv DEF Enter
<1>2. TypeOK'
  <2>1. lockChain # <<>> /\ lockChain \in Seq(Calls)
    BY DEF Enter, HoldsLock, TypeOK
  <2>2. lockChain' \in Seq(Calls)
    BY <2>1 DEF Enter
  <2> QED
    BY <1>1, <2>2 DEF Enter, TypeOK
<1>3. RunnerHoldsLock'
  \* c is the head, so no other call runs: whoever runs afterwards is c.
  <2>1. \A d \in Calls : pc[d] # "running"
    BY DEF Enter, RunnerHoldsLock, HoldsLock
  <2> QED
    BY <2>1 DEF Enter, RunnerHoldsLock, HoldsLock, TypeOK
<1> QED
  BY <1>1, <1>2, <1>3

\* An operation settles, its outcome is recorded and the lock is passed on.
LEMMA SettleStep ==
  ASSUME IInv, NEW c \in Calls, NEW outcome \in Outcomes, Settle(c, outcome)
  PROVE  IInv'
<1> USE DEF IInv
<1> DEFINE a == target[c]
<1>0. a \in Agents
  BY DEF TypeOK
<1>1. \/ recordFailure(a) \/ recordSuccess(a) \/ reset(a)
      \/ UNCHANGED breaker
  BY DEF Settle, Outcomes, isCircuitFailure
<1>2. /\ state' \in [Agents -> CircuitState]
      /\ failures' \in [Agents -> 0..FailureThreshold]
      /\ age' \in [Agents -> 0..Expired]
      /\ ClosedBelowThreshold'
      /\ HalfOpenOnlyAfterTimeout'
  <2>1. CASE UNCHANGED breaker
    BY <2>1 DEF breaker, TypeOK, ClosedBelowThreshold, HalfOpenOnlyAfterTimeout
  <2>2. CASE recordFailure(a) \/ recordSuccess(a) \/ reset(a)
    BY <1>0, <2>2, RecordKeepsInv
  <2> QED
    BY <1>1, <2>1, <2>2
<1>3. lockChain # <<>>
  BY DEF Settle, RunnerHoldsLock, HoldsLock
<1>4. TypeOK'
  BY <1>2, <1>3 DEF Settle, TypeOK
<1>5. RunnerHoldsLock'
  \* c held the lock, so nobody else was running.
  BY DEF Settle, RunnerHoldsLock, HoldsLock, TypeOK
<1> QED
  BY <1>2, <1>4, <1>5

\* The public methods that take no lock, and time.
LEMMA OutsideStep ==
  ASSUME IInv,
         \/ \E a \in Agents : DirectOp(a)
         \/ \E ids \in Queries : Query(ids)
         \/ Tick
         \/ UNCHANGED vars
  PROVE  IInv'
<1> USE DEF IInv
<1>1. CASE \E a \in Agents : DirectOp(a)
  <2> PICK a \in Agents : DirectOp(a)
    BY <1>1
  <2>1. recordFailure(a) \/ recordSuccess(a) \/ reset(a)
    BY DEF DirectOp
  <2>2. UNCHANGED <<lockChain, pc, target>>
    BY DEF DirectOp
  <2> QED
    BY <2>1, <2>2, RecordKeepsInv DEF TypeOK, RunnerHoldsLock, HoldsLock
<1>2. CASE \E ids \in Queries : Query(ids)
  <2> PICK ids \in Queries : Query(ids)
    BY <1>2
  <2> QED
    BY PollKeepsInv DEF Query, TypeOK, RunnerHoldsLock, HoldsLock
<1>3. CASE Tick
  BY <1>3, TimeoutAssumption
     DEF Tick, TypeOK, RunnerHoldsLock, HoldsLock, ClosedBelowThreshold,
         HalfOpenOnlyAfterTimeout, Expired
<1>4. CASE UNCHANGED vars
  BY <1>4 DEF vars, TypeOK, RunnerHoldsLock, HoldsLock, ClosedBelowThreshold,
              HalfOpenOnlyAfterTimeout
<1> QED
  BY <1>1, <1>2, <1>3, <1>4

\* Every step of the breaker keeps the invariant.
LEMMA NextInv == IInv /\ [Next]_vars => IInv'
  BY GuardStep, EnterStep, SettleStep, OutsideStep DEF Next

\* The invariant holds in every behaviour of the breaker (circuit.ts).
THEOREM Invariance == Spec => []IInv
  BY InitInv, NextInv, PTL DEF Spec

-----------------------------------------------------------------------------
(* The lock chain serves everybody: who awaits or holds the lock is in the  *)
(* chain, at one place, and the head of the chain is a call that can go on. *)

\* Who is in the lock chain is there once, and is inside a guard.
ChainOfGuards ==
  \A i \in DOMAIN lockChain :
    /\ pc[lockChain[i]] # "idle"
    /\ \A j \in DOMAIN lockChain : lockChain[i] = lockChain[j] => i = j

\* Who is inside a guard is in the lock chain.
GuardsInChain ==
  \A c \in Calls : pc[c] # "idle" => \E i \in DOMAIN lockChain : lockChain[i] = c

\* circuit.ts:67-80: a caller inside a guard has one place in the chain, and
\* there is a holder of the lock that is inside its guard and can go on: the
\* callers of guard() never wait for each other in a circle, nor for a lock
\* that nobody will release.
LockServesAll ==
  \A c \in Calls : pc[c] # "idle" =>
    /\ \E i \in DOMAIN lockChain :
         lockChain[i] = c /\ \A j \in DOMAIN lockChain : lockChain[j] = c => j = i
    /\ \E h \in Calls : HoldsLock(h) /\ pc[h] # "idle"

\* What the steps of a guard do to the chain: a caller joins at its end.
LEMMA GuardFacts ==
  ASSUME IInv, ChainOfGuards, NEW c \in Calls, NEW a \in Agents, Guard(c, a)
  PROVE  /\ ChainOfGuards' /\ pc[c] = "idle"
         /\ \A d \in Calls : pc'[d] = IF d = c THEN "queued" ELSE pc[d]
<1>1. /\ pc[c] = "idle" /\ lockChain' = Append(lockChain, c)
      /\ lockChain \in Seq(Calls)
      /\ \A d \in Calls : pc'[d] = IF d = c THEN "queued" ELSE pc[d]
  BY DEF Guard, IInv, TypeOK
<1>2. \A i \in DOMAIN lockChain : lockChain[i] \in Calls /\ lockChain[i] # c
  BY <1>1 DEF ChainOfGuards
<1>3. /\ DOMAIN lockChain' = 1..(Len(lockChain) + 1)
      /\ DOMAIN lockChain = 1..Len(lockChain) /\ Len(lockChain) \in Nat
      /\ \A i \in 1..Len(lockChain) : lockChain'[i] = lockChain[i]
      /\ lockChain'[Len(lockChain) + 1] = c
  BY <1>1
<1>4. ASSUME NEW i \in DOMAIN lockChain'
      PROVE  /\ pc'[lockChain'[i]] # "idle"
             /\ \A j \in DOMAIN lockChain' : lockChain'[i] = lockChain'[j] => i = j
  <2>1. CASE i = Len(lockChain) + 1
    BY <1>1, <1>2, <1>3, <2>1
  <2>2. CASE i \in DOMAIN lockChain
    BY <1>1, <1>2, <1>3, <2>2 DEF ChainOfGuards
  <2> QED
    BY <1>3, <2>1, <2>2
<1> QED
  BY <1>1, <1>4 DEF ChainOfGuards

\* The holder of the lock leaves; nobody is in the chain twice, so it is not
\* in what is left.
LEMMA TailFacts ==
  ASSUME IInv, ChainOfGuards, NEW c \in Calls, HoldsLock(c),
         lockChain' = Tail(lockChain),
         \A d \in Calls : d # c => pc'[d] = pc[d]
  PROVE  ChainOfGuards'
<1>1. lockChain \in Seq(Calls) /\ lockChain # <<>> /\ lockChain[1] = c
  BY DEF HoldsLock, IInv, TypeOK
<1>2. /\ Len(lockChain) \in Nat \ {0} /\ DOMAIN lockChain = 1..Len(lockChain)
      /\ DOMAIN lockChain' = 1..(Len(lockChain) - 1)
      /\ \A i \in 1..(Len(lockChain) - 1) : lockChain'[i] = lockChain[i + 1]
      /\ \A i \in DOMAIN lockChain : lockChain[i] \in Calls
  BY <1>1
<1>3. ASSUME NEW i \in DOMAIN lockChain'
      PROVE  /\ pc'[lockChain'[i]] # "idle"
             /\ \A j \in DOMAIN lockChain' : lockChain'[i] = lockChain'[j] => i = j
  <2>1. /\ i + 1 \in DOMAIN lockChain /\ i + 1 # 1 /\ 1 \in DOMAIN lockChain
        /\ lockChain'[i] = lockChain[i + 1] /\ i \in Int
    BY <1>2
  <2>2. lockChain[i + 1] # c
    BY <1>1, <2>1 DEF ChainOfGuards
  <2>3. pc'[lockChain'[i]] # "idle"
    BY <1>2, <2>1, <2>2 DEF ChainOfGuards
  <2>4. ASSUME NEW j \in DOMAIN lockChain', lockChain'[i] = lockChain'[j]
        PROVE  i = j
    <3>1. j + 1 \in DOMAIN lockChain /\ lockChain'[j] = lockChain[j + 1] /\ j \in Int
      BY <1>2
    <3>2. i + 1 = j + 1
      BY <2>1, <2>4, <3>1 DEF ChainOfGuards
    <3> QED
      BY <2>1, <3>1, <3>2
  <2> QED
    BY <2>3, <2>4
<1> QED
  BY <1>3 DEF ChainOfGuards

\* Joining keeps everybody in the chain.
LEMMA GuardKeepsAll ==
  ASSUME IInv, ChainOfGuards, GuardsInChain,
         NEW c \in Calls, NEW a \in Agents, Guard(c, a)
  PROVE  GuardsInChain'
<1>1. /\ lockChain' = Append(lockChain, c) /\ lockChain \in Seq(Calls)
      /\ \A d \in Calls : pc'[d] = IF d = c THEN "queued" ELSE pc[d]
  BY DEF Guard, IInv, TypeOK
<1>2. /\ DOMAIN lockChain' = 1..(Len(lockChain) + 1)
      /\ DOMAIN lockChain = 1..Len(lockChain) /\ Len(lockChain) \in Nat
      /\ \A i \in 1..Len(lockChain) : lockChain'[i] = lockChain[i]
      /\ lockChain'[Len(lockChain) + 1] = c
  BY <1>1
<1>3. Len(lockChain) + 1 \in DOMAIN lockChain' /\ DOMAIN lockChain \subseteq DOMAIN lockChain'
  BY <1>2
<1>4. ASSUME NEW d \in Calls, pc'[d] # "idle"
      PROVE  \E i \in DOMAIN lockChain' : lockChain'[i] = d
  BY <1>1, <1>2, <1>3, <1>4 DEF GuardsInChain
<1> QED
  BY <1>4 DEF GuardsInChain

\* Only the caller that leaves its guard leaves the chain.
LEMMA TailKeepsAll ==
  ASSUME IInv, GuardsInChain, NEW c \in Calls, HoldsLock(c),
         lockChain' = Tail(lockChain),
         \A d \in Calls : pc'[d] = IF d = c THEN "idle" ELSE pc[d]
  PROVE  GuardsInChain'
<1>1. lockChain \in Seq(Calls) /\ lockChain # <<>> /\ lockChain[1] = c
  BY DEF HoldsLock, IInv, TypeOK
<1>2. /\ Len(lockChain) \in Nat \ {0} /\ DOMAIN lockChain = 1..Len(lockChain)
      /\ DOMAIN lockChain' = 1..(Len(lockChain) - 1)
      /\ \A i \in 1..(Len(lockChain) - 1) : lockChain'[i] = lockChain[i + 1]
  BY <1>1
<1>3. ASSUME NEW d \in Calls, pc'[d] # "idle"
      PROVE  \E i \in DOMAIN lockChain' : lockChain'[i] = d
  <2>1. d # c /\ pc[d] # "idle"
    BY <1>3
  <2>2. PICK i \in DOMAIN lockChain : lockChain[i] = d
    BY <2>1 DEF GuardsInChain
  <2>3. i - 1 \in DOMAIN lockChain' /\ lockChain'[i - 1] = d
    BY <1>1, <1>2, <2>1, <2>2
  <2> QED
    BY <2>3
<1> QED
  BY <1>3 DEF GuardsInChain

\* Every step of the breaker keeps the chain as it should be.
LEMMA ChainNext ==
  ASSUME IInv, ChainOfGuards, GuardsInChain, [Next]_vars
  PROVE  ChainOfGuards' /\ GuardsInChain'
<1>1. ASSUME NEW c \in Calls, NEW a \in Agents, Guard(c, a)
      PROVE  ChainOfGuards' /\ GuardsInChain'
  BY <1>1, GuardFacts, GuardKeepsAll
<1>2. ASSUME NEW c \in Calls, HoldsLock(c), lockChain' = Tail(lockChain),
             pc' = [pc EXCEPT ![c] = "idle"]
      PROVE  ChainOfGuards' /\ GuardsInChain'
  <2>1. \A d \in Calls : pc'[d] = IF d = c THEN "idle" ELSE pc[d]
    BY <1>2 DEF IInv, TypeOK
  <2> QED
    BY <1>2, <2>1, TailFacts, TailKeepsAll
<1>3. ASSUME NEW c \in Calls, lockChain' = lockChain, pc[c] # "idle",
             pc' = [pc EXCEPT ![c] = "running"]
      PROVE  ChainOfGuards' /\ GuardsInChain'
  <2>1. \A d \in Calls : pc'[d] # "idle" <=> pc[d] # "idle"
    BY <1>3 DEF IInv, TypeOK
  <2>2. \A i \in DOMAIN lockChain : lockChain[i] \in Calls
    BY DEF IInv, TypeOK
  <2> QED
    BY <1>3, <2>1, <2>2 DEF ChainOfGuards, GuardsInChain
<1>4. ASSUME NEW c \in Calls, Enter(c)
      PROVE  ChainOfGuards' /\ GuardsInChain'
  BY <1>2, <1>3, <1>4 DEF Enter
<1>5. ASSUME NEW c \in Calls, NEW outcome \in Outcomes, Settle(c, outcome)
      PROVE  ChainOfGuards' /\ GuardsInChain'
  BY <1>2, <1>5 DEF Settle, IInv, RunnerHoldsLock
<1>6. CASE UNCHANGED <<lockChain, pc>>
  BY <1>6 DEF ChainOfGuards, GuardsInChain
<1> QED
  BY <1>1, <1>4, <1>5, <1>6 DEF Next, DirectOp, Query, Tick, vars

\* The chain holds exactly the callers inside a guard, each once.
THEOREM ChainInvariance == Spec => [](ChainOfGuards /\ GuardsInChain)
<1>1. Init => ChainOfGuards /\ GuardsInChain
  BY DEF Init, ChainOfGuards, GuardsInChain
<1>2. IInv /\ (ChainOfGuards /\ GuardsInChain) /\ [Next]_vars
        => (ChainOfGuards /\ GuardsInChain)'
  BY ChainNext
<1> QED
  BY <1>1, <1>2, Invariance, PTL DEF Spec

\* Nobody inside a guard waits for a lock that nobody releases.
THEOREM NobodyLockedOut == Spec => []LockServesAll
<1>1. IInv /\ (ChainOfGuards /\ GuardsInChain) => LockServesAll
  <2> SUFFICES ASSUME IInv, ChainOfGuards, GuardsInChain,
                      NEW c \in Calls, pc[c] # "idle"
               PROVE  /\ \E i \in DOMAIN lockChain :
                           /\ lockChain[i] = c
                           /\ \A j \in DOMAIN lockChain : lockChain[j] = c => j = i
                      /\ \E h \in Calls : HoldsLock(h) /\ pc[h] # "idle"
    BY DEF LockServesAll
  <2>1. PICK i \in DOMAIN lockChain : lockChain[i] = c
    BY DEF GuardsInChain
  <2>2. /\ lockChain # <<>> /\ Head(lockChain) = lockChain[1]
        /\ 1 \in DOMAIN lockChain /\ lockChain[1] \in Calls
    BY <2>1 DEF IInv, TypeOK
  <2>3. HoldsLock(lockChain[1]) /\ pc[lockChain[1]] # "idle"
    BY <2>2 DEF HoldsLock, ChainOfGuards
  <2> QED
    BY <2>1, <2>2, <2>3 DEF ChainOfGuards
<1> QED
  BY <1>1, ChainInvariance, Invariance, PTL

-----------------------------------------------------------------------------
(* The properties the runs check, for every instance. *)

\* The variables keep their types.
THEOREM TypeCorrect == Spec => []TypeOK
<1>1. IInv => TypeOK
  BY DEF IInv
<1> QED
  BY <1>1, Invariance, PTL

\* withLock: at most one guarded operation is in flight.
THEOREM LockExclusive == Spec => []SingleFlight
<1>1. IInv => SingleFlight
  BY DEF IInv, RunnerHoldsLock, HoldsLock, SingleFlight
<1> QED
  BY <1>1, Invariance, PTL

\* A closed agent is below the failure threshold.
THEOREM ThresholdTrips == Spec => []ClosedBelowThreshold
<1>1. IInv => ClosedBelowThreshold
  BY DEF IInv
<1> QED
  BY <1>1, Invariance, PTL

\* An agent is half-open only past its recovery time.
THEOREM ProbeAfterTimeout == Spec => []HalfOpenOnlyAfterTimeout
<1>1. IInv => HalfOpenOnlyAfterTimeout
  BY DEF IInv
<1> QED
  BY <1>1, Invariance, PTL

\* When nobody reports failures from outside, an agent never opens under an
\* operation that is running on it.
THEOREM NoOpenUnderRunner ==
  ASSUME "recordFailure" \notin DirectOps
  PROVE  Spec => []NoOpenUnderOperation
<1>1. Init => NoOpenUnderOperation
  BY DEF Init, NoOpenUnderOperation
<1>2. IInv /\ NoOpenUnderOperation /\ [Next]_vars => NoOpenUnderOperation'
  <2> SUFFICES ASSUME IInv, NoOpenUnderOperation, [Next]_vars,
                      NEW d \in Calls, pc'[d] = "running"
               PROVE  state'[target'[d]] # OPEN
    BY DEF NoOpenUnderOperation
  <2> USE DEF IInv
  <2>1. ASSUME NEW c \in Calls, NEW a \in Agents, Guard(c, a)
        PROVE  state'[target'[d]] # OPEN
    BY <2>1 DEF Guard, breaker, TypeOK, NoOpenUnderOperation
  <2>2. ASSUME NEW c \in Calls, Enter(c)
        PROVE  state'[target'[d]] # OPEN
    \* the entering call is the only one that runs, and it polled its agent
    <3>1. \A e \in Calls : pc[e] # "running"
      BY <2>2 DEF Enter, RunnerHoldsLock, HoldsLock
    <3>2. d = c /\ getState(target[c]) # OPEN
      BY <2>2, <3>1 DEF Enter, TypeOK
    <3>3. target[c] \in Agents
      BY DEF TypeOK
    <3>4. state'[target[c]] = getState(target[c])
      BY <2>2, <3>3, PolledOne DEF Enter, Poll
    <3> QED
      BY <2>2, <3>2, <3>4 DEF Enter
  <2>3. ASSUME NEW c \in Calls, NEW outcome \in Outcomes, Settle(c, outcome)
        PROVE  state'[target'[d]] # OPEN
    \* the settling call was the only one that ran
    BY <2>3 DEF Settle, RunnerHoldsLock, HoldsLock, TypeOK
  <2>4. ASSUME NEW a \in Agents, DirectOp(a)
        PROVE  state'[target'[d]] # OPEN
    BY <2>4 DEF DirectOp, recordSuccess, reset, TypeOK, NoOpenUnderOperation
  <2>5. ASSUME NEW ids \in Queries, Query(ids)
        PROVE  state'[target'[d]] # OPEN
    BY <2>5 DEF Query, Poll, getState, TypeOK, NoOpenUnderOperation
  <2>6. CASE Tick \/ UNCHANGED vars
    BY <2>6 DEF Tick, vars, NoOpenUnderOperation
  <2> QED
    BY <2>1, <2>2, <2>3, <2>4, <2>5, <2>6 DEF Next
<1> QED
  BY <1>1, <1>2, Invariance, PTL DEF Spec

-----------------------------------------------------------------------------
(* The breaker implements AbstractBreaker. *)

\* The fresh breaker is a fresh abstract one.
LEMMA InitRefines == Init => Promise!AInit
  BY DEF Init, Promise!AInit, Promise!Elapsed, Expired

\* Polling an agent whose recovery time has passed is invisible: it was
\* tripped and stays tripped.
LEMMA PollInvisible ==
  ASSUME TypeOK, NEW ids, Poll(ids)
  PROVE  \A a \in Agents : state'[a] # CLOSED <=> state[a] # CLOSED
  BY GetStateFacts DEF Poll

\* A recorded failure is an abstract failure.
LEMMA FailureRefines ==
  ASSUME IInv, NEW a \in Agents, recordFailure(a)
  PROVE  Promise!Failed(a)
<1> USE ThresholdAssumption DEF IInv
<1>1. [b \in Agents |-> state'[b] # CLOSED]
        = [[b \in Agents |-> state[b] # CLOSED] EXCEPT
             ![a] = @ \/ failures[a] + 1 >= FailureThreshold]
  BY DEF recordFailure, TypeOK
<1> QED
  BY <1>1 DEF recordFailure, Promise!Failed

\* A recorded success closes only an agent that is half-open, which the
\* invariant places past its recovery time.
LEMMA SuccessRefines ==
  ASSUME IInv, NEW a \in Agents, recordSuccess(a)
  PROVE  Promise!Succeeded(a)
<1> USE TimeoutAssumption DEF IInv
<1>1. CASE state[a] = HALF_OPEN
  <2>1. age[a] = Expired
    BY <1>1 DEF HalfOpenOnlyAfterTimeout, TypeOK, Expired
  <2>2. [b \in Agents |-> state'[b] # CLOSED]
          = [[b \in Agents |-> state[b] # CLOSED] EXCEPT ![a] = FALSE]
    BY <1>1 DEF recordSuccess, TypeOK
  <2> QED
    BY <2>1, <2>2 DEF recordSuccess, Promise!Succeeded, Promise!Elapsed, Expired
<1>2. CASE state[a] # HALF_OPEN
  <2>1. [b \in Agents |-> state'[b] # CLOSED] = [b \in Agents |-> state[b] # CLOSED]
    BY <1>2 DEF recordSuccess, TypeOK
  <2> QED
    BY <2>1 DEF recordSuccess, Promise!Succeeded
<1> QED
  BY <1>1, <1>2

\* reset() is the abstract breaker cleared from outside.
LEMMA ResetRefines ==
  ASSUME IInv, NEW a \in Agents, reset(a)
  PROVE  Promise!Cleared(a)
<1>1. [b \in Agents |-> state'[b] # CLOSED]
        = [[b \in Agents |-> state[b] # CLOSED] EXCEPT ![a] = FALSE]
  BY DEF reset, TypeOK, IInv
<1> QED
  BY <1>1 DEF reset, Promise!Cleared, Promise!Elapsed, Expired

\* Every step of the breaker is one of the abstract breaker, or a stutter.
LEMMA StepRefines == IInv /\ [Next]_vars => [Promise!ANext]_(Promise!avars)
<1> SUFFICES ASSUME IInv, [Next]_vars
             PROVE  [Promise!ANext]_(Promise!avars)
  OBVIOUS
<1> USE DEF IInv
<1> DEFINE busy(p, t) == {t[c] : c \in {d \in Calls : p[d] = "running"}}
<1>1. ASSUME NEW c \in Calls, NEW a \in Agents, Guard(c, a)
      PROVE  UNCHANGED Promise!avars
  <2>1. busy(pc', target') = busy(pc, target)
    BY <1>1 DEF Guard, TypeOK
  <2> QED
    BY <1>1, <2>1 DEF Guard, breaker, Promise!avars
<1>2. ASSUME NEW c \in Calls, Enter(c)
      PROVE  (\E a \in Agents : Promise!Begin(a)) \/ UNCHANGED Promise!avars
  <2> PICK a \in Agents : a = target[c]
    BY DEF TypeOK
  <2>1. \A d \in Calls : pc[d] # "running"
    BY <1>2 DEF Enter, RunnerHoldsLock, HoldsLock
  <2>2. [b \in Agents |-> state'[b] # CLOSED] = [b \in Agents |-> state[b] # CLOSED]
    BY <1>2, PollInvisible DEF Enter
  <2>3. CASE getState(a) = OPEN
    <3>1. busy(pc', target') = busy(pc, target)
      BY <1>2, <2>1, <2>3 DEF Enter, TypeOK
    <3> QED
      BY <1>2, <2>2, <3>1 DEF Enter, Promise!avars
  <2>4. CASE getState(a) # OPEN
    <3>1. busy(pc, target) = {} /\ busy(pc', target') = {a}
      BY <1>2, <2>1, <2>4 DEF Enter, TypeOK
    <3>2. state[a] # CLOSED => age[a] = Expired
      <4>1. state[a] \in CircuitState /\ age[a] \in 0..Expired
        BY DEF TypeOK
      <4>2. state[a] # CLOSED => age[a] > RecoveryTimeout
        BY <2>4, <4>1, GetStateFacts DEF HalfOpenOnlyAfterTimeout
      <4> QED
        BY <4>1, <4>2, TimeoutAssumption DEF Expired
    <3>3. Promise!Begin(a)
      BY <1>2, <2>2, <3>1, <3>2
         DEF Enter, Promise!Begin, Promise!Elapsed, Expired
    <3> QED
      BY <3>3
  <2> QED
    BY <2>3, <2>4
<1>3. ASSUME NEW c \in Calls, NEW outcome \in Outcomes, Settle(c, outcome)
      PROVE  \E a \in Agents : Promise!End(a)
  <2> PICK a \in Agents : a = target[c]
    BY DEF TypeOK
  <2>1. \A d \in Calls : pc[d] = "running" <=> d = c
    BY <1>3 DEF Settle, RunnerHoldsLock, HoldsLock
  <2>2. busy(pc, target) = {a} /\ busy(pc', target') = {}
    BY <1>3, <2>1 DEF Settle, TypeOK
  <2>3. recordFailure(a) \/ recordSuccess(a) \/ UNCHANGED breaker
    BY <1>3 DEF Settle, Outcomes, isCircuitFailure, recordFailure, recordSuccess
  <2>4. recordFailure(a) => Promise!Failed(a)
    BY FailureRefines
  <2>5. recordSuccess(a) => Promise!Succeeded(a)
    BY SuccessRefines
  <2>6. UNCHANGED breaker
          => UNCHANGED <<[b \in Agents |-> state[b] # CLOSED], failures, age>>
    BY DEF breaker
  <2>7. Promise!End(a)
    BY <2>2, <2>3, <2>4, <2>5, <2>6 DEF Promise!End
  <2> QED
    BY <2>7
<1>4. ASSUME NEW a \in Agents, DirectOp(a)
      PROVE  Promise!Outside(a)
  BY <1>4, FailureRefines, SuccessRefines, ResetRefines DEF DirectOp, Promise!Outside
<1>5. ASSUME NEW ids \in Queries, Query(ids)
      PROVE  UNCHANGED Promise!avars
  <2>1. [b \in Agents |-> state'[b] # CLOSED] = [b \in Agents |-> state[b] # CLOSED]
    BY <1>5, PollInvisible DEF Query
  <2> QED
    BY <1>5, <2>1 DEF Query, Promise!avars
<1>6. CASE Tick
  BY <1>6 DEF Tick, Promise!ANext, Promise!Passage, Promise!Elapsed, Expired
<1>7. CASE UNCHANGED vars
  BY <1>7 DEF vars, Promise!avars
<1>8. CASE \E c \in Calls, a \in Agents : Guard(c, a)
  BY <1>1, <1>8
<1>9. CASE \E c \in Calls : Enter(c)
  BY <1>2, <1>9 DEF Promise!ANext
<1>10. CASE \E c \in Calls, outcome \in Outcomes : Settle(c, outcome)
  BY <1>3, <1>10 DEF Promise!ANext
<1>11. CASE \E a \in Agents : DirectOp(a)
  BY <1>4, <1>11 DEF Promise!ANext
<1>12. CASE \E ids \in Queries : Query(ids)
  BY <1>5, <1>12
<1> QED
  BY <1>6, <1>7, <1>8, <1>9, <1>10, <1>11, <1>12 DEF Next

\* The breaker keeps the promise of its header comment: an operation starts
\* alone and never inside a recovery time, and only a success past it closes.
THEOREM BreakerRefinesPromise == Spec => ImplementsPromise
  BY InitRefines, StepRefines, Invariance, PTL DEF Spec, ImplementsPromise, Promise!ASpec
=============================================================================
