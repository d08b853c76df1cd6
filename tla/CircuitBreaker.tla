--------------------------- MODULE CircuitBreaker ---------------------------
(****************************************************************************)
(* src/circuit.ts: the circuit breaker, its promise-chain lock and the      *)
(* guarded calls that queue on it.  One Breaker object serves all agents.   *)
(*                                                                          *)
(* Time is kept as age[a], the time since the last recorded failure of a,   *)
(* saturating at RecoveryTimeout + 1 (the code only ever compares it with   *)
(* recoveryTimeoutMs).  failures[a] saturates at FailureThreshold (the code *)
(* only ever compares it with failureThreshold).  An agent without an entry *)
(* in the states map is the same as one with a fresh entry.                 *)
(****************************************************************************)
EXTENDS Integers, Sequences

CONSTANTS
  Agents,            \* agent identifiers
  Calls,             \* concurrent callers of guard(), each reusable
  FailureThreshold,  \* failureThreshold
  RecoveryTimeout,   \* recoveryTimeoutMs
  Queries,           \* argument lists of isOpen(...), sequences of agents
  DirectOps          \* public methods used beside guard: see DirectOp

ASSUME ThresholdAssumption == FailureThreshold \in Nat \ {0}
ASSUME TimeoutAssumption == RecoveryTimeout \in Nat
ASSUME QueriesAssumption == Queries \subseteq Seq(Agents)
ASSUME DirectOpsAssumption ==
         DirectOps \subseteq {"recordFailure", "recordSuccess", "reset"}

CLOSED == "CLOSED"
OPEN == "OPEN"
HALF_OPEN == "HALF_OPEN"
CircuitState == {CLOSED, OPEN, HALF_OPEN}

VARIABLES
  state,      \* [Agents -> CircuitState]
  failures,   \* [Agents -> 0..FailureThreshold]
  age,        \* [Agents -> 0..Expired]  Date.now() - lastFailureAt
  lockChain,  \* the guard calls that hold or await the lock, oldest first
  pc,         \* [Calls -> {"idle", "queued", "running"}]
  target      \* [Calls -> Agents]  the agentId of the last guard of a caller

breaker == <<state, failures, age>>
vars == <<state, failures, age, lockChain, pc, target>>

Expired == RecoveryTimeout + 1

Init ==
  /\ state = [a \in Agents |-> CLOSED]
  /\ failures = [a \in Agents |-> 0]
  /\ age = [a \in Agents |-> Expired]
  /\ lockChain = <<>>
  /\ pc = [c \in Calls |-> "idle"]
  /\ target \in [Calls -> Agents]

-----------------------------------------------------------------------------
(* The breaker's own methods. *)

\* Faults, for the mutation runs only: each is a slip a maintainer could make
\* in the definition whose name it starts with.
getState_EarlyByOne(a) ==
  IF state[a] = OPEN /\ age[a] >= RecoveryTimeout THEN HALF_OPEN ELSE state[a]

recordFailure_OneTooMany(a) ==
  /\ failures' = [failures EXCEPT ![a] = IF @ < FailureThreshold THEN @ + 1 ELSE @]
  /\ age' = [age EXCEPT ![a] = 0]
  /\ state' = [state EXCEPT ![a] =
                 IF \/ @ = HALF_OPEN
                    \/ @ = CLOSED /\ failures[a] + 1 > FailureThreshold
                 THEN OPEN ELSE @]

recordSuccess_ClosesOpen(a) ==
  /\ failures' = [failures EXCEPT ![a] = 0]
  /\ state' = [state EXCEPT ![a] = CLOSED]
  /\ UNCHANGED age

\* The state getState(a) leaves behind and returns.
getState(a) ==
  IF state[a] = OPEN /\ age[a] > RecoveryTimeout THEN HALF_OPEN ELSE state[a]

\* isOpen(...ids) polls the agents up to and including the first open one.
Polled(ids) ==
  {ids[i] : i \in {k \in DOMAIN ids :
                     \A j \in 1..(k - 1) : getState(ids[j]) # OPEN}}

Poll(ids) ==
  state' = [a \in Agents |-> IF a \in Polled(ids) THEN getState(a) ELSE state[a]]

recordFailure(a) ==
  /\ failures' = [failures EXCEPT ![a] = IF @ < FailureThreshold THEN @ + 1 ELSE @]
  /\ age' = [age EXCEPT ![a] = 0]
  /\ state' = [state EXCEPT ![a] =
                 IF \/ @ = HALF_OPEN
                    \/ @ = CLOSED /\ failures[a] + 1 >= FailureThreshold
                 THEN OPEN ELSE @]

recordSuccess(a) ==
  /\ failures' = [failures EXCEPT ![a] = 0]
  /\ state' = [state EXCEPT ![a] = IF @ = HALF_OPEN THEN CLOSED ELSE @]
  /\ UNCHANGED age

reset(a) ==
  /\ state' = [state EXCEPT ![a] = CLOSED]
  /\ failures' = [failures EXCEPT ![a] = 0]
  /\ age' = [age EXCEPT ![a] = Expired]

-----------------------------------------------------------------------------
(* guard(agentId, op): three steps, because it awaits the previous holder   *)
(* of the lock and then the operation.                                      *)

\* The synchronous prefix: withLock appends this call to the lock chain.
Guard(c, a) ==
  /\ pc[c] = "idle"
  /\ pc' = [pc EXCEPT ![c] = "queued"]
  /\ target' = [target EXCEPT ![c] = a]
  /\ lockChain' = Append(lockChain, c)
  /\ UNCHANGED breaker

\* Faults of the lock and of the short circuit.
HoldsLock_NoAwait(c) == \E i \in DOMAIN lockChain : lockChain[i] = c

Enter_KeepsLock(c) ==
  /\ pc[c] = "queued" /\ lockChain # <<>> /\ Head(lockChain) = c
  /\ Poll(<<target[c]>>)
  /\ pc' = [pc EXCEPT ![c] = IF getState(target[c]) = OPEN THEN "idle" ELSE "running"]
  /\ UNCHANGED <<failures, age, target, lockChain>>

Enter_CountsShortCircuit(c) ==
  /\ pc[c] = "queued" /\ lockChain # <<>> /\ Head(lockChain) = c
  /\ Poll(<<target[c]>>)
  /\ IF getState(target[c]) = OPEN
     THEN /\ pc' = [pc EXCEPT ![c] = "idle"]
          /\ lockChain' = Tail(lockChain)
          /\ age' = [age EXCEPT ![target[c]] = 0]
     ELSE /\ pc' = [pc EXCEPT ![c] = "running"]
          /\ UNCHANGED <<lockChain, age>>
  /\ UNCHANGED <<failures, target>>

HoldsLock(c) == lockChain # <<>> /\ Head(lockChain) = c

\* The previous holder released: poll the agent, then short-circuit with
\* CircuitOpenError and release, or call op and keep the lock.
Enter(c) ==
  /\ pc[c] = "queued" /\ HoldsLock(c)
  /\ Poll(<<target[c]>>)
  /\ IF getState(target[c]) = OPEN
     THEN /\ pc' = [pc EXCEPT ![c] = "idle"]
          /\ lockChain' = Tail(lockChain)
     ELSE /\ pc' = [pc EXCEPT ![c] = "running"]
          /\ UNCHANGED lockChain
  /\ UNCHANGED <<failures, age, target>>

\* The ways op settles: 5xx APIErrors and network errors the SDK recognises
\* (serverError), any other exception (otherError), 429 (rateLimited) and the
\* other 4xx (clientError).
Outcomes == {"ok", "serverError", "otherError", "rateLimited", "clientError"}
isCircuitFailure(outcome) == outcome \in {"serverError", "otherError"}

\* op settles; its outcome is recorded and the lock released.
Settle(c, outcome) ==
  /\ pc[c] = "running"
  /\ \/ outcome = "ok" /\ recordSuccess(target[c])
     \/ isCircuitFailure(outcome) /\ recordFailure(target[c])
     \/ outcome # "ok" /\ ~isCircuitFailure(outcome) /\ UNCHANGED breaker
  /\ pc' = [pc EXCEPT ![c] = "idle"]
  /\ lockChain' = Tail(lockChain)
  /\ UNCHANGED target

-----------------------------------------------------------------------------
(* The public methods take no lock: they run between any two of the steps   *)
(* above, in the middle of a guarded operation too.                         *)

DirectOp(a) ==
  /\ \/ "recordFailure" \in DirectOps /\ recordFailure(a)
     \/ "recordSuccess" \in DirectOps /\ recordSuccess(a)
     \/ "reset" \in DirectOps /\ reset(a)
  /\ UNCHANGED <<lockChain, pc, target>>

\* isOpen(...ids); getState(a) is the query <<a>>.
Query(ids) ==
  /\ Poll(ids)
  /\ UNCHANGED <<failures, age, lockChain, pc, target>>

Tick ==
  /\ \E a \in Agents : age[a] < Expired
  /\ age' = [a \in Agents |-> IF age[a] < Expired THEN age[a] + 1 ELSE age[a]]
  /\ UNCHANGED <<state, failures, lockChain, pc, target>>

Next ==
  \/ \E c \in Calls, a \in Agents : Guard(c, a)
  \/ \E c \in Calls : Enter(c)
  \/ \E c \in Calls, outcome \in Outcomes : Settle(c, outcome)
  \/ \E a \in Agents : DirectOp(a)
  \/ \E ids \in Queries : Query(ids)
  \/ Tick

Spec == Init /\ [][Next]_vars

-----------------------------------------------------------------------------
(* Properties. *)

\* The variables keep their types.
TypeOK ==
  /\ state \in [Agents -> CircuitState]
  /\ failures \in [Agents -> 0..FailureThreshold]
  /\ age \in [Agents -> 0..Expired]
  /\ lockChain \in Seq(Calls)
  /\ pc \in [Calls -> {"idle", "queued", "running"}]
  /\ target \in [Calls -> Agents]

\* withLock (circuit.ts:67-80): whatever the interleaving of callers, at most
\* one guarded operation is in flight, so a half-open agent gets one probe at
\* a time.
SingleFlight ==
  \A c, d \in Calls : pc[c] = "running" /\ pc[d] = "running" => c = d

\* recordFailure (circuit.ts:110-126): no sequence of outcomes, reports,
\* resets and probes leaves an agent closed with a full count of failures.
ClosedBelowThreshold ==
  \A a \in Agents : state[a] = CLOSED => failures[a] < FailureThreshold

\* getState (circuit.ts:91-103): an agent is half-open only when its last
\* recorded failure, a late one included, is older than the recovery timeout.
HalfOpenOnlyAfterTimeout ==
  \A a \in Agents : state[a] = HALF_OPEN => age[a] > RecoveryTimeout

\* guard (circuit.ts:146-162): when guarded calls are the only reporters of
\* failures, an agent never opens under an operation that is running on it,
\* so no outcome is ever recorded while the agent is open.
NoOpenUnderOperation ==
  \A c \in Calls : pc[c] = "running" => state[target[c]] # OPEN

\* circuit.ts:8-16: an agent on which no failure is reported from outside is
\* not shut out for ever: if guarded calls keep coming, it leaves OPEN.
Recovers ==
  \A a \in Agents :
    []<>(\E c \in Calls : pc[c] = "queued" /\ target[c] = a)
      => []<>(state[a] # OPEN)

-----------------------------------------------------------------------------
(* The breaker implements AbstractBreaker. *)

Promise == INSTANCE AbstractBreaker WITH
  tripped <- [a \in Agents |-> state[a] # CLOSED],
  streak <- failures,
  busy <- {target[c] : c \in {d \in Calls : pc[d] = "running"}}

\* circuit.ts:7-16: the diagram of the header, read as a promise about when an
\* operation may start and when an agent may close; the lazy OPEN -> HALF_OPEN
\* move of getState and the lock chain are invisible to it.
ImplementsPromise == Promise!ASpec
=============================================================================
