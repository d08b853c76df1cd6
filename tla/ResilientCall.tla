---------------------------- MODULE ResilientCall ----------------------------
(****************************************************************************)
(* The two ways a request leaves the SDK.                                   *)
(*                                                                          *)
(* An application that wants resilience wraps its request in the client's   *)
(* public retrier and breaker, retrier.do(() => circuit.guard(id, op)):     *)
(* src/retry.ts around src/circuit.ts.  The SDK's own services (kernel,     *)
(* agents, tasks, handshake, chat) call Transport.request once and use      *)
(* neither: src/client.ts builds both and hands the services the transport. *)
(*                                                                          *)
(* Callers are the Calls of CircuitBreaker; its Guard, Enter and Settle are *)
(* the attempts of the retry loop.                                          *)
(****************************************************************************)
EXTENDS CircuitBreaker

CONSTANTS
  MaxRetries,      \* cfg.maxRetries
  InitialBackoff,  \* cfg.initialBackoffMs
  MaxBackoff,      \* cfg.maxBackoffMs
  Jitter,          \* cfg.jitter, in percent
  Rands            \* values of Math.random() to consider, in percent

ASSUME RetriesAssumption == MaxRetries \in Nat
ASSUME BackoffAssumption == InitialBackoff \in Nat \ {0} /\ MaxBackoff \in Nat \ {0}
ASSUME JitterAssumption == Jitter \in 0..100 /\ Rands \subseteq 0..100

VARIABLES
  phase,    \* [Calls -> {"idle", "attempt", "sleep", "service"}]
  attempt,  \* [Calls -> 0..MaxRetries]  the loop counter of Retrier.do
  delay,    \* [Calls -> Nat]  the running backoff, in ms / 10000
  runs,     \* [Calls -> Nat]  times op was called for this request
  result    \* [Calls -> Results]  what the last finished request returned

loop == <<phase, attempt, delay, runs, result>>
rvars == <<vars, loop>>

Results == {"none", "circuitOpen", "maxRetries"} \cup Outcomes

RInit ==
  /\ Init
  /\ phase = [c \in Calls |-> "idle"]
  /\ attempt = [c \in Calls |-> 0]
  /\ delay = [c \in Calls |-> 0]
  /\ runs = [c \in Calls |-> 0]
  /\ result = [c \in Calls |-> "none"]

\* isRetryable: CircuitOpenError is not in Outcomes and is never retried.
\* An exception with an unrecognised message counts against the circuit and
\* is not retried; 429 is retried and does not count.
isRetryable(outcome) == outcome \in {"serverError", "rateLimited"}

\* The delay of backoff(n): doubled n times, capped from the first doubling on.
doubled[n \in Nat] ==
  IF n = 0 THEN InitialBackoff
  ELSE IF 2 * doubled[n - 1] > MaxBackoff THEN MaxBackoff ELSE 2 * doubled[n - 1]

\* With the jitter of rand in percent: delay * (1 + (rand * 2 - 1) * jitter).
backoff_NoCap(n, rand) ==
  InitialBackoff * (2 ^ n) * (10000 + (2 * rand - 100) * Jitter)
backoff(n, rand) == doubled[n] * (10000 + (2 * rand - 100) * Jitter)

-----------------------------------------------------------------------------
(* Retrier.do(() => breaker.guard(a, op)). *)

\* The loop starts, and its first op() appends to the breaker's lock chain.
Do(c, a) ==
  /\ phase[c] = "idle"
  /\ Guard(c, a)
  /\ phase' = [phase EXCEPT ![c] = "attempt"]
  /\ attempt' = [attempt EXCEPT ![c] = 0]
  /\ runs' = [runs EXCEPT ![c] = 0]
  /\ UNCHANGED <<delay, result>>

Finish(c, res) ==
  /\ phase' = [phase EXCEPT ![c] = "idle"]
  /\ result' = [result EXCEPT ![c] = res]
  /\ UNCHANGED <<attempt, delay>>

\* The guard gets the lock: it runs op, or throws CircuitOpenError, which
\* ends the loop at once.
Attempt(c) ==
  /\ phase[c] = "attempt"
  /\ Enter(c)
  /\ IF pc'[c] = "running"
     THEN /\ runs' = [runs EXCEPT ![c] = @ + 1]
          /\ UNCHANGED <<phase, attempt, delay, result>>
     ELSE Finish(c, "circuitOpen") /\ UNCHANGED runs

\* op settles and the guard rethrows its error into the loop's catch.  With
\* maxRetries <= 0 do returns op() itself, so the error stays what it was.
Caught_SleepsLocked(c, outcome) ==
  /\ phase[c] = "attempt" /\ pc[c] = "running"
  /\ isRetryable(outcome) /\ attempt[c] < MaxRetries
  /\ \/ isCircuitFailure(outcome) /\ recordFailure(target[c])
     \/ ~isCircuitFailure(outcome) /\ UNCHANGED breaker
  /\ pc' = [pc EXCEPT ![c] = "idle"]
  /\ phase' = [phase EXCEPT ![c] = "sleep"]
  /\ UNCHANGED <<lockChain, target, attempt, runs, delay, result>>

Caught_EarlyMaxRetries(c, outcome) ==
  /\ phase[c] = "attempt"
  /\ Settle(c, outcome)
  /\ IF isRetryable(outcome) /\ attempt[c] + 1 < MaxRetries
     THEN /\ phase' = [phase EXCEPT ![c] = "sleep"]
          /\ UNCHANGED <<attempt, runs, delay, result>>
     ELSE /\ Finish(c, IF isRetryable(outcome) THEN "maxRetries" ELSE outcome)
          /\ UNCHANGED runs

Caught(c, outcome) ==
  /\ phase[c] = "attempt"
  /\ Settle(c, outcome)
  /\ IF isRetryable(outcome) /\ attempt[c] < MaxRetries
     THEN /\ phase' = [phase EXCEPT ![c] = "sleep"]
          /\ \E rand \in Rands : delay' = [delay EXCEPT ![c] = backoff(attempt[c], rand)]
          /\ UNCHANGED <<attempt, result>>
     ELSE Finish(c, IF isRetryable(outcome) /\ MaxRetries > 0 THEN "maxRetries"
                                                              ELSE outcome)
  /\ UNCHANGED runs

\* The sleep's timer fires: the next turn of the loop calls op() again.
Wake(c) ==
  /\ phase[c] = "sleep"
  /\ Guard(c, target[c])
  /\ phase' = [phase EXCEPT ![c] = "attempt"]
  /\ attempt' = [attempt EXCEPT ![c] = @ + 1]
  /\ delay' = [delay EXCEPT ![c] = 0]
  /\ UNCHANGED <<runs, result>>

-----------------------------------------------------------------------------
(* A service method: one Transport.request, whatever comes of it. *)

ServiceRequest(c) ==
  /\ phase[c] = "idle"
  /\ phase' = [phase EXCEPT ![c] = "service"]
  /\ runs' = [runs EXCEPT ![c] = 1]
  /\ UNCHANGED <<vars, attempt, delay, result>>

ServiceReply(c, outcome) ==
  /\ phase[c] = "service"
  /\ Finish(c, outcome)
  /\ UNCHANGED <<vars, runs>>

\* Client.circuitState(): a read-out that polls the agent.
circuitState(ids) == Query(ids) /\ UNCHANGED loop

RNext ==
  \/ \E c \in Calls, a \in Agents : Do(c, a)
  \/ \E c \in Calls : Attempt(c)
  \/ \E c \in Calls, outcome \in Outcomes : Caught(c, outcome)
  \/ \E c \in Calls : Wake(c)
  \/ \E c \in Calls : ServiceRequest(c)
  \/ \E c \in Calls, outcome \in Outcomes : ServiceReply(c, outcome)
  \/ \E ids \in Queries : circuitState(ids)
  \/ Tick /\ UNCHANGED loop

RSpec == RInit /\ [][RNext]_rvars

(* The event loop runs a resolved continuation, setTimeout fires and time   *)
(* passes.  That an operation settles is the transport's timeout.           *)
RFairness ==
  /\ WF_rvars(Tick /\ UNCHANGED loop)
  /\ \A c \in Calls :
       /\ WF_rvars(Attempt(c))
       /\ WF_rvars(\E outcome \in Outcomes : Caught(c, outcome))
       /\ WF_rvars(Wake(c))
       /\ WF_rvars(\E outcome \in Outcomes : ServiceReply(c, outcome))

RFairSpec == RSpec /\ RFairness

-----------------------------------------------------------------------------
(* Properties. *)

\* The variables keep their types; the loop counter stays within maxRetries.
RTypeOK ==
  /\ TypeOK
  /\ phase \in [Calls -> {"idle", "attempt", "sleep", "service"}]
  /\ attempt \in [Calls -> 0..MaxRetries]
  /\ delay \in [Calls -> Nat]
  /\ runs \in [Calls -> 0..(MaxRetries + 1)]
  /\ result \in [Calls -> Results]

\* retry.ts:90-91 with circuit.ts:67-80: a request that sleeps between two
\* attempts is not in the breaker's lock chain, so one caller's backoff never
\* delays another caller.
BackoffHoldsNoLock ==
  \A i \in DOMAIN lockChain : phase[lockChain[i]] = "attempt"

\* retry.ts:64-72: MaxRetriesError means that op ran maxRetries + 1 times; an
\* attempt that the open circuit cut off ends the request instead, with
\* attempts to spare.
MaxRetriesMeansAllRan ==
  \A c \in Calls : phase[c] = "idle" =>
    /\ result[c] = "maxRetries" => runs[c] = MaxRetries + 1
    /\ result[c] = "circuitOpen" => runs[c] <= MaxRetries

\* retry.ts:38-54: a sleep never exceeds the larger of the two configured
\* bounds, stretched by the jitter.
BackoffBounded ==
  \A c \in Calls :
    \/ delay[c] <= InitialBackoff * (10000 + 100 * Jitter)
    \/ delay[c] <= MaxBackoff * (10000 + 100 * Jitter)

\* Every request ends, whatever its retries, the circuit and the other
\* callers do: guard and retry loop never wait on each other.
RequestSettles == \A c \in Calls : phase[c] # "idle" ~> phase[c] = "idle"

\* chat.ts:11 says of a service call that retry and circuit breaker are
\* applied to it: it would not end with a retryable error while it has
\* retries left.
NoRetryableErrorEarly ==
  \A c \in Calls :
    phase[c] = "idle" /\ isRetryable(result[c]) => runs[c] = MaxRetries + 1
=============================================================================
