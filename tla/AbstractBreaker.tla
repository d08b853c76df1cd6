--------------------------- MODULE AbstractBreaker ---------------------------
(****************************************************************************)
(* What a user of the circuit breaker may rely on, without the lock chain,  *)
(* without the three-valued state and without the lazy OPEN -> HALF_OPEN    *)
(* move.  An agent is tripped or it is not; time since its last failure     *)
(* decides whether a tripped agent may be probed.                           *)
(****************************************************************************)
EXTENDS Integers

CONSTANTS
  Agents,            \* the agent identifiers guarded by one breaker
  FailureThreshold,  \* consecutive failures that trip an agent
  RecoveryTimeout    \* a tripped agent may be probed after more than this

VARIABLES
  tripped,  \* [Agents -> BOOLEAN]
  streak,   \* [Agents -> Nat]  failures since the last success or reset
  age,      \* [Agents -> Nat]  time since the last failure, saturating
  busy      \* the set of agents with a guarded operation in flight

avars == <<tripped, streak, age, busy>>

Elapsed == RecoveryTimeout + 1   \* the saturated age

AInit ==
  /\ tripped = [a \in Agents |-> FALSE]
  /\ streak = [a \in Agents |-> 0]
  /\ age = [a \in Agents |-> Elapsed]
  /\ busy = {}

(* An operation starts only when no other is in flight, and never on an     *)
(* agent that is still inside its recovery time.                            *)
Begin(a) ==
  /\ busy = {}
  /\ tripped[a] => age[a] = Elapsed
  /\ busy' = {a}
  /\ UNCHANGED <<tripped, streak, age>>

Failed(a) ==
  /\ streak' = [streak EXCEPT ![a] = IF @ < FailureThreshold THEN @ + 1 ELSE @]
  /\ age' = [age EXCEPT ![a] = 0]
  /\ tripped' = [tripped EXCEPT ![a] = @ \/ streak[a] + 1 >= FailureThreshold]

(* A success never closes a tripped agent inside its recovery time, and a   *)
(* tripped agent is not obliged to close: a success reported by a call that *)
(* was not a probe leaves it tripped.                                       *)
Succeeded(a) ==
  /\ streak' = [streak EXCEPT ![a] = 0]
  /\ \/ tripped' = tripped
     \/ /\ age[a] = Elapsed
        /\ tripped' = [tripped EXCEPT ![a] = FALSE]
  /\ UNCHANGED age

Cleared(a) ==
  /\ tripped' = [tripped EXCEPT ![a] = FALSE]
  /\ streak' = [streak EXCEPT ![a] = 0]
  /\ age' = [age EXCEPT ![a] = Elapsed]

End(a) ==
  /\ a \in busy
  /\ busy' = busy \ {a}
  /\ \/ Failed(a)
     \/ Succeeded(a)
     \/ UNCHANGED <<tripped, streak, age>>

Outside(a) ==   \* a report or a reset that no guarded operation makes
  /\ Failed(a) \/ Succeeded(a) \/ Cleared(a)
  /\ UNCHANGED busy

Passage ==
  /\ age' = [a \in Agents |-> IF age[a] < Elapsed THEN age[a] + 1 ELSE age[a]]
  /\ UNCHANGED <<tripped, streak, busy>>

ANext ==
  \/ \E a \in Agents : Begin(a) \/ End(a) \/ Outside(a)
  \/ Passage

ASpec == AInit /\ [][ANext]_avars
=============================================================================
