----------------------------- MODULE EventFeed -----------------------------
(***************************************************************************)
(* What the iterators of one event stream may rely on, without chunks,     *)
(* wake-ups, connection and cancel().  They share one numbered feed: the   *)
(* next event goes to whoever asks first.  An iterator ends in order: by   *)
(* return, when the feed is closed and used up, or by an exception, which  *)
(* never overtakes an event and is thrown at one iterator only.  Errors    *)
(* are told in the order they came.                                        *)
(***************************************************************************)
EXTENDS Integers

CONSTANTS
  Consumers,  \* the iterators
  MaxFrames   \* bound: events of the feed

VARIABLES
  arrived,  \* 0..MaxFrames  events that came in so far
  taken,    \* 0..arrived  events handed out, in the order they came
  faults,   \* errors that no iterator has been told of
  over,     \* "open", "closed" or "rejected"
  fate      \* [Consumers -> {"going", "returned", "threw"}]

avars == <<arrived, taken, faults, over, fate>>

Lost == MaxFrames + 1   \* the error of a broken connection

AInit ==
  /\ arrived = 0
  /\ taken = 0
  /\ faults = {}
  /\ over = "open"
  /\ fate = [k \in Consumers |-> "going"]

(* Events come in, some of them errors; the last may close the feed. *)
Arrive ==
  /\ over = "open"
  /\ arrived' \in (arrived + 1)..MaxFrames
  /\ \E new \in SUBSET ((arrived + 1)..arrived') : faults' = faults \cup new
  /\ over' \in {"open", "closed"}
  /\ UNCHANGED <<taken, fate>>

Finish ==
  /\ over = "open"
  /\ \/ over' = "closed" /\ UNCHANGED faults
     \/ over' = "rejected" /\ faults' = faults \cup {Lost}
  /\ UNCHANGED <<arrived, taken, fate>>

Take(k) ==
  /\ fate[k] = "going"
  /\ taken < arrived
  /\ taken' = taken + 1
  /\ UNCHANGED <<arrived, faults, over, fate>>

Return(k) ==
  /\ fate[k] = "going"
  /\ over = "closed" /\ taken = arrived
  /\ fate' = [fate EXCEPT ![k] = "returned"]
  /\ UNCHANGED <<arrived, taken, faults, over>>

Throw(k) ==
  /\ fate[k] = "going"
  /\ taken = arrived
  /\ \E e \in faults : (\A f \in faults : e <= f) /\ faults' = faults \ {e}
  /\ fate' = [fate EXCEPT ![k] = "threw"]
  /\ UNCHANGED <<arrived, taken, over>>

ANext ==
  \/ Arrive
  \/ Finish
  \/ \E k \in Consumers : Take(k) \/ Return(k) \/ Throw(k)

ASpec == AInit /\ [][ANext]_avars
=============================================================================
