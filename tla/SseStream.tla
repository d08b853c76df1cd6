------------------------------ MODULE SseStream ------------------------------
(****************************************************************************)
(* src/mcp/streaming.ts, startSSE: the background reader of the event       *)
(* stream, the iterators that consume it and cancel().                      *)
(*                                                                          *)
(* The server (external) sends frames and ends the stream; sent[i] is the   *)
(* kind of its i-th frame: "error", "close", or "message" for every other   *)
(* event type, which the client treats alike.  Frames reach the reader in   *)
(* chunks of any number of complete frames.  Frames are known by their      *)
(* index, so that the order of delivery can be told.  A last frame without  *)
(* its blank line is no frame here: the code keeps it in its text buffer    *)
(* and drops it at the end, as lines are read from complete frames only     *)
(* and the flush of lines 254-263 finds none.                               *)
(****************************************************************************)
EXTENDS Integers, Sequences

CONSTANTS
  Consumers,  \* iterators made by events(); NoOne is not one of them
  NoOne,      \* waiter = null
  Eager,      \* the consumers that keep calling next()
  MaxFrames   \* bound: frames the server sends

ASSUME ConsumersAssumption == NoOne \notin Consumers /\ Eager \subseteq Consumers
ASSUME FramesAssumption == MaxFrames \in Nat

Kinds == {"message", "error", "close"}

VARIABLES
  sent,       \* server: the kinds of the frames sent so far
  ended,      \* server: "no", or how the response ended, "eof" or "broken"
  pos,        \* reader: frames parsed so far
  reader,     \* reader: "reading" or "gone"
  queue,      \* frames parsed and not yet yielded
  errors,     \* errorQueue: error frames by index, TransportError
  status,     \* "open", "closed" (closeReason set) or "rejected"
  waiter,     \* the consumer whose promise the next notify() resolves
  aborted,    \* abortController.signal.aborted
  pc,         \* [Consumers -> {"idle", "waiting", "ready", "returned", "threw"}]
  sawClose,   \* [Consumers -> BOOLEAN]  the last event yielded was close
  delivered   \* history: the frames yielded, over all consumers

net == <<sent, ended>>
sse == <<pos, reader, queue, errors, status, waiter>>
use == <<pc, sawClose, delivered>>
vars == <<net, sse, aborted, use>>

TransportError == MaxFrames + 1

Init ==
  /\ sent = <<>> /\ ended = "no"
  /\ pos = 0 /\ reader = "reading"
  /\ queue = <<>> /\ errors = {}
  /\ status = "open" /\ waiter = NoOne
  /\ aborted = FALSE
  /\ pc = [k \in Consumers |-> "idle"]
  /\ sawClose = [k \in Consumers |-> FALSE]
  /\ delivered = <<>>

-----------------------------------------------------------------------------
(* The server. *)

Send(kind) ==
  /\ ended = "no" /\ ~aborted
  /\ Len(sent) < MaxFrames
  /\ sent' = Append(sent, kind)
  /\ UNCHANGED <<ended, sse, aborted, use>>

End(how) ==
  /\ ended = "no"
  /\ ended' = how
  /\ UNCHANGED <<sent, sse, aborted, use>>

-----------------------------------------------------------------------------
(* The background reader. *)

\* Faults, for the mutation runs only.
notify_KeepsWaiter ==
  /\ UNCHANGED waiter
  /\ pc' = [k \in Consumers |-> IF k = waiter THEN "ready" ELSE pc[k]]

\* notify(): take the waiter and resolve its promise.
notify ==
  /\ waiter' = NoOne
  /\ pc' = [k \in Consumers |-> IF k = waiter THEN "ready" ELSE pc[k]]

Frames(n) == [i \in 1..n |-> pos + i]

\* Fault: frames are put before those that wait.
Chunk_NewestFirst(n) ==
  /\ reader = "reading" /\ ~aborted
  /\ n <= Len(sent) - pos
  /\ \A i \in 1..(n - 1) : sent[pos + i] # "close"
  /\ pos' = pos + n
  /\ queue' = Frames(n) \o queue
  /\ errors' = errors \cup {f \in (pos + 1)..(pos + n) : sent[f] = "error"}
  /\ IF sent[pos + n] = "close"
     THEN status' = "closed" /\ reader' = "gone"
     ELSE UNCHANGED <<status, reader>>
  /\ IF \E f \in (pos + 1)..(pos + n) : sent[f] # "error"
     THEN notify
     ELSE UNCHANGED <<waiter, pc>>
  /\ UNCHANGED <<net, aborted, sawClose, delivered>>

\* A chunk with n complete frames up to the first close frame, parsed in one
\* turn.  An error frame goes to both queues and does not call notify(); a
\* close frame ends the reader, which never looks at what follows it.
Chunk(n) ==
  /\ reader = "reading" /\ ~aborted
  /\ n <= Len(sent) - pos
  /\ \A i \in 1..(n - 1) : sent[pos + i] # "close"
  /\ pos' = pos + n
  /\ queue' = queue \o Frames(n)
  /\ errors' = errors \cup {f \in (pos + 1)..(pos + n) : sent[f] = "error"}
  /\ IF sent[pos + n] = "close"
     THEN status' = "closed" /\ reader' = "gone"
     ELSE UNCHANGED <<status, reader>>
  /\ IF \E f \in (pos + 1)..(pos + n) : sent[f] # "error"
     THEN notify
     ELSE UNCHANGED <<waiter, pc>>
  /\ UNCHANGED <<net, aborted, sawClose, delivered>>

\* read() resolves done: the server ended the body, or cancel() on the reader
\* of a body that does not follow the abort signal.
Eof_Silent ==
  /\ reader = "reading"
  /\ (ended = "eof" /\ pos = Len(sent)) \/ aborted
  /\ reader' = "gone"
  /\ status' = "closed"
  /\ UNCHANGED <<net, pos, queue, errors, aborted, waiter, pc, sawClose, delivered>>

Eof ==
  /\ reader = "reading"
  /\ \/ ended = "eof" /\ pos = Len(sent)
     \/ aborted
  /\ reader' = "gone"
  /\ status' = "closed"
  /\ notify
  /\ UNCHANGED <<net, pos, queue, errors, aborted, sawClose, delivered>>

\* read() rejects: the connection broke, or abort() errored the body.
Broken ==
  /\ reader = "reading"
  /\ ended = "broken" \/ aborted
  /\ reader' = "gone"
  /\ status' = "rejected"
  /\ errors' = errors \cup {TransportError}
  /\ notify
  /\ UNCHANGED <<net, pos, queue, aborted, sawClose, delivered>>

\* read() had resolved with a chunk when cancel() ran: the reader sees the
\* aborted signal and returns without a word to anyone.
LateChunk ==
  /\ reader = "reading" /\ aborted
  /\ pos < Len(sent)
  /\ reader' = "gone"
  /\ UNCHANGED <<net, pos, queue, errors, status, waiter, aborted, use>>

-----------------------------------------------------------------------------
(* The iterators of events(): a call of next(), or the turn after the       *)
(* promise of a waiting call resolved, runs the loop until it yields,       *)
(* returns, throws or waits.                                                *)

Yield(k) ==
  /\ queue # <<>>
  /\ queue' = Tail(queue)
  /\ delivered' = Append(delivered, Head(queue))
  /\ sawClose' = [sawClose EXCEPT ![k] = sent[Head(queue)] = "close"]
  /\ pc' = [pc EXCEPT ![k] = "idle"]
  /\ UNCHANGED <<errors, waiter>>

Throw(k) ==
  /\ queue = <<>> /\ errors # {}
  /\ \E e \in errors : /\ \A f \in errors : e <= f
                       /\ errors' = errors \ {e}
  /\ pc' = [pc EXCEPT ![k] = "threw"]
  /\ UNCHANGED <<queue, waiter, sawClose, delivered>>

Return(k) ==
  /\ pc' = [pc EXCEPT ![k] = "returned"]
  /\ UNCHANGED <<queue, errors, waiter, sawClose, delivered>>

Wait(k) ==
  /\ queue = <<>> /\ errors = {} /\ status # "closed"
  /\ waiter' = k
  /\ pc' = [pc EXCEPT ![k] = "waiting"]
  /\ UNCHANGED <<queue, errors, sawClose, delivered>>

\* A fault, for the mutation run only: the close is looked at first.
next_CloseFirst(k) ==
  /\ pc[k] \in {"idle", "ready"}
  /\ IF sawClose[k] \/ status = "closed" THEN Return(k)
     ELSE Yield(k) \/ Throw(k) \/ Wait(k)
  /\ UNCHANGED <<net, pos, reader, status, aborted>>

next(k) ==
  /\ pc[k] \in {"idle", "ready"}
  /\ IF sawClose[k] THEN Return(k)
     ELSE \/ Yield(k)
          \/ Throw(k)
          \/ queue = <<>> /\ errors = {} /\ status = "closed" /\ Return(k)
          \/ Wait(k)
  /\ UNCHANGED <<net, pos, reader, status, aborted>>

\* cancel(): idempotent; the reader finds out at its next read.
cancel ==
  /\ ~aborted
  /\ aborted' = TRUE
  /\ UNCHANGED <<net, sse, use>>

ReaderStep ==
  \/ \E n \in 1..MaxFrames : Chunk(n)
  \/ Eof
  \/ Broken
  \/ LateChunk

Next ==
  \/ \E kind \in Kinds : Send(kind)
  \/ \E how \in {"eof", "broken"} : End(how)
  \/ ReaderStep
  \/ \E k \in Consumers : next(k)
  \/ cancel

Spec == Init /\ [][Next]_vars

(* The event loop runs the reader and the resolved waiters; eager consumers *)
(* keep asking; the server ends the response some day.                      *)
Fairness ==
  /\ WF_vars(ReaderStep)
  /\ WF_vars(\E how \in {"eof", "broken"} : End(how))
  /\ \A k \in Eager : WF_vars(next(k))

FairSpec == Spec /\ Fairness

-----------------------------------------------------------------------------
(* Properties. *)

\* The variables keep their types.
TypeOK ==
  /\ sent \in Seq(Kinds) /\ Len(sent) <= MaxFrames
  /\ ended \in {"no", "eof", "broken"}
  /\ pos \in 0..Len(sent)
  /\ reader \in {"reading", "gone"}
  /\ queue \in Seq(1..MaxFrames)
  /\ errors \subseteq 1..TransportError
  /\ status \in {"open", "closed", "rejected"}
  /\ waiter \in Consumers \cup {NoOne}
  /\ aborted \in BOOLEAN
  /\ pc \in [Consumers -> {"idle", "waiting", "ready", "returned", "threw"}]
  /\ sawClose \in [Consumers -> BOOLEAN]
  /\ delivered \in Seq(1..MaxFrames)

\* streaming.ts:247-375: whatever the chunking, the cancels and the number of
\* iterators, every frame parsed is yielded or still queued, once, in the
\* order the server sent it.
ExactlyOnceInOrder ==
  /\ Len(delivered) + Len(queue) = pos
  /\ \A i \in 1..Len(delivered) : delivered[i] = i
  /\ \A i \in 1..Len(queue) : queue[i] = Len(delivered) + i

\* streaming.ts:236-240, 370-373: the consumer that waits is never asleep with
\* a message or close event in the queue, or after the stream was closed.
NoLostWakeup ==
  waiter # NoOne =>
    /\ pc[waiter] = "waiting"
    /\ status # "closed"
    /\ \A i \in 1..Len(queue) : sent[queue[i]] = "error"

\* streaming.ts:245-275, 363-369: an iterator that returns has been overtaken
\* by no event: the stream was closed, and what had been parsed was yielded.
ReturnMeansDrained ==
  \A k \in Consumers : pc[k] = "returned" =>
    status = "closed" /\ Len(delivered) = pos

\* streaming.ts:352-375: unless the stream is cancelled, a lone consumer that
\* keeps asking reaches the end of the stream, by return or by exception.
Alone(k) == \A j \in Consumers \ {k} : pc[j] = "idle" /\ ~sawClose[j]
StreamDrains ==
  \A k \in Eager :
    [](~aborted /\ Alone(k)) => <>(pc[k] \in {"returned", "threw"})

\* tests/mcp_streaming.test.ts:363 "after cancel, iterator should close out":
\* an eager consumer of a cancelled stream gets to the end of its iterator, by
\* return or by exception.
CancelClosesIterator ==
  \A k \in Eager : aborted ~> pc[k] \in {"returned", "threw"}

-----------------------------------------------------------------------------
(* To its consumers the stream is one shared feed of events. *)

Feed == INSTANCE EventFeed WITH
  arrived <- pos,
  taken <- Len(delivered),
  faults <- errors,
  over <- status,
  fate <- [k \in Consumers |->
             IF pc[k] \in {"returned", "threw"} THEN pc[k] ELSE "going"]

\* streaming.ts:247-375: chunks, wake-ups, the connection and cancel() are
\* invisible to the iterators, which share the events one by one, end once, and
\* learn of an error or of the end only when every event before it was yielded.
ImplementsFeed == Feed!ASpec
=============================================================================
