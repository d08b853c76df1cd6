--------------------------- MODULE SseStreamProofs ---------------------------
(****************************************************************************)
(* The event stream's safety properties, for any number of iterators and of *)
(* frames.                                                                  *)
(****************************************************************************)
EXTENDS SseStream, SequenceTheorems, TLAPS

USE FramesAssumption DEF Kinds

\* Once the stream is settled the reader has gone, and with it every change
\* of pos and status.
SettledReaderGone == status # "open" => reader = "gone"

\* The reader stops at a close frame: it is the last one parsed.
CloseIsLast ==
  \A f \in 1..pos : sent[f] = "close" => f = pos /\ status = "closed"

\* An iterator that yielded the close event has nothing left to yield.
ClosedMeansDrained ==
  \A k \in Consumers : sawClose[k] => status = "closed" /\ Len(delivered) = pos

IInv ==
  /\ TypeOK
  /\ ExactlyOnceInOrder
  /\ NoLostWakeup
  /\ SettledReaderGone
  /\ CloseIsLast
  /\ ClosedMeansDrained
  /\ ReturnMeansDrained

-----------------------------------------------------------------------------
\* The stream startSSE makes satisfies the invariant.
LEMMA InitInv == Init => IInv
<1> SUFFICES ASSUME Init PROVE IInv
  OBVIOUS
<1> USE DEF Init
<1>1. TypeOK
  <2>1. <<>> \in Seq(Kinds) /\ <<>> \in Seq(1..MaxFrames) /\ Len(<<>>) = 0
    OBVIOUS
  <2>2. sent \in Seq(Kinds) /\ Len(sent) <= MaxFrames /\ pos \in 0..Len(sent)
    BY <2>1
  <2>3. queue \in Seq(1..MaxFrames) /\ delivered \in Seq(1..MaxFrames)
    BY <2>1
  <2>4. /\ pc \in [Consumers -> {"idle", "waiting", "ready", "returned", "threw"}]
        /\ sawClose \in [Consumers -> BOOLEAN]
    OBVIOUS
  <2>5. /\ ended \in {"no", "eof", "broken"} /\ reader \in {"reading", "gone"}
        /\ errors \subseteq 1..TransportError
        /\ status \in {"open", "closed", "rejected"}
        /\ waiter \in Consumers \cup {NoOne} /\ aborted \in BOOLEAN
    OBVIOUS
  <2> QED
    BY <2>2, <2>3, <2>4, <2>5 DEF TypeOK
<1>2. ExactlyOnceInOrder /\ NoLostWakeup
  BY DEF ExactlyOnceInOrder, NoLostWakeup
<1>3. SettledReaderGone /\ CloseIsLast /\ ClosedMeansDrained /\ ReturnMeansDrained
  BY DEF SettledReaderGone, CloseIsLast, ClosedMeansDrained, ReturnMeansDrained
<1> QED
  BY <1>1, <1>2, <1>3 DEF IInv

\* The server's steps: only sent grows, and only at its end.
LEMMA ServerStep ==
  ASSUME IInv,
         \/ \E kind \in Kinds : Send(kind)
         \/ \E how \in {"eof", "broken"} : End(how)
  PROVE  IInv'
<1> USE DEF IInv
<1>1. UNCHANGED <<sse, aborted, use>>
  BY DEF Send, End
<1>2. /\ sent' \in Seq(Kinds) /\ Len(sent') <= MaxFrames
      /\ Len(sent) <= Len(sent')
      /\ \A i \in 1..Len(sent) : sent'[i] = sent[i]
      /\ ended' \in {"no", "eof", "broken"}
  <2>1. ASSUME NEW kind \in Kinds, Send(kind)
        PROVE  /\ sent' \in Seq(Kinds) /\ Len(sent') = Len(sent) + 1
               /\ \A i \in 1..Len(sent) : sent'[i] = sent[i]
               /\ Len(sent) < MaxFrames /\ ended' = ended
    <3>1. sent' = Append(sent, kind) /\ sent \in Seq(Kinds)
      BY <2>1 DEF Send, TypeOK
    <3> QED
      BY <2>1, <3>1, AppendProperties DEF Send
  <2>2. ASSUME NEW how \in {"eof", "broken"}, End(how)
        PROVE  sent' = sent /\ ended' = how
    BY <2>2 DEF End
  <2>3. Len(sent) \in Nat
    BY DEF TypeOK
  <2>4. CASE \E kind \in Kinds : Send(kind)
    BY <2>1, <2>3, <2>4 DEF TypeOK
  <2>5. CASE \E how \in {"eof", "broken"} : End(how)
    BY <2>2, <2>3, <2>5 DEF TypeOK
  <2> QED
    BY <2>4, <2>5
<1>3. TypeOK'
  BY <1>1, <1>2 DEF TypeOK, sse, use
<1>4. ExactlyOnceInOrder' /\ SettledReaderGone' /\ ClosedMeansDrained' /\ ReturnMeansDrained'
  BY <1>1 DEF sse, use, ExactlyOnceInOrder, SettledReaderGone, ClosedMeansDrained,
              ReturnMeansDrained
<1>5. CloseIsLast'
  <2>1. pos' = pos /\ status' = status
    BY <1>1 DEF sse
  <2>2. \A f \in 1..pos : sent'[f] = sent[f]
    <3>1. pos \in Nat /\ Len(sent) \in Nat /\ pos <= Len(sent)
      BY DEF TypeOK
    <3>2. \A f \in 1..pos : f \in 1..Len(sent)
      BY <3>1
    <3> QED
      BY <1>2, <3>2
  <2> QED
    BY <2>1, <2>2 DEF CloseIsLast
<1>6. NoLostWakeup'
  <2>1. \A i \in 1..Len(queue) : queue[i] \in 1..Len(sent)
    BY DEF ExactlyOnceInOrder, TypeOK
  <2> QED
    BY <1>1, <1>2, <2>1 DEF sse, use, NoLostWakeup
<1> QED
  BY <1>3, <1>4, <1>5, <1>6

\* notify() wakes the waiter, if there is one, and no one else.
LEMMA NotifyFacts ==
  ASSUME TypeOK, notify
  PROVE  /\ waiter' = NoOne
         /\ pc' \in [Consumers -> {"idle", "waiting", "ready", "returned", "threw"}]
         /\ \A k \in Consumers : pc'[k] = "returned" => pc[k] = "returned"
  BY DEF notify, TypeOK

\* The reader parses a chunk of frames.
LEMMA ChunkStep ==
  ASSUME IInv, NEW n \in 1..MaxFrames, Chunk(n)
  PROVE  IInv'
<1> USE DEF IInv
<1>1. Frames(n) \in Seq(1..MaxFrames) /\ Len(Frames(n)) = n
      /\ \A i \in 1..n : Frames(n)[i] = pos + i
  BY DEF Chunk, TypeOK, Frames
<1>2. /\ queue' \in Seq(1..MaxFrames)
      /\ Len(queue') = Len(queue) + n
      /\ \A i \in 1..Len(queue) : queue'[i] = queue[i]
      /\ \A i \in (Len(queue) + 1)..(Len(queue) + n) : queue'[i] = pos + (i - Len(queue))
  <2>1. queue' = queue \o Frames(n) /\ queue \in Seq(1..MaxFrames)
    BY DEF Chunk, TypeOK
  <2>2. /\ queue' \in Seq(1..MaxFrames)
        /\ Len(queue') = Len(queue) + n
        /\ \A i \in 1..(Len(queue) + n) :
             queue'[i] = IF i <= Len(queue) THEN queue[i] ELSE Frames(n)[i - Len(queue)]
    <3>1. \A t \in Seq(1..MaxFrames) :
            /\ queue \o t \in Seq(1..MaxFrames)
            /\ Len(queue \o t) = Len(queue) + Len(t)
            /\ \A i \in 1..(Len(queue) + Len(t)) :
                 (queue \o t)[i] = IF i <= Len(queue) THEN queue[i] ELSE t[i - Len(queue)]
      BY <2>1, ConcatProperties
    <3> QED
      BY <1>1, <2>1, <3>1
  <2>3. Len(queue) \in Nat /\ n \in Nat
    BY <2>1
  <2>4. \A i \in (Len(queue) + 1)..(Len(queue) + n) : queue'[i] = pos + (i - Len(queue))
    BY <1>1, <2>2, <2>3
  <2>5. \A i \in 1..Len(queue) : queue'[i] = queue[i]
    BY <2>2, <2>3
  <2> QED
    BY <2>2, <2>4, <2>5
<1>3. status = "open" /\ pos' = pos + n /\ pos' <= Len(sent) /\ pos < pos'
  BY DEF Chunk, SettledReaderGone, TypeOK
<1>4. UNCHANGED <<sent, ended, aborted, sawClose, delivered>>
  BY DEF Chunk, net
<1>5. \A k \in Consumers : pc'[k] = "returned" => pc[k] = "returned"
  BY NotifyFacts DEF Chunk
<1>6. TypeOK'
  <2>1. errors' \subseteq 1..TransportError
    <3>1. errors' = errors \cup {f \in (pos + 1)..(pos + n) : sent[f] = "error"}
      BY DEF Chunk
    <3>2. (pos + 1)..(pos + n) \subseteq 1..TransportError
      BY <1>3 DEF TypeOK, TransportError
    <3> QED
      BY <3>1, <3>2 DEF TypeOK
  <2>2. /\ pc' \in [Consumers -> {"idle", "waiting", "ready", "returned", "threw"}]
        /\ waiter' \in Consumers \cup {NoOne}
    BY NotifyFacts DEF Chunk, TypeOK
  <2>3. status' \in {"open", "closed", "rejected"} /\ reader' \in {"reading", "gone"}
    BY DEF Chunk, TypeOK
  <2> QED
    BY <1>2, <1>3, <1>4, <2>1, <2>2, <2>3 DEF TypeOK
<1>7. ExactlyOnceInOrder'
  <2>1. /\ Len(queue) \in Nat /\ Len(delivered) \in Nat /\ pos \in Nat
        /\ Len(delivered) + Len(queue) = pos
    BY DEF ExactlyOnceInOrder, TypeOK
  <2>2. Len(delivered') + Len(queue') = pos'
    <3>1. Len(delivered') = Len(delivered) /\ Len(queue') = Len(queue) + n /\ pos' = pos + n
      BY <1>2, <1>3, <1>4
    <3> QED
      BY <2>1, <3>1
  <2>3. ASSUME NEW i \in 1..Len(queue') PROVE queue'[i] = Len(delivered) + i
    <3>1. CASE i <= Len(queue)
      BY <1>2, <2>1, <3>1 DEF ExactlyOnceInOrder
    <3>2. CASE i > Len(queue)
      <4>1. i \in (Len(queue) + 1)..(Len(queue) + n)
        BY <1>2, <2>1, <3>2
      <4>2. queue'[i] = pos + (i - Len(queue))
        BY <1>2, <4>1
      <4> QED
        BY <2>1, <4>2
    <3> QED
      BY <2>1, <3>1, <3>2
  <2> QED
    BY <1>4, <2>2, <2>3 DEF ExactlyOnceInOrder
<1>8. NoLostWakeup'
  <2>1. CASE \E f \in (pos + 1)..(pos + n) : sent[f] # "error"
    BY <2>1, NotifyFacts DEF Chunk, NoLostWakeup
  <2>2. CASE \A f \in (pos + 1)..(pos + n) : sent[f] = "error"
    <3>1. UNCHANGED <<waiter, pc, status>>
      BY <2>2 DEF Chunk, TypeOK
    <3>2. \A i \in 1..n : sent[pos + i] = "error"
      BY <2>2 DEF TypeOK
    <3>3. waiter # NoOne => \A i \in 1..Len(queue') : sent[queue'[i]] = "error"
      <4> SUFFICES ASSUME waiter # NoOne, NEW i \in 1..Len(queue')
                   PROVE  sent[queue'[i]] = "error"
        OBVIOUS
      <4>1. CASE i \in 1..Len(queue)
        BY <1>2, <4>1 DEF NoLostWakeup
      <4>2. CASE i \notin 1..Len(queue)
        <5>1. i - Len(queue) \in 1..n /\ queue'[i] = pos + (i - Len(queue))
          BY <1>2, <4>2 DEF TypeOK
        <5> QED
          BY <3>2, <5>1
      <4> QED
        BY <4>1, <4>2
    <3> QED
      BY <1>4, <3>1, <3>3 DEF NoLostWakeup
  <2> QED
    BY <2>1, <2>2
<1>9. SettledReaderGone'
  BY <1>3 DEF Chunk, SettledReaderGone
<1>10. CloseIsLast'
  <2>1. \A f \in 1..pos : sent[f] # "close"
    BY <1>3 DEF CloseIsLast
  <2>2. \A i \in 1..(n - 1) : sent[pos + i] # "close"
    BY DEF Chunk
  <2> SUFFICES ASSUME NEW f \in 1..pos', sent[f] = "close"
               PROVE  f = pos' /\ status' = "closed"
    BY <1>4 DEF CloseIsLast
  <2>3. f \notin 1..pos /\ f - pos \notin 1..(n - 1)
    <3>1. f - pos \in 1..(n - 1) => sent[pos + (f - pos)] # "close"
      BY <2>2
    <3> QED
      BY <2>1, <3>1 DEF TypeOK
  <2>4. f = pos + n
    BY <1>3, <2>3 DEF TypeOK
  <2> QED
    BY <1>3, <2>4 DEF Chunk
<1>11. ClosedMeansDrained' /\ ReturnMeansDrained'
  BY <1>3, <1>4, <1>5 DEF ClosedMeansDrained, ReturnMeansDrained
<1> QED
  BY <1>6, <1>7, <1>8, <1>9, <1>10, <1>11

\* The reader goes without parsing anything more.
LEMMA ReaderGoesStep ==
  ASSUME IInv, Eof \/ Broken \/ LateChunk
  PROVE  IInv'
<1> USE DEF IInv
<1>1. reader = "reading" /\ status = "open" /\ reader' = "gone"
  BY DEF Eof, Broken, LateChunk, SettledReaderGone
<1>2. UNCHANGED <<sent, ended, pos, queue, aborted, sawClose, delivered>>
  BY DEF Eof, Broken, LateChunk, net, use
<1>3. \A k \in Consumers : pc'[k] = "returned" => pc[k] = "returned"
  BY NotifyFacts DEF Eof, Broken, LateChunk, use
<1>4. TypeOK'
  <2>1. /\ pc' \in [Consumers -> {"idle", "waiting", "ready", "returned", "threw"}]
        /\ waiter' \in Consumers \cup {NoOne}
    BY NotifyFacts DEF Eof, Broken, LateChunk, use, TypeOK
  <2>2. errors' \subseteq 1..TransportError /\ status' \in {"open", "closed", "rejected"}
    <3>1. TransportError \in 1..TransportError
      BY DEF TransportError
    <3>2. errors' = errors \/ errors' = errors \cup {TransportError}
      BY DEF Eof, Broken, LateChunk
    <3>3. status' \in {"open", "closed", "rejected"}
      BY <1>1 DEF Eof, Broken, LateChunk
    <3> QED
      BY <3>1, <3>2, <3>3 DEF TypeOK
  <2> QED
    BY <1>1, <1>2, <2>1, <2>2 DEF TypeOK
<1>5. ExactlyOnceInOrder' /\ SettledReaderGone'
  BY <1>1, <1>2 DEF ExactlyOnceInOrder, SettledReaderGone
<1>6. NoLostWakeup'
  <2>1. CASE Eof \/ Broken
    BY <2>1, NotifyFacts DEF Eof, Broken, NoLostWakeup
  <2>2. CASE LateChunk
    BY <1>2, <2>2 DEF LateChunk, use, NoLostWakeup
  <2> QED
    BY <2>1, <2>2
<1>7. CloseIsLast' /\ ClosedMeansDrained' /\ ReturnMeansDrained'
  BY <1>1, <1>2, <1>3 DEF CloseIsLast, ClosedMeansDrained, ReturnMeansDrained
<1> QED
  BY <1>4, <1>5, <1>6, <1>7

-----------------------------------------------------------------------------
(* The iterators. *)

\* An iterator yields the oldest frame.
LEMMA YieldStep ==
  ASSUME IInv, NEW k \in Consumers, pc[k] \in {"idle", "ready"}, ~sawClose[k],
         Yield(k), UNCHANGED <<net, pos, reader, status, aborted>>
  PROVE  IInv'
<1> USE DEF IInv
<1> DEFINE f == Head(queue)
<1>1. f = Len(delivered) + 1 /\ f \in 1..pos /\ f \in 1..MaxFrames
  BY DEF Yield, ExactlyOnceInOrder, TypeOK
<1>2. /\ Len(queue') = Len(queue) - 1 /\ queue' \in Seq(1..MaxFrames)
      /\ \A i \in 1..Len(queue') : queue'[i] = queue[i + 1]
  BY DEF Yield, TypeOK
<1>3. /\ Len(delivered') = Len(delivered) + 1 /\ delivered' \in Seq(1..MaxFrames)
      /\ \A i \in 1..Len(delivered) : delivered'[i] = delivered[i]
      /\ delivered'[Len(delivered) + 1] = f
  BY <1>1 DEF Yield, TypeOK
<1>4. UNCHANGED <<sent, ended, pos, reader, status, aborted, errors, waiter>>
  BY DEF Yield, net
<1>5. TypeOK'
  <2>1. /\ pc' \in [Consumers -> {"idle", "waiting", "ready", "returned", "threw"}]
        /\ sawClose' \in [Consumers -> BOOLEAN]
    BY DEF Yield, TypeOK
  <2> QED
    BY <1>2, <1>3, <1>4, <2>1 DEF TypeOK
<1>6. ExactlyOnceInOrder'
  <2>0. /\ Len(queue) \in Nat /\ Len(delivered) \in Nat /\ pos \in Nat
        /\ Len(delivered) + Len(queue) = pos
    BY DEF ExactlyOnceInOrder, TypeOK
  <2>1. Len(delivered') + Len(queue') = pos'
    <3>1. /\ Len(delivered') = Len(delivered) + 1
          /\ Len(queue') = Len(queue) - 1 /\ pos' = pos
      BY <1>2, <1>3, <1>4
    <3> QED
      BY <2>0, <3>1
  <2>2. ASSUME NEW i \in 1..Len(delivered') PROVE delivered'[i] = i
    <3>1. CASE i \in 1..Len(delivered)
      BY <1>3, <3>1 DEF ExactlyOnceInOrder
    <3>2. CASE i = Len(delivered) + 1
      BY <1>1, <1>3, <3>2
    <3> QED
      BY <1>3, <2>0, <3>1, <3>2
  <2>3. \A i \in 1..Len(queue') : queue'[i] = Len(delivered') + i
    BY <1>2, <1>3 DEF ExactlyOnceInOrder, TypeOK
  <2> QED
    BY <2>1, <2>2, <2>3 DEF ExactlyOnceInOrder
<1>7. NoLostWakeup'
  \* the waiter is another consumer, and the queue it sleeps on only shrinks
  <2> SUFFICES ASSUME waiter # NoOne
               PROVE  /\ pc'[waiter] = "waiting" /\ status # "closed"
                      /\ \A i \in 1..Len(queue') : sent[queue'[i]] = "error"
    BY <1>4 DEF NoLostWakeup
  <2>1. pc[waiter] = "waiting" /\ waiter # k /\ waiter \in Consumers
    BY DEF NoLostWakeup, TypeOK
  <2>2. \A i \in 1..Len(queue') : i + 1 \in 1..Len(queue)
    BY <1>2 DEF TypeOK
  <2> QED
    BY <1>2, <2>1, <2>2 DEF NoLostWakeup, Yield, TypeOK
<1>8. SettledReaderGone' /\ CloseIsLast'
  BY <1>4 DEF SettledReaderGone, CloseIsLast
<1>9. ClosedMeansDrained'
  <2>1. \A j \in Consumers \ {k} : ~sawClose[j]
    \* an iterator past the close has left no frame in the queue to yield
    BY <1>1 DEF ClosedMeansDrained, TypeOK
  <2>2. sent[f] = "close" => f = pos /\ status = "closed"
    BY <1>1 DEF CloseIsLast
  <2> SUFFICES ASSUME NEW j \in Consumers, sawClose'[j]
               PROVE  status = "closed" /\ Len(delivered') = pos
    BY <1>4 DEF ClosedMeansDrained
  <2>3. j = k /\ sent[f] = "close"
    BY <2>1 DEF Yield, TypeOK
  <2> QED
    BY <1>1, <1>3, <2>2, <2>3
<1>10. ReturnMeansDrained'
  <2>1. \A j \in Consumers : pc[j] # "returned"
    BY <1>1 DEF ReturnMeansDrained, TypeOK
  <2> QED
    BY <2>1 DEF Yield, ReturnMeansDrained, TypeOK
<1> QED
  BY <1>5, <1>6, <1>7, <1>8, <1>9, <1>10

\* Throwing, returning and waiting leave queue and history alone.
LEMMA QuietNextStep ==
  ASSUME IInv, NEW k \in Consumers, pc[k] \in {"idle", "ready"},
         \/ Throw(k)
         \/ Wait(k)
         \/ Return(k) /\ status = "closed" /\ Len(delivered) = pos,
         UNCHANGED <<net, pos, reader, status, aborted>>
  PROVE  IInv'
<1> USE DEF IInv
<1>1. UNCHANGED <<sent, ended, pos, reader, status, aborted, queue, sawClose, delivered>>
  BY DEF Throw, Wait, Return, net
<1>2. /\ errors' \subseteq errors
      /\ waiter' = waiter \/ waiter' = k
      /\ pc' \in [Consumers -> {"idle", "waiting", "ready", "returned", "threw"}]
  BY DEF Throw, Wait, Return, TypeOK
<1>3. TypeOK'
  BY <1>1, <1>2 DEF TypeOK
<1>4. ExactlyOnceInOrder' /\ SettledReaderGone' /\ CloseIsLast' /\ ClosedMeansDrained'
  BY <1>1 DEF ExactlyOnceInOrder, SettledReaderGone, CloseIsLast, ClosedMeansDrained
<1>5. NoLostWakeup'
  <2>1. CASE Wait(k)
    BY <1>1, <2>1 DEF Wait, NoLostWakeup, TypeOK
  <2>2. CASE Throw(k) \/ Return(k)
    <3>1. UNCHANGED waiter /\ \A j \in Consumers \ {k} : pc'[j] = pc[j]
      BY <2>2 DEF Throw, Return, TypeOK
    <3>2. waiter # NoOne => waiter \in Consumers \ {k}
      BY DEF NoLostWakeup, TypeOK
    <3> QED
      BY <1>1, <3>1, <3>2 DEF NoLostWakeup
  <2> QED
    BY <2>1, <2>2
<1>6. ReturnMeansDrained'
  BY <1>1 DEF Throw, Wait, Return, ReturnMeansDrained, TypeOK
<1> QED
  BY <1>3, <1>4, <1>5, <1>6

\* A consumer calls next(), whichever way it ends.
LEMMA NextStep ==
  ASSUME IInv, NEW k \in Consumers, next(k)
  PROVE  IInv'
<1>1. pc[k] \in {"idle", "ready"} /\ UNCHANGED <<net, pos, reader, status, aborted>>
  BY DEF next
<1>2. CASE sawClose[k]
  BY <1>1, <1>2, QuietNextStep DEF next, IInv, ClosedMeansDrained
<1>3. CASE ~sawClose[k] /\ Yield(k)
  BY <1>1, <1>3, YieldStep
<1>4. CASE Throw(k) \/ Wait(k)
  BY <1>1, <1>4, QuietNextStep
<1>5. CASE queue = <<>> /\ errors = {} /\ status = "closed" /\ Return(k)
  <2>1. Len(delivered) = pos
    BY <1>5 DEF IInv, ExactlyOnceInOrder, TypeOK
  <2> QED
    BY <1>1, <1>5, <2>1, QuietNextStep
<1> QED
  BY <1>2, <1>3, <1>4, <1>5 DEF next

\* Every step of server, reader and consumers keeps the invariant.
LEMMA NextInv == IInv /\ [Next]_vars => IInv'
<1> SUFFICES ASSUME IInv, [Next]_vars PROVE IInv'
  OBVIOUS
<1>1. CASE cancel
  BY <1>1 DEF cancel, net, sse, use, IInv, TypeOK, ExactlyOnceInOrder, NoLostWakeup,
              SettledReaderGone, CloseIsLast, ClosedMeansDrained, ReturnMeansDrained
<1>2. CASE UNCHANGED vars
  BY <1>2 DEF vars, net, sse, use, IInv, TypeOK, ExactlyOnceInOrder, NoLostWakeup,
              SettledReaderGone, CloseIsLast, ClosedMeansDrained, ReturnMeansDrained
<1>3. CASE ReaderStep
  BY <1>3, ChunkStep, ReaderGoesStep DEF ReaderStep
<1> QED
  BY <1>1, <1>2, <1>3, ServerStep, NextStep DEF Next

\* The invariant holds in every behaviour of the stream (mcp/streaming.ts).
THEOREM Invariance == Spec => []IInv
  BY InitInv, NextInv, PTL DEF Spec

-----------------------------------------------------------------------------
\* The variables keep their types.
THEOREM TypeCorrect == Spec => []TypeOK
<1>1. IInv => TypeOK
  BY DEF IInv
<1> QED
  BY <1>1, Invariance, PTL

\* Every frame parsed is yielded once, in order, or still queued.
THEOREM OrderedDelivery == Spec => []ExactlyOnceInOrder
<1>1. IInv => ExactlyOnceInOrder
  BY DEF IInv
<1> QED
  BY <1>1, Invariance, PTL

\* The consumer in the waiter slot never sleeps on a queued message or on a
\* closed stream.  One that another iterator has pushed out of the slot may.
THEOREM WakeupsReach == Spec => []NoLostWakeup
<1>1. IInv => NoLostWakeup
  BY DEF IInv
<1> QED
  BY <1>1, Invariance, PTL

\* An iterator that returns has missed no event.
THEOREM ReturnsDrained == Spec => []ReturnMeansDrained
<1>1. IInv => ReturnMeansDrained
  BY DEF IInv
<1> QED
  BY <1>1, Invariance, PTL
-----------------------------------------------------------------------------
(* Nobody waits for nothing.  The reader leaves an open stream only after   *)
(* cancel(), and the error of a broken connection reaches one consumer.     *)

GoneHasReason == reader = "gone" => status # "open" \/ aborted

ErrorReachesOne ==
  status = "rejected" => TransportError \in errors \/ \E k \in Consumers : pc[k] = "threw"

\* Behind the reader's back the waiting consumer has no error to hear of.
WaiterHasNoError ==
  waiter # NoOne /\ reader = "gone" /\ ~aborted => errors = {}

WaitInv == GoneHasReason /\ ErrorReachesOne /\ WaiterHasNoError

\* streaming.ts:236-240, 317-373: unless the stream is cancelled, the consumer
\* in the waiter slot is there only while the reader reads on, which will wake
\* it or settle the stream.  The exception is a broken stream whose error another iterator has
\* taken: who comes later waits for ever.
WaiterIsServed ==
  waiter # NoOne /\ ~aborted =>
    \/ reader = "reading"
    \/ status = "rejected" /\ \E k \in Consumers \ {waiter} : pc[k] = "threw"

\* The reader's own steps.
LEMMA ReaderWaitStep ==
  ASSUME IInv, WaitInv, ReaderStep
  PROVE  WaitInv'
<1>1. ASSUME NEW n \in 1..MaxFrames, Chunk(n)
      PROVE  WaitInv'
  <2>1. reader = "reading" /\ status = "open" /\ pos' = pos + n /\ aborted' = aborted
    BY <1>1 DEF Chunk, IInv, SettledReaderGone
  <2>2. status' # "rejected" /\ GoneHasReason'
    BY <1>1, <2>1 DEF Chunk, GoneHasReason
  <2>3. reader' = "gone" => waiter' = NoOne
    <3> SUFFICES ASSUME reader' = "gone" PROVE waiter' = NoOne
      OBVIOUS
    <3>1. sent[pos + n] # "error"
      BY <1>1, <2>1 DEF Chunk
    <3>2. pos + n \in (pos + 1)..(pos + n)
      BY DEF IInv, TypeOK
    <3>3. notify
      BY <1>1, <3>1, <3>2 DEF Chunk
    <3> QED
      BY <3>3 DEF notify
  <2> QED
    BY <2>2, <2>3 DEF WaitInv, ErrorReachesOne, WaiterHasNoError
<1>2. CASE Eof
  BY <1>2 DEF Eof, notify, WaitInv, GoneHasReason, ErrorReachesOne, WaiterHasNoError
<1>3. CASE Broken
  BY <1>3 DEF Broken, notify, WaitInv, GoneHasReason, ErrorReachesOne, WaiterHasNoError
<1>4. CASE LateChunk
  <2>1. /\ aborted' = TRUE /\ status' = status /\ errors' = errors /\ pc' = pc
    BY <1>4 DEF LateChunk, use
  <2> QED
    BY <2>1 DEF WaitInv, GoneHasReason, ErrorReachesOne, WaiterHasNoError
<1> QED
  BY <1>1, <1>2, <1>3, <1>4 DEF ReaderStep

\* A consumer's step: it waits only when it has no error to take, and an
\* error it takes it throws.
LEMMA NextWaitStep ==
  ASSUME IInv, WaitInv, NEW k \in Consumers, next(k)
  PROVE  WaitInv'
<1>1. pc[k] \in {"idle", "ready"} /\ UNCHANGED <<net, pos, reader, status, aborted>>
  BY DEF next
<1>2. GoneHasReason'
  BY <1>1 DEF WaitInv, GoneHasReason
<1>3. CASE Throw(k)
  <2>1. \A j \in Consumers : pc'[j] = IF j = k THEN "threw" ELSE pc[j]
    BY <1>3 DEF Throw, IInv, TypeOK
  <2>2. errors' \subseteq errors /\ waiter' = waiter
    BY <1>3 DEF Throw
  <2> QED
    BY <1>1, <1>2, <2>1, <2>2 DEF WaitInv, ErrorReachesOne, WaiterHasNoError
<1>4. CASE ~Throw(k)
  <2>1. /\ errors' = errors
        /\ \A j \in Consumers : pc[j] = "threw" => pc'[j] = "threw"
        /\ waiter' = waiter \/ errors = {}
    BY <1>1, <1>4 DEF next, Yield, Return, Wait, IInv, TypeOK
  <2> QED
    BY <1>1, <1>2, <2>1 DEF WaitInv, ErrorReachesOne, WaiterHasNoError
<1> QED
  BY <1>3, <1>4

\* No behaviour leaves the consumer in the waiter slot with a reader that has
\* gone, but for that case.  One pushed out of the slot is not covered.
THEOREM WaitersServed == Spec => []WaiterIsServed
<1>1. Init => WaitInv
  BY DEF Init, WaitInv, GoneHasReason, ErrorReachesOne, WaiterHasNoError
<1>2. IInv /\ WaitInv /\ [Next]_vars => WaitInv'
  <2> SUFFICES ASSUME IInv, WaitInv, [Next]_vars PROVE WaitInv'
    OBVIOUS
  <2>1. CASE UNCHANGED <<sse, use>> /\ (aborted => aborted')
    BY <2>1 DEF sse, use, WaitInv, GoneHasReason, ErrorReachesOne, WaiterHasNoError
  <2> QED
    BY <2>1, ReaderWaitStep, NextWaitStep DEF Next, Send, End, cancel, vars
<1>3. IInv /\ WaitInv => WaiterIsServed
  <2> SUFFICES ASSUME IInv, WaitInv, waiter # NoOne, ~aborted, reader # "reading"
               PROVE  status = "rejected" /\ \E k \in Consumers \ {waiter} : pc[k] = "threw"
    BY DEF WaiterIsServed
  <2>1. status = "rejected" /\ errors = {} /\ pc[waiter] = "waiting"
    BY DEF IInv, TypeOK, NoLostWakeup, WaitInv, GoneHasReason, WaiterHasNoError
  <2> QED
    BY <2>1 DEF WaitInv, ErrorReachesOne
<1> QED
  BY <1>1, <1>2, <1>3, Invariance, PTL DEF Spec

-----------------------------------------------------------------------------
(* The stream implements EventFeed. *)

\* What the feed sees of an iterator: going, or how it ended.
FateOf(stance) == IF stance \in {"returned", "threw"} THEN stance ELSE "going"
Fates == [k \in Consumers |-> FateOf(pc[k])]

\* The feed starts empty, open and with every iterator going.
LEMMA FeedInit == Init => Feed!AInit
  BY DEF Init, Feed!AInit

\* A wake-up is not the end of an iterator.
LEMMA WakeupInvisible ==
  ASSUME IInv, notify
  PROVE  Fates' = Fates
<1>1. ASSUME NEW k \in Consumers
      PROVE  FateOf(pc'[k]) = FateOf(pc[k])
  <2>1. CASE k = waiter
    <3>1. waiter # NoOne
      BY <2>1, ConsumersAssumption
    <3>2. pc[k] = "waiting" /\ pc'[k] = "ready"
      BY <2>1, <3>1 DEF notify, IInv, NoLostWakeup
    <3> QED
      BY <3>2 DEF FateOf
  <2>2. CASE k # waiter
    BY <2>2 DEF notify
  <2> QED
    BY <2>1, <2>2
<1> QED
  BY <1>1 DEF Fates

\* A chunk is an arrival of events, errors among them, or of the last one.
LEMMA ChunkArrives ==
  ASSUME IInv, NEW n \in 1..MaxFrames, Chunk(n)
  PROVE  Feed!Arrive
<1>1. reader = "reading" /\ status = "open" /\ pos' = pos + n
  BY DEF Chunk, IInv, SettledReaderGone
<1>2. pos' \in (pos + 1)..MaxFrames
  BY <1>1 DEF Chunk, IInv, TypeOK
<1>3. \E new \in SUBSET ((pos + 1)..pos') : errors' = errors \cup new
  <2>1. {f \in (pos + 1)..(pos + n) : sent[f] = "error"} \in SUBSET ((pos + 1)..pos')
    BY <1>1
  <2> QED
    BY <2>1 DEF Chunk
<1>4. status' \in {"open", "closed"}
  BY <1>1 DEF Chunk
<1>5. Fates' = Fates
  BY WakeupInvisible DEF Chunk, Fates
<1>6. Len(delivered)' = Len(delivered)
  BY DEF Chunk
<1> QED
  BY <1>1, <1>2, <1>3, <1>4, <1>5, <1>6 DEF Feed!Arrive, Fates, FateOf

\* The reader's end settles the feed.
LEMMA ReaderFinishes ==
  ASSUME IInv, Eof \/ Broken
  PROVE  Feed!Finish
<1>1. status = "open" /\ UNCHANGED <<pos, delivered>>
  BY DEF Eof, Broken, IInv, SettledReaderGone
<1>2. \/ status' = "closed" /\ UNCHANGED errors
      \/ status' = "rejected" /\ errors' = errors \cup {Feed!Lost}
  BY DEF Eof, Broken, TransportError, Feed!Lost
<1>3. Fates' = Fates
  BY WakeupInvisible DEF Eof, Broken
<1> QED
  BY <1>1, <1>2, <1>3 DEF Feed!Finish, Fates, FateOf

\* An iterator takes an event, ends, or waits, which the feed does not see.
LEMMA ConsumerFeeds ==
  ASSUME IInv, NEW k \in Consumers, next(k)
  PROVE  Feed!Take(k) \/ Feed!Return(k) \/ Feed!Throw(k) \/ UNCHANGED Feed!avars
<1>1. /\ pc[k] \in {"idle", "ready"} /\ UNCHANGED <<pos, status>>
      /\ Fates[k] = "going"
  BY DEF next, Fates, FateOf
<1>2. /\ Len(delivered) \in Nat /\ Len(queue) \in Nat /\ pos \in Nat
      /\ Len(delivered) + Len(queue) = pos
  BY DEF IInv, TypeOK, ExactlyOnceInOrder
<1>3. \A stance : pc' = [pc EXCEPT ![k] = stance] =>
         Fates' = [Fates EXCEPT ![k] = FateOf(stance)]
  <2> SUFFICES ASSUME NEW stance, pc' = [pc EXCEPT ![k] = stance]
               PROVE  Fates' = [Fates EXCEPT ![k] = FateOf(stance)]
    OBVIOUS
  <2>1. \A j \in Consumers : pc'[j] = IF j = k THEN stance ELSE pc[j]
    BY DEF IInv, TypeOK
  <2>2. \A j \in Consumers : FateOf(pc'[j]) = IF j = k THEN FateOf(stance) ELSE FateOf(pc[j])
    BY <2>1
  <2>3. Fates' = [j \in Consumers |-> IF j = k THEN FateOf(stance) ELSE FateOf(pc[j])]
    BY <2>2 DEF Fates
  <2> QED
    BY <2>3 DEF Fates
<1>4. Fates = [Fates EXCEPT ![k] = "going"]
  BY <1>1 DEF Fates
<1>5. CASE Yield(k)
  <2>1. Len(queue) > 0 /\ Len(delivered)' = Len(delivered) + 1 /\ UNCHANGED errors
    BY <1>5 DEF Yield, IInv, TypeOK
  <2>2. Fates' = Fates
    BY <1>3, <1>4, <1>5 DEF Yield, FateOf
  <2> QED
    BY <1>1, <1>2, <2>1, <2>2 DEF Feed!Take, Fates, FateOf
<1>6. CASE Throw(k)
  <2>1. Len(delivered) = pos /\ UNCHANGED delivered
    BY <1>2, <1>6 DEF Throw
  <2>2. Fates' = [Fates EXCEPT ![k] = "threw"]
    BY <1>3, <1>6 DEF Throw, FateOf
  <2>3. \E e \in errors : (\A f \in errors : e <= f) /\ errors' = errors \ {e}
    BY <1>6 DEF Throw
  <2> QED
    BY <1>1, <2>1, <2>2, <2>3 DEF Feed!Throw, Fates, FateOf
<1>7. CASE Return(k) /\ (sawClose[k] \/ (queue = <<>> /\ status = "closed"))
  <2>1. Len(delivered) = pos /\ status = "closed"
    <3>1. CASE sawClose[k]
      BY <3>1 DEF IInv, ClosedMeansDrained
    <3>2. CASE queue = <<>> /\ status = "closed"
      BY <1>2, <3>2
    <3> QED
      BY <1>7, <3>1, <3>2
  <2>2. Fates' = [Fates EXCEPT ![k] = "returned"] /\ UNCHANGED <<delivered, errors>>
    BY <1>3, <1>7 DEF Return, FateOf
  <2> QED
    BY <1>1, <2>1, <2>2 DEF Feed!Return, Fates, FateOf
<1>8. CASE Wait(k)
  <2>1. Fates' = Fates /\ UNCHANGED <<delivered, errors>>
    BY <1>3, <1>4, <1>8 DEF Wait, FateOf
  <2> QED
    BY <1>1, <2>1 DEF Feed!avars, Fates, FateOf
<1>9. \/ Yield(k) \/ Throw(k) \/ Wait(k)
      \/ Return(k) /\ (sawClose[k] \/ (queue = <<>> /\ status = "closed"))
  <2>1. CASE sawClose[k]
    BY <2>1 DEF next
  <2>2. CASE ~sawClose[k]
    BY <2>2 DEF next
  <2> QED
    BY <2>1, <2>2
<1> QED
  BY <1>5, <1>6, <1>7, <1>8, <1>9

\* Every step of server, reader and consumers is a step of the feed or none.
LEMMA FeedStep == IInv /\ [Next]_vars => [Feed!ANext]_(Feed!avars)
<1> SUFFICES ASSUME IInv, [Next]_vars PROVE [Feed!ANext]_(Feed!avars)
  OBVIOUS
<1>1. ASSUME NEW k \in Consumers, next(k)
      PROVE  [Feed!ANext]_(Feed!avars)
  BY <1>1, ConsumerFeeds DEF Feed!ANext
<1>2. CASE UNCHANGED <<pos, errors, status, use>>
  BY <1>2 DEF use, Feed!avars
<1>3. CASE ReaderStep
  BY <1>2, <1>3, ChunkArrives, ReaderFinishes DEF ReaderStep, LateChunk, Feed!ANext
<1> QED
  BY <1>1, <1>2, <1>3 DEF Next, Send, End, cancel, vars, sse

\* Every behaviour of the stream is one of the shared feed.
THEOREM StreamIsFeed == Spec => ImplementsFeed
  BY FeedInit, FeedStep, Invariance, PTL DEF Spec, ImplementsFeed, Feed!ASpec
=============================================================================
