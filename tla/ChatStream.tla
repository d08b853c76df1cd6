----------------------------- MODULE ChatStream -----------------------------
(***************************************************************************)
(* The body of a chat stream: ChatService.stream and Transport.streamChat, *)
(* once the headers of a good answer are there (HttpCall, step "stream").  *)
(*                                                                         *)
(* The body is a sequence of lines.  The network cuts it anywhere: reads   *)
(* are counted in half lines, so that a read may end inside a line and a   *)
(* body may end without a newline.  The generator keeps the tail of a read *)
(* in its buffer, hands out one chunk at a time, and goes on when its      *)
(* consumer asks for the next one; the consumer may also leave.            *)
(***************************************************************************)
EXTENDS HttpCall, Sequences

CONSTANT MaxLines   \* bound: lines of a body

ASSUME ChatAssumption == MaxLines \in Nat

VARIABLES
    body,       \* the lines: "chunk", "done", "bad" (no JSON) or "other"
    size,       \* its half lines: odd if the last line has no newline
    read,       \* half lines read
    buffer,     \* the line whose beginning is in the buffer, 0 if none
    lost,       \* lines whose beginning was no longer there at their end
    pos,        \* lines dealt with
    yielded,    \* the chunks handed out, by line number
    gen         \* reading, yielded, or how the generator ended

chatVars == <<body, size, read, buffer, lost, pos, yielded, gen>>

Lines == {"chunk", "done", "bad", "other"}
Texts == UNION {[1 .. n -> Lines] : n \in 0 .. MaxLines}
\* The complete lines among the first n half lines.
Complete(n) == n \div 2

ChatInit ==
    /\ body \in Texts
    /\ size \in 0 .. 2 * Len(body)
    /\ size + 1 >= 2 * Len(body)
    /\ read = 0
    /\ buffer = 0
    /\ lost = {}
    /\ pos = 0
    /\ yielded = <<>>
    /\ gen = "reading"

Streaming == step = "stream"
Waiting == Streaming /\ gen = "reading" /\ pos = Complete(read)

\* lines.pop(): the line whose beginning is left, 0 if none.  Fault: the
\* tail of a read is not kept.
Popped_Dropped(n) == 0
Popped(n) == IF n % 2 = 1 THEN Complete(n) + 1 ELSE 0

\* reader.read() resolves: the buffer gets the text, split() takes the lines
\* that are complete, pop() leaves the tail.
Read ==
    /\ Waiting
    /\ \E n \in (read + 1) .. size :
          /\ read' = n
          /\ lost' = IF read % 2 = 1 /\ n \div 2 > read \div 2
                        /\ buffer # Complete(read) + 1
                     THEN lost \cup {Complete(read) + 1} ELSE lost
          /\ buffer' = Popped(n)
    /\ UNCHANGED <<body, size, pos, yielded, gen, httpVars>>

\* Fault: a body that does not end with a newline is waited for.
AtEnd_Flushed == read = size /\ buffer = 0
AtEnd == read = size

\* reader.read() says done.  What is left in the buffer is dropped.
EndOfBody ==
    /\ Waiting
    /\ AtEnd
    /\ gen' = "returned"
    /\ Finish(Value)
    /\ UNCHANGED <<body, size, read, buffer, lost, pos, yielded, answer, used,
                   callVars>>

\* The connection is lost: reader.read() rejects, and so does the generator.
Dropped ==
    /\ Waiting
    /\ gen' = "dropped"
    /\ Finish(Raw)
    /\ UNCHANGED <<body, size, read, buffer, lost, pos, yielded, answer, used,
                   callVars>>

\* The loop over the complete lines: one line.
Line ==
    /\ Streaming
    /\ gen = "reading"
    /\ pos < Complete(read)
    /\ pos' = pos + 1
    /\ LET line == IF pos + 1 \in lost THEN "other" ELSE body[pos + 1] IN
       \/ /\ line = "other"
          /\ UNCHANGED <<yielded, gen, step, out>>
       \/ /\ line = "chunk"
          /\ yielded' = Append(yielded, pos + 1)
          /\ gen' = "yielded"
          /\ UNCHANGED <<step, out>>
       \/ /\ line = "done"
          /\ gen' = "returned"
          /\ Finish(Value)
          /\ UNCHANGED yielded
       \/ /\ line = "bad"
          /\ gen' = "parse"
          /\ Finish(Err("Error", "Parse"))
          /\ UNCHANGED yielded
    /\ UNCHANGED <<body, size, read, buffer, lost, answer, used, callVars>>

\* The consumer asks for the next chunk.
Resume ==
    /\ Streaming
    /\ gen = "yielded"
    /\ gen' = "reading"
    /\ UNCHANGED <<body, size, read, buffer, lost, pos, yielded, httpVars>>

\* The consumer leaves its loop: finally releases the reader.
Leave ==
    /\ Streaming
    /\ gen = "yielded"
    /\ gen' = "left"
    /\ Finish(Value)
    /\ UNCHANGED <<body, size, read, buffer, lost, pos, yielded, answer, used,
                   callVars>>

ChatNext ==
    \/ Read
    \/ EndOfBody
    \/ Dropped
    \/ Line
    \/ Resume
    \/ Leave

\* The server sends its answer to the end; the consumer goes on or leaves.
ChatFairness ==
    /\ WF_<<chatVars, httpVars>>(Read \/ EndOfBody)
    /\ WF_<<chatVars, httpVars>>(Line)
    /\ WF_<<chatVars, httpVars>>(Resume \/ Leave)

----------------------------------------------------------------------------
\* The variables of the stream keep their types.
ChatTypeOK ==
    /\ body \in Seq(Lines)
    /\ size \in 0 .. 2 * Len(body)
    /\ read \in 0 .. size
    /\ buffer \in 0 .. Len(body)
    /\ lost \subseteq 1 .. Len(body)
    /\ pos \in 0 .. Complete(read)
    /\ yielded \in Seq(1 .. Len(body))
    /\ gen \in {"reading", "yielded", "returned", "parse", "dropped", "left"}

\* transport.ts:228-278: the consumer gets every chunk of the lines dealt
\* with, once and in order, however the network cuts the body, and nothing
\* after a terminator.  A stream that ends normally had its [DONE], or its
\* whole body was dealt with: only a last line without newline can be missing
\* then.
ChunksOnceInOrder ==
    /\ \A i, j \in DOMAIN yielded : i < j => yielded[i] < yielded[j]
    /\ {yielded[i] : i \in DOMAIN yielded} =
          {k \in 1 .. pos : body[k] = "chunk"}
    /\ \A k \in 1 .. pos : body[k] \in {"done", "bad"} =>
          k = pos /\ gen \in {"returned", "parse"}
    /\ gen = "returned" => \/ pos > 0 /\ body[pos] = "done"
                           \/ read = size /\ pos = Complete(size)

\* transport.ts:228-282: once the server ends its answer, the generator ends.
ChatEnds == Streaming ~> (step = "done")
=============================================================================
