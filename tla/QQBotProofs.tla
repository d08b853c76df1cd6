----------------------------- MODULE QQBotProofs -----------------------------
(****************************************************************************)
(* Theorems about QQBot, for any callers, any number of sockets and any     *)
(* times that satisfy QQTimesAssumption.                                    *)
(****************************************************************************)
EXTENDS QQBot, TLAPS

\* refreshAccessToken(): while the bot trusts its token, the server will honour
\* it for longer than the bot trusts it, by the time a request may take.
TokenMargin == expiresIn > 0 => validFor >= expiresIn + Delay

IInv == TypeOK /\ HeartbeatHasSession /\ RunningHasSession /\ TokenMargin /\ TokenOutlivesRequest

USE DEF Sessions, null, SocketState, Idle

-----------------------------------------------------------------------------

\* Left cuts a time off at zero.
LEMMA LeftIsNat ==
  ASSUME NEW t \in Int
  PROVE  Left(t) \in Nat /\ Left(t) >= t /\ (t > 0 => Left(t) = t) /\ (Left(t) > 0 => Left(t) = t)
BY DEF Left

\* The inductive invariant holds initially.
LEMMA InitInv == Init => IInv
<1> SUFFICES ASSUME Init PROVE IInv
  OBVIOUS
<1> USE DEF Init
<1>1. Delay \in Nat /\ Delay + 1 \in Nat /\ Delay + 1 > Delay
  BY QQTimesAssumption
<1>2. call \in [Callers -> [op : {"idle", "start", "post", "dial"},
                           age : 0..Delay, on : Sessions \cup {null}]]
  BY <1>1
<1>3. TypeOK
  BY <1>1, <1>2 DEF TypeOK
<1>. QED
  BY <1>1, <1>3 DEF IInv, HeartbeatHasSession, RunningHasSession, TokenMargin, TokenOutlivesRequest

\* Every step keeps the types.
LEMMA TypeStep == TypeOK /\ [Next]_vars => TypeOK'
<1> SUFFICES ASSUME TypeOK, [Next]_vars PROVE TypeOK'
  OBVIOUS
<1> USE DEF TypeOK, session, token, net
<1>1. ASSUME NEW c \in Callers, start(c) PROVE TypeOK'
  BY <1>1, QQTimesAssumption DEF start, Refresh
<1>2. ASSUME NEW c \in Callers, postMessage(c) PROVE TypeOK'
  BY <1>2, QQTimesAssumption DEF postMessage, Refresh, Send
<1>3. ASSUME NEW c \in Callers, RefreshFails(c) PROVE TypeOK'
  BY <1>3, QQTimesAssumption DEF RefreshFails
<1>4. ASSUME NEW c \in Callers, NEW life \in Lives, Refreshed(c, life) PROVE TypeOK'
  <2>1. /\ life \in Nat /\ call[c].age \in Nat
        /\ Margin \in Nat /\ Delay \in Nat
    BY QQTimesAssumption
  <2>1a. life - Margin \in Int /\ life - call[c].age \in Int
    BY <2>1
  <2>2. Left(life - Margin) \in Nat /\ Left(life - call[c].age) \in Nat
    BY <2>1a, LeftIsNat
  <2>3. accessToken' \in BOOLEAN /\ expiresIn' \in Nat /\ validFor' \in Nat /\ spare' \in Nat
    BY <1>4, <2>2 DEF Refreshed, StoreToken
  <2>4. ws' \in Sessions \cup {null} /\ conn' \in [Sessions -> SocketState]
    BY <1>4 DEF Refreshed
  <2>5. call' \in [Callers -> [op : {"idle", "start", "post", "dial"},
                               age : 0..Delay, on : Sessions \cup {null}]]
    <3>1. CASE call' = [call EXCEPT ![c] = Idle]
      BY <3>1, <2>1
    <3>2. ASSUME NEW s \in Sessions,
                 call' = [call EXCEPT ![c] = [op |-> "dial", age |-> 0, on |-> s]]
          PROVE  call' \in [Callers -> [op : {"idle", "start", "post", "dial"},
                                       age : 0..Delay, on : Sessions \cup {null}]]
      BY <3>2, <2>1
    <3>. QED
      BY <1>4, <3>1, <3>2 DEF Refreshed
  <2>. QED
    BY <1>4, <2>3, <2>4, <2>5 DEF Refreshed
<1>5. ASSUME NEW s \in Sessions, Opened(s) PROVE TypeOK'
  BY <1>5, QQTimesAssumption DEF Opened, DialOver
<1>6. ASSUME NEW s \in Sessions, Hello(s) PROVE TypeOK'
  BY <1>6 DEF Hello
<1>7. ASSUME NEW s \in Sessions, ReconnectAsked(s) PROVE TypeOK'
  BY <1>7 DEF ReconnectAsked, CloseWs
<1>8. ASSUME NEW s \in Sessions, Closed(s) PROVE TypeOK'
  <2>1. call' \in [Callers -> [op : {"idle", "start", "post", "dial"},
                               age : 0..Delay, on : Sessions \cup {null}]]
    BY <1>8, QQTimesAssumption DEF Closed, DialOver
  <2>2. conn' \in [Sessions -> SocketState]
    BY <1>8 DEF Closed
  <2>. QED
    BY <1>8, <2>1, <2>2 DEF Closed
<1>9. CASE stop
  BY <1>9 DEF stop, CloseWs
<1>10. CASE Tick
  <2>1. Left(expiresIn - 1) \in Nat /\ Left(validFor - 1) \in Nat
    BY LeftIsNat
  <2>2. call' \in [Callers -> [op : {"idle", "start", "post", "dial"},
                               age : 0..Delay, on : Sessions \cup {null}]]
    <3>1. ASSUME NEW c \in Callers, call[c].op \in {"start", "post"}
          PROVE  call[c].age + 1 \in 0..Delay
      <4>1. call[c].age < Delay /\ call[c].age \in 0..Delay /\ Delay \in Nat
        BY <1>10, <3>1, QQTimesAssumption DEF Tick
      <4> QED
        BY <4>1
    <3> QED
      BY <1>10, <3>1 DEF Tick
  <2>. QED
    BY <1>10, <2>1, <2>2 DEF Tick
<1>11. CASE UNCHANGED vars
  BY <1>11 DEF vars
<1>. QED
  BY <1>1, <1>2, <1>3, <1>4, <1>5, <1>6, <1>7, <1>8, <1>9, <1>10, <1>11 DEF Next

\* No step leaves a heartbeat, or a running bot, without a socket: every close
\* stops both, and the other steps keep a socket that is not closed that way.
LEMMA SessionStep ==
  TypeOK /\ HeartbeatHasSession /\ RunningHasSession /\ [Next]_vars
    => HeartbeatHasSession' /\ RunningHasSession'
<1> SUFFICES ASSUME TypeOK, HeartbeatHasSession, RunningHasSession, [Next]_vars
             PROVE  HeartbeatHasSession' /\ RunningHasSession'
  OBVIOUS
<1> USE DEF TypeOK, HeartbeatHasSession, RunningHasSession, session, token, net
<1>1. ASSUME NEW c \in Callers, start(c) \/ postMessage(c) \/ RefreshFails(c)
      PROVE  HeartbeatHasSession' /\ RunningHasSession'
  <2>1. UNCHANGED <<session, net>>
    BY <1>1 DEF start, postMessage, RefreshFails
  <2>. QED
    BY <2>1
<1>2. ASSUME NEW c \in Callers, NEW life \in Lives, Refreshed(c, life)
      PROVE  HeartbeatHasSession' /\ RunningHasSession'
  <2>1. \A s \in Sessions : conn[s] \in {"open", "closing"} => conn'[s] = conn[s]
    BY <1>2 DEF Refreshed
  <2>2. UNCHANGED <<running, heartbeatTimer, greeted>>
    BY <1>2 DEF Refreshed
  <2>. QED
    BY <2>1, <2>2
<1>3. ASSUME NEW s \in Sessions, Opened(s)
      PROVE  HeartbeatHasSession' /\ RunningHasSession'
  <2>1. conn'[s] = "open" /\ conn[s] = "connecting"
    BY <1>3 DEF Opened
  <2>2. \A r \in Sessions : conn[r] \in {"open", "closing"} => conn'[r] \in {"open", "closing"}
    BY <1>3 DEF Opened
  <2>3. RunningHasSession'
    BY <2>1
  <2>4. HeartbeatHasSession'
    BY <1>3, <2>2 DEF Opened
  <2>. QED
    BY <2>3, <2>4
<1>4. ASSUME NEW s \in Sessions, Hello(s)
      PROVE  HeartbeatHasSession' /\ RunningHasSession'
  BY <1>4 DEF Hello
<1>5. ASSUME NEW s \in Sessions, ReconnectAsked(s)
      PROVE  HeartbeatHasSession' /\ RunningHasSession'
  <2>1. \A r \in Sessions : conn[r] \in {"open", "closing"} => conn'[r] \in {"open", "closing"}
    BY <1>5 DEF ReconnectAsked, CloseWs
  <2>. QED
    BY <1>5, <2>1 DEF ReconnectAsked
<1>6. ASSUME NEW s \in Sessions, Closed(s)
      PROVE  HeartbeatHasSession' /\ RunningHasSession'
  BY <1>6 DEF Closed
<1>7. CASE stop
  BY <1>7 DEF stop
<1>8. CASE Tick
  BY <1>8 DEF Tick
<1>9. CASE UNCHANGED vars
  BY <1>9 DEF vars
<1>. QED
  BY <1>1, <1>2, <1>3, <1>4, <1>5, <1>6, <1>7, <1>8, <1>9 DEF Next

\* The token is given out of date only in Refreshed and by Tick; a request that
\* goes out takes it either just stored or still trusted.
LEMMA TokenStep ==
  TypeOK /\ TokenMargin /\ TokenOutlivesRequest /\ [Next]_vars
    => TokenMargin' /\ TokenOutlivesRequest'
<1> SUFFICES ASSUME TypeOK, TokenMargin, TokenOutlivesRequest, [Next]_vars
             PROVE  TokenMargin' /\ TokenOutlivesRequest'
  OBVIOUS
<1> USE DEF TypeOK, TokenMargin, TokenOutlivesRequest, session, token, net
<1>0. Delay \in Nat /\ Margin \in Nat /\ 2 * Delay <= Margin
  BY QQTimesAssumption
<1>1. ASSUME NEW c \in Callers, postMessage(c)
      PROVE  TokenMargin' /\ TokenOutlivesRequest'
  <2>1. CASE isTokenExpired
    BY <1>1, <2>1 DEF postMessage
  <2>2. CASE ~isTokenExpired
    <3>1. expiresIn > 0 /\ spare' = validFor
      BY <1>1, <2>2 DEF postMessage, Send, isTokenExpired
    <3>. QED
      BY <1>0, <1>1, <3>1 DEF postMessage
  <2>. QED
    BY <2>1, <2>2
<1>2. ASSUME NEW c \in Callers, NEW life \in Lives, Refreshed(c, life)
      PROVE  TokenMargin' /\ TokenOutlivesRequest'
  <2>1. /\ life \in Nat /\ 2 * Delay < life
        /\ call[c].age \in Nat /\ call[c].age <= Delay
    BY <1>0, QQTimesAssumption
  <2>2. /\ expiresIn' = Left(life - Margin)
        /\ validFor' = Left(life - call[c].age)
        /\ spare' = validFor'
    BY <1>2 DEF Refreshed, StoreToken
  <2>3. validFor' = life - call[c].age
    BY <2>1, <2>2, <1>0, LeftIsNat
  <2>4. expiresIn' > 0 => expiresIn' = life - Margin
    BY <2>1, <2>2, <1>0, LeftIsNat
  <2>. QED
    BY <1>0, <2>1, <2>2, <2>3, <2>4
<1>3. CASE Tick
  <2>1. Left(expiresIn - 1) > 0 => Left(expiresIn - 1) = expiresIn - 1
    BY LeftIsNat
  <2>2. Left(validFor - 1) >= validFor - 1
    BY LeftIsNat
  <2>3. expiresIn' = Left(expiresIn - 1) /\ validFor' = Left(validFor - 1) /\ spare' = spare
    BY <1>3 DEF Tick
  <2>4. Left(expiresIn - 1) \in Nat /\ Left(validFor - 1) \in Nat
    BY LeftIsNat
  <2>. QED
    BY <1>0, <2>1, <2>2, <2>3, <2>4
<1>4. ASSUME UNCHANGED <<token, spare>>
      PROVE  TokenMargin' /\ TokenOutlivesRequest'
  BY <1>4
<1>. QED
  BY <1>1, <1>2, <1>3, <1>4
     DEF Next, start, RefreshFails, Opened, Hello, ReconnectAsked, Closed, stop, vars

\* Every behaviour of the bot satisfies the invariant.
LEMMA Invariance == Spec => []IInv
<1>1. IInv /\ [Next]_vars => IInv'
  BY TypeStep, SessionStep, TokenStep DEF IInv
<1>. QED
  BY InitInv, <1>1, PTL DEF Spec

-----------------------------------------------------------------------------

\* The variables of the bot keep their types.
THEOREM TypeCorrect == Spec => []TypeOK
BY Invariance, PTL DEF IInv

\* qq.ts:203-207: no heartbeat outlives the sockets that greeted the bot.
THEOREM HeartbeatEnds == Spec => []HeartbeatHasSession
BY Invariance, PTL DEF IInv

\* qq.ts:203-206, 234: a bot that says it runs has a socket that is not closed.
THEOREM RunningIsBacked == Spec => []RunningHasSession
BY Invariance, PTL DEF IInv

\* qq.ts:293-303, 369-370: a margin of twice the request timeout is enough for
\* every token to outlive the request that carries it.
THEOREM TokenOutlives == Spec => []TokenOutlivesRequest
BY Invariance, PTL DEF IInv
=============================================================================
