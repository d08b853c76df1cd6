-------------------------------- MODULE QQBot --------------------------------
(****************************************************************************)
(* src/bot/qq/qq.ts: the gateway session and the access token of QQBot.     *)
(* start() refreshes the token and dials; every listener of a socket works  *)
(* on this.ws, this.heartbeatTimer and this.running, which may belong to a  *)
(* later socket by then.  start() and postMessage() may overlap, each with  *)
(* a token request of its own: nothing joins them.                          *)
(*                                                                          *)
(* The i-th socket dialled is session i.  Time is counted in units that     *)
(* divide the axios timeout, the margin and the life of a token.  Frames    *)
(* sent and handlers called are outputs; the events array is write-only.    *)
(****************************************************************************)
EXTENDS Integers, FiniteSets

CONSTANTS
  Callers,      \* callers of start(), postMessage() and updateMessage()
  MaxSessions,  \* bound: sockets dialled
  Lives,        \* values of expires_in, the default 7200 included
  Margin,       \* the 60 s kept in hand
  Delay         \* the 10 s timeout of a request

ASSUME QQCallersAssumption == IsFiniteSet(Callers)
ASSUME QQSessionsAssumption == MaxSessions \in Nat
\* A granted token outlives its request and the one it is granted for.
ASSUME QQTimesAssumption ==
  /\ Margin \in Nat /\ Delay \in Nat /\ 2 * Delay <= Margin
  /\ Lives \subseteq Nat /\ IsFiniteSet(Lives)
  /\ \A life \in Lives : 2 * Delay < life

Sessions == 1..MaxSessions
null == 0

VARIABLES
  running,         \* this.running
  ws,              \* this.ws: a session, or null
  heartbeatTimer,  \* is this.heartbeatTimer set?
  accessToken,     \* is this.accessToken set?
  expiresIn,       \* time until this.tokenExpiresAt, 0 once it is reached
  call,            \* [Callers -> the call in progress]
  conn,            \* [Sessions -> SocketState]
  greeted,         \* sessions that received hello
  validFor,        \* server: time until it refuses the token
  spare            \* history: validFor when a token was last put in a request

session == <<running, ws, heartbeatTimer>>
token == <<accessToken, expiresIn, validFor>>
net == <<conn, greeted>>
vars == <<session, token, call, net, spare>>

SocketState == {"none", "connecting", "aborted", "open", "closing", "closed"}
Idle == [op |-> "idle", age |-> 0, on |-> null]

Left(t) == IF t > 0 THEN t ELSE 0

Init ==
  /\ running = FALSE /\ ws = null /\ heartbeatTimer = FALSE
  /\ accessToken = FALSE /\ expiresIn = 0 /\ validFor = 0 /\ spare = Delay + 1
  /\ call = [c \in Callers |-> Idle]
  /\ conn = [s \in Sessions |-> "none"] /\ greeted = {}

-----------------------------------------------------------------------------
(* The access token. *)

isTokenExpired == expiresIn = 0

\* refreshAccessToken() sends its request, for a call of kind op.
Refresh(c, op) == call' = [call EXCEPT ![c] = [Idle EXCEPT !.op = op]]

start(c) ==
  /\ call[c] = Idle
  /\ ~running
  /\ Refresh(c, "start")
  /\ UNCHANGED <<session, token, net, spare>>

Send == spare' = validFor

\* postMessage(), updateMessage(): refused before the first token; with a live
\* one the request goes out, else the token is refreshed first.
postMessage(c) ==
  /\ call[c] = Idle
  /\ accessToken
  /\ IF isTokenExpired THEN Refresh(c, "post") /\ UNCHANGED spare
                       ELSE Send /\ UNCHANGED call
  /\ UNCHANGED <<session, token, net>>

StoreToken_NoMargin(c, life) ==
  /\ accessToken' = TRUE
  /\ expiresIn' = life
  /\ validFor' = Left(life - call[c].age)

\* The token is stored, its expiry counted from now; the server counts from the
\* moment it granted it, at worst when the request was sent.
StoreToken(c, life) ==
  /\ accessToken' = TRUE
  /\ expiresIn' = Left(life - Margin)
  /\ validFor' = Left(life - call[c].age)

\* A post goes out with the token just stored; a start dials with it, and
\* attaches the listeners to the new socket.
Refreshed(c, life) ==
  /\ StoreToken(c, life)
  /\ spare' = validFor'
  /\ \/ /\ call[c].op = "post"
        /\ call' = [call EXCEPT ![c] = Idle]
        /\ UNCHANGED <<ws, conn>>
     \/ /\ call[c].op = "start"
        /\ \E s \in Sessions :
             /\ conn[s] = "none" /\ \A r \in 1..(s - 1) : conn[r] # "none"
             /\ ws' = s
             /\ conn' = [conn EXCEPT ![s] = "connecting"]
             /\ call' = [call EXCEPT ![c] = [op |-> "dial", age |-> 0, on |-> s]]
  /\ UNCHANGED <<running, heartbeatTimer, greeted>>

\* The token request is refused, lost or timed out: the call rejects.
RefreshFails(c) ==
  /\ call[c].op \in {"start", "post"}
  /\ call' = [call EXCEPT ![c] = Idle]
  /\ UNCHANGED <<session, token, net, spare>>

\* Time passes; a token request that is out for Delay has settled by then.
Tick ==
  /\ \A c \in Callers : call[c].op \in {"start", "post"} => call[c].age < Delay
  /\ call' = [c \in Callers |->
       IF call[c].op \in {"start", "post"} THEN [call[c] EXCEPT !.age = @ + 1] ELSE call[c]]
  /\ expiresIn' = Left(expiresIn - 1)
  /\ validFor' = Left(validFor - 1)
  /\ UNCHANGED <<session, accessToken, net, spare>>

-----------------------------------------------------------------------------
(* The gateway session. *)

\* The dial that waits for s, if any, is over.
DialOver(s) == call' = [c \in Callers |-> IF call[c].on = s THEN Idle ELSE call[c]]

\* 'open': the start that dialled s sets running, even if this.ws is not s.
Opened(s) ==
  /\ conn[s] = "connecting"
  /\ conn' = [conn EXCEPT ![s] = "open"]
  /\ running' = TRUE
  /\ DialOver(s)
  /\ UNCHANGED <<ws, heartbeatTimer, token, greeted, spare>>

\* hello: identify, and the heartbeat is started anew.  identify sends the
\* token the bot holds by then, without a look at its expiry.
Hello(s) ==
  /\ conn[s] \in {"open", "closing"}
  /\ greeted' = greeted \cup {s}
  /\ heartbeatTimer' = TRUE
  /\ UNCHANGED <<running, ws, token, call, conn, spare>>

\* this.ws?.close(): a socket that is still connecting is aborted.
CloseWs ==
  conn' = [s \in Sessions |->
    IF s = ws /\ conn[s] = "connecting" THEN "aborted"
    ELSE IF s = ws /\ conn[s] = "open" THEN "closing"
    ELSE conn[s]]

\* reconnect, invalid session: whoever asks, this.ws is closed.
ReconnectAsked(s) ==
  /\ conn[s] \in {"open", "closing"}
  /\ CloseWs
  /\ UNCHANGED <<session, token, call, greeted, spare>>

Closed_KeepsRunning(s) ==
  /\ conn[s] \in {"connecting", "aborted", "open", "closing"}
  /\ conn' = [conn EXCEPT ![s] = "closed"]
  /\ heartbeatTimer' = FALSE
  /\ DialOver(s)
  /\ UNCHANGED <<running, ws, token, greeted, spare>>

Closed_OwnTimerOnly(s) ==
  /\ conn[s] \in {"connecting", "aborted", "open", "closing"}
  /\ conn' = [conn EXCEPT ![s] = "closed"]
  /\ running' = FALSE
  /\ heartbeatTimer' = (heartbeatTimer /\ s # ws)
  /\ DialOver(s)
  /\ UNCHANGED <<ws, token, greeted, spare>>

\* 'close', after an 'error' or not, of whatever session: the heartbeat stops
\* and the bot is no longer running.
Closed(s) ==
  /\ conn[s] \in {"connecting", "aborted", "open", "closing"}
  /\ conn' = [conn EXCEPT ![s] = "closed"]
  /\ running' = FALSE
  /\ heartbeatTimer' = FALSE
  /\ DialOver(s)
  /\ UNCHANGED <<ws, token, greeted, spare>>

stop ==
  /\ running
  /\ running' = FALSE
  /\ heartbeatTimer' = FALSE
  /\ CloseWs
  /\ ws' = null
  /\ UNCHANGED <<token, call, greeted, spare>>

Next ==
  \/ \E c \in Callers : start(c) \/ postMessage(c) \/ RefreshFails(c)
  \/ \E c \in Callers, life \in Lives : Refreshed(c, life)
  \/ \E s \in Sessions : Opened(s) \/ Hello(s) \/ ReconnectAsked(s) \/ Closed(s)
  \/ stop
  \/ Tick

Spec == Init /\ [][Next]_vars

-----------------------------------------------------------------------------
(* Properties. *)

\* The variables keep their types.
TypeOK ==
  /\ running \in BOOLEAN /\ heartbeatTimer \in BOOLEAN /\ accessToken \in BOOLEAN
  /\ ws \in Sessions \cup {null}
  /\ expiresIn \in Nat /\ validFor \in Nat /\ spare \in Nat
  /\ call \in [Callers -> [op : {"idle", "start", "post", "dial"},
                           age : 0..Delay, on : Sessions \cup {null}]]
  /\ conn \in [Sessions -> SocketState]
  /\ greeted \subseteq Sessions

\* qq.ts:203-207: a heartbeat beats for a socket that greeted the bot and is not
\* closed yet; however starts, stops and late events mix, no interval outlives
\* the sockets.
HeartbeatHasSession ==
  heartbeatTimer => \E s \in greeted : conn[s] \in {"open", "closing"}

\* qq.ts:203-206, 234: the bot says it runs only while some socket of its own
\* is not closed.
RunningHasSession ==
  running => \E s \in Sessions : conn[s] \in {"open", "closing"}

\* qq.ts:293-303, 369-370: with the margin, no request ever carries a token
\* that the server has stopped honouring by the time the request arrives, even
\* when token requests overlap and are answered in any order.  It speaks of the
\* REST requests: the identify at hello is not checked for expiry (381-393).
TokenOutlivesRequest == spare > Delay

\* qq.ts:154-160 "reply identify + start heartbeat loop": the socket the bot
\* holds has its heartbeat from hello until it starts to close.
GreetedHasHeartbeat ==
  ws # null /\ conn[ws] = "open" /\ ws \in greeted => heartbeatTimer
=============================================================================
