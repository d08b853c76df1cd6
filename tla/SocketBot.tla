----------------------------- MODULE SocketBot -----------------------------
(***************************************************************************)
(* The bots that leave the connection to a platform library: SlackBot      *)
(* (SocketModeClient), FeishuBot (LarkChannel) and DingtalkBot (DWClient). *)
(* start() makes a new client, keeps it in a field and awaits its          *)
(* connection; stop() closes the client in the field and clears it.  Both  *)
(* are async and neither knows of the other: an application may call start *)
(* while an earlier start or stop is still awaited.  "mishaps" records     *)
(* which of that happened.                                                 *)
(***************************************************************************)
EXTENDS Naturals, FiniteSets

CONSTANTS
    MaxClients,     \* bound: clients made, one per start()
    MaxStops        \* bound: stops of one client that are awaited at once

ASSUME BotAssumption == MaxClients \in Nat /\ MaxStops \in Nat \ {0}

VARIABLES
    platform,   \* slack, feishu or dingtalk
    running,
    client,     \* this.socketClient and this.webClient, this.channel or
                \* this.client: the client in the field, 0 for null
    made,       \* clients made
    conn,       \* per client: none, dialing, up, closing or down
    unsubscribe,\* feishu: the client whose listener it removes, 0 for null
    listening,  \* clients with our message listener
    stopping,   \* per client: stop() calls that await its disconnect
    webhooks,   \* dingtalk: clients that brought a session webhook
    ack,        \* slack: client of the last event, client that acknowledged
                \* it, 0 for none, and whether our handler got it
    late,       \* clients that wrote while they were closing
    orphans,    \* clients that lost the field before they were closed
    mishaps     \* calls that overlapped, a disconnect that failed

history == <<late, orphans, mishaps>>
vars == <<platform, running, client, made, conn, unsubscribe, listening,
          stopping, webhooks, ack, history>>

Clients == 1 .. MaxClients
Starting == \E c \in Clients : conn[c] = "dialing"
Stopping == \E c \in Clients : stopping[c] > 0

Init ==
    /\ platform \in {"slack", "feishu", "dingtalk"}
    /\ running = FALSE
    /\ client = 0
    /\ made = 0
    /\ conn = [c \in Clients |-> "none"]
    /\ unsubscribe = 0
    /\ listening = {}
    /\ stopping = [c \in Clients |-> 0]
    /\ webhooks = {}
    /\ ack = [from |-> 0, via |-> 0, handled |-> FALSE]
    /\ late = {}
    /\ orphans = {}
    /\ mishaps = {}

----------------------------------------------------------------------------
\* start(): a running bot returns at once; else a client, its listener, and
\* the connection, which is awaited.
\* Fault: a bot that runs is started again.
CanStart_Always == TRUE
CanStart == ~running

Dial ==
    /\ CanStart
    /\ made < MaxClients
    /\ made' = made + 1
    /\ client' = made + 1
    /\ conn' = [conn EXCEPT ![made + 1] = "dialing"]
    /\ listening' = listening \cup {made + 1}
    /\ orphans' = orphans \cup ({client} \ {0})
    /\ mishaps' = mishaps \cup (IF Starting THEN {"startInStart"} ELSE {})
                          \cup (IF Stopping THEN {"startInStop"} ELSE {})
    /\ UNCHANGED <<platform, running, stopping, webhooks, ack, late>>

SlackStart == platform = "slack" /\ Dial /\ unsubscribe' = unsubscribe
FeishuStart == platform = "feishu" /\ Dial /\ unsubscribe' = made + 1
DingtalkStart == platform = "dingtalk" /\ Dial /\ unsubscribe' = unsubscribe

\* The connection is there: start() goes on behind its await.
Connected(c) ==
    /\ conn[c] = "dialing"
    /\ conn' = [conn EXCEPT ![c] = "up"]
    /\ running' = TRUE
    /\ UNCHANGED <<platform, client, made, unsubscribe, listening, stopping,
                   webhooks, ack, history>>

\* It is refused.  Slack and Feishu keep the client in its field, DingTalk
\* clears the field, whichever client is in it by now.
ConnectFails(c) ==
    /\ conn[c] = "dialing"
    /\ conn' = [conn EXCEPT ![c] = "down"]
    /\ running' = FALSE
    /\ client' = IF platform = "dingtalk" THEN 0 ELSE client
    /\ unsubscribe' = IF platform = "feishu" THEN 0 ELSE unsubscribe
    /\ orphans' = orphans \cup
                     (IF platform = "dingtalk" THEN {client} \ {0, c} ELSE {})
    /\ UNCHANGED <<platform, made, listening, stopping, webhooks, ack, late,
                   mishaps>>

----------------------------------------------------------------------------
\* stop() up to the await; a bot that does not run has nothing to stop.
\* Fault: the client is dropped without a disconnect.
AwaitDisconnect_Skipped == stopping' = stopping

AwaitDisconnect ==
    IF client = 0 THEN stopping' = stopping
    ELSE /\ stopping[client] < MaxStops
         /\ stopping' = [stopping EXCEPT ![client] = @ + 1]

StopMishap == mishaps' = mishaps \cup (IF Starting THEN {"stopInStart"} ELSE {})

\* Fault: the field is cleared before the disconnect is awaited.
SlackStop_ClearsFirst ==
    /\ platform = "slack"
    /\ running
    /\ running' = FALSE
    /\ AwaitDisconnect
    /\ client' = 0
    /\ StopMishap
    /\ UNCHANGED <<platform, made, conn, unsubscribe, listening, webhooks, ack,
                   late, orphans>>

SlackStop ==
    /\ platform = "slack"
    /\ running
    /\ running' = FALSE
    /\ AwaitDisconnect
    /\ StopMishap
    /\ UNCHANGED <<platform, client, made, conn, unsubscribe, listening,
                   webhooks, ack, late, orphans>>

FeishuStop ==
    /\ platform = "feishu"
    /\ running
    /\ running' = FALSE
    /\ listening' = listening \ {unsubscribe}
    /\ unsubscribe' = 0
    /\ AwaitDisconnect
    /\ StopMishap
    /\ UNCHANGED <<platform, client, made, conn, webhooks, ack, late, orphans>>

\* disconnect() of DWClient returns at once and stop() never waits: it closes
\* a connection that is up, or throws, which is logged.
CloseClient ==
    \/ /\ conn' = [c \in Clients |-> IF c = client /\ conn[c] = "up"
                                     THEN "closing" ELSE conn[c]]
       /\ orphans' = orphans \cup
                        {c \in Clients : c = client /\ conn[c] = "dialing"}
       /\ StopMishap
    \/ /\ client # 0
       /\ conn' = conn
       /\ orphans' = orphans \cup {client}
       /\ mishaps' = mishaps \cup {"closeFailed"}
                             \cup (IF Starting THEN {"stopInStart"} ELSE {})

\* Fault: stop() leaves the webhooks of the run in the cache.
DingtalkStop_KeepsWebhooks ==
    /\ platform = "dingtalk"
    /\ running
    /\ running' = FALSE
    /\ CloseClient
    /\ client' = 0
    /\ UNCHANGED <<platform, made, unsubscribe, listening, stopping, webhooks,
                   ack, late>>

DingtalkStop ==
    /\ platform = "dingtalk"
    /\ running
    /\ running' = FALSE
    /\ CloseClient
    /\ client' = 0
    /\ webhooks' = {}
    /\ UNCHANGED <<platform, made, unsubscribe, listening, stopping, ack, late>>

\* The same call on a bot that is not running yet does nothing.
StopIgnored ==
    /\ ~running
    /\ Starting
    /\ StopMishap
    /\ UNCHANGED <<platform, running, client, made, conn, unsubscribe,
                   listening, stopping, webhooks, ack, late, orphans>>

\* The disconnect settles, by error too, and stop() clears the field,
\* whichever client is in it by now.
Disconnected(c) ==
    /\ stopping[c] > 0
    /\ stopping' = [stopping EXCEPT ![c] = @ - 1]
    /\ client' = 0
    /\ \/ /\ conn' = [conn EXCEPT ![c] = IF @ = "up" THEN "down" ELSE @]
          /\ orphans' = orphans \cup ({client} \ {0, c})
                                \cup (IF conn[c] = "dialing" THEN {c} ELSE {})
          /\ mishaps' = mishaps
       \/ /\ conn' = conn
          /\ orphans' = orphans \cup ({client} \ {0}) \cup {c}
          /\ mishaps' = mishaps \cup {"closeFailed"}
    /\ UNCHANGED <<platform, running, made, unsubscribe, listening, webhooks,
                   ack, late>>

Closed(c) ==
    /\ conn[c] = "closing"
    /\ conn' = [conn EXCEPT ![c] = "down"]
    /\ UNCHANGED <<platform, running, client, made, unsubscribe, listening,
                   stopping, webhooks, ack, history>>

----------------------------------------------------------------------------
\* An event comes from client c; its listener speaks of this.  Slack leaves
\* at once when it is no message or a bot's own, before the acknowledgement;
\* else it acknowledges through the client in the field, if there is one, and
\* calls the handler.
SlackMessage(c) ==
    /\ platform = "slack"
    /\ conn[c] = "up"
    /\ \/ ack' = [from |-> c, via |-> 0, handled |-> FALSE]
       \/ ack' = [from |-> c, via |-> client, handled |-> TRUE]
    /\ UNCHANGED <<platform, running, client, made, conn, unsubscribe,
                   listening, stopping, webhooks, history>>

\* DingTalk keeps the session webhook of a message.
DingtalkMessage(c) ==
    /\ platform = "dingtalk"
    /\ conn[c] \in {"up", "closing"}
    /\ webhooks' = webhooks \cup {c}
    /\ late' = IF conn[c] = "closing" THEN late \cup {c} ELSE late
    /\ UNCHANGED <<platform, running, client, made, conn, unsubscribe,
                   listening, stopping, ack, orphans, mishaps>>

\* What postMessage and updateMessage need: the client, DingTalk a webhook too.
SlackCanPost == client # 0
FeishuCanPost == client # 0
DingtalkCanPost == client # 0 /\ webhooks # {}

Next ==
    \/ SlackStart \/ FeishuStart \/ DingtalkStart
    \/ SlackStop \/ FeishuStop \/ DingtalkStop \/ StopIgnored
    \/ \E c \in Clients :
          \/ Connected(c) \/ ConnectFails(c)
          \/ Disconnected(c) \/ Closed(c)
          \/ SlackMessage(c) \/ DingtalkMessage(c)

\* The libraries settle every connect and disconnect.
Fairness == \A c \in Clients :
    /\ WF_vars(Connected(c) \/ ConnectFails(c))
    /\ WF_vars(Disconnected(c))
    /\ WF_vars(Closed(c))

Spec == Init /\ [][Next]_vars /\ Fairness

----------------------------------------------------------------------------
\* The variables keep their types.
TypeOK ==
    /\ platform \in {"slack", "feishu", "dingtalk"}
    /\ running \in BOOLEAN
    /\ made \in 0 .. MaxClients
    /\ client \in 0 .. made
    /\ conn \in [Clients -> {"none", "dialing", "up", "closing", "down"}]
    /\ unsubscribe \in 0 .. made
    /\ listening \subseteq 1 .. made
    /\ stopping \in [Clients -> 0 .. MaxStops]
    /\ webhooks \subseteq 1 .. made
    /\ ack \in [from : 0 .. made, via : 0 .. made, handled : BOOLEAN]
    /\ late \subseteq 1 .. made
    /\ orphans \subseteq 1 .. made
    /\ mishaps \subseteq {"startInStart", "startInStop", "stopInStart",
                          "closeFailed"}

\* What breaks the bond of the bot and its connection: a start inside a start
\* or inside a stop, or a disconnect that failed.  A stop inside a start does
\* not, and DingTalk has no start inside a stop.
Broken == mishaps \cap {"startInStart", "startInStop", "closeFailed"} # {}

\* slack.ts:134-148, feishu.ts:126-147, dingtalk.ts:166-180: unless that
\* happened, a running bot holds a connection that is up and can
\* post (DingTalk: once it was written to), it listens on it, and no other
\* connection is up but the one a stop is closing.
RunningHoldsConnection ==
    ~Broken =>
        /\ running => /\ client # 0
                      /\ conn[client] = "up"
                      /\ client \in listening
                      /\ platform = "slack" => SlackCanPost
                      /\ platform = "feishu" => FeishuCanPost
                      /\ platform = "dingtalk" /\ webhooks # {} =>
                            DingtalkCanPost
        /\ \A c \in Clients :
              conn[c] = "up" => c = client /\ (running \/ stopping[c] > 0)

\* slack.ts:88-109: a message the handler gets is acknowledged, on the socket
\* it came from.  Only a client that lost the field before it was closed, to a
\* call that crossed or a disconnect that failed, has its messages acknowledged
\* on another socket or not at all.
AckedOnItsSocket ==
    ack.handled => ack.via = ack.from \/ ack.from \in orphans

\* dingtalk.ts:100-101, 177-179: a webhook is the current run's, or it came
\* from a client that wrote while it was closing or that lost the field before
\* it was closed: nothing else stays in the cache behind a stop.
WebhooksDieWithStop ==
    webhooks \subseteq (IF running THEN {client} ELSE {}) \cup late \cup orphans

\* stop() of the three bots closes the connection of the run: none stays up behind a stopped bot.
StopCloses == \A c \in Clients :
    (~running /\ conn[c] \in {"up", "closing"}) ~> (conn[c] = "down" \/ Broken)
=============================================================================
