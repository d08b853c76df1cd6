--------------------------- MODULE SocketBotProofs ---------------------------
(***************************************************************************)
(* Theorems about SocketBot, for any number of clients.  The invariant     *)
(* says where the connections can be: in the field or, once they lost it,  *)
(* among the orphans.  As long as calls have not crossed, at most one      *)
(* client is dialing, up or being stopped, and it is the one in the field. *)
(***************************************************************************)
EXTENDS SocketBot, TLAPS

\* A client is untouched until start() makes it.
FreshClients == \A c \in Clients : c > made => conn[c] = "none" /\ stopping[c] = 0

\* Only DingTalk keeps webhooks; only the others wait for a disconnect.
PlatformParts ==
    /\ platform # "dingtalk" => webhooks = {}
    /\ platform = "dingtalk" => \A c \in Clients : stopping[c] = 0

\* A client that is dialing is in the field of a bot that does not run yet.
DialingInField ==
    \A c \in Clients : conn[c] = "dialing" =>
        c = client /\ ~running /\ c \in listening /\ ~Stopping

\* So is one that is being stopped, by one call only.
StoppingInField ==
    \A c \in Clients : stopping[c] > 0 =>
        c = client /\ ~running /\ stopping[c] = 1

Uncrossed == ~Broken => DialingInField /\ StoppingInField

\* Whatever crosses, a client that can become or stay connected is in the field
\* or has lost it to another call.
NoneForgotten ==
    \A c \in Clients : conn[c] \in {"dialing", "up"} => c = client \/ c \in orphans

\* Of DingTalk's clients only the running one is up in the field, and a webhook
\* needs a connection that was up.
DingtalkParts ==
    /\ platform = "dingtalk" /\ client # 0 /\ conn[client] = "up" => running
    /\ \A c \in webhooks : conn[c] \notin {"none", "dialing"}

IInv ==
    /\ TypeOK
    /\ FreshClients
    /\ PlatformParts
    /\ Uncrossed
    /\ NoneForgotten
    /\ DingtalkParts
    /\ RunningHoldsConnection
    /\ AckedOnItsSocket
    /\ WebhooksDieWithStop

LEMMA InitInv == Init => IInv
<1> SUFFICES ASSUME Init PROVE IInv
  OBVIOUS
<1> USE BotAssumption DEF Init
<1>1. TypeOK
  <2>1. ack \in [from : 0 .. made, via : 0 .. made, handled : BOOLEAN]
    OBVIOUS
  <2>2. /\ conn \in [Clients -> {"none", "dialing", "up", "closing", "down"}]
        /\ stopping \in [Clients -> 0 .. MaxStops]
    OBVIOUS
  <2>3. platform \in {"slack", "feishu", "dingtalk"} /\ running \in BOOLEAN
        /\ late \subseteq 1 .. made /\ orphans \subseteq 1 .. made
    OBVIOUS
  <2>4. made \in 0 .. MaxClients /\ client \in 0 .. made /\ unsubscribe \in 0 .. made
    OBVIOUS
  <2>5. /\ listening \subseteq 1 .. made /\ webhooks \subseteq 1 .. made
        /\ mishaps \subseteq {"startInStart", "startInStop", "stopInStart",
                              "closeFailed"}
    OBVIOUS
  <2> QED
    BY <2>1, <2>2, <2>3, <2>4, <2>5 DEF TypeOK
<1>2. FreshClients /\ PlatformParts
  BY DEF FreshClients, PlatformParts, Clients
<1>3. Uncrossed /\ RunningHoldsConnection
  BY DEF Uncrossed, DialingInField, StoppingInField, RunningHoldsConnection,
         Clients
<1>4. AckedOnItsSocket /\ WebhooksDieWithStop
  BY DEF AckedOnItsSocket, WebhooksDieWithStop
<1>5. NoneForgotten /\ DingtalkParts
  BY DEF NoneForgotten, DingtalkParts
<1> QED
  BY <1>1, <1>2, <1>3, <1>4, <1>5 DEF IInv

LEMMA TypeStep == TypeOK /\ FreshClients /\ [Next]_vars => TypeOK'
<1> SUFFICES ASSUME TypeOK, FreshClients, [Next]_vars PROVE TypeOK'
  OBVIOUS
<1> USE BotAssumption DEF TypeOK, Clients, history
<1>0. ASSUME Dial, unsubscribe' \in 0 .. made + 1 PROVE TypeOK'
  <2>1. made' \in 0 .. MaxClients /\ client' = made + 1 /\ made' = made + 1
    BY <1>0 DEF Dial
  <2>2. conn' \in [Clients -> {"none", "dialing", "up", "closing", "down"}]
    BY <1>0 DEF Dial
  <2>3. orphans' \subseteq 1 .. made' /\ listening' \subseteq 1 .. made'
    BY <1>0 DEF Dial
  <2>4. mishaps' \subseteq {"startInStart", "startInStop", "stopInStart",
                            "closeFailed"}
    BY <1>0 DEF Dial
  <2>5. ack' \in [from : 0 .. made', via : 0 .. made', handled : BOOLEAN]
    BY <1>0 DEF Dial
  <2> QED
    BY <1>0, <2>1, <2>2, <2>3, <2>4, <2>5 DEF Dial
<1>1. CASE SlackStart
  <2>1. Dial /\ unsubscribe' = unsubscribe
    BY <1>1 DEF SlackStart
  <2>2. unsubscribe' \in 0 .. made + 1
    BY <2>1
  <2> QED
    BY <1>0, <2>1, <2>2
<1>2. CASE FeishuStart
  <2>1. Dial /\ unsubscribe' = made + 1
    BY <1>2 DEF FeishuStart
  <2>2. unsubscribe' \in 0 .. made + 1
    BY <2>1
  <2> QED
    BY <1>0, <2>1, <2>2
<1>3. CASE DingtalkStart
  <2>1. Dial /\ unsubscribe' = unsubscribe
    BY <1>3 DEF DingtalkStart
  <2>2. unsubscribe' \in 0 .. made + 1
    BY <2>1
  <2> QED
    BY <1>0, <2>1, <2>2
<1>4. CASE SlackStop
  <2>1. stopping' \in [Clients -> 0 .. MaxStops]
    BY <1>4 DEF SlackStop, AwaitDisconnect
  <2>2. mishaps' \subseteq {"startInStart", "startInStop", "stopInStart",
                            "closeFailed"}
    BY <1>4 DEF SlackStop, StopMishap
  <2> QED
    BY <1>4, <2>1, <2>2 DEF SlackStop
<1>5. CASE FeishuStop
  <2>1. stopping' \in [Clients -> 0 .. MaxStops]
    BY <1>5 DEF FeishuStop, AwaitDisconnect
  <2>2. mishaps' \subseteq {"startInStart", "startInStop", "stopInStart",
                            "closeFailed"}
    BY <1>5 DEF FeishuStop, StopMishap
  <2>3. listening' \subseteq 1 .. made' /\ unsubscribe' \in 0 .. made'
    BY <1>5 DEF FeishuStop
  <2> QED
    BY <1>5, <2>1, <2>2, <2>3 DEF FeishuStop
<1>6. CASE DingtalkStop
  <2>1. conn' \in [Clients -> {"none", "dialing", "up", "closing", "down"}]
    BY <1>6 DEF DingtalkStop, CloseClient
  <2>4. orphans' \subseteq 1 .. made
    <3>1. \A c \in Clients : conn[c] = "dialing" => c \in 1 .. made
      BY DEF FreshClients
    <3>2. \/ orphans' = orphans \cup {c \in Clients : c = client /\ conn[c] = "dialing"}
          \/ client # 0 /\ orphans' = orphans \cup {client}
      BY <1>6 DEF DingtalkStop, CloseClient
    <3>3. orphans \subseteq 1 .. made /\ (client # 0 => client \in 1 .. made)
      OBVIOUS
    <3> HIDE DEF TypeOK, history
    <3> QED
      BY <3>1, <3>2, <3>3
  <2>2. mishaps' \subseteq {"startInStart", "startInStop", "stopInStart",
                            "closeFailed"}
    <3>1. \/ mishaps' = mishaps \cup (IF Starting THEN {"stopInStart"} ELSE {})
          \/ mishaps' = mishaps \cup {"closeFailed"}
                                \cup (IF Starting THEN {"stopInStart"} ELSE {})
      BY <1>6 DEF DingtalkStop, CloseClient, StopMishap
    <3>2. /\ mishaps \subseteq {"startInStart", "startInStop", "stopInStart",
                                 "closeFailed"}
          /\ (IF Starting THEN {"stopInStart"} ELSE {}) \subseteq {"stopInStart"}
      OBVIOUS
    <3> QED
      BY <3>1, <3>2
  <2>3. client' \in 0 .. made' /\ webhooks' \subseteq 1 .. made'
    BY <1>6 DEF DingtalkStop
  <2> QED
    BY <1>6, <2>1, <2>2, <2>3, <2>4 DEF DingtalkStop
<1>7. CASE StopIgnored
  BY <1>7 DEF StopIgnored, StopMishap
<1>8. ASSUME NEW c \in Clients, Connected(c) PROVE TypeOK'
  <2>1. conn' \in [Clients -> {"none", "dialing", "up", "closing", "down"}]
    BY <1>8 DEF Connected
  <2> QED
    BY <1>8, <2>1 DEF Connected
<1>9. ASSUME NEW c \in Clients, ConnectFails(c) PROVE TypeOK'
  <2>1. /\ conn' \in [Clients -> {"none", "dialing", "up", "closing", "down"}]
        /\ client' \in 0 .. made' /\ unsubscribe' \in 0 .. made'
        /\ orphans' \subseteq 1 .. made'
    BY <1>9 DEF ConnectFails
  <2> QED
    BY <1>9, <2>1 DEF ConnectFails
<1>10. ASSUME NEW c \in Clients, Disconnected(c) PROVE TypeOK'
  <2>1. conn' \in [Clients -> {"none", "dialing", "up", "closing", "down"}]
    BY <1>10 DEF Disconnected
  <2>4. stopping' \in [Clients -> 0 .. MaxStops]
    BY <1>10 DEF Disconnected
  <2>2. mishaps' \subseteq {"startInStart", "startInStop", "stopInStart",
                            "closeFailed"}
    BY <1>10 DEF Disconnected
  <2>3. orphans' \subseteq 1 .. made
    <3>1. c \in 1 .. made
      BY <1>10 DEF Disconnected, FreshClients
    <3>2. orphans' \subseteq orphans \cup ({client} \ {0}) \cup {c}
      BY <1>10 DEF Disconnected
    <3> QED
      BY <3>1, <3>2
  <2> QED
    BY <1>10, <2>1, <2>2, <2>3, <2>4 DEF Disconnected
<1>11. ASSUME NEW c \in Clients, Closed(c) PROVE TypeOK'
  BY <1>11 DEF Closed
<1>12. ASSUME NEW c \in Clients, SlackMessage(c) PROVE TypeOK'
  <2>1. c \in 1 .. made
    BY <1>12 DEF SlackMessage, FreshClients
  <2>2. ack' \in [from : 0 .. made, via : 0 .. made, handled : BOOLEAN]
    <3>1. \/ ack' = [from |-> c, via |-> 0, handled |-> FALSE]
          \/ ack' = [from |-> c, via |-> client, handled |-> TRUE]
      BY <1>12 DEF SlackMessage
    <3>2. c \in 0 .. made /\ 0 \in 0 .. made /\ client \in 0 .. made
      BY <2>1
    <3> HIDE DEF TypeOK
    <3>3. /\ [from |-> c, via |-> 0, handled |-> FALSE]
                \in [from : 0 .. made, via : 0 .. made, handled : BOOLEAN]
          /\ [from |-> c, via |-> client, handled |-> TRUE]
                \in [from : 0 .. made, via : 0 .. made, handled : BOOLEAN]
      BY <3>2
    <3> QED
      BY <3>1, <3>3, Zenon
  <2> QED
    BY <1>12, <2>2 DEF SlackMessage
<1>13. ASSUME NEW c \in Clients, DingtalkMessage(c) PROVE TypeOK'
  <2>1. c \in 1 .. made
    BY <1>13 DEF DingtalkMessage, FreshClients
  <2> QED
    BY <1>13, <2>1 DEF DingtalkMessage
<1>14. CASE UNCHANGED vars
  BY <1>14 DEF vars
<1> QED
  BY <1>1, <1>2, <1>3, <1>4, <1>5, <1>6, <1>7, <1>8, <1>9, <1>10, <1>11,
     <1>12, <1>13, <1>14 DEF Next

LEMMA PartsStep ==
  TypeOK /\ FreshClients /\ PlatformParts /\ [Next]_vars
    => FreshClients' /\ PlatformParts'
<1> SUFFICES ASSUME TypeOK, FreshClients, PlatformParts, [Next]_vars
             PROVE  FreshClients' /\ PlatformParts'
  OBVIOUS
<1> USE BotAssumption DEF TypeOK, FreshClients, PlatformParts, Clients, history
<1>1. CASE SlackStart \/ FeishuStart \/ DingtalkStart
  <2>1. Dial
    BY <1>1 DEF SlackStart, FeishuStart, DingtalkStart
  <2>2. FreshClients'
    BY <2>1 DEF Dial
  <2>3. PlatformParts'
    BY <2>1 DEF Dial
  <2> QED
    BY <2>2, <2>3
<1>2. CASE SlackStop
  BY <1>2 DEF SlackStop, AwaitDisconnect
<1>3. CASE FeishuStop
  BY <1>3 DEF FeishuStop, AwaitDisconnect
<1>4. CASE DingtalkStop
  BY <1>4 DEF DingtalkStop, CloseClient
<1>5. CASE StopIgnored
  BY <1>5 DEF StopIgnored
<1>6. ASSUME NEW c \in Clients, Connected(c) \/ ConnectFails(c) \/ Closed(c)
      PROVE  FreshClients' /\ PlatformParts'
  <2>1. /\ conn[c] # "none"
        /\ UNCHANGED <<platform, made, stopping, webhooks>>
        /\ \A d \in Clients : d # c => conn'[d] = conn[d]
    BY <1>6 DEF Connected, ConnectFails, Closed
  <2>2. ~(c > made)
    BY <2>1
  <2> QED
    BY <2>1, <2>2
<1>7. ASSUME NEW c \in Clients, Disconnected(c)
      PROVE  FreshClients' /\ PlatformParts'
  <2>1. /\ stopping[c] > 0 /\ platform' = platform /\ made' = made
        /\ webhooks' = webhooks
        /\ \A d \in Clients : d # c => stopping'[d] = stopping[d] /\ conn'[d] = conn[d]
    BY <1>7 DEF Disconnected
  <2>2. platform # "dingtalk" /\ ~(c > made)
    BY <2>1
  <2> QED
    BY <2>1, <2>2
<1>8. ASSUME NEW c \in Clients, SlackMessage(c) \/ DingtalkMessage(c)
      PROVE  FreshClients' /\ PlatformParts'
  <2>1. CASE SlackMessage(c)
    BY <2>1 DEF SlackMessage
  <2>2. CASE DingtalkMessage(c)
    BY <2>2 DEF DingtalkMessage
  <2> QED
    BY <1>8, <2>1, <2>2
<1>9. CASE UNCHANGED vars
  BY <1>9 DEF vars
<1> QED
  BY <1>1, <1>2, <1>3, <1>4, <1>5, <1>6, <1>7, <1>8, <1>9 DEF Next

\* A mishap is never forgotten.
LEMMA MishapsGrow == [Next]_vars => mishaps \subseteq mishaps'
<1> SUFFICES ASSUME [Next]_vars PROVE mishaps \subseteq mishaps'
  OBVIOUS
<1> USE DEF history
<1>1. CASE SlackStart \/ FeishuStart \/ DingtalkStart
  BY <1>1 DEF SlackStart, FeishuStart, DingtalkStart, Dial
<1>2. CASE SlackStop \/ FeishuStop \/ DingtalkStop \/ StopIgnored
  BY <1>2 DEF SlackStop, FeishuStop, DingtalkStop, CloseClient, StopIgnored, StopMishap
<1>3. ASSUME NEW c \in Clients,
             Connected(c) \/ ConnectFails(c) \/ Disconnected(c) \/ Closed(c)
               \/ SlackMessage(c) \/ DingtalkMessage(c)
      PROVE  mishaps \subseteq mishaps'
  BY <1>3 DEF Connected, ConnectFails, Disconnected, Closed, SlackMessage,
              DingtalkMessage
<1>4. CASE UNCHANGED vars
  BY <1>4 DEF vars
<1> QED
  BY <1>1, <1>2, <1>3, <1>4 DEF Next

\* As long as no calls cross, each step keeps the bond of bot and client.
LEMMA BondStep ==
  IInv /\ [Next]_vars => Uncrossed' /\ RunningHoldsConnection'
<1> SUFFICES ASSUME IInv, [Next]_vars, ~Broken'
             PROVE  DialingInField' /\ StoppingInField' /\ RunningHoldsConnection'
  BY DEF Uncrossed, RunningHoldsConnection
<1>0. ~Broken
  BY MishapsGrow DEF Broken
<1> DEFINE Up == \A c \in Clients :
                    conn[c] = "up" => c = client /\ (running \/ stopping[c] > 0)
           Held == running => /\ client # 0
                              /\ conn[client] = "up"
                              /\ client \in listening
           Goal == DialingInField' /\ StoppingInField' /\ Up' /\ Held'
<1>1. TypeOK /\ FreshClients /\ PlatformParts /\ DialingInField
      /\ StoppingInField /\ Up /\ Held
  BY <1>0 DEF IInv, Uncrossed, RunningHoldsConnection
<1>2. SUFFICES Goal
  BY <1>1 DEF RunningHoldsConnection, SlackCanPost, FeishuCanPost,
              DingtalkCanPost
<1> HIDE DEF Goal
<1> USE BotAssumption, <1>1 DEF Clients, DialingInField, StoppingInField
<1>3. ASSUME Dial PROVE Goal
  <2>1. ~Starting /\ ~Stopping
    BY <1>3 DEF Dial, Broken
  <2>2. made + 1 \in Clients /\ \A c \in Clients : stopping[c] = 0
    BY <1>3, <2>1 DEF Dial, Stopping, TypeOK
  <2>3. \A c \in Clients : conn[c] # "dialing" /\ conn[c] # "up"
    BY <1>3, <2>1, <2>2 DEF Dial, CanStart, Starting, TypeOK
  <2>4. /\ \A c \in Clients : conn'[c] = IF c = made + 1 THEN "dialing" ELSE conn[c]
        /\ stopping' = stopping /\ client' = made + 1 /\ ~running' /\ made + 1 \in listening'
    BY <1>3, <2>2 DEF Dial, CanStart, TypeOK
  <2> QED
    BY <2>2, <2>3, <2>4 DEF Goal, Stopping
<1>4. CASE SlackStart \/ FeishuStart \/ DingtalkStart
  BY <1>3, <1>4 DEF SlackStart, FeishuStart, DingtalkStart
<1>5. CASE SlackStop \/ FeishuStop
  <2>1. /\ running /\ ~running' /\ client' = client /\ client # 0 /\ conn' = conn
        /\ stopping' = [stopping EXCEPT ![client] = @ + 1]
    BY <1>5 DEF SlackStop, FeishuStop, AwaitDisconnect
  <2>2. client \in Clients /\ \A c \in Clients : stopping[c] = 0 /\ conn[c] # "dialing"
    BY <2>1 DEF TypeOK
  <2>3. \A c \in Clients : stopping'[c] = IF c = client THEN 1 ELSE 0
    BY <2>1, <2>2 DEF TypeOK
  <2> QED
    BY <2>1, <2>2, <2>3 DEF Goal
<1>6. CASE DingtalkStop
  <2>1. /\ running /\ ~running' /\ client' = 0 /\ stopping' = stopping
        /\ \A c \in Clients : conn'[c] = IF c = client /\ conn[c] = "up"
                                         THEN "closing" ELSE conn[c]
    BY <1>6 DEF DingtalkStop, CloseClient, Broken, TypeOK
  <2>2. \A c \in Clients : stopping[c] = 0 /\ conn[c] # "dialing"
    BY <2>1 DEF TypeOK
  <2> QED
    BY <2>1, <2>2 DEF Goal
<1>7. ASSUME NEW d \in Clients, Connected(d) PROVE Goal
  <2>1. /\ conn[d] = "dialing" /\ d = client /\ running' /\ stopping' = stopping
        /\ d \in listening /\ listening' = listening /\ client' = client
        /\ \A c \in Clients : conn'[c] = IF c = d THEN "up" ELSE conn[c]
    BY <1>7 DEF Connected, TypeOK
  <2>2. \A c \in Clients : stopping[c] = 0
    BY <2>1 DEF Stopping, TypeOK
  <2> QED
    BY <2>1, <2>2 DEF Goal, TypeOK
<1>8. ASSUME NEW d \in Clients, ConnectFails(d) PROVE Goal
  <2>1. /\ conn[d] = "dialing" /\ d = client /\ ~running' /\ stopping' = stopping
        /\ \A c \in Clients : conn'[c] = IF c = d THEN "down" ELSE conn[c]
    BY <1>8 DEF ConnectFails, TypeOK
  <2>2. \A c \in Clients : stopping[c] = 0
    BY <2>1 DEF Stopping, TypeOK
  <2>3. \A c \in Clients : conn'[c] # "dialing" /\ conn'[c] # "up"
    BY <2>1, <2>2
  <2> QED
    BY <2>1, <2>2, <2>3 DEF Goal
<1>9. ASSUME NEW d \in Clients, Disconnected(d) PROVE Goal
  <2>1. d = client /\ ~running /\ stopping[d] = 1 /\ ~running' /\ client' = 0
    BY <1>9 DEF Disconnected, TypeOK
  <2>2. conn' = [conn EXCEPT ![d] = IF @ = "up" THEN "down" ELSE @]
    BY <1>9 DEF Disconnected, Broken
  <2>3. \A c \in Clients : conn'[c] # "dialing" /\ conn'[c] # "up"
    BY <2>1, <2>2 DEF Stopping, TypeOK
  <2>4. \A c \in Clients : stopping'[c] = 0
    BY <1>9, <2>1 DEF Disconnected, TypeOK
  <2> QED
    BY <2>1, <2>3, <2>4 DEF Goal
<1>10. ASSUME NEW d \in Clients, Closed(d) PROVE Goal
  BY <1>10 DEF Closed, Goal, Stopping, TypeOK
<1>11. CASE \/ StopIgnored
            \/ \E c \in Clients : SlackMessage(c) \/ DingtalkMessage(c)
            \/ UNCHANGED vars
  BY <1>11 DEF StopIgnored, SlackMessage, DingtalkMessage, vars, Goal, Stopping
<1> QED
  BY <1>4, <1>5, <1>6, <1>7, <1>8, <1>9, <1>10, <1>11 DEF Next

\* A client that loses the field is closed, or it becomes an orphan.
LEMMA FieldStep ==
  IInv /\ [Next]_vars => NoneForgotten' /\ orphans \subseteq orphans'
<1> SUFFICES ASSUME IInv, [Next]_vars
             PROVE  NoneForgotten' /\ orphans \subseteq orphans'
  OBVIOUS
<1>1. TypeOK /\ NoneForgotten
  BY DEF IInv
<1> USE <1>1 DEF NoneForgotten, Clients, history
<1>2. CASE SlackStart \/ FeishuStart \/ DingtalkStart
  <2>1. /\ \A c \in Clients : c # made + 1 => conn'[c] = conn[c]
        /\ client' = made + 1 /\ orphans' = orphans \cup ({client} \ {0})
    BY <1>2 DEF SlackStart, FeishuStart, DingtalkStart, Dial, TypeOK
  <2> QED
    BY <2>1
<1>3. CASE SlackStop \/ FeishuStop \/ StopIgnored
  BY <1>3 DEF SlackStop, FeishuStop, StopIgnored
<1>4. CASE DingtalkStop
  <2>1. CASE /\ conn' = [c \in Clients |-> IF c = client /\ conn[c] = "up"
                                           THEN "closing" ELSE conn[c]]
             /\ orphans' = orphans \cup
                              {c \in Clients : c = client /\ conn[c] = "dialing"}
    BY <2>1
  <2>2. CASE conn' = conn /\ orphans' = orphans \cup {client}
    BY <2>2
  <2> QED
    BY <1>4, <2>1, <2>2 DEF DingtalkStop, CloseClient
<1>5. ASSUME NEW d \in Clients, Connected(d) \/ Closed(d)
      PROVE  NoneForgotten' /\ orphans \subseteq orphans'
  <2>1. /\ \A c \in Clients : c # d => conn'[c] = conn[c]
        /\ conn'[d] = "down" \/ conn[d] = "dialing"
        /\ client' = client /\ orphans' = orphans
    BY <1>5 DEF Connected, Closed, TypeOK
  <2> QED
    BY <2>1
<1>6. ASSUME NEW d \in Clients, ConnectFails(d)
      PROVE  NoneForgotten' /\ orphans \subseteq orphans'
  <2>1. /\ \A c \in Clients : conn'[c] = IF c = d THEN "down" ELSE conn[c]
        /\ \/ client' = client /\ orphans' = orphans
           \/ client' = 0 /\ orphans' = orphans \cup ({client} \ {0, d})
    BY <1>6 DEF ConnectFails, TypeOK
  <2> QED
    BY <2>1
<1>7. ASSUME NEW d \in Clients, Disconnected(d)
      PROVE  NoneForgotten' /\ orphans \subseteq orphans'
  <2>1. CASE /\ conn' = [conn EXCEPT ![d] = IF @ = "up" THEN "down" ELSE @]
             /\ orphans' = orphans \cup ({client} \ {0, d})
                                   \cup (IF conn[d] = "dialing" THEN {d} ELSE {})
    <3>1. \A c \in Clients : conn'[c] = IF c = d /\ conn[d] = "up"
                                        THEN "down" ELSE conn[c]
      BY <2>1 DEF TypeOK
    <3> QED
      BY <2>1, <3>1
  <2>2. CASE conn' = conn /\ orphans' = orphans \cup ({client} \ {0}) \cup {d}
    BY <2>2
  <2> QED
    BY <1>7, <2>1, <2>2 DEF Disconnected
<1>8. ASSUME NEW d \in Clients, SlackMessage(d) \/ DingtalkMessage(d)
      PROVE  NoneForgotten' /\ orphans \subseteq orphans'
  BY <1>8 DEF SlackMessage, DingtalkMessage
<1>9. CASE UNCHANGED vars
  BY <1>9 DEF vars
<1> QED
  BY <1>2, <1>3, <1>4, <1>5, <1>6, <1>7, <1>8, <1>9 DEF Next

\* The listener acknowledges through the field: it holds the client of the
\* event, unless that one is an orphan.
LEMMA AckStep == IInv /\ [Next]_vars => AckedOnItsSocket'
<1> SUFFICES ASSUME IInv, [Next]_vars PROVE AckedOnItsSocket'
  OBVIOUS
<1>1. /\ orphans \subseteq orphans' /\ NoneForgotten
      /\ ack.handled => ack.via = ack.from \/ ack.from \in orphans
  BY FieldStep DEF IInv, AckedOnItsSocket
<1>2. CASE ack' = ack
  BY <1>1, <1>2 DEF AckedOnItsSocket
<1>3. ASSUME NEW c \in Clients, SlackMessage(c)
      PROVE  AckedOnItsSocket'
  <2>1. c = client \/ c \in orphans'
    BY <1>1, <1>3 DEF SlackMessage, NoneForgotten
  <2>2. CASE ack' = [from |-> c, via |-> 0, handled |-> FALSE]
    BY <2>2 DEF AckedOnItsSocket
  <2>3. CASE ack' = [from |-> c, via |-> client, handled |-> TRUE]
    BY <2>1, <2>3 DEF AckedOnItsSocket
  <2> QED
    BY <1>3, <2>2, <2>3 DEF SlackMessage
<1>4. \/ ack' = ack
      \/ \E c \in Clients : SlackMessage(c)
  BY DEF Next, vars, SlackStart, FeishuStart, DingtalkStart, Dial, SlackStop,
         FeishuStop, DingtalkStop, StopIgnored, Connected, ConnectFails,
         Disconnected, Closed, DingtalkMessage
<1> QED
  BY <1>2, <1>3, <1>4

\* A webhook comes through the client of the run, a closing one or an orphan.
LEMMA WebhookStep == IInv /\ [Next]_vars => WebhooksDieWithStop' /\ DingtalkParts'
<1> SUFFICES ASSUME IInv, [Next]_vars PROVE WebhooksDieWithStop' /\ DingtalkParts'
  OBVIOUS
<1> DEFINE Goal == WebhooksDieWithStop' /\ DingtalkParts'
<1>1. /\ TypeOK /\ FreshClients /\ PlatformParts /\ NoneForgotten
      /\ DingtalkParts /\ WebhooksDieWithStop
      /\ orphans \subseteq orphans'
  BY FieldStep DEF IInv
<1> USE BotAssumption, <1>1 DEF TypeOK, Clients, WebhooksDieWithStop, history
<1>2. CASE SlackStart \/ FeishuStart \/ DingtalkStart
  <2>1. /\ made + 1 \in Clients /\ client' = made + 1 /\ ~running /\ ~running'
        /\ UNCHANGED <<platform, webhooks, late>>
        /\ \A c \in Clients : conn'[c] = IF c = made + 1 THEN "dialing" ELSE conn[c]
    BY <1>2 DEF SlackStart, FeishuStart, DingtalkStart, Dial, CanStart
  <2>2. DingtalkParts'
    BY <2>1 DEF DingtalkParts
  <2> QED
    BY <2>1, <2>2
<1>3. CASE platform # "dingtalk" /\ platform' = platform /\ webhooks' = webhooks
  BY <1>3 DEF PlatformParts, DingtalkParts
<1>4. CASE DingtalkStop
  BY <1>4 DEF DingtalkStop, DingtalkParts
<1>5. ASSUME NEW d \in Clients, Connected(d) \/ Closed(d)
      PROVE  Goal
  <2>1. /\ \A c \in Clients : c # d => conn'[c] = conn[c]
        /\ conn'[d] \in {"up", "down"}
        /\ (running' = running /\ conn'[d] = "down") \/ running'
        /\ UNCHANGED <<platform, client, webhooks, late>>
    BY <1>5 DEF Connected, Closed
  <2>2. DingtalkParts'
    BY <2>1 DEF DingtalkParts
  <2> QED
    BY <2>1, <2>2
<1>6. ASSUME NEW d \in Clients, ConnectFails(d), platform = "dingtalk"
      PROVE  Goal
  <2>1. /\ \A c \in Clients : conn'[c] = IF c = d THEN "down" ELSE conn[c]
        /\ ~running' /\ client' = 0 /\ conn[d] = "dialing"
        /\ orphans' = orphans \cup ({client} \ {0, d})
        /\ UNCHANGED <<platform, webhooks, late>>
    BY <1>6 DEF ConnectFails
  <2>2. d \notin webhooks
    BY <2>1 DEF DingtalkParts
  <2>3. webhooks' \subseteq late' \cup orphans'
    BY <2>1, <2>2
  <2>4. DingtalkParts'
    BY <2>1 DEF DingtalkParts
  <2> QED
    BY <2>1, <2>3, <2>4
<1>7. ASSUME NEW d \in Clients, DingtalkMessage(d)
      PROVE  Goal
  <2>1. /\ platform = "dingtalk" /\ conn[d] \in {"up", "closing"}
        /\ webhooks' = webhooks \cup {d}
        /\ late' = IF conn[d] = "closing" THEN late \cup {d} ELSE late
        /\ UNCHANGED <<platform, running, client, conn, orphans>>
    BY <1>7 DEF DingtalkMessage
  <2>2. d \in (IF running THEN {client} ELSE {}) \cup late' \cup orphans
    <3>1. CASE conn[d] = "closing"
      BY <2>1, <3>1
    <3>2. CASE conn[d] = "up"
      <4>1. d = client \/ d \in orphans
        BY <3>2 DEF NoneForgotten
      <4>2. d = client => running
        BY <2>1, <3>2 DEF DingtalkParts
      <4> QED
        BY <4>1, <4>2
    <3> QED
      BY <2>1, <3>1, <3>2
  <2>3. DingtalkParts'
    BY <2>1 DEF DingtalkParts
  <2> QED
    BY <2>1, <2>2, <2>3
<1>8. CASE StopIgnored \/ UNCHANGED vars
  BY <1>8 DEF StopIgnored, vars, DingtalkParts
<1>9. ASSUME NEW d \in Clients, Disconnected(d) PROVE platform # "dingtalk"
  BY <1>9 DEF Disconnected, PlatformParts
<1>10. \/ SlackStart \/ FeishuStart \/ DingtalkStart \/ DingtalkStop
       \/ platform # "dingtalk" /\ platform' = platform /\ webhooks' = webhooks
       \/ \E d \in Clients :
             \/ Connected(d) \/ Closed(d) \/ DingtalkMessage(d)
             \/ ConnectFails(d) /\ platform = "dingtalk"
       \/ StopIgnored \/ UNCHANGED vars
  BY <1>9 DEF Next, SlackStop, FeishuStop, ConnectFails, Disconnected, SlackMessage
<1> QED
  BY <1>2, <1>3, <1>4, <1>5, <1>6, <1>7, <1>8, <1>10

LEMMA Invariance == Spec => []IInv
<1>1. IInv /\ [Next]_vars => IInv'
  BY TypeStep, PartsStep, BondStep, FieldStep, AckStep, WebhookStep DEF IInv
<1> QED
  BY InitInv, <1>1, PTL DEF Spec

\* The variables of SocketBot keep their types.
THEOREM TypeCorrect == Spec => []TypeOK
BY Invariance, PTL DEF IInv

\* slack.ts:134-148, feishu.ts:126-147, dingtalk.ts:166-180: as long as no
\* calls cross, a running bot holds the one connection that is up.
THEOREM BotHoldsConnection == Spec => []RunningHoldsConnection
BY Invariance, PTL DEF IInv

\* slack.ts:88-109: however starts and stops cross, a message that is handed to
\* the handler is acknowledged on the socket it came from, unless its client
\* lost the field before it was closed.
THEOREM AcksOnItsSocket == Spec => []AckedOnItsSocket
BY Invariance, PTL DEF IInv

\* dingtalk.ts:100-101, 177-179: however starts and stops cross, a cached webhook
\* is the current run's, or came from a closing client or from one that lost the
\* field before it was closed.
THEOREM WebhooksEnd == Spec => []WebhooksDieWithStop
BY Invariance, PTL DEF IInv
=============================================================================
