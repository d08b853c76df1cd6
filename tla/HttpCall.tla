------------------------------ MODULE HttpCall ------------------------------
(***************************************************************************)
(* One call of an SDK method over HTTP, from its arguments to the value or *)
(* the error its caller gets: MCPClient (mcp/client.ts, and the opening of *)
(* a stream in mcp/streaming.ts), UCPClient, WauClient and the services on *)
(* Transport.  They share the shape of a call: check the arguments, fetch, *)
(* look at the status, read the body, decide.                              *)
(*                                                                         *)
(* The server is the environment: it may refuse, stall before the headers  *)
(* or inside the body, and answer any status with any body.  A body is a   *)
(* class, what the clients tell apart.  It can be read once: a second      *)
(* json() or text() of one fetch response rejects (external).              *)
(***************************************************************************)
EXTENDS Naturals

CONSTANT
    MaxTries        \* calls a WauClient caller makes in all ("retry 2x": 3)

ASSUME HttpAssumption == MaxTries \in Nat \ {0}

VARIABLES
    method,     \* the method called: client and name
    step,       \* ready, fetch, json, text, get, stream or done
    answer,     \* status and body of the last answer
    used,       \* its body was read
    out,        \* what the caller has got
    tries,      \* how often the caller has made the call
    served,     \* the server carried out the request in hand
    applied,    \* how often the server carried out the call
    unheard     \* a request of the call was given up without an answer

httpVars == <<method, step, answer, used, out, tries, served, applied, unheard>>

----------------------------------------------------------------------------
\* The methods of each client, with what sets their handling apart.

MCPClient ==
    [healthCheck |-> "tool", parseAgentCard |-> "tool", sendMessage |-> "tool",
     getTask |-> "tool", listTasks |-> "tool", cancelTask |-> "tool",
     createTaskPushNotificationConfig |-> "tool",
     getExtendedAgentCard |-> "tool",
     streamMessage |-> "stream", subscribeToTask |-> "stream"]

UCPClient ==
    [listProducts |-> "tool", getProduct |-> "tool", searchProducts |-> "tool",
     addToCart |-> "tool", getCart |-> "tool", removeFromCart |-> "tool",
     createCheckoutSession |-> "checkout", confirmPayment |-> "checkout",
     getOrder |-> "tool", listOrders |-> "tool", cancelOrder |-> "tool"]

WauClient ==
    [registerAgent |-> "once", heartbeat |-> "empty",
     recommendWorkflow |-> "json", matchWauPattern |-> "stub"]

\* A service ignores the data ("void"), defaults a missing object
\* ("guarded"), reads its fields ("fields") or fields of those ("nested").
AgentsService ==
    [health |-> "guarded", list |-> "fields", get |-> "fields",
     score |-> "fields", register |-> "void", deregister |-> "void",
     heartbeat |-> "void", reportLoad |-> "void", iter |-> "fields"]
KernelService == [info |-> "fields", health |-> "fields"]
TasksService == [submit |-> "fields", simulate |-> "fields", get |-> "fields"]
HandshakeService ==
    [createSession |-> "fields", getSession |-> "fields", getStats |-> "fields"]
ChatService == [completions |-> "nested", stream |-> "lines"]

Services == [agents |-> AgentsService, kernel |-> KernelService,
             tasks |-> TasksService, handshake |-> HandshakeService,
             chat |-> ChatService]
Api == [mcp |-> MCPClient, ucp |-> UCPClient, wau |-> WauClient,
        agents |-> AgentsService, kernel |-> KernelService,
        tasks |-> TasksService, handshake |-> HandshakeService,
        chat |-> ChatService]

Methods == UNION {{<<c, m>> : m \in DOMAIN Api[c]} : c \in DOMAIN Api}
Kind == Api[method[1]][method[2]]
Client == method[1]
IsService == Client \in DOMAIN Services

\* Methods that throw on bad arguments before any request.
Checks ==
    \/ Client \in {"mcp", "chat"}
    \/ Client = "ucp" /\ method[2] # "listProducts"
    \/ method = <<"handshake", "getSession">>

----------------------------------------------------------------------------
\* Answers.  "cut": the connection is lost inside the body.  "noId" is a
\* result without stream_id; "nullError" has an error field that is null.

Statuses == {200, 204, 400, 401, 404, 501, 503}
Bodies == {"none", "cut", "garbage", "null", "scalar", "empty", "error",
           "internal", "nullError", "result", "nullResult", "noId"}
Answers == {a \in [status : Statuses, body : Bodies] :
              a.status = 204 => a.body = "none"}

IsJson(b) == b \notin {"none", "cut", "garbage"}
IsObject(b) == IsJson(b) /\ b \notin {"null", "scalar"}
HasError(b) == b \in {"error", "internal"}
HasResult(b) == b \in {"result", "nullResult", "noId"}
ErrorCode(b) == IF b = "internal" THEN "Internal" ELSE "server"

\* What a caller gets.  "raw" is an exception no client wraps (a TypeError
\* or SyntaxError of the runtime, an AxiosError); retryable is what
\* isWauRetryable says of it: true for all but a WauWorkflowError.
Nothing == [is |-> "nothing", code |-> "", retryable |-> FALSE]
Value == [is |-> "value", code |-> "", retryable |-> FALSE]
Err(class, code) == [is |-> class, code |-> code, retryable |-> TRUE]
Raw == Err("raw", "")
WauError(code, retryable) ==
    [is |-> "WauWorkflowError", code |-> code, retryable |-> retryable]
isWauRetryable(o) == o.retryable

Outcomes == [is : {"nothing", "value", "raw", "Error", "RPCError",
                   "WauWorkflowError", "APIError"},
             code : {"", "http", "server", "Parse", "Internal", "default",
                     "TIMEOUT", "NETWORK_ERROR", "AUTH_FAILED",
                     "INVALID_WORKFLOW_TYPE", "SERVER_ERROR"},
             retryable : BOOLEAN]

----------------------------------------------------------------------------
\* What each client makes of an answer.

\* handleResponse and openStream below 400.
Envelope(b) ==
    IF ~IsObject(b) THEN Err("RPCError", "Parse")
    ELSE IF b = "nullError" THEN Raw
    ELSE IF HasError(b) THEN Err("RPCError", ErrorCode(b))
    ELSE IF ~HasResult(b) THEN Err("RPCError", "Internal")
    ELSE Value

\* Fault: a result is taken before the error is looked at.
UcpResult_ResultFirst(b) == IF b = "null" THEN Raw ELSE Value

\* callTool of UCPClient: no error field is a success, whatever else is there.
UcpResult(b) ==
    IF b \in {"null", "nullError"} THEN Raw
    ELSE IF HasError(b) THEN Err("RPCError", ErrorCode(b))
    ELSE Value

\* createCheckoutSession and confirmPayment hide an internal error.
Checkout(o) ==
    IF Kind = "checkout" /\ o = Err("RPCError", "Internal")
    THEN Err("Error", "") ELSE o

\* Fault: the default of the comment, not the caller's flag, at 5xx.
mapHttpToWauWorkflowError_Default(status, retryable) ==
    WauError("SERVER_ERROR", status \notin {400, 404})

mapHttpToWauWorkflowError(status, retryable) ==
    IF status = 401 THEN WauError("AUTH_FAILED", TRUE)
    ELSE IF status = 400 THEN WauError("INVALID_WORKFLOW_TYPE", FALSE)
    ELSE IF status = 404 THEN WauError("SERVER_ERROR", FALSE)
    ELSE WauError("SERVER_ERROR", retryable)

StatusMap == {400, 401, 404}

\* Fault: the code inside the error object is not read.
ApiError_OutsideError(status, b) ==
    Err("APIError", IF status \in StatusMap THEN "default" ELSE "")

\* The subclasses of STATUS_MAP take the code; APIError itself, used for
\* every other status, takes it for the message and loses it.
ApiError(status, b) ==
    Err("APIError",
        IF status \notin StatusMap THEN ""
        ELSE IF HasError(b) THEN ErrorCode(b) ELSE "default")

\* raiseForStatus: a known code at a handshake URL has a class of its own.
raiseForStatus(status, b) ==
    IF Client = "handshake" /\ b = "error"
    THEN Err("APIError", "server") ELSE ApiError(status, b)

\* handleResponse of Transport, then the service: axios rejects when the body
\* breaks off, whatever the status; 204 and an empty body are null, and a body
\* that is no JSON comes as a string.
ServiceOutcome(a) ==
    IF a.body = "cut" THEN Raw
    ELSE IF a.status >= 400 THEN raiseForStatus(a.status, a.body)
    ELSE IF a.body \in {"none", "null"} /\ Kind \in {"fields", "nested"} THEN Raw
    ELSE IF Kind = "nested" /\ a.body # "result" THEN Raw
    ELSE Value

----------------------------------------------------------------------------
HttpInit ==
    /\ method \in Methods
    /\ step = "ready"
    /\ answer = [status |-> 200, body |-> "none"]
    /\ used = FALSE
    /\ out = Nothing
    /\ tries = 0
    /\ served = FALSE
    /\ applied = 0
    /\ unheard = FALSE

callVars == <<method, tries, served, applied, unheard>>

Go(s) == step' = s /\ out' = out
Finish(o) == step' = "done" /\ out' = o

Throw ==
    /\ step = "ready"
    /\ Checks
    /\ Finish(Err("Error", ""))
    /\ UNCHANGED <<answer, used, callVars>>

Send ==
    /\ step = "ready"
    /\ Go("fetch")
    /\ tries' = tries + 1
    /\ served' = FALSE
    /\ UNCHANGED <<method, answer, used, applied, unheard>>

\* The server carries out a request (followed for WauClient only).
Serve ==
    /\ step = "fetch"
    /\ Client = "wau"
    /\ ~served
    /\ served' = TRUE
    /\ applied' = applied + 1
    /\ UNCHANGED <<method, step, answer, used, out, tries, unheard>>

\* fetch rejects: refused, or lost on the way there or back.
Refused ==
    /\ step \in {"fetch", "get"}
    /\ Finish(IF Client = "wau" THEN WauError("NETWORK_ERROR", TRUE) ELSE Raw)
    /\ unheard' = TRUE
    /\ UNCHANGED <<answer, used, method, tries, served, applied>>

\* WauClient aborts a fetch, axios a whole exchange; the others have no timer.
\* Fault: the transport has no timer either.
Timed_WauOnly == Client = "wau"
Timed == Client = "wau" \/ (IsService /\ Kind # "lines")
TimerFires ==
    /\ step = "fetch"
    /\ Timed
    /\ Finish(IF Client = "wau" THEN WauError("TIMEOUT", TRUE) ELSE Raw)
    /\ unheard' = TRUE
    /\ UNCHANGED <<answer, used, method, tries, served, applied>>

\* The headers arrive.  What was carried out is not refused, nor the reverse.
Headers(a) ==
    /\ step = "fetch"
    /\ Client = "wau" => /\ a.status \in {200, 204} => served
                         /\ a.status \in {400, 401, 404} => ~served
    /\ answer' = a
    /\ used' = FALSE
    /\ UNCHANGED callVars

McpAnswered(a) ==
    /\ Client = "mcp"
    /\ Headers(a)
    /\ Go("json")

UcpAnswered(a) ==
    /\ Client = "ucp"
    /\ Headers(a)
    /\ Go(IF a.status >= 400 THEN "text" ELSE "json")

\* doFetch clears the timer here, before the body is read.
WauAnswered(a) ==
    /\ Client = "wau"
    /\ Headers(a)
    /\ \/ Kind \in {"once", "empty"} /\ a.status \in {200, 204} /\ Finish(Value)
       \/ Kind \in {"json", "stub"} /\ a.status = 200 /\ Go("json")
       \/ /\ Kind = "stub" /\ a.status = 501
          /\ Finish(WauError("SERVER_ERROR", FALSE))
       \/ /\ Kind \in {"once", "empty"} => a.status \notin {200, 204}
          /\ Kind \in {"json", "stub"} => a.status # 200
          /\ Kind = "stub" => a.status # 501
          /\ Go("text")

ServiceAnswered(a) ==
    /\ IsService
    /\ Kind \in {"void", "guarded", "fields", "nested"}
    /\ Headers(a)
    /\ Finish(ServiceOutcome(a))

\* An event stream has a body class of its own, "result".
ChatAnswered(a) ==
    /\ Client = "chat"
    /\ Kind = "lines"
    /\ a.status < 400 => a.body \in {"none", "result"}
    /\ Headers(a)
    /\ \/ a.status >= 400 /\ Go("text")
       \/ a.status < 400 /\ a.body = "none" /\ Finish(Value)
       \/ a.status < 400 /\ a.body # "none" /\ Go("stream")

Answered == \E a \in Answers :
    \/ McpAnswered(a)
    \/ UcpAnswered(a)
    \/ WauAnswered(a)
    \/ ServiceAnswered(a)
    \/ ChatAnswered(a)

----------------------------------------------------------------------------
\* json() settles: the body is there, or the connection is lost inside it.
Json ==
    /\ step = "json"
    /\ used' = TRUE
    /\ UNCHANGED <<answer, callVars>>

\* At 400 and above, an envelope without error falls through to text().
McpJson ==
    /\ Kind = "tool" /\ Client = "mcp"
    /\ Json
    /\ IF answer.status >= 400 /\ ~HasError(answer.body)
       THEN Go("text")
       ELSE Finish(Envelope(answer.body))

\* openStream, up to the second fetch: a stream needs its stream_id.
OpenJson ==
    /\ Kind = "stream" /\ Client = "mcp"
    /\ step = "json"
    /\ used' = TRUE
    /\ \/ /\ answer.status >= 400 /\ ~HasError(answer.body)
          /\ Go("text")
       \/ /\ answer.status < 400 /\ answer.body = "result"
          /\ Go("get")
       \/ /\ answer.status < 400 => answer.body # "result"
          /\ answer.status >= 400 => HasError(answer.body)
          /\ Finish(IF answer.body = "noId" THEN Err("RPCError", "Internal")
                    ELSE IF answer.body = "nullResult" THEN Raw
                    ELSE Envelope(answer.body))
    /\ UNCHANGED <<answer, callVars>>

\* startSSE: the stream is opened, or the GET fails.
GetAnswered(a) ==
    /\ step = "get"
    /\ answer' = a
    /\ used' = FALSE
    /\ Finish(IF a.status >= 400 THEN Err("RPCError", "http")
              ELSE IF a.body = "none" THEN Err("RPCError", "Internal")
              ELSE Value)
    /\ UNCHANGED callVars

UcpJson ==
    /\ Client = "ucp"
    /\ Json
    /\ IF IsJson(answer.body)
       THEN Finish(Checkout(UcpResult(answer.body)))
       ELSE Go("text")

WauJson ==
    /\ Client = "wau"
    /\ Json
    /\ Finish(IF IsJson(answer.body) THEN Value ELSE Raw)

\* text() settles; it rejects on a body that was read or is cut.  WauClient
\* catches that.  streamChat parses the text, and trips over a null.
TextOutcome ==
    IF Client = "wau"
    THEN mapHttpToWauWorkflowError(answer.status, Kind \in {"empty", "json"})
    ELSE IF used \/ answer.body = "cut" THEN Raw
    ELSE IF Client = "chat"
    THEN IF answer.body = "null" THEN Raw
         ELSE ApiError(answer.status, answer.body)
    ELSE IF answer.status >= 400 THEN Err("RPCError", "http")
    ELSE Err("Error", "")

Text ==
    /\ step = "text"
    /\ used' = TRUE
    /\ Finish(TextOutcome)
    /\ UNCHANGED <<answer, callVars>>

----------------------------------------------------------------------------
\* The caller of WauClient repeats a call for as long as isWauRetryable.
Repeat ==
    /\ step = "done"
    /\ Client = "wau"
    /\ isWauRetryable(out)
    /\ tries < MaxTries
    /\ step' = "ready"
    /\ out' = Nothing
    /\ UNCHANGED <<answer, used, callVars>>

HttpNext ==
    \/ Throw
    \/ Send
    \/ Serve
    \/ Refused
    \/ TimerFires
    \/ Answered
    \/ McpJson
    \/ OpenJson
    \/ \E a \in Answers : GetAnswered(a)
    \/ UcpJson
    \/ WauJson
    \/ Text
    \/ Repeat

----------------------------------------------------------------------------
\* The variables of a call keep their types.
HttpTypeOK ==
    /\ method \in Methods
    /\ step \in {"ready", "fetch", "json", "text", "get", "stream", "done"}
    /\ answer \in Answers
    /\ used \in BOOLEAN
    /\ out \in Outcomes
    /\ tries \in 0 .. MaxTries
    /\ served \in BOOLEAN
    /\ applied \in 0 .. MaxTries
    /\ unheard \in BOOLEAN

\* mcp/client.ts:393-422, ucp/client.ts:352-371, wau/client.ts:300-384,
\* transport.ts:101-155: no failure passes for a success.  A value means that
\* the last answer is below 400, that an MCP or UCP answer is JSON without an
\* error in it, that an MCP answer carries a result, and that an open stream
\* has a body.
NoFailureAsSuccess ==
    out.is = "value" =>
        /\ answer.status < 400
        /\ Client \in {"mcp", "ucp"} /\ Kind # "stream" =>
              IsJson(answer.body) /\ ~HasError(answer.body)
        /\ Client = "mcp" /\ Kind = "tool" => HasResult(answer.body)
        /\ Kind = "stream" => answer.body # "none"

\* mcp/client.ts:407-422, ucp/client.ts:362-371, transport.ts:111-155: the
\* error code the server put in its answer reaches the caller: from MCP
\* at every status, from UCP below 400 (internal errors of the checkout
\* tools aside), from a service at the statuses that have a class.
ErrorKeepsServerCode ==
    /\ step = "done" /\ HasError(answer.body)
    /\ \/ used /\ Client = "mcp"
       \/ used /\ Client = "ucp" /\ answer.status < 400 /\ Kind = "tool"
       \/ IsService /\ answer.status \in StatusMap
    => out.code = ErrorCode(answer.body)

\* wau/client.ts:131-160 with wau/errors.ts:105-119: a registration is carried
\* out twice only if the caller did not hear of one of them: no answered
\* failure makes the caller register again what the server has registered.
RegisteredTwiceOnlyUnheard ==
    method = <<"wau", "registerAgent">> /\ applied > 1 => unheard
=============================================================================
