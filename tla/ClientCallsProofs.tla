-------------------------- MODULE ClientCallsProofs --------------------------
(***************************************************************************)
(* Theorems about the calls of ClientCalls, for any bounds, any number of  *)
(* agents and any body.  What a caller gets depends on the answer and on   *)
(* the step at which it is decided: the invariant says what each step      *)
(* knows of the answer.                                                    *)
(***************************************************************************)
EXTENDS ClientCalls, SequenceTheorems, FiniteSetTheorems, TLAPS

\* Nobody gets anything before the end of a call.
OutAtEnd == step # "done" => out = Nothing

\* What a step knows of the answer in hand.
StepKnows ==
    /\ step = "stream" => Client = "chat" /\ answer.status < 400
    /\ step = "get" => Client = "mcp" /\ Kind = "stream"
                       /\ answer.body = "result"
    /\ step = "json" /\ Client \in {"ucp", "wau"} => answer.status < 400
    /\ step = "text" /\ Client = "mcp" => ~HasError(answer.body)
    /\ step = "text" /\ Client = "ucp" =>
          answer.status >= 400 \/ ~IsJson(answer.body)
    /\ step = "text" /\ IsService => Client = "chat" /\ ~used
    /\ step \in {"ready", "fetch"} /\ IsService => answer.status < 400
    /\ step \in {"ready", "fetch"} /\ Client \in {"mcp", "ucp"} => ~used

\* The server carries out each request of WauClient at most once, and a call
\* is made only while there are tries left.
Counted ==
    /\ applied <= tries
    /\ step = "fetch" /\ ~served => applied < tries
    /\ step = "ready" => tries < MaxTries
    /\ Client # "wau" => applied = 0

\* A page in hand comes from a good answer.
PageAnswered ==
    /\ iter # "asking" => Iterating
    /\ iter \in {"page", "yielded"} => step = "done" /\ answer.status < 400

\* What a call that the server has carried out once can still become, as long
\* as every request has been answered.
Registration ==
    method = <<"wau", "registerAgent">> /\ ~unheard =>
        /\ step = "ready" => applied = 0
        /\ step = "fetch" => applied = IF served THEN 1 ELSE 0
        /\ step \notin {"ready", "fetch"} => applied <= 1
        /\ step = "text" /\ applied = 1 => answer.status \notin {400, 401, 404}
        /\ step = "done" /\ applied = 1 => ~out.retryable
        /\ step \in {"ready", "fetch", "text", "done"}

HInv ==
    /\ HttpTypeOK
    /\ Counted
    /\ OutAtEnd
    /\ StepKnows
    /\ Registration
    /\ NoFailureAsSuccess
    /\ ErrorKeepsServerCode

----------------------------------------------------------------------------
\* What happens to the variables of HttpCall in the steps of the other parts.

PageReset ==
    /\ Client = "agents" /\ answer.status < 400
    /\ step = "done" /\ step' = "ready" /\ out' = Nothing /\ tries' = 0
    /\ UNCHANGED <<method, answer, used, served, applied, unheard>>

ChatEnd ==
    /\ step = "stream" /\ step' = "done"
    /\ out' \in {Value, Raw, Err("Error", "Parse")}
    /\ UNCHANGED <<answer, used, callVars>>

LEMMA Parts ==
  PageAnswered /\ [Next]_vars
    => HttpNext \/ PageReset \/ ChatEnd \/ UNCHANGED httpVars
<1> SUFFICES ASSUME PageAnswered, [Next]_vars
             PROVE  HttpNext \/ PageReset \/ ChatEnd \/ UNCHANGED httpVars
  OBVIOUS
<1>1. CASE HttpNext
  BY <1>1
<1>2. CASE ChatNext
  <2>1. CASE Read \/ Resume
    BY <2>1 DEF Read, Resume
  <2>2. CASE EndOfBody \/ Dropped \/ Leave
    BY <2>2 DEF EndOfBody, Dropped, Leave, Waiting, Streaming, Finish, ChatEnd
  <2>3. CASE Line
    BY <2>3 DEF Line, Streaming, Finish, ChatEnd, httpVars, callVars
  <2> QED
    BY <1>2, <2>1, <2>2, <2>3 DEF ChatNext
<1>3. CASE PagerNext
  <2>1. CASE Ask \/ List \/ ListFails
    BY <2>1 DEF Ask, List, ListFails, HttpNext
  <2>2. CASE Yield \/ NextAgent \/ Register \/ Deregister
    BY <2>2 DEF Yield, NextAgent, Register, Deregister
  <2>3. CASE PageDone
    <3>1. Client = "agents"
      BY <2>3 DEF PageDone, Iterating, Client
    <3> QED
      BY <2>3, <3>1 DEF PageDone, PageReset, PageAnswered, httpVars
  <2> QED
    BY <1>3, <2>1, <2>2, <2>3 DEF PagerNext
<1>4. CASE UNCHANGED vars
  BY <1>4 DEF vars
<1> QED
  BY <1>1, <1>2, <1>3, <1>4 DEF Next

----------------------------------------------------------------------------
\* Facts about the operators of HttpCall.

LEMMA Kinds ==
  ASSUME method \in Methods
  PROVE  /\ Client \in {"mcp", "ucp", "wau", "agents", "kernel", "tasks",
                        "handshake", "chat"}
         /\ IsService <=> Client \notin {"mcp", "ucp", "wau"}
         /\ Client = "mcp" => Kind \in {"tool", "stream"}
         /\ Client = "ucp" => Kind \in {"tool", "checkout"}
         /\ Client = "wau" => Kind \in {"once", "empty", "json", "stub"}
         /\ IsService => Kind \in {"void", "guarded", "fields", "nested", "lines"}
         /\ method = <<"wau", "registerAgent">> => Client = "wau" /\ Kind = "once"
<1>1. PICK c \in DOMAIN Api : \E m \in DOMAIN Api[c] : method = <<c, m>>
  BY DEF Methods
<1>2. PICK m \in DOMAIN Api[c] : method = <<c, m>>
  BY <1>1
<1>3. Client = c /\ Kind = Api[c][m]
  BY <1>2 DEF Client, Kind
<1>4. c \in {"mcp", "ucp", "wau", "agents", "kernel", "tasks", "handshake", "chat"}
  BY DEF Api
<1>5. IsService <=> c \notin {"mcp", "ucp", "wau"}
  BY <1>3, <1>4 DEF IsService, Services
<1>6. c = "mcp" => Kind \in {"tool", "stream"}
  BY <1>2, <1>3 DEF Api, MCPClient
<1>7. c = "ucp" => Kind \in {"tool", "checkout"}
  BY <1>2, <1>3 DEF Api, UCPClient
<1>8. c = "wau" => /\ Kind \in {"once", "empty", "json", "stub"}
                   /\ m = "registerAgent" => Kind = "once"
  BY <1>2, <1>3 DEF Api, WauClient
<1>9. c \notin {"mcp", "ucp", "wau"}
        => Kind \in {"void", "guarded", "fields", "nested", "lines"}
  BY <1>2, <1>3, <1>4 DEF Api, AgentsService, KernelService, TasksService,
                          HandshakeService, ChatService
<1> QED
  BY <1>2, <1>3, <1>4, <1>5, <1>6, <1>7, <1>8, <1>9

LEMMA AnswerParts ==
  ASSUME NEW a \in Answers
  PROVE  /\ a.status \in Statuses /\ a.body \in Bodies /\ a.status \in Nat
         /\ a.status < 400 => a.status \notin StatusMap
BY DEF Answers, Statuses, StatusMap

LEMMA NotRegistering == Client # "wau" => method # <<"wau", "registerAgent">>
BY DEF Client

LEMMA SameMethod ==
  ASSUME method' = method
  PROVE  Client' = Client /\ Kind' = Kind /\ (IsService' <=> IsService)
BY DEF Client, Kind, IsService

LEMMA PlainFacts ==
  /\ Nothing \in Outcomes /\ Nothing.is = "nothing" /\ ~Nothing.retryable
  /\ Value \in Outcomes /\ Value.is = "value" /\ ~Value.retryable
  /\ Raw \in Outcomes /\ Raw.is = "raw"
BY DEF Outcomes, Nothing, Value, Raw, Err

LEMMA ErrFact ==
  ASSUME NEW c \in {"Error", "RPCError", "APIError"},
         NEW k \in {"", "http", "server", "Parse", "Internal", "default"}
  PROVE  Err(c, k) \in Outcomes /\ Err(c, k).is = c /\ Err(c, k).code = k
BY DEF Outcomes, Err

LEMMA WauErrorFact ==
  ASSUME NEW k \in {"TIMEOUT", "NETWORK_ERROR", "AUTH_FAILED",
                    "INVALID_WORKFLOW_TYPE", "SERVER_ERROR"},
         NEW r \in BOOLEAN
  PROVE  /\ WauError(k, r) \in Outcomes
         /\ WauError(k, r).is = "WauWorkflowError"
         /\ WauError(k, r).retryable = r
BY DEF Outcomes, WauError

LEMMA Constructors ==
  /\ Nothing \in Outcomes /\ Nothing.is = "nothing" /\ ~Nothing.retryable
  /\ Value \in Outcomes /\ Value.is = "value" /\ ~Value.retryable
  /\ Raw \in Outcomes /\ Raw.is = "raw"
  /\ \A c \in {"Error", "RPCError", "APIError"} :
       \A k \in {"", "http", "server", "Parse", "Internal", "default"} :
          Err(c, k) \in Outcomes /\ Err(c, k).is = c /\ Err(c, k).code = k
  /\ \A k \in {"TIMEOUT", "NETWORK_ERROR", "AUTH_FAILED",
                "INVALID_WORKFLOW_TYPE", "SERVER_ERROR"} :
       \A r \in BOOLEAN :
          /\ WauError(k, r) \in Outcomes
          /\ WauError(k, r).is = "WauWorkflowError"
          /\ WauError(k, r).retryable = r
<1>1. \A c \in {"Error", "RPCError", "APIError"} :
        \A k \in {"", "http", "server", "Parse", "Internal", "default"} :
          Err(c, k) \in Outcomes /\ Err(c, k).is = c /\ Err(c, k).code = k
  BY ErrFact
<1>2. \A k \in {"TIMEOUT", "NETWORK_ERROR", "AUTH_FAILED",
                "INVALID_WORKFLOW_TYPE", "SERVER_ERROR"} :
        \A r \in BOOLEAN :
          /\ WauError(k, r) \in Outcomes
          /\ WauError(k, r).is = "WauWorkflowError"
          /\ WauError(k, r).retryable = r
  BY WauErrorFact
<1> QED
  BY PlainFacts, <1>1, <1>2, Zenon

LEMMA EnvelopeFact ==
  ASSUME NEW b \in Bodies
  PROVE  /\ Envelope(b) \in Outcomes
         /\ Envelope(b).is = "value" => IsJson(b) /\ ~HasError(b) /\ HasResult(b)
         /\ HasError(b) => Envelope(b).code = ErrorCode(b)
<1>1. ErrorCode(b) \in {"server", "Internal"}
  BY DEF ErrorCode
<1>2. \A k \in {"Parse", "server", "Internal"} :
         /\ Err("RPCError", k) \in Outcomes /\ Err("RPCError", k).is = "RPCError"
         /\ Err("RPCError", k).code = k
  BY ErrFact
<1>3. CASE HasError(b)
  <2>1. Envelope(b) = Err("RPCError", ErrorCode(b))
    BY <1>3 DEF Envelope, IsObject, IsJson, HasError
  <2> QED
    BY <1>1, <1>2, <2>1
<1>4. CASE ~HasError(b)
  <2>1. \/ Envelope(b) \in {Raw, Err("RPCError", "Parse"), Err("RPCError", "Internal")}
        \/ Envelope(b) = Value /\ IsJson(b) /\ HasResult(b)
    BY <1>4 DEF Envelope, IsObject
  <2> QED
    BY <1>2, <1>4, <2>1, PlainFacts
<1> QED
  BY <1>3, <1>4

LEMMA UcpFact ==
  ASSUME NEW b \in Bodies, IsJson(b)
  PROVE  /\ Checkout(UcpResult(b)) \in Outcomes
         /\ Checkout(UcpResult(b)).is = "value" => ~HasError(b)
         /\ HasError(b) /\ Kind # "checkout"
              => Checkout(UcpResult(b)).code = ErrorCode(b)
<1>1. /\ UcpResult(b) \in Outcomes
      /\ UcpResult(b).is = "value" => ~HasError(b)
      /\ HasError(b) => UcpResult(b).code = ErrorCode(b)
  <2>1. ErrorCode(b) \in {"server", "Internal"}
    BY DEF ErrorCode
  <2>2. /\ Err("RPCError", ErrorCode(b)) \in Outcomes
        /\ Err("RPCError", ErrorCode(b)).is = "RPCError"
        /\ Err("RPCError", ErrorCode(b)).code = ErrorCode(b)
    BY <2>1, ErrFact
  <2>3. CASE HasError(b)
    <3>1. UcpResult(b) = Err("RPCError", ErrorCode(b))
      BY <2>3 DEF UcpResult, HasError
    <3> QED
      BY <2>2, <3>1
  <2>4. CASE ~HasError(b)
    <3>1. UcpResult(b) \in {Raw, Value}
      BY <2>4 DEF UcpResult
    <3> QED
      BY <2>4, <3>1, PlainFacts
  <2> QED
    BY <2>3, <2>4
<1>2. Checkout(UcpResult(b)) \in {UcpResult(b), Err("Error", "")}
      /\ (Kind # "checkout" => Checkout(UcpResult(b)) = UcpResult(b))
  BY DEF Checkout
<1> QED
  BY <1>1, <1>2, Constructors

LEMMA ServiceFact ==
  ASSUME NEW a \in Answers
  PROVE  /\ ServiceOutcome(a) \in Outcomes
         /\ ServiceOutcome(a).is = "value" => a.status < 400
         /\ a.status \in StatusMap /\ HasError(a.body)
              => ServiceOutcome(a).code = ErrorCode(a.body)
<1>1. a.status \in Statuses /\ a.body \in Bodies
  BY DEF Answers
<1>2. \A k \in {"", "server", "Internal", "default"} :
         Err("APIError", k) \in Outcomes /\ Err("APIError", k).is = "APIError"
         /\ Err("APIError", k).code = k
  BY ErrFact
<1>3. \E k \in {"", "server", "Internal", "default"} :
         /\ raiseForStatus(a.status, a.body) = Err("APIError", k)
         /\ a.status \in StatusMap /\ HasError(a.body) => k = ErrorCode(a.body)
  BY <1>1 DEF raiseForStatus, ApiError, HasError, ErrorCode
<1>4. /\ raiseForStatus(a.status, a.body) \in Outcomes
      /\ raiseForStatus(a.status, a.body).is # "value"
      /\ a.status \in StatusMap /\ HasError(a.body)
           => raiseForStatus(a.status, a.body).code = ErrorCode(a.body)
  BY <1>2, <1>3
<1>5. CASE a.body # "cut" /\ a.status >= 400
  <2>1. ServiceOutcome(a) = raiseForStatus(a.status, a.body)
    BY <1>5 DEF ServiceOutcome
  <2> QED
    BY <1>4, <2>1
<1>6. CASE a.body = "cut"
  <2>1. ServiceOutcome(a) = Raw /\ ~HasError(a.body)
    BY <1>6 DEF ServiceOutcome, HasError
  <2> QED
    BY <2>1, Constructors
<1>7. CASE ~(a.status >= 400)
  <2>1. ServiceOutcome(a) \in {Raw, Value}
    BY <1>7 DEF ServiceOutcome
  <2>2. a.status < 400 /\ a.status \notin StatusMap
    BY <1>1, <1>7 DEF Statuses, StatusMap
  <2> QED
    BY <2>1, <2>2, Constructors
<1> QED
  BY <1>5, <1>6, <1>7

LEMMA TextFact ==
  ASSUME answer \in Answers
  PROVE  /\ TextOutcome \in Outcomes
         /\ TextOutcome.is # "value" /\ TextOutcome.is # "nothing"
         /\ Client = "chat" /\ ~used /\ answer.status \in StatusMap
               /\ HasError(answer.body)
              => TextOutcome.code = ErrorCode(answer.body)
         /\ Client = "wau" /\ Kind = "once" => ~TextOutcome.retryable
                                               \/ answer.status = 401
<1>1. answer.status \in Statuses /\ answer.body \in Bodies
  BY DEF Answers
<1>2. CASE Client = "wau"
  <2> DEFINE again == Kind \in {"empty", "json"}
  <2>1. TextOutcome = mapHttpToWauWorkflowError(answer.status, again)
    BY <1>2 DEF TextOutcome
  <2>2. Kind = "once" => again = FALSE
    OBVIOUS
  <2>3. again \in BOOLEAN
    OBVIOUS
  <2> HIDE DEF again
  <2>4. \/ TextOutcome = WauError("AUTH_FAILED", TRUE) /\ answer.status = 401
        \/ TextOutcome = WauError("INVALID_WORKFLOW_TYPE", FALSE)
        \/ TextOutcome = WauError("SERVER_ERROR", FALSE)
        \/ TextOutcome = WauError("SERVER_ERROR", again)
    BY <2>1 DEF mapHttpToWauWorkflowError
  <2>5. PICK k \in {"AUTH_FAILED", "INVALID_WORKFLOW_TYPE", "SERVER_ERROR"}, x \in BOOLEAN :
           TextOutcome = WauError(k, x) /\ (x = again \/ x = FALSE \/ answer.status = 401)
    BY <2>3, <2>4
  <2>6. /\ WauError(k, x) \in Outcomes /\ WauError(k, x).is = "WauWorkflowError"
        /\ WauError(k, x).retryable = x
    BY WauErrorFact
  <2>7. Kind = "once" => x = FALSE \/ answer.status = 401
    BY <2>2, <2>5
  <2>8. TextOutcome.is = "WauWorkflowError" /\ TextOutcome.retryable = x
        /\ TextOutcome \in Outcomes
    BY <2>5, <2>6
  <2>9. Kind = "once" => ~TextOutcome.retryable \/ answer.status = 401
    BY <2>7, <2>8
  <2>10. TextOutcome.is # "value" /\ TextOutcome.is # "nothing"
    BY <2>8
  <2>11. Client # "chat"
    BY <1>2
  <2> QED
    BY <2>8, <2>9, <2>10, <2>11, Zenon
<1>3. CASE Client # "wau"
  <2>1. \E k \in {"", "server", "Internal", "default"} :
           /\ ApiError(answer.status, answer.body) = Err("APIError", k)
           /\ answer.status \in StatusMap /\ HasError(answer.body)
                => k = ErrorCode(answer.body)
    BY <1>1 DEF ApiError, HasError, ErrorCode
  <2>2. \/ TextOutcome = Raw
        \/ Client = "chat" /\ TextOutcome = ApiError(answer.status, answer.body)
        \/ TextOutcome \in {Err("RPCError", "http"), Err("Error", "")}
    BY <1>3 DEF TextOutcome
  <2>3. ASSUME Client = "chat", ~used, HasError(answer.body)
        PROVE  TextOutcome = ApiError(answer.status, answer.body)
    <3>1. answer.body # "cut" /\ answer.body # "null"
      BY <2>3 DEF HasError
    <3> QED
      BY <1>3, <2>3, <3>1 DEF TextOutcome
  <2>4. PICK k \in {"", "server", "Internal", "default"} :
           /\ ApiError(answer.status, answer.body) = Err("APIError", k)
           /\ answer.status \in StatusMap /\ HasError(answer.body)
                => k = ErrorCode(answer.body)
    BY <2>1
  <2>5. /\ Err("APIError", k) \in Outcomes /\ Err("APIError", k).is = "APIError"
        /\ Err("APIError", k).code = k
    BY ErrFact
  <2>6. \A o \in {Raw, Err("APIError", k), Err("RPCError", "http"), Err("Error", "")} :
           o \in Outcomes /\ o.is # "value" /\ o.is # "nothing"
    <3>1. /\ Err("RPCError", "http") \in Outcomes
          /\ Err("RPCError", "http").is = "RPCError"
      BY ErrFact
    <3>2. Err("Error", "") \in Outcomes /\ Err("Error", "").is = "Error"
      BY ErrFact
    <3> QED
      BY <2>5, <3>1, <3>2, PlainFacts
  <2>7. TextOutcome \in {Raw, Err("APIError", k), Err("RPCError", "http"), Err("Error", "")}
    BY <2>2, <2>4
  <2>8. TextOutcome \in Outcomes /\ TextOutcome.is # "value" /\ TextOutcome.is # "nothing"
    BY <2>6, <2>7
  <2>9. ASSUME Client = "chat", ~used, answer.status \in StatusMap,
               HasError(answer.body)
        PROVE  TextOutcome.code = ErrorCode(answer.body)
    BY <2>3, <2>4, <2>5, <2>9
  <2> QED
    BY <1>3, <2>8, <2>9, Zenon
<1> QED
  BY <1>2, <1>3

----------------------------------------------------------------------------
LEMMA HttpInitInv == Init => HInv
<1> SUFFICES ASSUME Init PROVE HInv
  OBVIOUS
<1> USE HttpAssumption DEF Init, HttpInit
<1>1. HttpTypeOK
  <2>1. answer \in Answers
    BY DEF Answers, Statuses, Bodies
  <2>2. out \in Outcomes
    BY Constructors
  <2>3. tries \in 0 .. MaxTries /\ applied \in 0 .. MaxTries
    OBVIOUS
  <2>4. used \in BOOLEAN /\ served \in BOOLEAN /\ unheard \in BOOLEAN
    OBVIOUS
  <2>5. step \in {"ready", "fetch", "json", "text", "get", "stream", "done"}
        /\ method \in Methods
    OBVIOUS
  <2> QED
    BY <2>1, <2>2, <2>3, <2>4, <2>5 DEF HttpTypeOK
<1>2. Counted /\ OutAtEnd
  BY DEF Counted, OutAtEnd
<1>3. StepKnows
  BY DEF StepKnows
<1>4. Registration
  BY DEF Registration
<1>5. NoFailureAsSuccess /\ ErrorKeepsServerCode
  BY Constructors DEF NoFailureAsSuccess, ErrorKeepsServerCode
<1> QED
  BY <1>1, <1>2, <1>3, <1>4, <1>5 DEF HInv

LEMMA SendInv == HInv /\ Send => HInv'
<1> SUFFICES ASSUME HInv, Send PROVE HInv'
  OBVIOUS
<1> USE DEF HInv
<1>1. /\ step = "ready" /\ step' = "fetch" /\ out' = out
      /\ UNCHANGED <<method, answer, used, applied, unheard>>
      /\ tries' = tries + 1 /\ served' = FALSE
  BY DEF Send, Go
<1>2. Client' = Client /\ Kind' = Kind /\ (IsService' <=> IsService)
  BY <1>1, SameMethod
<1>3. HttpTypeOK'
  <2>1. tries' \in 0 .. MaxTries
    BY <1>1, HttpAssumption DEF HttpTypeOK, Counted
  <2>2. served' \in BOOLEAN
    BY <1>1
  <2> QED
    BY <1>1, <2>1, <2>2 DEF HttpTypeOK
<1>4. Counted' /\ OutAtEnd'
  BY <1>1, <1>2 DEF HttpTypeOK, Counted, OutAtEnd
<1>5. StepKnows'
  BY <1>1, <1>2 DEF StepKnows
<1>6. Registration'
  BY <1>1 DEF Registration
<1>7. NoFailureAsSuccess' /\ ErrorKeepsServerCode'
  BY <1>1, Constructors DEF NoFailureAsSuccess, ErrorKeepsServerCode, OutAtEnd
<1> QED
  BY <1>3, <1>4, <1>5, <1>6, <1>7

\* Steps that end the call, those that end it without a value, and those
\* that go on with the answer.
LEMMA EndInv ==
  ASSUME HInv, step' = "done", out' \in Outcomes, answer' \in Answers,
         UNCHANGED <<method, tries, served, applied>>,
         used' \in BOOLEAN, unheard' \in BOOLEAN,
         Registration', NoFailureAsSuccess', ErrorKeepsServerCode'
  PROVE  HInv'
<1> USE DEF HInv
<1>1. Client' = Client
  BY SameMethod
<1>2. HttpTypeOK'
  BY DEF HttpTypeOK
<1>3. Counted' /\ OutAtEnd' /\ StepKnows'
  BY <1>1 DEF Counted, OutAtEnd, StepKnows
<1> QED
  BY <1>2, <1>3

LEMMA FailedInv ==
  ASSUME HInv, step' = "done", out' \in Outcomes, out'.is # "value",
         UNCHANGED <<method, answer, tries, served, applied>>,
         used' \in BOOLEAN, unheard' \in BOOLEAN,
         Registration', ErrorKeepsServerCode'
  PROVE  HInv'
<1>1. NoFailureAsSuccess'
  BY DEF NoFailureAsSuccess
<1>2. answer' \in Answers
  BY DEF HInv, HttpTypeOK
<1> QED
  BY <1>1, <1>2, EndInv

LEMMA OnwardInv ==
  ASSUME HInv, step # "done", step' \in {"json", "text", "get", "stream"},
         out' = out, answer' \in Answers, used' \in BOOLEAN,
         UNCHANGED <<method, tries, served, applied, unheard>>,
         StepKnows', Registration'
  PROVE  HInv'
<1> USE DEF HInv
<1>1. Client' = Client
  BY SameMethod
<1>2. HttpTypeOK'
  BY DEF HttpTypeOK
<1>3. Counted' /\ OutAtEnd'
  BY <1>1 DEF Counted, OutAtEnd
<1>4. NoFailureAsSuccess' /\ ErrorKeepsServerCode'
  BY Constructors DEF OutAtEnd, NoFailureAsSuccess, ErrorKeepsServerCode
<1> QED
  BY <1>2, <1>3, <1>4

LEMMA ThrowInv == HInv /\ Throw => HInv'
<1> SUFFICES ASSUME HInv, Throw PROVE HInv'
  OBVIOUS
<1> USE DEF HInv
<1>1. /\ step = "ready" /\ step' = "done" /\ out' = Err("Error", "")
      /\ UNCHANGED <<method, answer, used, tries, served,
                     applied, unheard>>
  BY DEF Throw, Finish, callVars
<1>2. Client' = Client /\ Kind' = Kind /\ (IsService' <=> IsService)
  BY <1>1, SameMethod
<1>3. Registration'
  <2>1. method # <<"wau", "registerAgent">>
    <3> SUFFICES ASSUME method = <<"wau", "registerAgent">> PROVE FALSE
      OBVIOUS
    <3>1. Client = "wau" /\ method[1] = "wau"
      BY DEF Client
    <3>2. Checks
      BY DEF Throw
    <3>3. method = <<"handshake", "getSession">>
      BY <3>1, <3>2 DEF Checks
    <3> QED
      BY <3>1, <3>3
  <2> QED
    BY <1>1, <2>1 DEF Registration
<1>4. ErrorKeepsServerCode'
  <2>1. Client \in {"mcp", "ucp"} => used' # TRUE
    BY <1>1 DEF StepKnows
  <2>2. IsService => answer'.status \notin StatusMap
    <3>1. IsService => answer.status < 400
      BY <1>1, Zenon DEF StepKnows
    <3>2. answer.status < 400 => answer.status \notin StatusMap
      BY DEF StatusMap
    <3> QED
      BY <1>1, <3>1, <3>2, Zenon
  <2> QED
    BY <1>1, <1>2, <2>1, <2>2 DEF ErrorKeepsServerCode
<1>5. out' \in Outcomes /\ out'.is # "value" /\ used' \in BOOLEAN
      /\ unheard' \in BOOLEAN
  BY <1>1, Constructors DEF HttpTypeOK
<1> QED
  BY <1>1, <1>3, <1>4, <1>5, FailedInv

LEMMA ServeInv == HInv /\ Serve => HInv'
<1> SUFFICES ASSUME HInv, Serve PROVE HInv'
  OBVIOUS
<1> USE DEF HInv
<1>1. /\ step = "fetch" /\ Client = "wau" /\ ~served
      /\ served' = TRUE /\ applied' = applied + 1
      /\ UNCHANGED <<method, step, answer, used, out, tries,
                     unheard>>
  BY DEF Serve
<1>2. Client' = Client /\ Kind' = Kind /\ (IsService' <=> IsService)
  BY <1>1, SameMethod
<1>3. HttpTypeOK'
  <2>1. applied' \in 0 .. MaxTries
    BY <1>1, HttpAssumption DEF HttpTypeOK, Counted
  <2>2. served' \in BOOLEAN
    BY <1>1
  <2> QED
    BY <1>1, <2>1, <2>2 DEF HttpTypeOK
<1>4. Counted' /\ OutAtEnd'
  BY <1>1, <1>2 DEF HttpTypeOK, Counted, OutAtEnd
<1>5. StepKnows'
  BY <1>1, <1>2 DEF StepKnows
<1>6. Registration'
  BY <1>1 DEF Registration
<1>7. NoFailureAsSuccess' /\ ErrorKeepsServerCode'
  BY <1>1, <1>2 DEF NoFailureAsSuccess, ErrorKeepsServerCode
<1> QED
  BY <1>3, <1>4, <1>5, <1>6, <1>7

LEMMA UnheardInv == HInv /\ (Refused \/ TimerFires) => HInv'
<1> SUFFICES ASSUME HInv, Refused \/ TimerFires PROVE HInv'
  OBVIOUS
<1> USE DEF HInv
<1>1. /\ step \in {"fetch", "get"} /\ step' = "done" /\ unheard' = TRUE
      /\ out' \in {Raw, WauError("NETWORK_ERROR", TRUE), WauError("TIMEOUT", TRUE)}
      /\ UNCHANGED <<method, answer, used, tries, served, applied>>
  BY DEF Refused, TimerFires, Finish
<1>2. Client' = Client /\ Kind' = Kind /\ (IsService' <=> IsService)
  BY <1>1, SameMethod
<1>3. Registration'
  BY <1>1 DEF Registration
<1>4. ErrorKeepsServerCode'
  <2>1. method \in Methods
    BY DEF HttpTypeOK
  <2>2. IsService <=> Client \notin {"mcp", "ucp", "wau"}
    BY <2>1, Kinds
  <2>3. Client = "mcp" /\ step = "get" => ~HasError(answer.body)
    BY DEF StepKnows, HasError
  <2> QED
    BY <1>1, <1>2, <2>2, <2>3 DEF ErrorKeepsServerCode, StepKnows, StatusMap
<1>5. used' \in BOOLEAN /\ unheard' \in BOOLEAN
  BY <1>1 DEF HttpTypeOK
<1>6. out' \in Outcomes /\ out'.is # "value"
  <2>1. /\ WauError("NETWORK_ERROR", TRUE) \in Outcomes
        /\ WauError("NETWORK_ERROR", TRUE).is = "WauWorkflowError"
        /\ WauError("TIMEOUT", TRUE) \in Outcomes
        /\ WauError("TIMEOUT", TRUE).is = "WauWorkflowError"
    BY WauErrorFact
  <2> QED
    BY <1>1, <2>1, PlainFacts
<1> QED
  BY <1>1, <1>3, <1>4, <1>5, <1>6, FailedInv

LEMMA HeadersFacts ==
  ASSUME HInv, NEW a \in Answers, Headers(a)
  PROVE  /\ step = "fetch" /\ answer' = a /\ used' = FALSE
         /\ answer' \in Answers /\ used' \in BOOLEAN /\ unheard' \in BOOLEAN
         /\ UNCHANGED <<method, tries, served, applied, unheard>>
         /\ Client' = Client /\ Kind' = Kind /\ (IsService' <=> IsService)
<1>1. /\ step = "fetch" /\ answer' = a /\ used' = FALSE
      /\ UNCHANGED <<method, tries, served, applied, unheard>>
  BY DEF Headers, callVars
<1> QED
  BY <1>1, SameMethod DEF HInv, HttpTypeOK

LEMMA McpAnsweredInv ==
  ASSUME HInv, NEW a \in Answers, McpAnswered(a)
  PROVE  HInv'
<1>1. Headers(a) /\ step' = "json" /\ out' = out /\ Client = "mcp"
  BY DEF McpAnswered, Go
<1>2. StepKnows'
  <2>1. ~IsService
    BY <1>1, Kinds DEF HInv, HttpTypeOK
  <2>2. Client' = "mcp" /\ ~IsService' /\ step' = "json" /\ used' = FALSE
    BY <1>1, <2>1, HeadersFacts
  <2> QED
    BY <2>2 DEF StepKnows
<1>3. Registration'
  BY <1>1, HeadersFacts, NotRegistering DEF Registration
<1> QED
  BY <1>1, <1>2, <1>3, HeadersFacts, OnwardInv

LEMMA UcpAnsweredInv ==
  ASSUME HInv, NEW a \in Answers, UcpAnswered(a)
  PROVE  HInv'
<1>1. /\ Headers(a) /\ out' = out /\ Client = "ucp"
      /\ step' = IF a.status >= 400 THEN "text" ELSE "json"
  BY DEF UcpAnswered, Go
<1>2. StepKnows'
  <2>1. ~IsService /\ (a.status < 400 \/ a.status >= 400)
    BY <1>1, Kinds, AnswerParts DEF HInv, HttpTypeOK
  <2>2. /\ Client' = "ucp" /\ ~IsService' /\ answer' = a
        /\ step' \in {"text", "json"}
        /\ step' = "text" => answer'.status >= 400
        /\ step' = "json" => answer'.status < 400
    BY <1>1, <2>1, HeadersFacts
  <2> QED
    BY <2>2 DEF StepKnows
<1>3. Registration'
  BY <1>1, HeadersFacts, NotRegistering DEF Registration
<1> QED
  BY <1>1, <1>2, <1>3, HeadersFacts, OnwardInv

LEMMA WauAnsweredInv ==
  ASSUME HInv, NEW a \in Answers, WauAnswered(a)
  PROVE  HInv'
<1>1. Headers(a) /\ Client = "wau"
  BY DEF WauAnswered
<1>2. /\ a.status \in {200, 204} => served
      /\ a.status \in {400, 401, 404} => ~served
  BY <1>1 DEF Headers
<1>3. method \in Methods
  BY DEF HInv, HttpTypeOK
<1>4. ~IsService /\ Kind \in {"once", "empty", "json", "stub"}
  BY <1>1, <1>3, Kinds
<1>5. method = <<"wau", "registerAgent">> => Kind = "once"
  BY <1>3, Kinds
<1>6. \/ out' = out /\ step' = "json" /\ a.status = 200 /\ Kind \in {"json", "stub"}
      \/ out' = out /\ step' = "text"
      \/ step' = "done" /\ out' = Value /\ a.status \in {200, 204}
      \/ step' = "done" /\ out' = WauError("SERVER_ERROR", FALSE) /\ Kind = "stub"
  BY Zenon DEF WauAnswered, Go, Finish
<1>10. Client' = "wau" /\ ~IsService' /\ answer' = a /\ UNCHANGED <<method, applied, unheard>>
  BY <1>1, <1>4, HeadersFacts
<1>7. CASE step' = "json" /\ out' = out /\ a.status = 200 /\ Kind \in {"json", "stub"}
  <2>1. StepKnows'
    BY <1>10, <1>7 DEF StepKnows
  <2>2. method' # <<"wau", "registerAgent">>
    BY <1>5, <1>7, <1>10
  <2>3. Registration'
    BY <2>2 DEF Registration
  <2> QED
    BY <1>1, <1>7, <2>1, <2>3, HeadersFacts, OnwardInv
<1>8. CASE out' = out /\ step' = "text"
  <2>1. StepKnows'
    BY <1>10, <1>8 DEF StepKnows
  <2>2. ASSUME method = <<"wau", "registerAgent">>, ~unheard
        PROVE  applied <= 1 /\ (applied = 1 => a.status \notin {400, 401, 404})
    <3>1. applied = IF served THEN 1 ELSE 0
      BY <1>1, <2>2, HeadersFacts DEF Registration, HInv
    <3>2. CASE served
      BY <1>2, <3>1, <3>2
    <3>3. CASE ~served
      BY <3>1, <3>3
    <3> QED
      BY <3>2, <3>3
  <2>3. Registration'
    BY <1>10, <1>8, <2>2 DEF Registration
  <2> QED
    BY <1>1, <1>8, <2>1, <2>3, HeadersFacts, OnwardInv
<1>9. CASE /\ step' = "done"
           /\ \/ out' = Value /\ a.status \in {200, 204}
              \/ out' = WauError("SERVER_ERROR", FALSE) /\ Kind = "stub"
  <2>1. out' \in Outcomes /\ ~out'.retryable
    BY <1>9, Constructors
  <2>2. Registration'
    <3>1. ASSUME method = <<"wau", "registerAgent">>, ~unheard
          PROVE  applied <= 1
      BY <1>1, <3>1, HeadersFacts DEF Registration, HInv
    <3> QED
      BY <1>10, <1>9, <2>1, <3>1 DEF Registration
  <2>3. NoFailureAsSuccess'
    <3>1. out'.is = "value" => a.status < 400
      <4>1. a.status \in {200, 204} => a.status < 400
        OBVIOUS
      <4>2. WauError("SERVER_ERROR", FALSE).is # "value"
        BY Constructors
      <4> QED
        BY <1>9, <4>1, <4>2
    <3>2. Kind' # "stream"
      BY <1>1, <1>4, HeadersFacts
    <3> QED
      BY <1>10, <3>1, <3>2 DEF NoFailureAsSuccess
  <2>4. ErrorKeepsServerCode'
    BY <1>10 DEF ErrorKeepsServerCode
  <2> QED
    BY <1>1, <1>9, <2>1, <2>2, <2>3, <2>4, HeadersFacts, EndInv
<1> QED
  BY <1>6, <1>7, <1>8, <1>9

LEMMA ServiceAnsweredInv ==
  ASSUME HInv, NEW a \in Answers, ServiceAnswered(a)
  PROVE  HInv'
<1>1. /\ IsService /\ Kind # "lines" /\ Kind # "stream"
      /\ Headers(a) /\ step' = "done" /\ out' = ServiceOutcome(a)
  BY DEF ServiceAnswered, Finish
<1>2. Client \notin {"mcp", "ucp", "wau"}
  BY <1>1, Kinds DEF HInv, HttpTypeOK
<1>3. out' \in Outcomes
  BY <1>1, ServiceFact
<1>4. Registration'
  BY <1>1, <1>2, HeadersFacts, NotRegistering DEF Registration
<1>5. NoFailureAsSuccess'
  BY <1>1, <1>2, ServiceFact, HeadersFacts DEF NoFailureAsSuccess
<1>6. ErrorKeepsServerCode'
  BY <1>1, <1>2, ServiceFact, HeadersFacts DEF ErrorKeepsServerCode
<1>7. /\ answer' \in Answers /\ used' \in BOOLEAN /\ unheard' \in BOOLEAN
      /\ UNCHANGED <<method, tries, served, applied>>
  BY <1>1, HeadersFacts
<1> QED
  BY <1>1, <1>3, <1>4, <1>5, <1>6, <1>7, EndInv

LEMMA ChatAnsweredInv ==
  ASSUME HInv, NEW a \in Answers, ChatAnswered(a)
  PROVE  HInv'
<1>1. Client = "chat" /\ Kind = "lines" /\ Headers(a)
  BY DEF ChatAnswered
<1>2. IsService
  BY <1>1, Kinds DEF HInv, HttpTypeOK
<1>3. Registration'
  BY <1>1, HeadersFacts, NotRegistering DEF Registration
<1>4. CASE step' = "text" /\ out' = out
  <2>1. StepKnows'
    BY <1>1, <1>4, HeadersFacts DEF StepKnows
  <2> QED
    BY <1>1, <1>3, <1>4, <2>1, HeadersFacts, OnwardInv
<1>5. CASE a.status < 400 /\ step' = "stream" /\ out' = out
  <2>1. StepKnows'
    BY <1>1, <1>5, HeadersFacts DEF StepKnows
  <2> QED
    BY <1>1, <1>3, <1>5, <2>1, HeadersFacts, OnwardInv
<1>6. CASE a.status < 400 /\ step' = "done" /\ out' = Value
  <2>1. NoFailureAsSuccess'
    BY <1>1, <1>6, HeadersFacts DEF NoFailureAsSuccess
  <2>2. ErrorKeepsServerCode'
    BY <1>1, <1>6, HeadersFacts, AnswerParts DEF ErrorKeepsServerCode
  <2>3. out' \in Outcomes
    BY <1>6, Constructors
  <2> QED
    BY <1>1, <1>3, <1>6, <2>1, <2>2, <2>3, HeadersFacts, EndInv
<1> QED
  BY <1>4, <1>5, <1>6 DEF ChatAnswered, Go, Finish

LEMMA AnsweredInv == HInv /\ Answered => HInv'
BY McpAnsweredInv, UcpAnsweredInv, WauAnsweredInv, ServiceAnsweredInv,
   ChatAnsweredInv DEF Answered

----------------------------------------------------------------------------
\* The steps that read a body, and those between the calls.

LEMMA InHand ==
  ASSUME HInv
  PROVE  /\ method \in Methods /\ answer \in Answers
         /\ answer.status \in Statuses /\ answer.body \in Bodies
         /\ answer.status \in Nat
         /\ used \in BOOLEAN /\ unheard \in BOOLEAN
BY AnswerParts DEF HInv, HttpTypeOK

LEMMA McpJsonInv == HInv /\ McpJson => HInv'
<1> SUFFICES ASSUME HInv, McpJson PROVE HInv'
  OBVIOUS
<1>1. /\ Kind = "tool" /\ Client = "mcp" /\ step = "json" /\ used' = TRUE
      /\ UNCHANGED <<answer, method, tries, served, applied, unheard>>
  BY DEF McpJson, Json, callVars
<1>2. Client' = Client /\ Kind' = Kind /\ (IsService' <=> IsService) /\ ~IsService
  BY <1>1, SameMethod, Kinds, InHand
<1>3. Registration'
  BY <1>1, NotRegistering DEF Registration
<1>4. CASE ~HasError(answer.body) /\ step' = "text" /\ out' = out
  <2>1. StepKnows'
    BY <1>1, <1>2, <1>4 DEF StepKnows, HasError
  <2> QED
    BY <1>1, <1>3, <1>4, <2>1, InHand, OnwardInv
<1>5. CASE /\ answer.status < 400 \/ HasError(answer.body)
           /\ step' = "done" /\ out' = Envelope(answer.body)
  <2>1. NoFailureAsSuccess'
    BY <1>1, <1>2, <1>5, InHand, EnvelopeFact
       DEF NoFailureAsSuccess, IsJson, HasError, HasResult
  <2>2. ErrorKeepsServerCode'
    BY <1>1, <1>2, <1>5, InHand, EnvelopeFact
       DEF ErrorKeepsServerCode, HasError, ErrorCode
  <2> QED
    BY <1>1, <1>3, <1>5, <2>1, <2>2, InHand, EnvelopeFact, EndInv
<1>6. answer.status >= 400 \/ answer.status < 400
  BY InHand
<1> QED
  BY <1>4, <1>5, <1>6 DEF McpJson, Go, Finish

LEMMA OpenJsonInv == HInv /\ OpenJson => HInv'
<1> SUFFICES ASSUME HInv, OpenJson PROVE HInv'
  OBVIOUS
<1>1. /\ Kind = "stream" /\ Client = "mcp" /\ step = "json" /\ used' = TRUE
      /\ UNCHANGED <<answer, method, tries, served, applied, unheard>>
  BY DEF OpenJson, callVars
<1>2. Client' = Client /\ Kind' = Kind /\ (IsService' <=> IsService) /\ ~IsService
  BY <1>1, SameMethod, Kinds, InHand
<1>3. Registration'
  BY <1>1, NotRegistering DEF Registration
<1>4. CASE /\ out' = out
           /\ \/ ~HasError(answer.body) /\ step' = "text"
              \/ answer.body = "result" /\ step' = "get"
  <2>1. StepKnows'
    BY <1>1, <1>2, <1>4 DEF StepKnows, HasError
  <2> QED
    BY <1>1, <1>3, <1>4, <2>1, InHand, OnwardInv
<1>5. CASE /\ answer.status < 400 => answer.body # "result"
           /\ answer.status >= 400 => HasError(answer.body)
           /\ step' = "done"
           /\ out' = IF answer.body = "noId" THEN Err("RPCError", "Internal")
                     ELSE IF answer.body = "nullResult" THEN Raw
                     ELSE Envelope(answer.body)
  <2>1. out' \in Outcomes /\ out'.is # "value"
    <3>1. answer.body # "result"
      BY <1>5, InHand DEF HasError
    <3>2. CASE answer.body \in {"noId", "nullResult"}
      BY <1>5, <3>2, Constructors
    <3>3. CASE answer.body \notin {"noId", "nullResult"}
      BY <1>5, <3>1, <3>3, InHand, EnvelopeFact DEF HasResult
    <3> QED
      BY <3>2, <3>3
  <2>2. NoFailureAsSuccess'
    BY <2>1 DEF NoFailureAsSuccess
  <2>3. ErrorKeepsServerCode'
    BY <1>1, <1>2, <1>5, InHand, EnvelopeFact
       DEF ErrorKeepsServerCode, HasError, ErrorCode
  <2> QED
    BY <1>1, <1>3, <1>5, <2>1, <2>2, <2>3, InHand, EndInv
<1> QED
  BY <1>4, <1>5 DEF OpenJson, Go, Finish

LEMMA GetAnsweredInv ==
  ASSUME HInv, NEW a \in Answers, GetAnswered(a)
  PROVE  HInv'
<1>1. /\ step = "get" /\ step' = "done" /\ answer' = a /\ used' = FALSE
      /\ out' = IF a.status >= 400 THEN Err("RPCError", "http")
                ELSE IF a.body = "none" THEN Err("RPCError", "Internal")
                ELSE Value
      /\ UNCHANGED <<method, tries, served, applied, unheard>>
  BY DEF GetAnswered, Finish, callVars
<1>2. Client = "mcp" /\ Kind = "stream"
  BY <1>1 DEF HInv, StepKnows
<1>3. Client' = Client /\ Kind' = Kind /\ (IsService' <=> IsService) /\ ~IsService
  BY <1>1, <1>2, SameMethod, Kinds, InHand
<1>4. Registration'
  BY <1>1, <1>2, NotRegistering DEF Registration
<1>5. out' \in Outcomes
  BY <1>1, Constructors
<1>6. out'.is = "value" => a.status < 400 /\ a.body # "none"
  <2>1. /\ Err("RPCError", "http").is # "value"
        /\ Err("RPCError", "Internal").is # "value"
    BY Constructors
  <2>2. a.status >= 400 \/ a.status < 400
    BY AnswerParts
  <2> QED
    BY <1>1, <2>1, <2>2
<1>7. NoFailureAsSuccess'
  BY <1>1, <1>2, <1>3, <1>6 DEF NoFailureAsSuccess
<1>8. ErrorKeepsServerCode'
  BY <1>1, <1>2, <1>3 DEF ErrorKeepsServerCode
<1> QED
  BY <1>1, <1>4, <1>5, <1>7, <1>8, InHand, EndInv

LEMMA UcpJsonInv == HInv /\ UcpJson => HInv'
<1> SUFFICES ASSUME HInv, UcpJson PROVE HInv'
  OBVIOUS
<1> DEFINE o == Checkout(UcpResult(answer.body))
<1>1. /\ Client = "ucp" /\ step = "json" /\ used' = TRUE
      /\ UNCHANGED <<answer, method, tries, served, applied, unheard>>
  BY DEF UcpJson, Json, callVars
<1>2. /\ Client' = Client /\ Kind' = Kind /\ ~IsService /\ ~IsService'
      /\ Kind # "stream"
  BY <1>1, SameMethod, Kinds, InHand
<1>3. Registration'
  BY <1>1, NotRegistering DEF Registration
<1>4. CASE ~IsJson(answer.body) /\ step' = "text" /\ out' = out
  <2>1. StepKnows'
    BY <1>1, <1>2, <1>4 DEF StepKnows, IsJson
  <2> QED
    BY <1>1, <1>3, <1>4, <2>1, InHand, OnwardInv
<1>5. CASE IsJson(answer.body) /\ step' = "done" /\ out' = o
  <2>1. /\ o \in Outcomes
        /\ o.is = "value" => ~HasError(answer.body)
        /\ HasError(answer.body) /\ Kind # "checkout" => o.code = ErrorCode(answer.body)
    BY <1>5, InHand, UcpFact
  <2>2. answer.status < 400
    BY <1>1 DEF HInv, StepKnows
  <2> HIDE DEF o
  <2>3. NoFailureAsSuccess'
    BY <1>1, <1>2, <1>5, <2>1, <2>2 DEF NoFailureAsSuccess, IsJson, HasError
  <2>4. ErrorKeepsServerCode'
    BY <1>1, <1>2, <1>5, <2>1 DEF ErrorKeepsServerCode, HasError, ErrorCode
  <2> QED
    BY <1>1, <1>3, <1>5, <2>1, <2>3, <2>4, InHand, EndInv
<1> QED
  BY <1>4, <1>5 DEF UcpJson, Go, Finish

LEMMA WauJsonInv == HInv /\ WauJson => HInv'
<1> SUFFICES ASSUME HInv, WauJson PROVE HInv'
  OBVIOUS
<1>1. /\ Client = "wau" /\ step = "json" /\ step' = "done" /\ used' = TRUE
      /\ out' \in {Value, Raw}
      /\ UNCHANGED <<answer, method, tries, served, applied, unheard>>
  BY DEF WauJson, Json, Finish, callVars
<1>2. /\ Client' = Client /\ Kind' = Kind /\ ~IsService /\ ~IsService'
      /\ Kind # "stream"
  BY <1>1, SameMethod, Kinds, InHand
<1>3. Registration'
  BY <1>1 DEF Registration, HInv
<1>4. answer.status < 400
  BY <1>1 DEF HInv, StepKnows
<1>5. NoFailureAsSuccess' /\ ErrorKeepsServerCode'
  BY <1>1, <1>2, <1>4 DEF NoFailureAsSuccess, ErrorKeepsServerCode
<1> QED
  BY <1>1, <1>3, <1>5, InHand, Constructors, EndInv

LEMMA TextInv == HInv /\ Text => HInv'
<1> SUFFICES ASSUME HInv, Text PROVE HInv'
  OBVIOUS
<1>1. /\ step = "text" /\ step' = "done" /\ used' = TRUE /\ out' = TextOutcome
      /\ UNCHANGED <<answer, method, tries, served, applied, unheard>>
  BY DEF Text, Finish, callVars
<1>2. Client' = Client /\ Kind' = Kind /\ (IsService' <=> IsService)
  BY <1>1, SameMethod
<1>3. /\ out' \in Outcomes /\ out'.is # "value"
      /\ Client = "chat" /\ ~used /\ answer.status \in StatusMap
            /\ HasError(answer.body) => out'.code = ErrorCode(answer.body)
      /\ Client = "wau" /\ Kind = "once" => ~out'.retryable \/ answer.status = 401
  <2>1. answer \in Answers
    BY InHand
  <2> QED
    BY <1>1, <2>1, TextFact, Zenon
<1>4. Registration'
  <2>1. ASSUME method = <<"wau", "registerAgent">>, ~unheard
        PROVE  applied <= 1 /\ (applied = 1 => ~out'.retryable)
    <3>1. Client = "wau" /\ Kind = "once"
      BY <2>1, InHand, Kinds
    <3>2. applied <= 1 /\ (applied = 1 => answer.status \notin {400, 401, 404})
      BY <1>1, <2>1 DEF Registration, HInv
    <3> QED
      BY <1>3, <3>1, <3>2
  <2> QED
    BY <1>1, <2>1 DEF Registration
<1>5. ErrorKeepsServerCode'
  <2> SUFFICES ASSUME HasError(answer.body),
                      \/ Client = "mcp"
                      \/ Client = "ucp" /\ answer.status < 400
                      \/ IsService /\ answer.status \in StatusMap
               PROVE  out'.code = ErrorCode(answer.body)
    BY <1>1, <1>2 DEF ErrorKeepsServerCode, HasError, ErrorCode
  <2>1. Client # "mcp"
    BY <1>1 DEF HInv, StepKnows
  <2>2. ~(Client = "ucp" /\ answer.status < 400)
    BY <1>1, InHand DEF HInv, StepKnows, IsJson, HasError
  <2>3. Client = "chat" /\ ~used /\ answer.status \in StatusMap
    BY <1>1, <2>1, <2>2 DEF HInv, StepKnows
  <2> QED
    BY <1>3, <2>3
<1> QED
  BY <1>1, <1>3, <1>4, <1>5, InHand, FailedInv

LEMMA RepeatInv == HInv /\ Repeat => HInv'
<1> SUFFICES ASSUME HInv, Repeat PROVE HInv'
  OBVIOUS
<1> USE DEF HInv
<1>1. /\ step = "done" /\ Client = "wau" /\ tries < MaxTries
      /\ step' = "ready" /\ out' = Nothing /\ isWauRetryable(out)
      /\ UNCHANGED <<answer, used, method, tries, served,
                     applied, unheard>>
  BY DEF Repeat, callVars
<1>2. Client' = Client /\ Kind' = Kind /\ ~IsService /\ ~IsService'
  BY <1>1, SameMethod, Kinds, InHand
<1>3. HttpTypeOK'
  BY <1>1, Constructors DEF HttpTypeOK
<1>4. Counted' /\ OutAtEnd'
  BY <1>1, <1>2 DEF Counted, OutAtEnd
<1>5. StepKnows'
  BY <1>1, <1>2 DEF StepKnows
<1>6. Registration'
  <2>1. ASSUME method = <<"wau", "registerAgent">>, ~unheard
        PROVE  applied = 0
    <3>1. applied <= 1 /\ (applied = 1 => ~out.retryable)
      BY <1>1, <2>1 DEF Registration
    <3>2. applied # 1
      BY <1>1, <3>1, Zenon DEF isWauRetryable
    <3> QED
      BY <3>1, <3>2 DEF HttpTypeOK
  <2> QED
    BY <1>1, <2>1 DEF Registration
<1>7. NoFailureAsSuccess' /\ ErrorKeepsServerCode'
  BY <1>1, Constructors DEF NoFailureAsSuccess, ErrorKeepsServerCode
<1> QED
  BY <1>3, <1>4, <1>5, <1>6, <1>7

LEMMA StutterInv == HInv /\ UNCHANGED httpVars => HInv'
<1> SUFFICES ASSUME HInv, UNCHANGED httpVars PROVE HInv'
  OBVIOUS
<1> USE DEF HInv, httpVars
<1>1. Client' = Client /\ Kind' = Kind /\ (IsService' <=> IsService)
  BY SameMethod
<1>2. HttpTypeOK' /\ Counted' /\ OutAtEnd'
  BY <1>1 DEF HttpTypeOK, Counted, OutAtEnd
<1>3. StepKnows' /\ Registration'
  BY <1>1 DEF StepKnows, Registration
<1>4. NoFailureAsSuccess' /\ ErrorKeepsServerCode'
  BY <1>1 DEF NoFailureAsSuccess, ErrorKeepsServerCode
<1> QED
  BY <1>2, <1>3, <1>4

LEMMA PageResetInv == HInv /\ PageReset => HInv'
<1> SUFFICES ASSUME HInv, PageReset PROVE HInv'
  OBVIOUS
<1> USE DEF HInv
<1>1. /\ Client = "agents" /\ answer.status < 400
      /\ step = "done" /\ step' = "ready" /\ out' = Nothing /\ tries' = 0
      /\ UNCHANGED <<method, answer, used, served, applied, unheard>>
  BY DEF PageReset
<1>2. Client' = Client /\ Kind' = Kind /\ (IsService' <=> IsService)
  BY <1>1, SameMethod
<1>3. HttpTypeOK'
  <2>1. tries' \in 0 .. MaxTries
    BY <1>1, HttpAssumption
  <2> QED
    BY <1>1, <2>1, Constructors DEF HttpTypeOK
<1>4. Counted' /\ OutAtEnd'
  BY <1>1, <1>2, HttpAssumption DEF Counted, OutAtEnd
<1>5. StepKnows'
  BY <1>1, <1>2 DEF StepKnows
<1>6. Registration'
  BY <1>1, NotRegistering DEF Registration
<1>7. NoFailureAsSuccess' /\ ErrorKeepsServerCode'
  BY <1>1, Constructors DEF NoFailureAsSuccess, ErrorKeepsServerCode
<1> QED
  BY <1>3, <1>4, <1>5, <1>6, <1>7

LEMMA ChatEndInv == HInv /\ ChatEnd => HInv'
<1> SUFFICES ASSUME HInv, ChatEnd PROVE HInv'
  OBVIOUS
<1>1. /\ step = "stream" /\ step' = "done"
      /\ out' \in {Value, Raw, Err("Error", "Parse")}
      /\ UNCHANGED <<answer, used, method, tries, served,
                     applied, unheard>>
  BY DEF ChatEnd, callVars
<1>2. Client = "chat" /\ answer.status < 400
  BY <1>1 DEF HInv, StepKnows
<1>3. /\ Client' = "chat" /\ Kind' # "stream"
      /\ answer'.status < 400 /\ answer'.status \notin StatusMap
  BY <1>1, <1>2, SameMethod, Kinds, InHand, AnswerParts
<1>4. Registration'
  BY <1>1, <1>2, NotRegistering DEF Registration
<1>5. NoFailureAsSuccess' /\ ErrorKeepsServerCode'
  BY <1>3 DEF NoFailureAsSuccess, ErrorKeepsServerCode
<1> QED
  BY <1>1, <1>4, <1>5, InHand, Constructors, EndInv

LEMMA HttpStep == HInv /\ PageAnswered /\ [Next]_vars => HInv'
<1>1. HInv /\ HttpNext => HInv'
  BY ThrowInv, SendInv, ServeInv, UnheardInv, AnsweredInv, McpJsonInv,
     OpenJsonInv, GetAnsweredInv, UcpJsonInv, WauJsonInv, TextInv, RepeatInv
     DEF HttpNext
<1> QED
  BY <1>1, Parts, PageResetInv, ChatEndInv, StutterInv

----------------------------------------------------------------------------
\* The pages of an iteration.

LEMMA PagesInit == Init => PageAnswered
BY DEF Init, PagerInit, PageAnswered

LEMMA PagesStep == HInv /\ PageAnswered /\ [Next]_vars => PageAnswered'
<1> SUFFICES ASSUME HInv, PageAnswered, [Next]_vars PROVE PageAnswered'
  OBVIOUS
<1> USE DEF PageAnswered
<1>1. CASE ~Iterating /\ HttpNext /\ UNCHANGED <<chatVars, pagerVars>>
  <2>1. iter = "asking" /\ iter' = "asking"
    BY <1>1 DEF pagerVars
  <2> QED
    BY <2>1
<1>2. CASE ChatNext /\ UNCHANGED pagerVars
  <2>1. Streaming /\ method' = method /\ iter' = iter
    BY <1>2 DEF ChatNext, Read, EndOfBody, Dropped, Line, Resume, Leave,
                Waiting, httpVars, callVars, pagerVars
  <2>2. iter \notin {"page", "yielded"}
    BY <2>1 DEF Streaming
  <2> QED
    BY <2>1, <2>2 DEF Iterating
<1>3. CASE PagerNext
  <2>1. CASE Ask
    BY <2>1 DEF Ask, pagerVars
  <2>2. CASE List
    <3>1. PICK a \in Answers : ServiceAnswered(a)
      <4>1. Client = "agents" /\ Kind = "fields" /\ Answered
        BY <2>2 DEF List, Iterating, Client, Kind, Api, AgentsService
      <4> QED
        BY <4>1 DEF Answered, McpAnswered, UcpAnswered, WauAnswered, ChatAnswered
    <3>2. /\ step' = "done" /\ out' = ServiceOutcome(a) /\ answer' = a
          /\ method' = method
      BY <3>1 DEF ServiceAnswered, Finish, Headers, callVars
    <3>3. out'.is = "value" => answer'.status < 400
      BY <3>2, ServiceFact
    <3>4. Iterating /\ iter' \in {"page", "thrown"} /\ (iter' = "page" => out'.is = "value")
      BY <2>2 DEF List
    <3> QED
      BY <3>2, <3>3, <3>4 DEF Iterating
  <2>3. CASE ListFails
    BY <2>3 DEF ListFails, Refused, TimerFires, Iterating
  <2>4. CASE Yield \/ NextAgent \/ Register \/ Deregister
    BY <2>4 DEF Yield, NextAgent, Register, Deregister, Iterating, httpVars
  <2>5. CASE PageDone
    BY <2>5 DEF PageDone, Iterating, httpVars
  <2> QED
    BY <1>3, <2>1, <2>2, <2>3, <2>4, <2>5 DEF PagerNext
<1>4. CASE UNCHANGED vars
  BY <1>4 DEF vars, httpVars, pagerVars, Iterating
<1> QED
  BY <1>1, <1>2, <1>3, <1>4 DEF Next

----------------------------------------------------------------------------
\* The body of a chat stream.

\* The buffer holds the beginning of a line that has been cut, so that the
\* line is whole when its end arrives; a terminator is the last line dealt with.
BufferKept ==
    /\ buffer = IF read % 2 = 1 THEN Complete(read) + 1 ELSE 0
    /\ lost = {}

ChatInv == ChatTypeOK /\ BufferKept /\ ChunksOnceInOrder

LEMMA Halves ==
  ASSUME NEW n \in Nat
  PROVE  /\ Complete(n) \in Nat /\ 2 * Complete(n) <= n
         /\ n % 2 = 1 => 2 * Complete(n) + 1 = n
         /\ \A m \in Nat : m <= n => Complete(m) <= Complete(n)
BY DEF Complete

LEMMA ChatInitInv == Init => ChatInv
<1> SUFFICES ASSUME Init PROVE ChatInv
  OBVIOUS
<1> USE DEF Init, ChatInit
<1>1. body \in Seq(Lines) /\ Len(body) \in Nat
  <2>1. PICK n \in Nat : body \in [1 .. n -> Lines]
    BY ChatAssumption DEF Texts
  <2>2. body \in Seq(Lines)
    BY <2>1, SeqDef
  <2> QED
    BY <2>2, LenProperties
<1>2. Complete(0) = 0
  BY DEF Complete
<1>3. ChatTypeOK
  BY <1>1, <1>2 DEF ChatTypeOK
<1>4. BufferKept
  BY DEF BufferKept
<1>5. ChunksOnceInOrder
  BY DEF ChunksOnceInOrder
<1> QED
  BY <1>3, <1>4, <1>5 DEF ChatInv

\* What the steps do once they are known to lose no line.
LEMMA LineStep ==
  ASSUME ChatInv, Line
  PROVE  ChatInv'
<1> DEFINE k == pos + 1
<1> USE DEF ChatInv
<1>1. /\ gen = "reading" /\ pos < Complete(read) /\ pos' = k
      /\ UNCHANGED <<body, size, read, buffer, lost>>
  BY DEF Line
<1>2. /\ body \in Seq(Lines) /\ Len(body) \in Nat /\ size \in 0 .. 2 * Len(body)
      /\ read \in 0 .. size /\ read \in Nat /\ pos \in Nat
      /\ yielded \in Seq(1 .. Len(body))
      /\ Len(yielded) \in Nat /\ DOMAIN yielded = 1 .. Len(yielded)
  BY LenProperties, Halves DEF ChatTypeOK
<1>3. Complete(read) \in Nat /\ 2 * Complete(read) <= read
  BY <1>2, Halves
<1>4. k \in 1 .. Len(body) /\ k \in 0 .. Complete(read)
  BY <1>1, <1>2, <1>3
<1>5. /\ gen' \in {"reading", "yielded", "returned", "parse"}
      /\ \/ body[k] = "chunk" /\ yielded' = Append(yielded, k) /\ gen' = "yielded"
         \/ body[k] \in {"done", "bad"} /\ yielded' = yielded /\ gen' \in {"returned", "parse"}
         \/ body[k] = "other" /\ yielded' = yielded /\ gen' = "reading"
      /\ gen' = "returned" => body[k] = "done"
  <2>1. k \notin lost
    BY DEF BufferKept
  <2> HIDE DEF k
  <2> QED
    BY <1>1, <2>1 DEF Line, k
<1>6. \A i \in DOMAIN yielded : yielded[i] \in 1 .. pos /\ body[yielded[i]] = "chunk"
  BY DEF ChunksOnceInOrder
<1>7. \A i \in 1 .. pos : body[i] \notin {"done", "bad"}
  BY <1>1 DEF ChunksOnceInOrder
<1>8. body[k] # "chunk" => yielded' = yielded
  BY <1>5
<1>9. ASSUME body[k] = "chunk"
       PROVE  /\ yielded' \in Seq(1 .. Len(body))
              /\ DOMAIN yielded' = 1 .. Len(yielded) + 1
              /\ \A i \in 1 .. Len(yielded) : yielded'[i] = yielded[i]
              /\ yielded'[Len(yielded) + 1] = k
  <2>1. yielded' = Append(yielded, k)
    BY <1>5, <1>9
  <2> DEFINE more == Append(yielded, k)
  <2>2. /\ more \in Seq(1 .. Len(body)) /\ Len(more) = Len(yielded) + 1
        /\ \A i \in 1 .. Len(yielded) : more[i] = yielded[i]
        /\ more[Len(yielded) + 1] = k
    BY <1>2, <1>4, AppendProperties
  <2>3. DOMAIN more = 1 .. Len(yielded) + 1
    BY <2>2, LenProperties
  <2> HIDE DEF more
  <2> QED
    BY <2>1, <2>2, <2>3 DEF more
<1>10. 1 .. k = (1 .. pos) \cup {k}
  BY <1>2
<1> HIDE DEF k
<1>11. ChatTypeOK'
  <2>1. yielded' \in Seq(1 .. Len(body))
    BY <1>2, <1>8, <1>9
  <2>2. pos' \in 0 .. Complete(read)
    BY <1>1, <1>4
  <2> QED
    BY <1>1, <1>5, <2>1, <2>2 DEF ChatTypeOK, Complete
<1>12. BufferKept'
  BY <1>1 DEF BufferKept, Complete
<1>13. ChunksOnceInOrder'
  <2>1. \A i, j \in DOMAIN yielded' : i < j => yielded'[i] < yielded'[j]
    <3>1. CASE body[k] # "chunk"
      BY <1>8, <3>1 DEF ChunksOnceInOrder
    <3>2. CASE body[k] = "chunk"
      <4>1. \A i \in 1 .. Len(yielded) : yielded[i] < k /\ yielded[i] \in Nat
        <5>0. DOMAIN yielded = 1 .. Len(yielded)
          BY <1>2
        <5>1. \A i \in 1 .. Len(yielded) : yielded[i] \in 1 .. pos
          BY <1>6, <5>0, Zenon
        <5>2. \A y \in 1 .. pos : y < k /\ y \in Nat
          BY <1>2 DEF k
        <5> QED
          BY <5>1, <5>2
      <4>2. \A i, j \in 1 .. Len(yielded) : i < j => yielded[i] < yielded[j]
        BY <1>2 DEF ChunksOnceInOrder
      <4>3. ASSUME NEW i \in 1 .. Len(yielded) + 1, NEW j \in 1 .. Len(yielded) + 1, i < j
            PROVE  yielded'[i] < yielded'[j]
        <5>1. i \in 1 .. Len(yielded) /\ yielded'[i] = yielded[i]
          BY <1>2, <1>9, <3>2, <4>3
        <5>2. CASE j = Len(yielded) + 1
          BY <1>9, <3>2, <4>1, <5>1, <5>2
        <5>3. CASE j # Len(yielded) + 1
          <6>1. j \in 1 .. Len(yielded)
            BY <1>2, <5>3
          <6> QED
            BY <1>9, <3>2, <4>2, <4>3, <5>1, <6>1
        <5> QED
          BY <5>2, <5>3
      <4> QED
        BY <1>9, <3>2, <4>3
    <3> QED
      BY <3>1, <3>2
  <2>2. {yielded'[i] : i \in DOMAIN yielded'} = {i \in 1 .. k : body[i] = "chunk"}
    <3>1. {yielded[i] : i \in DOMAIN yielded} = {i \in 1 .. pos : body[i] = "chunk"}
      BY DEF ChunksOnceInOrder
    <3>2. CASE body[k] # "chunk"
      BY <1>8, <1>10, <3>1, <3>2
    <3>3. CASE body[k] = "chunk"
      <4>1. 1 .. Len(yielded) + 1 = (DOMAIN yielded) \cup {Len(yielded) + 1}
        BY <1>2
      <4>2. \A i \in DOMAIN yielded : yielded'[i] = yielded[i]
        BY <1>2, <1>9, <3>3
      <4>3. {yielded'[i] : i \in DOMAIN yielded'}
               = {yielded[i] : i \in DOMAIN yielded} \cup {k}
        BY <1>9, <3>3, <4>1, <4>2
      <4> QED
        BY <1>10, <3>1, <3>3, <4>3
    <3> QED
      BY <3>2, <3>3
  <2>3. \A i \in 1 .. k : body[i] \in {"done", "bad"} =>
           i = k /\ gen' \in {"returned", "parse"}
    <3>1. body[k] \in {"done", "bad"} => gen' \in {"returned", "parse"}
      BY <1>5
    <3> QED
      BY <1>7, <1>10, <3>1
  <2>4. gen' = "returned" => k > 0 /\ body[k] = "done"
    BY <1>4, <1>5
  <2> QED
    BY <1>1, <2>1, <2>2, <2>3, <2>4 DEF ChunksOnceInOrder
<1> QED
  BY <1>11, <1>12, <1>13

\* The other steps deal with no line and hand out nothing.
LEMMA OtherChatStep ==
  ASSUME ChatInv, UNCHANGED <<body, size, lost, pos, yielded>>,
         read' \in read .. size, buffer' = Popped(read'),
         \/ gen' = gen
         \/ /\ gen \in {"reading", "yielded"}
            /\ gen' \in {"reading", "returned", "dropped", "left"}
            /\ gen' = "returned" => read' = size /\ pos = Complete(size),
         read' # read => gen = "reading"
  PROVE  ChatInv'
<1> USE DEF ChatInv
<1>1. /\ Len(body) \in Nat /\ size \in Nat /\ size <= 2 * Len(body)
      /\ read \in Nat /\ pos \in 0 .. Complete(read) /\ read' \in Nat
      /\ read <= read' /\ read' <= size
  BY LenProperties DEF ChatTypeOK
<1>2. /\ Complete(read) \in Nat /\ Complete(read') \in Nat
      /\ Complete(read) <= Complete(read')
      /\ 2 * Complete(read') <= read'
      /\ read' % 2 = 1 => 2 * Complete(read') + 1 = read'
  BY <1>1, Halves
<1>3. ChatTypeOK'
  <2>1. pos' \in 0 .. Complete(read')
    BY <1>1, <1>2
  <2>2. buffer' \in 0 .. Len(body)
    <3>1. read' % 2 = 1 => Complete(read') + 1 <= Len(body)
      BY <1>1, <1>2
    <3>2. buffer' = IF read' % 2 = 1 THEN Complete(read') + 1 ELSE 0
      BY DEF Popped
    <3>3. CASE read' % 2 = 1
      BY <1>1, <1>2, <3>1, <3>2, <3>3
    <3>4. CASE read' % 2 # 1
      BY <1>1, <3>2, <3>4
    <3> QED
      BY <3>3, <3>4
  <2>3. read' \in 0 .. size
    BY <1>1
  <2>4. gen' \in {"reading", "yielded", "returned", "parse", "dropped", "left"}
    BY DEF ChatTypeOK
  <2> QED
    BY <2>1, <2>2, <2>3, <2>4 DEF ChatTypeOK, Complete
<1>4. BufferKept'
  BY DEF BufferKept, Popped, Complete
<1>5. ChunksOnceInOrder'
  <2>1. \A k \in 1 .. pos : body[k] \in {"done", "bad"} =>
           k = pos /\ gen' \in {"returned", "parse"}
    BY DEF ChunksOnceInOrder
  <2>2. gen' = "returned" => \/ pos > 0 /\ body[pos] = "done"
                             \/ read' = size /\ pos = Complete(size)
    BY DEF ChunksOnceInOrder
  <2> QED
    BY <2>1, <2>2 DEF ChunksOnceInOrder, Complete
<1> QED
  BY <1>3, <1>4, <1>5

LEMMA ChatStep == ChatInv /\ [Next]_vars => ChatInv'
<1> SUFFICES ASSUME ChatInv, [Next]_vars PROVE ChatInv'
  OBVIOUS
<1>1. /\ read \in Nat /\ size \in Nat /\ read \in read .. size
      /\ buffer = Popped(read) /\ pos \in 0 .. Complete(read)
  BY LenProperties DEF ChatInv, ChatTypeOK, BufferKept, Popped
<1>2. CASE UNCHANGED chatVars
  BY <1>1, <1>2, OtherChatStep DEF chatVars, Popped, Complete
<1>3. CASE Read
  <2>1. PICK n \in (read + 1) .. size :
          /\ read' = n
          /\ lost' = IF read % 2 = 1 /\ n \div 2 > read \div 2
                        /\ buffer # Complete(read) + 1
                     THEN lost \cup {Complete(read) + 1} ELSE lost
          /\ buffer' = Popped(n)
    BY <1>3 DEF Read
  <2>2. lost' = lost
    BY <2>1 DEF ChatInv, BufferKept
  <2>3. gen = "reading" /\ UNCHANGED <<body, size, pos, yielded, gen>>
    BY <1>3 DEF Read, Waiting
  <2>4. read' \in read .. size
    BY <1>1, <2>1
  <2> QED
    BY <2>1, <2>2, <2>3, <2>4, OtherChatStep
<1>4. CASE EndOfBody \/ Dropped \/ Resume \/ Leave
  <2>1. /\ UNCHANGED <<body, size, read, buffer, lost, pos, yielded>>
        /\ gen \in {"reading", "yielded"}
        /\ gen' \in {"reading", "returned", "dropped", "left"}
        /\ gen' = "returned" => read = size /\ pos = Complete(size)
    BY <1>4 DEF EndOfBody, Dropped, Resume, Leave, Waiting, AtEnd
  <2>2. buffer' = Popped(read') /\ read' \in read .. size
    BY <1>1, <2>1
  <2> QED
    BY <2>1, <2>2, OtherChatStep
<1>5. CASE Line
  BY <1>5, LineStep
<1> QED
  BY <1>2, <1>3, <1>4, <1>5 DEF Next, vars, ChatNext, PagerNext, Ask, List, ListFails,
     Yield, NextAgent, PageDone, Register, Deregister

----------------------------------------------------------------------------
(* The iteration over the agents.  Places move up as agents leave, so the  *)
(* invariant speaks of the places that the pages read so far cover.        *)

Covered == (IF iter \in {"asking", "thrown"} THEN page - 1 ELSE page) * Clamp(pageSize)

Seen == Range(got) \cup response.agents

\* Who was there at the start, is in a covered place, and was in no page.
PassedOver == {a \in registry : a <= atStart /\ Position(a) <= Covered /\ a \notin Seen}

\* Each of them slipped into its place when somebody else left.
HiddenByLeavers == sound => Cardinality(PassedOver) <= Cardinality(gone)

\* Nobody is in two pages: who was in one keeps a covered place.
NobodyTwice == IsInjective(got) /\ Range(got) \cap response.agents = {}
SeenCovered == \A a \in registry : a \in Seen => Position(a) <= Covered

\* The last page covers everybody who was there at the start.
LastPageCovers ==
    sound /\ iter \notin {"asking", "thrown"} /\ LastPage =>
        \A a \in registry : a <= atStart => Position(a) <= Covered

PageUsedUp ==
    /\ iter \in {"asking", "returned"} => response.agents = {}
    /\ iter = "returned" => LastPage

PagerInv ==
    /\ PagerTypeOK
    /\ HiddenByLeavers
    /\ NobodyTwice
    /\ SeenCovered
    /\ LastPageCovers
    /\ PageUsedUp

----------------------------------------------------------------------------
\* The registry is finite and an agent's place is a number in it.
LEMMA Places ==
  ASSUME PagerTypeOK
  PROVE  /\ registry \subseteq 1 .. joined /\ joined \in Nat /\ atStart \in Nat
         /\ IsFiniteSet(registry) /\ Cardinality(registry) \in Nat
         /\ IsFiniteSet(gone) /\ Cardinality(gone) \in Nat
         /\ \A a : Position(a) \in Nat /\ Position(a) <= Cardinality(registry)
<1>1. joined \in Nat /\ atStart \in Nat /\ gone \subseteq 1 .. joined
  BY PagerAssumption DEF PagerTypeOK
<1>2. IsFiniteSet(1 .. joined)
  BY <1>1, FS_Interval
<1>3. registry \subseteq 1 .. joined
  BY DEF registry
<1>4. IsFiniteSet(registry) /\ Cardinality(registry) \in Nat
  BY <1>2, <1>3, FS_Subset, FS_CardinalityType
<1>5. IsFiniteSet(gone) /\ Cardinality(gone) \in Nat
  BY <1>1, <1>2, FS_Subset, FS_CardinalityType
<1>6. ASSUME NEW a
      PROVE  Position(a) \in Nat /\ Position(a) <= Cardinality(registry)
  <2>1. {b \in registry : b <= a} \in SUBSET registry
    OBVIOUS
  <2> QED
    BY <1>4, <2>1, FS_Subset, FS_CardinalityType DEF Position
<1> QED
  BY <1>1, <1>3, <1>4, <1>5, <1>6

\* No two agents share a place.
LEMMA PlacesDiffer ==
  ASSUME PagerTypeOK, NEW a \in registry, NEW b \in registry, Position(a) = Position(b)
  PROVE  a = b
<1>1. registry \subseteq Nat
  BY Places
<1>2. ASSUME NEW x \in registry, NEW y \in registry, x < y
      PROVE  Position(x) # Position(y)
  <2> DEFINE X == {z \in registry : z <= x}
             Y == {z \in registry : z <= y}
  <2>1. X \subseteq Y /\ y \in Y /\ y \notin X
    <3>1. x \in Nat /\ y \in Nat /\ x < y
      BY <1>1, <1>2
    <3>2. \A z \in registry : z \in Nat
      BY <1>1
    <3>3. \A z \in registry : z <= x => z <= y
      BY <3>1, <3>2
    <3>4. X \subseteq Y
      BY <3>3
    <3>5. y \in Y /\ y \notin X
      BY <3>1
    <3> QED
      BY <3>4, <3>5
  <2>2. IsFiniteSet(Y)
    <3>1. Y \in SUBSET registry
      OBVIOUS
    <3> QED
      BY <3>1, Places, FS_Subset
  <2>3. Cardinality(X) # Cardinality(Y)
    <3> HIDE DEF X, Y
    <3>1. X \in SUBSET Y /\ X # Y
      BY <2>1
    <3> QED
      BY <2>2, <3>1, FS_Subset
  <2> QED
    BY <2>3 DEF Position
<1>3. ~(a < b) /\ ~(b < a)
  BY <1>2
<1> QED
  BY <1>1, <1>3

\* One agent leaves: those behind it move up one place.
LEMMA LeaverPlaces ==
  ASSUME PagerTypeOK, NEW b \in registry, gone' = gone \cup {b}, joined' = joined
  PROVE  /\ registry' = registry \ {b}
         /\ Cardinality(gone') = Cardinality(gone) + 1
         /\ \A a \in registry' :
              Position(a)' = IF b < a THEN Position(a) - 1 ELSE Position(a)
<1>1. registry' = registry \ {b} /\ b \notin gone
  BY DEF registry
<1>2. Cardinality(gone') = Cardinality(gone) + 1
  BY <1>1, Places, FS_AddElement
<1>3. ASSUME NEW a \in registry'
      PROVE  Position(a)' = IF b < a THEN Position(a) - 1 ELSE Position(a)
  <2> DEFINE S == {x \in registry : x <= a}
  <2>1. {x \in registry' : x <= a} = S \ {b}
    BY <1>1
  <2>2. b \in S <=> b < a
    BY <1>1, <1>3, Places
  <2>3. IsFiniteSet(S)
    <3>1. S \in SUBSET registry
      OBVIOUS
    <3> QED
      BY <3>1, Places, FS_Subset
  <2>4. Position(a) = Cardinality(S)
    BY DEF Position
  <2>5. Position(a)' = Cardinality(S \ {b})
    BY <2>1 DEF Position
  <2> HIDE DEF S
  <2> QED
    BY <2>2, <2>3, <2>4, <2>5, FS_RemoveElement
<1> QED
  BY <1>1, <1>2, <1>3

\* One agent registers: it takes the last place.
LEMMA JoinerPlaces ==
  ASSUME PagerTypeOK, joined' = joined + 1, gone' = gone
  PROVE  /\ registry' = registry \cup {joined + 1}
         /\ \A a \in registry : Position(a)' = Position(a)
<1>1. registry' = registry \cup {joined + 1}
  BY Places DEF registry, PagerTypeOK
<1>2. ASSUME NEW a \in registry
      PROVE  Position(a)' = Position(a)
  <2>1. {x \in registry' : x <= a} = {x \in registry : x <= a}
    BY <1>1, Places
  <2> QED
    BY <2>1 DEF Position
<1> QED
  BY <1>1, <1>2

\* Pages of n agents, as many as totalPages says, hold the m agents.
LEMMA PagesHold ==
  ASSUME NEW n \in Nat \ {0}, NEW m \in Nat, NEW p \in Nat, p >= (m + n - 1) \div n
  PROVE  m <= p * n
<1> DEFINE q == (m + n - 1) \div n
           r == (m + n - 1) % n
<1>1. q \in Int /\ r \in 0 .. (n - 1) /\ m + n - 1 = n * q + r
  OBVIOUS
<1>2. q <= p
  OBVIOUS
<1> HIDE DEF q, r
<1>3. n * q <= n * p
  BY <1>1, <1>2
<1>4. n * p = p * n /\ n * p \in Nat /\ n * q \in Int
  BY <1>1
<1> QED
  BY <1>1, <1>3, <1>4

LEMMA CoveredType ==
  ASSUME PagerTypeOK
  PROVE  /\ Clamp(pageSize) \in Nat \ {0} /\ Covered \in Nat
         /\ (page - 1) * Clamp(pageSize) \in Nat /\ page * Clamp(pageSize) \in Nat
         /\ page * Clamp(pageSize) = (page - 1) * Clamp(pageSize) + Clamp(pageSize)
<1>1. Clamp(pageSize) \in Nat \ {0}
  BY PagerAssumption DEF Clamp, PagerTypeOK
<1>2. page \in Nat /\ page - 1 \in Nat
  BY DEF PagerTypeOK
<1> DEFINE n == Clamp(pageSize)
<1>3. n \in Nat /\ (page - 1) * n \in Nat /\ page * n \in Nat
  <2> HIDE DEF n
  <2>1. n \in Nat
    BY <1>1 DEF n
  <2> QED
    BY <1>2, <2>1
<1>4. page * n = (page - 1) * n + n
  <2> HIDE DEF n
  <2> QED
    BY <1>2, <1>3
<1> QED
  BY <1>1, <1>3, <1>4 DEF Covered

\* A set that holds one element at most adds at most one.
LEMMA AtMostOneMore ==
  ASSUME NEW S, IsFiniteSet(S), NEW T, \A x, y \in T : x = y
  PROVE  IsFiniteSet(S \cup T) /\ Cardinality(S \cup T) <= Cardinality(S) + 1
<1>1. Cardinality(S) \in Nat
  BY FS_CardinalityType
<1> DEFINE U == S \cup T
<1>2. ASSUME T = {}
      PROVE  IsFiniteSet(U) /\ Cardinality(U) <= Cardinality(S) + 1
  <2>1. U = S
    BY <1>2
  <2> HIDE DEF U
  <2> QED
    BY <1>1, <2>1
<1>3. ASSUME NEW x \in T
      PROVE  IsFiniteSet(U) /\ Cardinality(U) <= Cardinality(S) + 1
  <2>1. U = S \cup {x}
    OBVIOUS
  <2> HIDE DEF U
  <2>2. /\ IsFiniteSet(U)
        /\ Cardinality(U) = Cardinality(S) \/ Cardinality(U) = Cardinality(S) + 1
    BY <2>1, FS_AddElement
  <2> QED
    BY <1>1, <2>2
<1> QED
  BY <1>2, <1>3

\* What was passed over is part of the registry.
LEMMA PassedOverType ==
  ASSUME PagerTypeOK
  PROVE  IsFiniteSet(PassedOver) /\ Cardinality(PassedOver) \in Nat
<1>1. PassedOver \in SUBSET registry
  BY DEF PassedOver
<1> QED
  BY <1>1, Places, FS_Subset, FS_CardinalityType
----------------------------------------------------------------------------
\* The iteration starts with nothing passed over.
LEMMA PagerInitInv == PagerInit => PagerInv
<1> SUFFICES ASSUME PagerInit PROVE PagerInv
  OBVIOUS
<1> USE PagerAssumption DEF PagerInit
<1>1. PagerTypeOK
  <2>1. pageSize \in Nat \ {0}
    OBVIOUS
  <2>2. response \in [agents : SUBSET (1 .. joined), totalPages : Nat]
    OBVIOUS
  <2>3. got \in Seq(1 .. joined)
    OBVIOUS
  <2> QED
    BY <2>1, <2>2, <2>3 DEF PagerTypeOK
<1>2. Covered = 0
  <2>1. Clamp(pageSize) \in Nat
    BY <1>1, CoveredType
  <2> QED
    BY <2>1 DEF Covered
<1>3. PassedOver = {}
  <2>1. \A a \in registry : ~(Position(a) <= 0)
    <3> SUFFICES ASSUME NEW a \in registry, Position(a) <= 0 PROVE FALSE
      OBVIOUS
    <3>1. a \in Nat /\ Position(a) = 0
      BY <1>1, Places
    <3>2. {b \in registry : b <= a} \in SUBSET registry /\ a \in {b \in registry : b <= a}
      BY <3>1
    <3> QED
      BY <1>1, <3>1, <3>2, Places, FS_Subset, FS_EmptySet DEF Position
  <2> QED
    BY <1>2, <2>1 DEF PassedOver
<1>4. HiddenByLeavers
  BY <1>3, FS_EmptySet DEF HiddenByLeavers
<1>5. Range(got) = {} /\ IsInjective(got)
  BY DEF Range, IsInjective
<1> QED
  BY <1>1, <1>4, <1>5 DEF PagerInv, NobodyTwice, SeenCovered, Seen, LastPageCovers, PageUsedUp

\* A page arrives: it has the agents of the next places, and of no others.
LEMMA ListInv ==
  ASSUME PagerInv, List
  PROVE  PagerInv'
<1> DEFINE n == Clamp(pageSize)
<1>1. /\ iter = "asking" /\ response.agents = {}
      /\ UNCHANGED <<atStart, joined, gone, page, pageSize, got>>
  BY DEF List, PagerInv, PageUsedUp
<1>2. /\ registry' = registry /\ Clamp(pageSize)' = n
      /\ \A a : Position(a)' = Position(a)
  BY <1>1 DEF registry, Position, Clamp
<1>3. Covered = (page - 1) * n
  BY <1>1 DEF Covered
<1>4. CASE iter' = "thrown"
  <2>1. UNCHANGED <<response, sound>>
    BY <1>4 DEF List
  <2>2. Covered' = Covered
    BY <1>1, <1>2, <1>3, <1>4 DEF Covered
  <2>3. PassedOver' = PassedOver /\ Seen' = Seen
    BY <1>1, <1>2, <2>1, <2>2 DEF PassedOver, Seen
  <2> QED
    BY <1>1, <1>2, <1>4, <2>1, <2>2, <2>3 DEF PagerInv, PagerTypeOK, HiddenByLeavers, NobodyTwice,
       SeenCovered, LastPageCovers, PageUsedUp
<1>5. CASE iter' = "page" /\ response' = [agents |-> {}, totalPages |-> 1] /\ ~sound'
  <2>1. Seen' = Seen
    BY <1>1, <1>5 DEF Seen
  <2>2. Covered' = page * n /\ Covered <= Covered'
    <3>1. Covered' = page * n
      BY <1>1, <1>2, <1>5 DEF Covered
    <3> HIDE DEF n
    <3> QED
      BY <1>3, <3>1, CoveredType DEF PagerInv, n
  <2>3. SeenCovered'
    BY <1>2, <2>1, <2>2, Places, CoveredType DEF PagerInv, SeenCovered
  <2>4. PagerTypeOK'
    <3>1. response' \in [agents : SUBSET (1 .. joined), totalPages : Nat]
      BY <1>5
    <3>2. sound' \in BOOLEAN /\ PagerTypeOK
      BY DEF List, PagerInv, PagerTypeOK
    <3> QED
      BY <1>1, <1>5, <3>1, <3>2 DEF PagerTypeOK
  <2> QED
    BY <1>1, <1>5, <2>3, <2>4 DEF PagerInv, HiddenByLeavers, NobodyTwice, LastPageCovers, PageUsedUp
<1>6. CASE iter' = "page" /\ response' = ServerPage(page, n) /\ (sound' => sound)
  <2>1. /\ response'.agents =
              {a \in registry : (page - 1) * n < Position(a) /\ Position(a) <= page * n}
        /\ response'.totalPages = (Cardinality(registry) + n - 1) \div n
    BY <1>6 DEF ServerPage
  <2>2. Covered' = page * n
    BY <1>1, <1>2, <1>6 DEF Covered
  <2> HIDE DEF n
  <2>3. /\ n \in Nat \ {0} /\ page * n = (page - 1) * n + n
        /\ page * n \in Nat /\ (page - 1) * n \in Nat /\ page \in Nat \ {0}
    BY CoveredType DEF PagerInv, PagerTypeOK, n
  <2>4. \A a \in registry : Position(a) \in Nat /\ Position(a) <= Cardinality(registry)
    BY Places DEF PagerInv
  <2>5. \A a \in registry : a \in response'.agents <=> Covered < Position(a) /\ Position(a) <= Covered'
    BY <1>3, <2>1, <2>2
  <2>6. PagerTypeOK'
    <3>1. response'.totalPages \in Nat
      BY <2>1, <2>3, Places DEF PagerInv
    <3>2. response'.agents \subseteq 1 .. joined
      BY <2>1, Places DEF PagerInv
    <3>3. response' = [agents |-> response'.agents, totalPages |-> response'.totalPages]
      BY <1>6 DEF ServerPage
    <3>4. response' \in [agents : SUBSET (1 .. joined), totalPages : Nat]
      BY <3>1, <3>2, <3>3
    <3>5. sound' \in BOOLEAN
      BY DEF List, PagerInv, PagerTypeOK
    <3>6. PagerTypeOK
      BY DEF PagerInv
    <3> QED
      BY <1>1, <1>6, <3>4, <3>5, <3>6 DEF PagerTypeOK
  <2>7. Seen' = Seen \cup response'.agents
    BY <1>1 DEF Seen
  <2>8. PassedOver' \subseteq PassedOver
    BY <1>1, <1>2, <1>3, <2>2, <2>3, <2>4, <2>5, <2>7 DEF PassedOver
  <2>9. HiddenByLeavers'
    <3>1. Cardinality(PassedOver') <= Cardinality(PassedOver)
      BY <2>8, PassedOverType, FS_Subset DEF PagerInv
    <3>2. Cardinality(PassedOver') \in Nat /\ Cardinality(PassedOver) \in Nat
      BY <2>8, PassedOverType, FS_Subset, FS_CardinalityType DEF PagerInv
    <3>3. Cardinality(gone) \in Nat
      BY Places DEF PagerInv
    <3> QED
      BY <1>1, <1>6, <3>1, <3>2, <3>3 DEF PagerInv, HiddenByLeavers
  <2>10. NobodyTwice'
    <3>1. Range(got) \cap response'.agents = {}
      <4> SUFFICES ASSUME NEW a \in Range(got), a \in response'.agents PROVE FALSE
        OBVIOUS
      <4>1. a \in registry /\ a \in Seen
        BY <2>1 DEF Seen
      <4>2. Position(a) <= Covered /\ Covered < Position(a)
        BY <2>5, <4>1 DEF PagerInv, SeenCovered
      <4> QED
        BY <1>3, <2>3, <2>4, <4>1, <4>2
    <3> QED
      BY <1>1, <3>1 DEF PagerInv, NobodyTwice
  <2>11. SeenCovered'
    <3> SUFFICES ASSUME NEW a \in registry, a \in Seen' PROVE Position(a) <= Covered'
      BY <1>2 DEF SeenCovered
    <3>1. CASE a \in Seen
      BY <1>3, <2>2, <2>3, <2>4, <3>1 DEF PagerInv, SeenCovered
    <3>2. CASE a \in response'.agents
      BY <2>5, <3>2
    <3> QED
      BY <2>7, <3>1, <3>2
  <2>12. LastPageCovers'
    <3> SUFFICES ASSUME page >= response'.totalPages, NEW a \in registry
                 PROVE  Position(a) <= page * n
      BY <1>1, <1>2, <2>2 DEF LastPageCovers, LastPage
    <3>1. Cardinality(registry) \in Nat
      BY Places DEF PagerInv
    <3>2. Cardinality(registry) <= page * n
      BY <2>1, <2>3, <3>1, PagesHold
    <3> QED
      BY <2>3, <2>4, <3>1, <3>2
  <2> QED
    BY <1>6, <2>6, <2>9, <2>10, <2>11, <2>12 DEF PagerInv, PageUsedUp
<1> QED
  BY <1>4, <1>5, <1>6 DEF List, PagerInv, PagerTypeOK

\* An agent of the page is yielded: it stays among those seen.
LEMMA YieldInv ==
  ASSUME PagerInv, Yield
  PROVE  PagerInv'
<1> PICK a \in response.agents :
      /\ got' = Append(got, a)
      /\ response' = [response EXCEPT !.agents = @ \ {a}]
  BY DEF Yield
<1>1. /\ iter = "page" /\ iter' = "yielded"
      /\ UNCHANGED <<atStart, joined, gone, page, pageSize, sound>>
  BY DEF Yield
<1>2. /\ response \in [agents : SUBSET (1 .. joined), totalPages : Nat]
      /\ got \in Seq(1 .. joined) /\ a \in 1 .. joined
  BY DEF PagerInv, PagerTypeOK
<1>3. /\ response'.agents = response.agents \ {a}
      /\ response'.totalPages = response.totalPages
      /\ response' \in [agents : SUBSET (1 .. joined), totalPages : Nat]
  BY <1>2
<1>4. /\ got' \in Seq(1 .. joined) /\ Len(got) \in Nat
      /\ DOMAIN got = 1 .. Len(got) /\ DOMAIN got' = 1 .. (Len(got) + 1)
      /\ \A i \in 1 .. Len(got) : got'[i] = got[i]
      /\ got'[Len(got) + 1] = a
  BY <1>2
<1>5. Range(got') = Range(got) \cup {a}
  <2>1. Range(got') \subseteq Range(got) \cup {a}
    BY <1>4 DEF Range
  <2>2. Range(got) \subseteq Range(got')
    BY <1>4 DEF Range
  <2>3. a \in Range(got')
    BY <1>4 DEF Range
  <2> QED
    BY <2>1, <2>2, <2>3
<1>6. NobodyTwice'
  <2>1. a \notin Range(got) /\ IsInjective(got)
    BY DEF PagerInv, NobodyTwice
  <2>2. \A i \in 1 .. Len(got) : got[i] # a
    BY <1>4, <2>1 DEF Range
  <2>3. \A i, j \in 1 .. Len(got) : got[i] = got[j] => i = j
    BY <1>4, <2>1 DEF IsInjective
  <2>4. IsInjective(got')
    BY <1>4, <2>2, <2>3 DEF IsInjective
  <2>5. Range(got') \cap response'.agents = {}
    BY <1>3, <1>5 DEF PagerInv, NobodyTwice
  <2> QED
    BY <2>4, <2>5 DEF NobodyTwice
<1>7. Seen' = Seen
  BY <1>3, <1>5 DEF Seen
<1>8. /\ registry' = registry /\ Covered' = Covered
      /\ \A x : Position(x)' = Position(x)
  BY <1>1 DEF registry, Position, Covered, Clamp
<1>9. PassedOver' = PassedOver
  BY <1>1, <1>7, <1>8 DEF PassedOver
<1>10. PagerTypeOK'
  BY <1>1, <1>3, <1>4 DEF PagerInv, PagerTypeOK
<1>11. LastPageCovers'
  BY <1>1, <1>3, <1>8 DEF PagerInv, LastPageCovers, LastPage
<1> QED
  BY <1>1, <1>6, <1>7, <1>8, <1>9, <1>10, <1>11
     DEF PagerInv, HiddenByLeavers, SeenCovered, PageUsedUp

\* The loop goes on, or the page is used up: what the pages cover and who was
\* seen stay the same.
LEMMA MoveOnInv ==
  ASSUME PagerInv, NextAgent \/ PageDone
  PROVE  PagerInv'
<1>1. UNCHANGED <<atStart, joined, gone, pageSize, response, got, sound>>
  BY DEF NextAgent, PageDone
<1>2. /\ registry' = registry /\ Clamp(pageSize)' = Clamp(pageSize) /\ Seen' = Seen
      /\ \A x : Position(x)' = Position(x)
  BY <1>1 DEF registry, Position, Clamp, Seen
<1>3. iter \in {"page", "yielded"} /\ page \in Nat \ {0}
  BY DEF NextAgent, PageDone, PagerInv, PagerTypeOK
<1>4. /\ Covered' = Covered /\ page' \in Nat \ {0}
      /\ iter' \in {"asking", "page", "left", "returned"}
      /\ iter' # "asking" => page' = page
  <2>1. CASE iter' # "asking" /\ page' = page
    BY <1>2, <1>3, <2>1 DEF Covered, NextAgent, PageDone
  <2>2. CASE iter' = "asking" /\ page' = page + 1
    <3>1. page' - 1 = page
      BY <1>3, <2>2
    <3> QED
      BY <1>2, <1>3, <2>2, <3>1 DEF Covered
  <2> QED
    BY <2>1, <2>2 DEF NextAgent, PageDone
<1>5. PassedOver' = PassedOver
  BY <1>1, <1>2, <1>4 DEF PassedOver
<1>6. PagerTypeOK'
  BY <1>1, <1>4 DEF PagerInv, PagerTypeOK
<1>7. NobodyTwice' /\ SeenCovered' /\ HiddenByLeavers'
  BY <1>1, <1>2, <1>4, <1>5 DEF PagerInv, NobodyTwice, SeenCovered, HiddenByLeavers
<1>8. LastPageCovers'
  BY <1>1, <1>2, <1>3, <1>4 DEF PagerInv, LastPageCovers, LastPage
<1>9. PageUsedUp'
  BY <1>1, <1>4 DEF PageDone, NextAgent, PageUsedUp, LastPage
<1> QED
  BY <1>6, <1>7, <1>8, <1>9 DEF PagerInv

\* The list() call is under way, or throws.
LEMMA NoPageInv ==
  ASSUME PagerInv, Ask \/ ListFails \/ UNCHANGED pagerVars
  PROVE  PagerInv'
<1>1. UNCHANGED <<atStart, joined, gone, page, pageSize, response, got, sound>>
  BY DEF Ask, ListFails, pagerVars
<1>2. iter' = iter \/ (iter = "asking" /\ iter' = "thrown")
  BY DEF Ask, ListFails, pagerVars
<1>3. /\ registry' = registry /\ Covered' = Covered /\ Seen' = Seen
      /\ \A x : Position(x)' = Position(x)
  BY <1>1, <1>2 DEF registry, Position, Covered, Clamp, Seen
<1>4. PassedOver' = PassedOver
  BY <1>1, <1>3 DEF PassedOver
<1>5. PagerTypeOK'
  BY <1>1, <1>2 DEF PagerInv, PagerTypeOK
<1> QED
  BY <1>1, <1>2, <1>3, <1>4, <1>5 DEF PagerInv, HiddenByLeavers, NobodyTwice, SeenCovered,
     LastPageCovers, LastPage, PageUsedUp

\* An agent registers: it was not there at the start.
LEMMA RegisterInv ==
  ASSUME PagerInv, Register
  PROVE  PagerInv'
<1>1. /\ joined' = joined + 1 /\ joined < MaxAgents
      /\ UNCHANGED <<atStart, gone, page, pageSize, response, got, sound, iter>>
  BY DEF Register
<1>2. /\ registry' = registry \cup {joined + 1}
      /\ \A a \in registry : Position(a)' = Position(a)
  BY <1>1, JoinerPlaces DEF PagerInv
<1>3. /\ joined \in Nat /\ atStart \in Nat /\ atStart <= joined
      /\ registry \subseteq 1 .. joined
  BY Places DEF PagerInv, PagerTypeOK
<1>4. Covered' = Covered /\ Seen' = Seen
  BY <1>1 DEF Covered, Clamp, Seen
<1>5. PagerTypeOK'
  <2>1. 1 .. joined \subseteq 1 .. joined'
    BY <1>1, <1>3
  <2>2. /\ response \in [agents : SUBSET (1 .. joined), totalPages : Nat]
        /\ got \in Seq(1 .. joined) /\ gone \subseteq 1 .. joined
    BY DEF PagerInv, PagerTypeOK
  <2>3. response' \in [agents : SUBSET (1 .. joined'), totalPages : Nat]
    BY <1>1, <2>1, <2>2
  <2>4. got' \in Seq(1 .. joined')
    BY <1>1, <2>1, <2>2, SeqMonotonic
  <2>5. joined' \in 0 .. MaxAgents /\ atStart' \in 0 .. joined' /\ gone' \subseteq 1 .. joined'
    BY <1>1, <1>3, <2>1, <2>2, PagerAssumption
  <2> QED
    BY <1>1, <2>3, <2>4, <2>5 DEF PagerInv, PagerTypeOK
<1>6. joined + 1 \notin Seen /\ ~(joined + 1 <= atStart)
  <2>1. Seen \subseteq 1 .. joined
    BY DEF Seen, Range, PagerInv, PagerTypeOK
  <2> QED
    BY <1>3, <2>1
<1>7. PassedOver' = PassedOver
  BY <1>1, <1>2, <1>4, <1>6 DEF PassedOver
<1>8. SeenCovered'
  BY <1>2, <1>4, <1>6 DEF PagerInv, SeenCovered
<1>9. LastPageCovers'
  BY <1>1, <1>2, <1>4, <1>6 DEF PagerInv, LastPageCovers, LastPage
<1> QED
  BY <1>1, <1>5, <1>7, <1>8, <1>9 DEF PagerInv, HiddenByLeavers, NobodyTwice, PageUsedUp, LastPage

\* An agent leaves: at most one other slips into a place already covered.
LEMMA DeregisterInv ==
  ASSUME PagerInv, Deregister
  PROVE  PagerInv'
<1> PICK b \in registry : gone' = gone \cup {b}
  BY DEF Deregister, registry
<1>1. UNCHANGED <<atStart, joined, page, pageSize, response, got, sound, iter>>
  BY DEF Deregister
<1>2. /\ registry' = registry \ {b}
      /\ Cardinality(gone') = Cardinality(gone) + 1
      /\ \A a \in registry' : Position(a)' = IF b < a THEN Position(a) - 1 ELSE Position(a)
  BY <1>1, LeaverPlaces DEF PagerInv
<1>3. /\ \A a \in registry : Position(a) \in Nat
      /\ Cardinality(gone) \in Nat /\ Covered \in Nat
  BY Places, CoveredType DEF PagerInv
<1>4. Covered' = Covered /\ Seen' = Seen
  BY <1>1 DEF Covered, Clamp, Seen
<1>5. PagerTypeOK'
  <2>1. gone' \subseteq 1 .. joined'
    BY <1>1, Places DEF PagerInv, PagerTypeOK
  <2> QED
    BY <1>1, <2>1 DEF PagerInv, PagerTypeOK
<1>6. HiddenByLeavers'
  <2> DEFINE Slipped == {a \in registry : Position(a) = Covered + 1}
  <2>1. PassedOver' \subseteq PassedOver \cup Slipped
    <3> SUFFICES ASSUME NEW a \in registry, a # b, a <= atStart, a \notin Seen,
                        Position(a)' <= Covered
                 PROVE  a \in PassedOver \/ Position(a) = Covered + 1
      BY <1>1, <1>2, <1>4 DEF PassedOver
    <3>1. Position(a) <= Covered \/ Position(a) = Covered + 1
      BY <1>2, <1>3
    <3> QED
      BY <3>1 DEF PassedOver
  <2>2. \A x, y \in Slipped : x = y
    BY PlacesDiffer DEF PagerInv
  <2>3. IsFiniteSet(PassedOver) /\ Cardinality(PassedOver) \in Nat
    BY PassedOverType DEF PagerInv
  <2> HIDE DEF Slipped
  <2>4. IsFiniteSet(PassedOver \cup Slipped)
        /\ Cardinality(PassedOver \cup Slipped) <= Cardinality(PassedOver) + 1
    BY <2>2, <2>3, AtMostOneMore
  <2>5. /\ Cardinality(PassedOver') <= Cardinality(PassedOver \cup Slipped)
        /\ Cardinality(PassedOver') \in Nat /\ Cardinality(PassedOver \cup Slipped) \in Nat
    BY <2>1, <2>4, FS_Subset, FS_CardinalityType
  <2> QED
    BY <1>1, <1>2, <1>3, <2>3, <2>4, <2>5 DEF PagerInv, HiddenByLeavers
<1>7. SeenCovered'
  <2> SUFFICES ASSUME NEW a \in registry, a # b, a \in Seen PROVE Position(a)' <= Covered
    BY <1>2, <1>4 DEF SeenCovered
  <2>1. Position(a) <= Covered
    BY DEF PagerInv, SeenCovered
  <2> QED
    BY <1>2, <1>3, <2>1
<1>8. LastPageCovers'
  <2> SUFFICES ASSUME LastPageCovers!1, NEW a \in registry, a # b, a <= atStart
               PROVE  Position(a)' <= Covered
    BY <1>1, <1>2, <1>4 DEF LastPageCovers, LastPage
  <2>1. Position(a) <= Covered
    BY DEF PagerInv, LastPageCovers
  <2> QED
    BY <1>2, <1>3, <2>1
<1> QED
  BY <1>1, <1>5, <1>6, <1>7, <1>8 DEF PagerInv, NobodyTwice, PageUsedUp, LastPage

\* Every step of the calls keeps the iteration's invariant.
LEMMA PagerStep == PagerInv /\ [Next]_vars => PagerInv'
  BY ListInv, YieldInv, MoveOnInv, NoPageInv, RegisterInv, DeregisterInv
     DEF Next, PagerNext, vars

\* The invariant of the iteration (agents.ts:77-90), whatever the registry does
\* between two pages.
THEOREM PagerInvariance == Spec => []PagerInv
<1>1. Init => PagerInv
  BY PagerInitInv DEF Init
<1> QED
  BY <1>1, PagerStep, PTL DEF Spec

----------------------------------------------------------------------------
(* The iteration asks for no page behind the agents that have registered.  *)

\* The pages before the last one announced do not hold all agents.
AnnouncedBounded ==
  response.totalPages > 1 => (response.totalPages - 1) * Clamp(pageSize) < joined

\* agents.ts:80-89: the pages before the one asked for have room for fewer agents
\* than have registered by now, so the registrations bound the number of list()
\* calls, however the registry changes under the iteration.
PagesBounded == page > 1 => (page - 1) * Clamp(pageSize) < joined

\* Rounding up, all pages but the last hold less than everything.
LEMMA LastPageNeeded ==
  ASSUME NEW n \in Nat \ {0}, NEW m \in Nat
  PROVE  /\ (m + n - 1) \div n \in Nat
         /\ ((m + n - 1) \div n > 1 => ((m + n - 1) \div n - 1) * n < m)
<1> DEFINE q == (m + n - 1) \div n
           r == (m + n - 1) % n
<1>1. q \in Nat /\ r \in 0 .. (n - 1) /\ m + n - 1 = n * q + r
  OBVIOUS
<1> HIDE DEF q, r
<1>2. (q - 1) * n = n * q - n
  BY <1>1
<1>3. n * q \in Nat
  BY <1>1
<1>4. (q - 1) * n < m
  BY <1>1, <1>2, <1>3
<1> QED
  BY <1>1, <1>4 DEF q

\* The registry has no more agents than have registered.
LEMMA RegistryBounded ==
  ASSUME PagerTypeOK
  PROVE  Cardinality(registry) \in Nat /\ Cardinality(registry) <= joined
<1>1. joined \in Nat
  BY PagerAssumption DEF PagerTypeOK
<1>2. IsFiniteSet(1 .. joined) /\ Cardinality(1 .. joined) = joined
  <2>1. Cardinality(1 .. joined) = IF 1 > joined THEN 0 ELSE joined - 1 + 1
    BY <1>1, FS_Interval
  <2> QED
    BY <1>1, <2>1, FS_Interval
<1>3. IsFiniteSet(registry) /\ Cardinality(registry) <= Cardinality(1 .. joined)
  BY <1>2, FS_Subset DEF registry
<1> QED
  BY <1>2, <1>3, FS_CardinalityType

\* A page number grows only up to the pages announced, and the agents that
\* were counted for these have registered.
LEMMA BoundStep ==
  ASSUME PagerInv, AnnouncedBounded, PagesBounded, [Next]_vars
  PROVE  AnnouncedBounded' /\ PagesBounded'
<1> DEFINE n == Clamp(pageSize)
<1>1. /\ n \in Nat \ {0} /\ page \in Nat \ {0} /\ joined \in Nat
      /\ response.totalPages \in Nat
  BY CoveredType, PagerAssumption DEF PagerInv, PagerTypeOK
<1>2. CASE UNCHANGED <<page, pageSize, joined, response>>
  BY <1>2 DEF AnnouncedBounded, PagesBounded, Clamp
<1>3. CASE List
  <2>1. /\ UNCHANGED <<page, pageSize, joined>>
        /\ \/ response' = response
           \/ response' = ServerPage(page, n)
           \/ response'.totalPages = 1
    BY <1>3 DEF List
  <2>2. PagesBounded' /\ n' = n
    BY <2>1 DEF PagesBounded, Clamp
  <2>3. CASE response' = ServerPage(page, n)
    <3> DEFINE c == Cardinality(registry)
    <3>1. response'.totalPages = (c + n - 1) \div n
      BY <2>3 DEF ServerPage
    <3>2. c \in Nat /\ c <= joined
      BY RegistryBounded DEF PagerInv
    <3> HIDE DEF c, n
    <3>3. response'.totalPages > 1 => (response'.totalPages - 1) * n < joined
      <4>1. /\ response'.totalPages \in Nat
            /\ response'.totalPages > 1 => (response'.totalPages - 1) * n < c
        BY <1>1, <3>1, <3>2, LastPageNeeded
      <4>2. (response'.totalPages - 1) * n \in Int
        BY <1>1, <4>1
      <4> QED
        BY <1>1, <3>2, <4>1, <4>2
    <3> QED
      BY <2>1, <2>2, <3>3 DEF AnnouncedBounded, n
  <2>4. CASE response' = response \/ response'.totalPages = 1
    BY <2>1, <2>2, <2>4 DEF AnnouncedBounded
  <2> QED
    BY <2>1, <2>2, <2>3, <2>4
<1>4. CASE Register
  <2>1. UNCHANGED <<page, pageSize, response>> /\ joined' = joined + 1 /\ n' = n
    BY <1>4 DEF Register, Clamp
  <2>2. (page - 1) * n \in Int /\ (response.totalPages - 1) * n \in Int
    <3> HIDE DEF n
    <3> QED
      BY <1>1
  <2> QED
    BY <1>1, <2>1, <2>2 DEF AnnouncedBounded, PagesBounded
<1>5. CASE Yield
  BY <1>5 DEF Yield, PagerInv, PagerTypeOK, AnnouncedBounded, PagesBounded, Clamp
<1>6. CASE PageDone /\ ~LastPage
  \* the next page is one that the server announced
  <2>1. /\ page' = page + 1 /\ UNCHANGED <<pageSize, joined, response>>
        /\ page <= response.totalPages - 1 /\ response.totalPages > 1
    BY <1>1, <1>6 DEF PageDone, LastPage
  <2>2. /\ page * n <= (response.totalPages - 1) * n
        /\ page * n \in Nat /\ (response.totalPages - 1) * n \in Nat
    <3> HIDE DEF n
    <3> QED
      BY <1>1, <2>1
  <2>3. page' - 1 = page
    BY <1>1, <2>1
  <2> QED
    BY <1>1, <2>1, <2>2, <2>3 DEF AnnouncedBounded, PagesBounded, Clamp
<1> QED
  BY <1>2, <1>3, <1>4, <1>5, <1>6
     DEF Next, PagerNext, vars, pagerVars, Ask, ListFails, NextAgent, PageDone, Deregister

\* However the registry changes, an iteration is over after a number of pages
\* that the registrations bound.
THEOREM PagesAreBounded == Spec => []PagesBounded
<1>1. Init => AnnouncedBounded /\ PagesBounded
  BY DEF Init, PagerInit, AnnouncedBounded, PagesBounded
<1>2. PagerInv /\ (AnnouncedBounded /\ PagesBounded) /\ [Next]_vars
        => (AnnouncedBounded /\ PagesBounded)'
  BY BoundStep
<1> QED
  BY <1>1, <1>2, PagerInvariance, PTL DEF Spec

----------------------------------------------------------------------------
LEMMA CallsInv == Spec => [](HInv /\ PageAnswered /\ ChatInv)
<1>1. Init => HInv /\ PageAnswered /\ ChatInv
  BY HttpInitInv, PagesInit, ChatInitInv
<1>2. HInv /\ PageAnswered /\ ChatInv /\ [Next]_vars
        => (HInv /\ PageAnswered /\ ChatInv)'
  BY HttpStep, PagesStep, ChatStep
<1> QED
  BY <1>1, <1>2, PTL DEF Spec

\* The calls, the chat stream and the iteration keep their types.
THEOREM TypeCorrect == Spec => []TypeOK
<1>1. HInv /\ ChatInv /\ PagerInv => TypeOK
  BY DEF HInv, ChatInv, PagerInv, TypeOK
<1> QED
  BY <1>1, CallsInv, PagerInvariance, PTL

\* A call that returns a value was answered with a status below 400 and, where
\* its client looks further, with JSON that holds no error (MCP, UCP), with a
\* result (MCP's tools) or with a body (streams).  UCP, WAU and the services do
\* return answers without a payload, which the statement allows.
THEOREM FailureReported == Spec => []NoFailureAsSuccess
<1>1. HInv => NoFailureAsSuccess
  BY DEF HInv
<1> QED
  BY <1>1, CallsInv, PTL

\* Where the clients promise it, the error of the caller has the server's code.
THEOREM CodeSurvives == Spec => []ErrorKeepsServerCode
<1>1. HInv => ErrorKeepsServerCode
  BY DEF HInv
<1> QED
  BY <1>1, CallsInv, PTL

\* A caller that trusts isWauRetryable registers an agent twice only when a
\* request went unanswered, however often it tries.
THEOREM AnsweredRegistersOnce == Spec => []RegisteredTwiceOnlyUnheard
<1>1. HInv => RegisteredTwiceOnlyUnheard
  <2> SUFFICES ASSUME HInv, method = <<"wau", "registerAgent">>, ~unheard
               PROVE  applied <= 1
    BY DEF RegisteredTwiceOnlyUnheard, HInv, HttpTypeOK
  <2>1. step \in {"ready", "fetch", "text", "done"}
    BY DEF HInv, Registration
  <2> QED
    BY <2>1 DEF HInv, Registration
<1> QED
  BY <1>1, CallsInv, PTL

\* However the network cuts the body, the consumer gets each chunk once.
THEOREM ChunksSurvive == Spec => []ChunksOnceInOrder
<1>1. ChatInv => ChunksOnceInOrder
  BY DEF ChatInv
<1> QED
  BY <1>1, CallsInv, PTL

\* An iteration that returns after good pages has yielded, once each, everybody
\* who was there from start to end, but for one at most per agent that left
\* under it (agents.ts:77-90).
THEOREM LeaversHide == Spec => []EachLeaverHidesOne
<1>1. PagerInv => EachLeaverHidesOne
  <2> SUFFICES ASSUME PagerInv, iter = "returned", sound
               PROVE  Cardinality((1 .. atStart) \ (gone \cup Range(got))) <= Cardinality(gone)
    BY DEF EachLeaverHidesOne, PagerInv, NobodyTwice
  <2>1. response.agents = {} /\ LastPage
    BY DEF PagerInv, PageUsedUp
  <2>2. \A a \in registry : a <= atStart => Position(a) <= Covered
    BY <2>1 DEF PagerInv, LastPageCovers
  <2>3. (1 .. atStart) \ (gone \cup Range(got)) = PassedOver
    BY <2>1, <2>2, Places DEF PassedOver, Seen, registry, PagerInv, PagerTypeOK
  <2> QED
    BY <2>3 DEF PagerInv, HiddenByLeavers
<1> QED
  BY <1>1, PagerInvariance, PTL
=============================================================================
