# A verification of wau-typescript-sdk in TLA+

The SDK (`src/src/`) is a client library: services over one HTTP transport,
JSON-RPC clients for MCP, UCP and WAU, an OAuth client, a retrier, a circuit
breaker, and chat bots that hold long-lived connections. It runs on one
JavaScript event loop. There are no threads, but every `await`, callback, timer
and socket event is a place where other callers run, and the code's difficult
parts are those that keep state across such a place. This project models them.

## 1. Inventory

"Hard" names what a unit test hardly reaches. The hazards are listed at their
lines in `PROJECT.json`.

| Component | State | Operations | Talks to | Hard | What makes it correct |
|---|---|---|---|---|---|
| Circuit breaker, `circuit.ts` | per-agent state, failure count, time of last failure; one lock chain | `guard`, `recordFailure/Success`, `reset`, `isOpen`, `getState` | the operation it guards | state read before the operation and written after it; one lock for all agents; OPEN left lazily | one operation at a time; closed means few failures; no probe before the timeout; nobody starved or shut out |
| Retrier, `retry.ts` | loop counter, running backoff | `do` | breaker, transport | sleeping between guarded attempts; loop bounds; cap and jitter | exact number of attempts; bounded sleeps; no lock held asleep |
| Client, `client.ts` | the objects above | constructor, `circuitState` | services, retrier, breaker | which requests are protected at all | services retried and guarded, as the docs say |
| OAuth store, `oauth.ts` | access and refresh token, expiry, refresh in flight | `token`, `refreshToken`, `authorizationHeader` | authorization server that rotates refresh tokens | concurrent callers; lost responses; failed refreshes; responses stored unchecked | one refresh at a time; the stored refresh token is the honoured one; callers see tokens move forward |
| MCP event stream, `mcp/streaming.ts` | queue, error queue, waiter, close reason, abort flag | background reader, `events()`, `cancel()` | server, consumers | wake-ups; chunking; cancel between two steps of the reader | exactly once, in order; no lost wake-up; an end for every consumer |
| Email bot, `bot/email/email.ts` | connection, poll timer, `lastUid`, running | `start`, `stop`, `fetchNewEmails` from event and timer | IMAP server, handler | overlapping three-callback fetches; late `end` events; connections that die by an `error`, which is only logged; restarts and starts that cross | no mail lost or passed over while the connection lives; no mail handled twice |
| QQ bot, `bot/qq/qq.ts` | socket, heartbeat timer, token and expiry, running | `start`, `stop`, `postMessage`, `updateMessage`, socket events | gateway, token server, REST API | listeners of an old socket acting on a newer one; token requests not joined | heartbeat and running follow the sockets; no REST request carries a dead token |
| Slack, Feishu, Dingtalk bots, `bot/slack`, `bot/feishu`, `bot/dingtalk` | the platform client in a field, running, Feishu's unsubscribe function, Dingtalk's session webhooks | `start`, `stop`, the platform's message callback, `postMessage` | platform SDKs, which own the socket | `stop` awaits the disconnect and clears the field afterwards, `start` awaits the connection after it set the field; late callbacks | a running bot holds the one connection that is up; messages are acknowledged on their own socket; no webhook outlives its run |
| MCP client, `mcp/client.ts`, and `openStream` | bearer token | eight tools, two stream methods, `setBearerToken` | HTTP server | a body that is read twice; two requests for one stream | every failure is an error, with the server's code |
| UCP client, `ucp/client.ts` | none between calls | eleven tools | HTTP server | which of status, error and result decides | as for MCP; the two checkout tools hide internal errors |
| WAU client, `wau/client.ts` | none between calls | four methods with a timer | HTTP server, a caller that repeats what `isWauRetryable` allows | a retry of what the server has carried out; a timer that ends at the headers | an answered call is not carried out twice |
| Transport, `transport.ts`; kernel, tasks, handshake | none | `request` behind each service method | HTTP server | empty and broken answers; which errors keep their code | every failure is an error |
| Chat stream, `chat.ts`, `transport.ts` | line buffer of a stream | `completions`, `stream` | HTTP server, consumer | reads that end in mid-line; bodies without a last newline; a consumer that leaves | each complete chunk is yielded once and in order |
| Agent registry, `agents.ts` | page number of `iter` | `list`, `iter`, one request per other method | registry | agents that come and go between pages | at most one agent skipped for each that left; nobody twice; an end |
| Signing, labels, types, intent, stripe, bot stubs | none | pure functions, declarations, methods that only throw | | nothing | |

## 2. Modules

| Module | Models | Role |
|---|---|---|
| `AbstractBreaker` | the promise of `circuit.ts` | abstract specification: a tripped agent is probed only after its recovery time, one operation at a time |
| `CircuitBreaker` | `circuit.ts` | the detailed breaker, with the refinement mapping to `AbstractBreaker` |
| `CircuitBreakerProofs` | | theorems |
| `ResilientCall` | `retry.ts`, `client.ts` | composes the retry loop with `CircuitBreaker` (EXTENDS: the loop's attempts are the breaker's steps); the services' bare path beside it |
| `SharedToken` | the promise of `oauth.ts` to the callers of one store | abstract specification: one token for all, given at once while it is trusted, and one renewal that releases all who wait |
| `TokenStore`, `TokenStoreProofs` | `oauth.ts` | the store composed with an external, rotating authorization server; the refinement mapping to `SharedToken`; theorems |
| `EventFeed` | the promise of `mcp/streaming.ts` to the iterators of one stream | abstract specification: a shared feed of numbered events; an iterator ends once, and only behind them |
| `SseStream`, `SseStreamProofs` | `mcp/streaming.ts` | reader, iterators, cancel, and an external server; the refinement mapping to `EventFeed`; theorems |
| `ResilientCallProofs` | | theorems; EXTENDS `CircuitBreakerProofs` |
| `HttpCall` | `mcp/client.ts`, `mcp/streaming.ts` (`openStream`), `ucp/client.ts`, `wau/client.ts`, `wau/errors.ts`, `transport.ts`, `errors.ts`, and the methods of the services | one call of any of the 44 methods over HTTP, with the server as environment |
| `ChatStream` | `chat.ts`, `transport.ts` (`streamChat`) | the body of a chat stream after its `HttpCall` |
| `AgentPager` | `agents.ts` (`iter`, `list`) | page after page, each an `HttpCall`, over a registry that changes |
| `ClientCalls`, `ClientCallsProofs` | | composes the three (EXTENDS: stream and pager start and end calls of `HttpCall`); theorems |
| `Inbox` | the promise of `bot/email/email.ts` to the handler | abstract specification: a mark in a mailbox that an open bot moves over no mail that is not accounted for, and batches that are read in order and handed over whole |
| `EmailBot`, `EmailBotProofs` | `bot/email/email.ts` | bot, timers, fetches, and an external IMAP server; the refinement mapping to `Inbox`; theorems |
| `SocketBot`, `SocketBotProofs` | `bot/slack/slack.ts`, `bot/feishu/feishu.ts`, `bot/dingtalk/dingtalk.ts` | three bots that leave the socket to a platform library, in one module with the platform chosen at the start |
| `QQBot`, `QQBotProofs` | `bot/qq/qq.ts` | bot, sockets, token, external gateway and token server |
| `MCCircuitBreaker`, `MCResilientCall`, `MCSseStream` | | model values and small definitions for TLC |

How state and actions correspond to the code:

* **CircuitBreaker.** `state`, `failures`, `age` are the fields of `AgentState`;
  `age` is the time since `lastFailureAt`, counted up to the first value above
  the timeout, as only `>` is ever asked of it. `lockChain` is the promise chain of
  `withLock` as a sequence whose head holds the lock. `Guard` is a call of
  `guard`, which chains itself synchronously; `Enter` is the continuation that polls
  and then short-circuits or starts the operation; `Settle` records the outcome
  and releases. `DirectOp` and `Query` are the public methods, which take no lock.
* **ResilientCall.** `Do`, `Attempt`, `Caught`, `Wake` are the pieces of
  `Retrier.do` between its awaits. An attempt goes through `Enter` or
  `Settle` of the breaker. `ServiceRequest` and `ServiceReply` are a service's
  request, which has no loop and no guard.
* **TokenStore.** `inflight` is `inflightRefresh`, with the value "rejected" for
  the rejected promise that stays when `fetchImpl` throws synchronously. Requests and
  responses are sets, so they may be lost. `ttl` is the time left until `token()`
  refreshes. A 2xx response may lack each of its fields (`Honour`): the code looks at none of them at
  `oauth.ts:95`, so without `access_token` the store holds, and gives its callers, no token (`None`)
  until the trust in it ends.
* **SseStream.** Frames are their indices; `sent` gives each its kind. `Chunk(n)` is
  one turn of the reader that parses n frames; `next` is one call of the iterator
  (`Yield`, `Throw`, `Return`, `Wait` in the order of the code's tests); `notify`
  resolves the single waiter. Only complete frames are frames; see section 5 for a last one without its blank line. `LateChunk` is the read that had resolved when
  `cancel()` ran.
* **HttpCall.** `Api` lists the methods of each client with what sets their handling
  apart. `step` is where the call awaits: `fetch`, the reading of the body (`json`,
  `text`), the second request of a stream (`get`), the chat stream. `Send` is the code
  up to the request, `Throw` an argument check that fails; `Serve`, `Refused`, the
  answers and the timer are the server and the network. The actions with a client's name
  are its code after the headers or after the body. `Statuses` and `Bodies` are classes: what
  at least one client tells apart. A body can be read once; a second read rejects, as
  that of a `fetch` response does; a body that is cut makes axios reject whatever the status, before
  `raiseForStatus` runs. `Repeat` is an application that calls a WAU
  method again as long as `isWauRetryable` says so (`wau/errors.ts` documents that use).
* **ChatStream.** The body is a sequence of lines; reads are counted in half lines, so that
  a read can end inside a line. `buffer` is the line whose beginning is in the code's
  `buffer`. `Line` is one turn of the loop over `lines`; `yielded` and `Resume` are the two
  sides of `yield`; `Leave` is a consumer that stops.
* **AgentPager.** An agent is the number of its registration; the server's list is in that
  order (external). A page is the set of the agents whose place in that list falls on it; `Yield` takes
  the least, which is the list's order. `Ask` and `List` are `await this.list(...)`, `Yield` and
  `NextAgent` the inner loop, `PageDone` the test of `totalPages`. `Register` and `Deregister` are other
  applications, between any two steps.
* **SocketBot.** A client is the number of the `start` that made it; `client` is the bot's
  field, `conn` the state of each client inside the platform library. `Dial` is the
  synchronous part of `start`; `Connected` and `ConnectFails` its continuation;
  the three stops differ as in the code: Slack and Feishu await the disconnect, count in
  `stopping`, and clear the field in `Disconnected`; Dingtalk clears at once, also if `disconnect()`
  throws (`CloseClient`), and the library closes later (`Closed`). `SlackMessage` has both ways through
  the listener: an event that is no user's message leaves at lines 88-94 and is neither handled nor
  acknowledged. History variables: `mishaps` records which calls overlapped, `late` the clients that
  wrote while they were closing, `orphans` those that lost the field before they were closed, so that a
  property can say under which of them it holds.
* **EmailBot.** `start` asks for `running` alone, as the code, so starts may cross: both then go on with
  whatever `imap` is by then, and `crossed` records it. `opening` is the SELECT that a start waits for,
  `listen` the connection it put its listeners on. A connection goes away in two ways: `End`, whose
  listener clears `running`, and `Lost`, an 'error' that is only logged; behind a `Lost` the bot
  runs on, every poll fails, and only `stop()` and `start()` help. `Serving` says that the bot runs on a
  live connection and no starts crossed. `Ready`, `Opened`, `End`, `Lost`, `MailEvent`, `Poll` are event listeners;
  `Searched`, `Message`, `FetchEnd`, `FetchFails` the callbacks of one fetch.
  Intervals that tick are in `timers`, the one `stop()` can clear in `pollTimer`.
  `Found` is IMAP's answer to `n:*`, which always has the last mail in it.
  `PartialFetch` says whether a FETCH can fail after it delivered messages. A
  null `this.imap` in the search callback throws inside the library; the model
  ends the fetch there and does not follow the exception further.
* **QQBot.** Sockets go through `SocketState`; `aborted` is a socket closed while
  it was connecting. All listeners work on `ws`, `heartbeatTimer` and `running`,
  as in the code, whatever socket they belong to. `expiresIn` is what the bot
  believes, `validFor` what the server will do. `Hello` sends identify with the token held by then and
  does not look at its expiry; `TokenOutlivesRequest` is about the requests to the REST API.

Operators named `<definition>_<fault>` are faults for the mutation runs. No
specification uses them. `PROJECT.json` pairs each checked property with a fault
of the code that breaks it, which shows that the property can fail.

## 3. Runs

Passing runs:

| Run | Question | Bounds and why they are enough |
|---|---|---|
| `breaker_direct` | Is the breaker safe, and does it refine `AbstractBreaker`, when reports, resets and polls come between any two steps of guarded calls? | 3 callers (one holds the lock, two wait in order), 2 agents (lock shared, lists of agents), threshold 3 (an inner value of the count), timeout 2 (inside, at, after) |
| `resilient` | Do retry loop and breaker work together: attempts counted, sleeps bounded, no lock asleep, every request ends, no agent opens under a running operation or stays shut out? | 2 callers, 1 agent, 2 retries, threshold 2, so that one request can open the circuit for itself and for the other; the backoff reaches its cap at the second retry |
| `token_store` | Do concurrent callers and a rotating server stay consistent under lost requests, lost responses, refusals and responses that lack a field, and is the store, to its callers, one `SharedToken`? | 3 callers (one refreshes, one joins, one comes later), 4 token responses, a lifetime of at most one tick; 160,732 states |
| `sse` | Is every frame delivered once and in order, is the stream, to its iterators, one `EventFeed`, and does every consumer get to the end? | 3 frames of any kind in any chunks, 2 iterators, one of them eager |
| `calls` | Does every HTTP call end in the right value or error, whatever the server answers? Is a registration repeated only unheard? Does the chat stream deliver each chunk, the pager each agent, and do both end? | every method, 7 statuses, 12 classes of bodies; 3 tries (the caller's "retry 2x"); bodies of 3 lines cut anywhere, so that a line with a tail on either side occurs; 4 agents in pages of 1 and 2; 187,018 states |
| `email` | Do overlapping fetches, late events, lost connections and starts that cross lose or skip a mail or leave a running bot unserved, and is the bot, to its handler, one `Inbox`? | 2 fetches, 2 mails, 2 starts (in turn or crossing), 1 request or connection that fails by an error, deliveries of a mail counted to 1: a fetch of the old connection can overlap with one of the new; 712,789 states |
| `socket` | Does a bot hold the connection that is up, acknowledge the messages it handles on their socket and forget its webhooks, under overlapping starts and stops? | each of the 3 platforms, 3 clients (one closing, one dialing, one later), 2 stops of one client awaited at once; 14,588 states |
| `qq` | Do heartbeat and running follow the sockets, and does no REST request carry a dead token? | 2 callers that start and post at will, 3 sockets, lifetimes at the margin and above it |

Runs that end with a counterexample, each a disagreement between code and docs:

| Run | Statement | What happens |
|---|---|---|
| `services` | `chat.ts:11`: retry and circuit breaker apply to a service call | the services hold the bare transport: one 503 ends the call |
| `sse_cancel` | `tests/mcp_streaming.test.ts:363`: after cancel the iterator closes out | if a read had resolved when `cancel()` ran, the reader leaves without closing the stream |
| `email_redelivery` | `email.ts:344`: search for mails with UID > lastUid | `n:*` always has the last mail in it: each poll of a quiet mailbox hands it to the handler again |
| `qq_heartbeat` | `qq.ts:155`: hello starts the heartbeat loop | after `stop()` and `start()`, the late `close` of the first socket stops the second one's heartbeat and clears `running` |

`CHECK_DEADLOCK FALSE` is set where the system really stops: a call or a stream that has
ended, a bot whose starts and mails are used up.

Other disagreements, seen while modelling and not given a run of their own:

* `oauth.ts:71, 101`: if an injected `fetchImpl` throws synchronously, the `finally` clears
  `inflightRefresh` before the rejected promise is assigned to it, and every later refresh
  joins that promise. `token_store` with `SyncThrow = TRUE` finds `NextCallRefreshesAgain`
  violated. The global `fetch` never throws synchronously.
* `streaming.ts:317-324`: the error branch queues the error event without `notify()`: a
  consumer that waits hears of it only with the next event. The model has the branch as it
  is, and `NoLostWakeup` asks nothing of an error that waits alone.
* `mcp/client.ts:404`: when `resp.json()` fails at 400 and above, `resp.text()` reads a body
  that is already consumed, so a `fetch` response makes the caller see a raw TypeError and not
  the RPCError of line 405. `tests/mcp_client.test.ts:389` passes as its stub can be read twice.
* `wau/client.ts:131`: the comment calls registration a one-off, not retryable, yet a timeout or a lost
  connection during it is reported as retryable. `RegisteredTwiceOnlyUnheard` states what is left: a
  caller that trusts the flag registers twice only if an answer was lost.
* `wau/errors.ts:54` calls AUTH_FAILED not retryable, `wau/client.ts:374` marks it retryable.
* `errors.ts`: at a status without a class of its own, `APIError` takes the server's code for
  its message, and the code is lost.
* `slack.ts:105` says that the acknowledgement must be sent, or Slack sends the event again. The listener
  returns at 88-94 before it for an event that is no message or comes from a bot: those are never
  acknowledged. `AckedOnItsSocket` speaks of the messages the handler gets.
* `streaming.ts:254-263` would flush an unfinished frame at the end of the stream. Lines are only read from
  frames whose blank line has come, so it never finds any; a last frame without one is dropped.
* `email.ts:175-177`: a connection that dies with an 'error' leaves the bot running on it. Polls fail, mails
  that arrive are not handled, and `start()` returns at once as the bot runs; `stop()` first, then
  `start()`, brings it back. The properties about mails are stated for `Serving` bots.
* `email.ts:116`: starts that cross both go on with the later connection; two intervals tick, one of which
  nobody can clear. `RunningIsServed` says what is left: the one `stop()` can clear does tick.
* `email.ts:387-415`: `lastUid` moves with each message, the handler is called when the
  whole FETCH ends. With `PartialFetch = TRUE` TLC finds `NoMailLost` violated.

### Fairness

* Continuations of settled promises run: the event loop (`Attempt`, `ReaderStep`,
  `next` of eager consumers).
* Timers fire: `Tick`, `Wake`, and `Poll`, the email bot's `setInterval`.
* An operation, a fetch or an IMAP request that was sent ends, if only by error: the
  transport's timeout, `fetch`, the end of the connection. For an operation given to
  `guard` by an application this is the application's duty.
* A server ends its event stream some day (only for `StreamDrains`), and the body of a chat
  stream comes to an end, by its close, by a lost connection or by a line that ends it
  (`ChatEnds`). The consumer of the stream asks for the next chunk or leaves.
* The timer of a pager's `list()` fires if nothing else ends the request (`IterEnds`):
  `transport.ts` gives every `request` a timeout. `streamChat` has none.
* The platform libraries settle each connect and disconnect, with success or failure
  (`StopCloses`).

Nothing else is assumed: no one must call, mails need not arrive, the server need not send
'mail' events, and `cancel` and `stop` need not happen.

## 4. Proofs

All proofs are checked by TLAPS for every value of the constants that satisfies
the named assumptions of the modules. The pattern is the same in each module:
an inductive invariant `IInv`, `InitInv`, one lemma for each action or group of
actions, `Invariance`, and then one theorem per property.

* **CircuitBreakerProofs.** `SingleFlight` is not inductive: nothing in it stops a
  second call from entering. `RunnerHoldsLock` (a running operation is that of the head
  of the chain) makes it so. `ClosedBelowThreshold` and `HalfOpenOnlyAfterTimeout`
  carry each other through recordings and polls. `NoOpenUnderRunner` assumes
  that `recordFailure` is not called from outside. `BreakerRefinesPromise` maps each step to a step of
  `AbstractBreaker` or a stutter; it uses the invariant, as a probe is legitimate
  only because a half-open agent is past its timeout. `NobodyLockedOut` is the part of
  deadlock freedom that is an invariant: the lock chain holds exactly the callers inside a
  guard (`GuardsInChain`), each once (`ChainOfGuards`), so its head is a call that is queued
  behind nobody or runs. Without "each once", a caller that leaves the head might still be
  awaited further back.
* **TokenStoreProofs.** `RefreshTokenInSync` speaks of a quiet store; in between,
  `SyncInv` says that store and server may differ only while a rotating response is
  on its way, and `RequestsCurrent` that a request presents what the store holds.
  `RepliesNewest` (a response that brings an access token brings a newer one than the store has) and
  `NoneAhead` (no caller has a newer one than the store) give `TokensMoveForward`, an
  action property. `LockHasFlight` ties `inflight`, the messages on the network and the callers that
  wait to each other; with it nobody is stranded (`WaitersHaveFlight`), a failed refresh leaves the
  field free unless `SyncThrow` (`RefreshCanRestart`), and each step maps to a step of
  `SharedToken` or a stutter (`StoreIsShared`): a response on its way is a renewal under way, a lost or
  refused one a renewal that failed.
* **SseStreamProofs.** `ExactlyOnceInOrder` and `NoLostWakeup` are kept by each step
  of reader and consumers. For `ReturnMeansDrained` the invariant adds that
  the reader is gone once the stream is settled (`SettledReaderGone`), that a close
  frame is the last one parsed (`CloseIsLast`), and that an iterator that yielded
  it leaves nothing behind (`ClosedMeansDrained`). The same facts map each step to
  one of `EventFeed` or a stutter (`StreamIsFeed`): a chunk is an arrival, the reader's end is the
  feed's, and server, wake-ups, waits and `cancel` are invisible. `WaitersServed` is the invariant
  behind `StreamDrains`: unless the stream is cancelled, the consumer in the waiter's slot has a reader that
  reads on, or the stream broke and another iterator took the error. That exception is real: the code
  queues one error, so an iterator that asks after it was thrown waits for ever. Neither it nor `NoLostWakeup`
  covers an iterator that a second one pushed out of the slot: nobody will wake it.
* **QQBotProofs.** `TokenMargin` (while the bot trusts its token, the server will
  honour it at least one request time longer) makes `TokenOutlivesRequest` inductive; it
  needs a margin of twice the request timeout, 60 s against 10 s in the code, and a
  granted life longer than that. The identify at hello is not such a request.

* **ResilientCallProofs.** `BreakerSteps`: each step of the composition is a step of the
  breaker or leaves it alone. So `WrappedBreaker` (`RSpec => Spec`), and the breaker's
  theorems hold under any retry loops (`NoOpenUnderRetries`, `RetriesKeepPromise`). For the loops,
  `LoopInv` ties the loop counter to the runs of `op` (`RunsCounted`: equal while queued,
  one more while running or asleep), the phase to the guard (`AttemptIsGuard`), and says that the
  lock chain has each caller once and only callers inside a guard (`ChainOfGuards`). The last
  is what makes `BackoffHoldsNoLock` inductive: after `Tail`, the caller that left must not be in
  the chain again. With `NobodyLockedOut` it follows that the lock is always held by a loop that
  attempts (`RetriesNotBlocked`). `SleepsBounded` is about `doubled`, a recursive function. The
  library's induction theorems take an operator as a parameter, which the provers cannot instantiate,
  so the existence of the function is proved here without them: `LeastNumber` (a nonempty set of
  numbers has a least one) turns an induction into a least counterexample, `Iterate` builds the
  repeated application of a step that way, and `DoubledEquation` is the equation of `doubled`. Its
  bounds follow by a least counterexample again, and `DelayInv` carries them to the sleeps. The theorem is an
  upper bound: jitter makes a sleep shorter than the initial backoff, too.
* **ClientCallsProofs.** What a caller gets is decided at some step from the answer in hand;
  `StepKnows` says what each step knows of that answer, and makes `NoFailureAsSuccess` and
  `ErrorKeepsServerCode` inductive together with `OutAtEnd` (nobody gets anything before
  the end). `NoFailureAsSuccess` says per client what a returned value implies: a status below 400 for all, JSON
  without an error for MCP and UCP, a result for MCP's tools, a body for a stream; UCP, WAU and the services
  do return answers without a payload, and it leaves them that. `Registration` follows a WAU registration whose requests were all answered
  (once the server has carried it out, no step leads to a retryable error), `Counted` bounds what
  the server has carried out by the tries. `Parts` shows that stream and pager touch the call
  only by ending it or by starting the next page. For the stream, `BufferKept` says that the
  buffer has the beginning of the line that a read has cut, so no line is lost; with it
  `ChunksOnceInOrder` is inductive. For the pager, `HiddenByLeavers` counts while the iteration runs: the
  agents there from the start that have a place on a page already read and were not yielded
  (`PassedOver`) are no more than those that left. One that leaves moves those behind it forward by one place
  and the others not at all (`LeaverPlaces`), no two agents have one place (`PlacesDiffer`), so at most
  one falls onto the pages already read (`AtMostOneMore`); one that joins moves nobody
  (`JoinerPlaces`). `LastPageCovers` says that behind the last page there is no place left, so at the end
  `PassedOver` is everybody who was missed: `LeaversHide`. `PagesAreBounded` bounds the number of pages by
  the registrations: a further page is asked for only if one was announced (`AnnouncedBounded`).
* **EmailBotProofs.** The invariant has two halves. Whatever crosses: a running bot has a connection and an
  interval it can clear that ticks (`Backed`), a mailbox that was opened or is about to be was not ahead
  of the server (`NextKnown`), what fetches found is in the mailbox (`FoundKnown`), so `lastUid` stays below
  the next UID. As long as no starts crossed (`Uncrossed`): one start is in progress or the bot
  runs on its connection (`OneStart`, `Served`); a fetch of the bot's connection searched from no further than
  where the bot looks next (`FromKnown`), and a fetch of an older connection found only what is
  accounted for or the pending SELECT will pass over (`OldCovered`). With these, a message moves `lastUid` to the
  greater of the two and over no mail that nobody has. A connection that is lost changes neither half: its
  fetches fail, and the bot is no longer `Serving`. `NoMailLost` is proved for `~PartialFetch`: otherwise a fetch
  that breaks off takes its messages with it. The bot implements `Inbox` (`BotIsInbox`), which is open while
  the bot is `Serving`: `Message` reads the next mail of a batch, `FetchEnd` delivers it, `FetchFails` drops it,
  and `stop`, the end, the loss and a crossing `start` close; events, searches and connections are
  invisible. A batch in order needs `InOrder` (what a fetch has read lies below what is left).
* **SocketBotProofs.** As long as no calls have crossed, at most one client is dialing, up or
  being stopped, and it is the one in the field (`DialingInField`, `StoppingInField`); a client above
  `made` is untouched. `RunningHoldsConnection` alone would not be inductive: a client that is
  dialing becomes the connection, whatever the field holds by then. Whatever crosses, a client that is dialing or
  up is in the field or an orphan (`NoneForgotten`), and of Dingtalk's clients one that is up in the field
  is the running one (`DingtalkParts`): so the webhook of a stopped bot came from an orphan or a client that
  was closing (`WebhooksEnd`), and a handled message of a client outside the field from an orphan
  (`AcksOnItsSocket`).

All theorems hold for any number of callers, agents, frames, lines, mails, clients and tries. The
assumptions are the named ones of the modules, `"recordFailure" \notin DirectOps` where stated,
`~PartialFetch` for `MailAccountedFor` and `~SyncThrow` for `RefreshCanRestart`.

Every invariant and action property and all four refinements that the passing runs check are
theorems; `RefreshCanRestart` for `~SyncThrow`, the case in which its property holds. Model-checked only are
the properties under fairness (`RequestSettles`, `Recovers`, `WaitersSettle`, `StreamDrains`,
`MailIsHandled`, `ChatEnds`, `IterEnds`, `StopCloses`): the prover has no rule here for
weak fairness over ENABLED. For five of them the invariant that carries the argument is
proved: `NobodyLockedOut` and `RetriesNotBlocked` for `RequestSettles`, `WaitersHaveFlight` for
`WaitersSettle`, `WaitersServed` for `StreamDrains`, `PagesAreBounded` for `IterEnds`,
`BotHoldsConnection` for `StopCloses`. What is left to TLC is that the steps these allow are taken.

The runs do not check `WaiterIsServed`, `LockServesAll`, `NobodyBlocked`, `NobodyStranded` and
`PagesBounded`: they are stated beside their proofs. `ReturnMeansDrained` and `LastUidBehindMailbox` follow
from the refinements of `EventFeed` and `Inbox`, which the runs check in their place.

## 5. Not modelled

* Values and formats: JSON, headers, mail parsing, HMAC and PKCE, label rules, the copying of
  fields in the services. Data without control.
* Declarations, bot stubs, the intent service (every method throws), the stripe placeholder.
* Wall-clock corrections: clocks only move forward.
* An operation under `guard` that never settles or calls `guard` again: it blocks every
  agent, by design of the single lock.
* The QQ bot's `events` array: it is only ever written, and grows.
* The bearer token of the MCP client and `setBearerToken`: the value of a header, read when a request is sent.
* An SSE frame without its blank line at the end of the body, which the code drops.
* What the `TypeError` of a null `this.imap` does to the process, and which IMAP requests the library still
  answers on a connection that died: there they fail.
* Sending of mails, and the request behind `postMessage` of the socket bots: one request each.
* A server that stalls inside a body: `HttpCall` has no timer there, as the code has none, so
  such a call never ends; no property asks that every call ends.
* The server's side of a stream whose second request fails: it has accepted a stream that
  nobody reads.
* What the platform does with the body of a chat stream that its consumer left: the code releases
  the reader's lock and does not cancel the body.

## 6. Where to go on

The plan so far (exchange, chat stream, pager, socket bots, and the proofs on email bot and retry
loop) is done. Next, in this order:

1. `NoMailLost` with `PartialFetch = TRUE` as a run of its own, with the finding.
2. `postMessage` of the socket bots and the sending of mails as calls of `HttpCall`.
