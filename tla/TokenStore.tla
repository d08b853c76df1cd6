----------------------------- MODULE TokenStore -----------------------------
(****************************************************************************)
(* src/oauth.ts: RefreshableTokenStore, shared by concurrent callers, and   *)
(* the authorization server behind fetch (external: it rotates refresh      *)
(* tokens, "2.2=A Rotate" in oauth.ts).                                     *)
(*                                                                          *)
(* Tokens are numbered in the order the server issues them; 0 is no token,  *)
(* also where the code would hold undefined: refreshAccessToken() stores    *)
(* data.access_token unchecked, while clientCredentials() and               *)
(* exchangeCode() reject a response without one.                            *)
(* ttl is the time left until token() stops trusting the access token:      *)
(* expiresAt - refreshSkew - now, not below 0.  An expiry of NaN            *)
(* (expires_in absent at construction) never trusts it, like ttl = 0.       *)
(****************************************************************************)
EXTENDS Integers

CONSTANTS
  Callers,    \* concurrent users of one store
  MaxTtl,     \* longest usable lifetime the server grants
  MaxIssued,  \* bound: how many token responses the server issues
  SyncThrow   \* may the injected fetchImpl throw instead of rejecting?

ASSUME TtlAssumption == MaxTtl \in Nat
ASSUME IssuedAssumption == MaxIssued \in Nat \ {0}
ASSUME SwitchAssumption == SyncThrow \in BOOLEAN

VARIABLES
  access,    \* this.access, 0 for undefined
  refresh,   \* this.refresh, 0 for ""
  ttl,       \* this.expiresAt, as said above
  inflight,  \* this.inflightRefresh: "null", "pending" or "rejected"
  requests,  \* token requests on their way, each the refresh token it presents
  replies,   \* token responses on their way back
  pc,        \* [Callers -> {"idle", "waiting"}]
  result,    \* [Callers -> Nat]  the last access token a caller was given
  issued,    \* server: the number of token responses issued
  valid,     \* server: the refresh token it honours
  lost       \* history: a response that rotated the token was lost

store == <<access, refresh, ttl>>
server == <<issued, valid>>
vars == <<store, inflight, requests, replies, pc, result, server, lost>>

None == 0
Token == 0..MaxIssued

\* A response to the presented token: an HTTP error, or new tokens, each of
\* which may be absent.  expires
\* is the usable lifetime granted; Missing when there is no expires_in.
Missing == MaxTtl + 1
Refused == [ok |-> FALSE]
Granted == [ok : {TRUE}, access : Token, refresh : Token, expires : 0..Missing]

\* OAuthClient.clientCredentials() has obtained the first pair and built the
\* store from it, with or without a refresh token.
Init ==
  /\ access = 1
  /\ refresh \in {None, 1}
  /\ ttl \in 0..MaxTtl
  /\ inflight = "null"
  /\ requests = {} /\ replies = {}
  /\ pc = [c \in Callers |-> "idle"]
  /\ result = [c \in Callers |-> None]
  /\ issued = 1
  /\ valid = refresh
  /\ lost = FALSE

-----------------------------------------------------------------------------
(* The store.  A caller that waits for the refresh resumes in the same turn *)
(* of the event loop that settles it, before any other network event.       *)

\* The flight rejects: every caller that awaits it gets the error.
Reject(settled) ==
  /\ inflight' = settled
  /\ pc' = [c \in Callers |-> "idle"]
  /\ UNCHANGED <<store, result>>

\* Faults, for the mutation runs only.
refreshAccessToken_NoLock(c) ==
  /\ inflight' = "pending"
  /\ requests' = requests \cup {[by |-> c, presents |-> refresh]}
  /\ pc' = [pc EXCEPT ![c] = "waiting"]

Settle_DropsRotated(r) ==
  /\ r \in replies /\ r.ok
  /\ replies' = replies \ {r}
  /\ access' = r.access
  /\ ttl' = IF r.expires # Missing THEN r.expires ELSE ttl
  /\ inflight' = "null"
  /\ pc' = [c \in Callers |-> "idle"]
  /\ result' = [c \in Callers |-> IF pc[c] = "waiting" THEN r.access ELSE result[c]]
  /\ UNCHANGED <<refresh, requests, server, lost>>

Settle_TrustsMissingExpiry(r) ==
  /\ r \in replies /\ r.ok
  /\ replies' = replies \ {r}
  /\ access' = r.access
  /\ refresh' = IF r.refresh # None THEN r.refresh ELSE refresh
  /\ ttl' = r.expires
  /\ inflight' = "null"
  /\ pc' = [c \in Callers |-> "idle"]
  /\ result' = [c \in Callers |-> IF pc[c] = "waiting" THEN r.access ELSE result[c]]
  /\ UNCHANGED <<requests, server, lost>>

Fail_KeepsFlight(r) ==
  /\ r \in replies /\ ~r.ok
  /\ replies' = replies \ {r}
  /\ Reject(inflight)
  /\ UNCHANGED <<requests, server, lost>>

\* refreshAccessToken(): join the refresh in flight, or start one with the
\* refresh token held now, or with client_credentials when there is none.
refreshAccessToken(c) ==
  \/ /\ inflight = "pending"
     /\ pc' = [pc EXCEPT ![c] = "waiting"]
     /\ UNCHANGED <<inflight, requests>>
  \/ /\ inflight = "rejected"     \* awaits a promise that has settled
     /\ UNCHANGED <<inflight, requests, pc>>
  \/ /\ inflight = "null"
     /\ \/ /\ inflight' = "pending"
           /\ requests' = requests \cup {[by |-> c, presents |-> refresh]}
           /\ pc' = [pc EXCEPT ![c] = "waiting"]
        \* fetchImpl throws before the first await: the finally clears the
        \* field first, and then the rejected promise is assigned to it.
        \/ /\ SyncThrow
           /\ inflight' = "rejected"
           /\ UNCHANGED <<requests, pc>>

\* token(): the cached access token while it is trusted, else a refresh.
token(c) ==
  /\ pc[c] = "idle"
  /\ \/ /\ ttl > 0
        /\ result' = [result EXCEPT ![c] = access]
        /\ UNCHANGED <<inflight, requests, pc>>
     \/ /\ ttl = 0
        /\ refreshAccessToken(c)
        /\ UNCHANGED result
  /\ UNCHANGED <<store, replies, server, lost>>

\* refreshToken(): a refresh whether the token is trusted or not.
refreshToken(c) ==
  /\ pc[c] = "idle"
  /\ refreshAccessToken(c)
  /\ UNCHANGED <<store, replies, result, server, lost>>

\* A 2xx response arrives: the store takes what it carries, clears the
\* in-flight field, and every waiting caller returns this.access.
Settle(r) ==
  /\ r \in replies /\ r.ok
  /\ replies' = replies \ {r}
  /\ access' = r.access
  /\ refresh' = IF r.refresh # None THEN r.refresh ELSE refresh
  /\ ttl' = IF r.expires # Missing THEN r.expires ELSE ttl
  /\ inflight' = "null"
  /\ pc' = [c \in Callers |-> "idle"]
  /\ result' = [c \in Callers |-> IF pc[c] = "waiting" THEN r.access ELSE result[c]]
  /\ UNCHANGED <<requests, server, lost>>

\* An HTTP error response arrives.
Fail(r) ==
  /\ r \in replies /\ ~r.ok
  /\ replies' = replies \ {r}
  /\ Reject("null")
  /\ UNCHANGED <<requests, server, lost>>

\* The network: a request that never reaches the server, or a response that
\* never reaches the store.  Either way fetch rejects.
LoseRequest(q) ==
  /\ q \in requests
  /\ requests' = requests \ {q}
  /\ Reject("null")
  /\ UNCHANGED <<replies, server, lost>>

LoseReply(r) ==
  /\ r \in replies
  /\ replies' = replies \ {r}
  /\ Reject("null")
  /\ lost' = (lost \/ (r.ok /\ r.refresh # None))
  /\ UNCHANGED <<requests, server>>

-----------------------------------------------------------------------------
(* The authorization server. *)

\* It honours the refresh token it issued last, or the client's credentials,
\* and then rotates the refresh token or leaves it out of the response; a
\* response may come without an access token, too.
Honour(q) ==
  /\ q \in requests
  /\ issued < MaxIssued
  /\ q.presents \in {valid, None}
  /\ requests' = requests \ {q}
  /\ issued' = issued + 1
  /\ \E new, rotated \in {None, issued + 1}, expires \in 0..Missing :
       /\ valid' = IF rotated # None THEN rotated ELSE valid
       /\ replies' = replies \cup
            {[ok |-> TRUE, access |-> new, refresh |-> rotated, expires |-> expires]}
  /\ UNCHANGED <<store, inflight, pc, result, lost>>

\* It refuses a token it does not honour, and may fail on one it would.
Refuse(q) ==
  /\ q \in requests
  /\ requests' = requests \ {q}
  /\ replies' = replies \cup {Refused}
  /\ UNCHANGED <<store, inflight, pc, result, server, lost>>

Tick ==
  /\ ttl > 0
  /\ ttl' = ttl - 1
  /\ UNCHANGED <<access, refresh, inflight, requests, replies, pc, result, server, lost>>

Next ==
  \/ \E c \in Callers : token(c) \/ refreshToken(c)
  \/ \E r \in replies : Settle(r) \/ Fail(r) \/ LoseReply(r)
  \/ \E q \in requests : Honour(q) \/ Refuse(q) \/ LoseRequest(q)
  \/ Tick

Spec == Init /\ [][Next]_vars

(* fetch settles: each request is answered or lost. *)
Fairness ==
  /\ WF_vars(\E q \in requests : Honour(q) \/ Refuse(q) \/ LoseRequest(q))
  /\ WF_vars(\E r \in replies : Settle(r) \/ Fail(r) \/ LoseReply(r))

FairSpec == Spec /\ Fairness

-----------------------------------------------------------------------------
(* Properties. *)

\* The variables keep their types.
TypeOK ==
  /\ access \in Token /\ refresh \in Token /\ ttl \in 0..MaxTtl
  /\ inflight \in {"null", "pending", "rejected"}
  /\ requests \subseteq [by : Callers, presents : Token]
  /\ replies \subseteq {Refused} \cup Granted
  /\ pc \in [Callers -> {"idle", "waiting"}]
  /\ result \in [Callers -> Token]
  /\ issued \in 1..MaxIssued /\ valid \in Token
  /\ lost \in BOOLEAN

\* oauth.ts:31 "in-flight lock against concurrent refresh": however the calls
\* interleave, at most one token request or response is on its way, and while
\* one is, the lock is held.
OneRefreshAtATime ==
  /\ \A p, q \in requests : p = q
  /\ \A r, s \in replies : r = s
  /\ requests = {} \/ replies = {}
  /\ requests \cup replies # {} => inflight = "pending"

\* oauth.ts:95-96 against the rotating server: unless a response was lost, the
\* refresh token the store will present next is the one the server honours.
RefreshTokenInSync ==
  requests = {} /\ replies = {} /\ ~lost /\ refresh # None => refresh = valid

\* Concurrent callers never see tokens go backwards: a token that a caller is
\* given is at least as new as anything given to any caller before.  Callers
\* are given no token where a 2xx response brought none (oauth.ts:95).
TokensMoveForward ==
  [][\A c, d \in Callers :
       result'[c] \notin {result[c], None} => result'[c] >= result[d]]_vars

\* Every caller that waits for a refresh gets a token or an error.
WaitersSettle == \A c \in Callers : pc[c] = "waiting" ~> pc[c] = "idle"

\* oauth.ts:101 "double check: return if the token is fresh after the refresh,
\* otherwise refresh again next time": a refresh that is over leaves the store
\* able to start the next one.
NextCallRefreshesAgain == inflight # "null" => requests \cup replies # {}

-----------------------------------------------------------------------------
(* The store implements SharedToken. *)

Shared == INSTANCE SharedToken WITH
  held <- access,
  trust <- ttl,
  renewing <- (inflight = "pending"),
  awaiting <- {c \in Callers : pc[c] = "waiting"},
  given <- result

\* oauth.ts:47-110, with the rotation, the losses and the lock behind it: the
\* callers share one renewal, its end releases all of them, with a token newer
\* than any given before, with none if the response had none, or with nothing
\* changed, and no response makes a token trusted for longer than the server
\* ever grants.
ImplementsSharedToken == Shared!ASpec
=============================================================================
