-------------------------- MODULE TokenStoreProofs --------------------------
(****************************************************************************)
(* The token store's safety properties, for any number of callers, any      *)
(* lifetimes and any number of token responses.                             *)
(****************************************************************************)
EXTENDS TokenStore, TLAPS

USE DEF None, Token, store, server

(* The pair the server would accept next: the one the store holds, or the   *)
(* one a response on its way carries.                                       *)
InSync == ~lost /\ refresh # None => refresh = valid

\* What a request on its way presents is still what the store holds.
RequestsCurrent == \A q \in requests : q.presents = refresh

\* A response on its way brings the newest token, if it has one, and its rotated
\* refresh token, if it has one, is the one the server honours.
RepliesNewest ==
  \A r \in replies :
    r.ok => /\ r.access # None => /\ r.access > access
                                  /\ \A c \in Callers : r.access > result[c]
            /\ r.access <= issued
            /\ r.refresh # None => r.refresh = valid

\* No caller holds a token newer than the store's, unless that has none, nor
\* the store or a caller one newer than the server's.
NoneAhead ==
  /\ access <= issued
  /\ \A c \in Callers : /\ result[c] <= issued
                        /\ access # None => result[c] <= access

\* The store is in sync with the server but for a rotated token on its way.
SyncInv ==
  (\A r \in replies : r.ok => r.refresh = None) => InSync

IInv ==
  /\ TypeOK
  /\ OneRefreshAtATime
  /\ RequestsCurrent
  /\ RepliesNewest
  /\ NoneAhead
  /\ SyncInv

-----------------------------------------------------------------------------
\* A successful response is a grant, field by field.
LEMMA GrantFields ==
  ASSUME TypeOK, NEW r \in replies, r.ok
  PROVE  /\ r.access \in Token /\ r.refresh \in Token
         /\ r.expires \in 0..MaxTtl \/ r.expires = Missing
<1>1. r # Refused
  BY DEF Refused
<1>2. r \in Granted
  BY <1>1 DEF TypeOK
<1> QED
  BY <1>2, TtlAssumption DEF Granted, Missing

\* The store clientCredentials() makes satisfies the invariant.
LEMMA InitInv == Init => IInv
<1> SUFFICES ASSUME Init PROVE IInv
  OBVIOUS
<1> USE TtlAssumption, IssuedAssumption DEF Init
<1>1. TypeOK
  <2>1. 1 \in Token /\ 0 \in Token /\ 1 \in 1..MaxIssued
    OBVIOUS
  <2>2. pc \in [Callers -> {"idle", "waiting"}] /\ result \in [Callers -> Token]
    BY <2>1
  <2> QED
    BY <2>1, <2>2 DEF TypeOK
<1>2. OneRefreshAtATime /\ RequestsCurrent /\ RepliesNewest
  BY DEF OneRefreshAtATime, RequestsCurrent, RepliesNewest
<1>3. NoneAhead
  BY DEF NoneAhead
<1>4. SyncInv
  BY DEF SyncInv, InSync
<1> QED
  BY <1>1, <1>2, <1>3, <1>4 DEF IInv

\* Joining or starting a refresh: the lock is what keeps the flight single.
LEMMA RefreshStep ==
  ASSUME IInv, NEW c \in Callers, pc[c] = "idle", refreshAccessToken(c),
         UNCHANGED <<store, replies, result, server, lost>>
  PROVE  IInv'
<1> USE DEF IInv
<1>1. TypeOK'
  <2>1. requests' \subseteq [by : Callers, presents : Token]
    <3>1. [by |-> c, presents |-> refresh] \in [by : Callers, presents : Token]
      BY DEF TypeOK
    <3> QED
      BY <3>1 DEF TypeOK, refreshAccessToken
  <2>2. inflight' \in {"null", "pending", "rejected"}
    BY DEF TypeOK, refreshAccessToken
  <2>3. pc' \in [Callers -> {"idle", "waiting"}]
    BY DEF TypeOK, refreshAccessToken
  <2> QED
    BY <2>1, <2>2, <2>3 DEF TypeOK
<1>2. OneRefreshAtATime'
  BY DEF OneRefreshAtATime, refreshAccessToken
<1>3. RequestsCurrent'
  BY DEF RequestsCurrent, refreshAccessToken
<1>4. RepliesNewest' /\ NoneAhead' /\ SyncInv'
  BY DEF RepliesNewest, NoneAhead, SyncInv, InSync
<1> QED
  BY <1>1, <1>2, <1>3, <1>4

\* A caller takes the cached token, joins the refresh or starts one.
LEMMA CallerStep ==
  ASSUME IInv, NEW c \in Callers, token(c) \/ refreshToken(c)
  PROVE  IInv'
<1>1. CASE refreshToken(c)
  BY <1>1, RefreshStep DEF refreshToken
<1>2. CASE token(c) /\ ttl = 0
  BY <1>2, RefreshStep DEF token
<1>3. CASE token(c) /\ ttl > 0
  <2> USE DEF IInv
  <2>1. /\ result' = [result EXCEPT ![c] = access]
        /\ UNCHANGED <<store, inflight, requests, replies, pc, server, lost>>
    BY <1>3 DEF token, TypeOK
  <2>2. TypeOK'
    BY <2>1 DEF TypeOK
  <2>3. OneRefreshAtATime' /\ RequestsCurrent' /\ SyncInv'
    BY <2>1 DEF OneRefreshAtATime, RequestsCurrent, SyncInv, InSync
  <2>5. RepliesNewest'
    <3>1. \A d \in Callers : result'[d] \in {result[d], access}
      BY <2>1 DEF TypeOK
    <3> QED
      BY <2>1, <3>1 DEF RepliesNewest
  <2>4. NoneAhead'
    <3>1. access \in Nat /\ \A d \in Callers : result'[d] \in {result[d], access}
      BY <2>1, IssuedAssumption DEF TypeOK
    <3> QED
      BY <2>1, <3>1 DEF NoneAhead
  <2> QED
    BY <2>2, <2>3, <2>4, <2>5
<1> QED
  BY <1>1, <1>2, <1>3, TtlAssumption DEF token, IInv, TypeOK

\* A response arrives: it was the only one, and it brings the newest token.
LEMMA SettleStep ==
  ASSUME IInv, NEW r \in replies, Settle(r)
  PROVE  IInv'
<1> USE DEF IInv
<1>0. /\ r.access \in Token /\ r.refresh \in Token
      /\ r.expires \in 0..MaxTtl \/ r.expires = Missing
  BY GrantFields DEF Settle
<1>1. replies' = {} /\ requests' = {}
  BY DEF Settle, OneRefreshAtATime
<1>2. TypeOK'
  <2>1. access' \in Token /\ refresh' \in Token /\ ttl' \in 0..MaxTtl
    BY <1>0 DEF Settle, TypeOK
  <2>2. pc' \in [Callers -> {"idle", "waiting"}] /\ result' \in [Callers -> Token]
    BY <1>0 DEF Settle, TypeOK
  <2> QED
    BY <1>1, <2>1, <2>2 DEF Settle, TypeOK
<1>3. OneRefreshAtATime' /\ RequestsCurrent' /\ RepliesNewest'
  BY <1>1 DEF OneRefreshAtATime, RequestsCurrent, RepliesNewest
<1>4. NoneAhead'
  <2>1. /\ r.access <= issued
        /\ r.access # None => \A c \in Callers : r.access > result[c]
    BY DEF Settle, RepliesNewest
  <2>2. /\ access' = r.access /\ issued' = issued /\ r.access \in Nat
        /\ \A c \in Callers : result'[c] \in {result[c], r.access} /\ result[c] \in Nat
    BY <1>0, IssuedAssumption DEF Settle, TypeOK
  <2> QED
    BY <2>1, <2>2 DEF NoneAhead
<1>5. SyncInv'
  <2>1. CASE r.refresh # None
    BY <2>1 DEF Settle, RepliesNewest, SyncInv, InSync
  <2>2. CASE r.refresh = None
    <3>1. InSync
      BY <2>2 DEF SyncInv, OneRefreshAtATime
    <3> QED
      BY <2>2, <3>1 DEF Settle, SyncInv, InSync
  <2> QED
    BY <2>1, <2>2
<1> QED
  BY <1>2, <1>3, <1>4, <1>5

\* The refresh in flight fails: nothing of the store or the server changes,
\* unless a rotated token was on its way, and then lost says so.
LEMMA FailStep ==
  ASSUME IInv,
         \/ \E r \in replies : Fail(r) \/ LoseReply(r)
         \/ \E q \in requests : LoseRequest(q)
  PROVE  IInv'
<1> USE DEF IInv, Reject
<1>1. /\ UNCHANGED <<store, result, server>>
      /\ inflight' = "null" /\ pc' = [c \in Callers |-> "idle"]
      /\ requests' \subseteq requests /\ replies' \subseteq replies
      /\ requests' \cup replies' = {}
  BY DEF Fail, LoseReply, LoseRequest, OneRefreshAtATime
<1>2. lost' \in BOOLEAN
  BY DEF Fail, LoseReply, LoseRequest, TypeOK
<1>3. TypeOK'
  BY <1>1, <1>2 DEF TypeOK
<1>4. OneRefreshAtATime' /\ RequestsCurrent' /\ RepliesNewest' /\ NoneAhead'
  BY <1>1 DEF OneRefreshAtATime, RequestsCurrent, RepliesNewest, NoneAhead
<1>5. SyncInv'
  <2>1. ASSUME NEW r \in replies, Fail(r)
        PROVE  SyncInv'
    BY <2>1 DEF Fail, SyncInv, InSync, OneRefreshAtATime
  <2>2. ASSUME NEW r \in replies, LoseReply(r)
        PROVE  SyncInv'
    BY <2>2 DEF LoseReply, SyncInv, InSync, OneRefreshAtATime, TypeOK
  <2>3. ASSUME NEW q \in requests, LoseRequest(q)
        PROVE  SyncInv'
    BY <2>3 DEF LoseRequest, SyncInv, InSync, OneRefreshAtATime
  <2> QED
    BY <2>1, <2>2, <2>3
<1> QED
  BY <1>3, <1>4, <1>5

\* The server answers the one request on its way.
LEMMA HonourStep ==
  ASSUME IInv, NEW q \in requests, Honour(q)
  PROVE  IInv'
<1> USE IssuedAssumption, TtlAssumption DEF IInv
<1> PICK new \in {None, issued + 1}, rotated \in {None, issued + 1},
         expires \in 0..Missing :
      /\ valid' = IF rotated # None THEN rotated ELSE valid
      /\ replies' = replies \cup
           {[ok |-> TRUE, access |-> new, refresh |-> rotated, expires |-> expires]}
  BY DEF Honour
<1> DEFINE r == [ok |-> TRUE, access |-> new, refresh |-> rotated, expires |-> expires]
<1>1. requests' = {} /\ replies = {} /\ replies' = {r}
  BY DEF Honour, OneRefreshAtATime
<1>2. issued' = issued + 1 /\ issued' \in 1..MaxIssued
  BY DEF Honour, TypeOK
<1>3. UNCHANGED <<store, inflight, pc, result, lost>>
  BY DEF Honour
<1>4. r \in Granted
  BY <1>2 DEF TypeOK, Granted
<1>5. TypeOK'
  <2>1. valid' \in Token
    BY <1>2 DEF TypeOK
  <2> QED
    BY <1>1, <1>2, <1>3, <1>4, <2>1 DEF TypeOK
<1>6. OneRefreshAtATime' /\ RequestsCurrent'
  BY <1>1, <1>3 DEF Honour, OneRefreshAtATime, RequestsCurrent
<1>7. NoneAhead' /\ RepliesNewest'
  BY <1>1, <1>2, <1>3 DEF NoneAhead, RepliesNewest, TypeOK
<1>8. SyncInv'
  <2>1. rotated = None => InSync'
    BY <1>1, <1>3 DEF SyncInv, InSync
  <2> QED
    BY <1>1, <2>1 DEF SyncInv
<1> QED
  BY <1>5, <1>6, <1>7, <1>8

\* The server refuses a request.
LEMMA RefuseStep ==
  ASSUME IInv, NEW q \in requests, Refuse(q)
  PROVE  IInv'
<1> USE DEF IInv
<1>1. requests' = {} /\ replies = {} /\ replies' = {Refused}
  BY DEF Refuse, OneRefreshAtATime
<1>2. UNCHANGED <<store, inflight, pc, result, server, lost>>
  BY DEF Refuse
<1>3. TypeOK'
  BY <1>1, <1>2 DEF TypeOK
<1>4. OneRefreshAtATime' /\ RequestsCurrent' /\ RepliesNewest' /\ NoneAhead'
  <2>1. ~Refused.ok
    BY DEF Refused
  <2> QED
    BY <1>1, <1>2, <2>1
       DEF OneRefreshAtATime, RequestsCurrent, RepliesNewest, NoneAhead
<1>5. SyncInv'
  BY <1>1, <1>2 DEF SyncInv, InSync
<1> QED
  BY <1>3, <1>4, <1>5

\* Time and stuttering disturb nothing but the time that is left.
LEMMA QuietStep ==
  ASSUME IInv, Tick \/ UNCHANGED vars
  PROVE  IInv'
<1> USE TtlAssumption DEF IInv
<1>1. ttl' \in 0..MaxTtl
  BY DEF Tick, vars, TypeOK
<1>2. UNCHANGED <<access, refresh, inflight, requests, replies, pc, result, server, lost>>
  BY DEF Tick, vars
<1> QED
  BY <1>1, <1>2 DEF TypeOK, OneRefreshAtATime, RequestsCurrent, RepliesNewest,
                    NoneAhead, SyncInv, InSync

\* Every step of callers, network and server keeps the invariant.
LEMMA NextInv == IInv /\ [Next]_vars => IInv'
  BY CallerStep, SettleStep, FailStep, HonourStep, RefuseStep, QuietStep DEF Next

\* The invariant holds in every behaviour of the store (oauth.ts).
THEOREM Invariance == Spec => []IInv
  BY InitInv, NextInv, PTL DEF Spec

-----------------------------------------------------------------------------
\* The variables keep their types.
THEOREM TypeCorrect == Spec => []TypeOK
<1>1. IInv => TypeOK
  BY DEF IInv
<1> QED
  BY <1>1, Invariance, PTL

\* The in-flight field admits one token request at a time.
THEOREM SingleRefresh == Spec => []OneRefreshAtATime
<1>1. IInv => OneRefreshAtATime
  BY DEF IInv
<1> QED
  BY <1>1, Invariance, PTL

\* Unless a rotated token was lost, the store can always refresh again.
THEOREM RefreshStaysUsable == Spec => []RefreshTokenInSync
<1>1. IInv => RefreshTokenInSync
  BY DEF IInv, SyncInv, InSync, RefreshTokenInSync
<1> QED
  BY <1>1, Invariance, PTL

\* No caller is given a token older than one given before.
THEOREM TokensAdvance == Spec => TokensMoveForward
<1>1. ASSUME IInv, [Next]_vars
      PROVE  [\A c, d \in Callers :
                result'[c] \notin {result[c], None} => result'[c] >= result[d]]_vars
  <2> SUFFICES ASSUME Next, NEW c \in Callers, NEW d \in Callers,
                      result'[c] # result[c], result'[c] # None
               PROVE  result'[c] >= result[d]
    BY <1>1
  <2> USE <1>1 DEF IInv
  <2>1. /\ access # None => result[d] <= access
        /\ access \in Nat /\ result[d] \in Nat
    BY IssuedAssumption DEF NoneAhead, TypeOK
  <2>2. ASSUME NEW e \in Callers, token(e) \/ refreshToken(e)
        PROVE  result'[c] = access
    BY <2>2 DEF token, refreshToken, TypeOK
  <2>3. ASSUME NEW r \in replies, Settle(r)
        PROVE  result'[c] > result[d] /\ result'[c] \in Nat
    <3>1. result'[c] = r.access
      BY <2>3 DEF Settle
    <3>2. r.access > result[d] /\ r.access \in Token
      BY <2>3, <3>1, GrantFields DEF Settle, RepliesNewest
    <3> QED
      BY <3>1, <3>2, IssuedAssumption
  <2>4. ASSUME \/ \E r \in replies : Fail(r) \/ LoseReply(r)
               \/ \E q \in requests : Honour(q) \/ Refuse(q) \/ LoseRequest(q)
               \/ Tick
        PROVE  FALSE
    BY <2>4 DEF Fail, LoseReply, Honour, Refuse, LoseRequest, Tick, Reject
  <2> QED
    BY <2>1, <2>2, <2>3, <2>4 DEF Next
<1> QED
  BY <1>1, Invariance, PTL DEF Spec, TokensMoveForward

-----------------------------------------------------------------------------
(* The lock is released. *)

\* Whatever fetchImpl does, a pending flight is answered or lost one day: its
\* request or its response is on its way.  Only a flight that the finally has
\* cleared too early (oauth.ts:71) is a rejected one, and nobody waits for it.
LockHasFlight ==
  /\ inflight = "pending" => requests \cup replies # {}
  /\ inflight = "rejected" => SyncThrow
  /\ \A c \in Callers : pc[c] = "waiting" => inflight = "pending"

\* Who waits for a refresh waits for a request or a response on its way.
NobodyStranded == \A c \in Callers : pc[c] = "waiting" => requests \cup replies # {}

\* A caller joins or starts the flight, or finds the rejected one.
LEMMA RefreshKeepsLock ==
  ASSUME TypeOK, LockHasFlight, NEW c \in Callers, refreshAccessToken(c), UNCHANGED replies
  PROVE  LockHasFlight'
<1> USE DEF LockHasFlight
<1>1. CASE inflight = "pending"
  BY <1>1 DEF refreshAccessToken
<1>2. CASE inflight = "rejected"
  BY <1>2 DEF refreshAccessToken
<1>3. CASE inflight = "null"
  <2>1. \A d \in Callers : pc[d] # "waiting"
    BY <1>3
  <2> QED
    BY <1>3, <2>1 DEF refreshAccessToken, TypeOK
<1> QED
  BY <1>1, <1>2, <1>3 DEF TypeOK

\* A flight that lands clears the field and releases everybody as it does.
LEMMA LockNext == TypeOK /\ LockHasFlight /\ [Next]_vars => LockHasFlight'
<1> SUFFICES ASSUME TypeOK, LockHasFlight, [Next]_vars PROVE LockHasFlight'
  OBVIOUS
<1> USE DEF LockHasFlight
<1>1. ASSUME NEW c \in Callers, token(c) \/ refreshToken(c)
      PROVE  LockHasFlight'
  <2>1. CASE refreshAccessToken(c) /\ UNCHANGED replies
    BY <2>1, RefreshKeepsLock
  <2>2. CASE UNCHANGED <<inflight, requests, replies, pc>>
    BY <2>2
  <2> QED
    BY <1>1, <2>1, <2>2 DEF token, refreshToken
<1>2. ASSUME NEW r \in replies, Settle(r) \/ Fail(r) \/ LoseReply(r)
      PROVE  LockHasFlight'
  BY <1>2 DEF Settle, Fail, LoseReply, Reject
<1>3. ASSUME NEW q \in requests, LoseRequest(q)
      PROVE  LockHasFlight'
  BY <1>3 DEF LoseRequest, Reject
<1>4. ASSUME NEW q \in requests, Honour(q) \/ Refuse(q)
      PROVE  LockHasFlight'
  BY <1>4 DEF Honour, Refuse
<1>5. CASE Tick \/ UNCHANGED vars
  BY <1>5 DEF Tick, vars
<1> QED
  BY <1>1, <1>2, <1>3, <1>4, <1>5 DEF Next

\* The invariant of the lock holds in every behaviour (oauth.ts:63-110).
LEMMA LockInvariance == Spec => []LockHasFlight
<1>1. Init => LockHasFlight
  BY DEF Init, LockHasFlight
<1>2. IInv => TypeOK
  BY DEF IInv
<1> QED
  BY <1>1, <1>2, LockNext, Invariance, PTL DEF Spec

\* Whatever fetchImpl does, nobody waits for a refresh that is over: what is
\* left to WaitersSettle is that the network answers (oauth.ts:63-110).
THEOREM WaitersHaveFlight == Spec => []NobodyStranded
<1>1. LockHasFlight => NobodyStranded
  BY DEF LockHasFlight, NobodyStranded
<1> QED
  BY <1>1, LockInvariance, PTL

\* With a fetchImpl that rejects and never throws, as fetch does, a refresh
\* that is over leaves the store able to start the next (oauth.ts:101-105).
THEOREM RefreshCanRestart == ~SyncThrow => (Spec => []NextCallRefreshesAgain)
<1> SUFFICES ASSUME ~SyncThrow PROVE Spec => []NextCallRefreshesAgain
  OBVIOUS
<1>1. IInv /\ LockHasFlight => NextCallRefreshesAgain
  BY DEF IInv, TypeOK, LockHasFlight, NextCallRefreshesAgain
<1> QED
  BY <1>1, Invariance, LockInvariance, PTL

-----------------------------------------------------------------------------
(* The store implements SharedToken: the server and the network are         *)
(* invisible until the flight lands.                                        *)

\* The store clientCredentials() makes is a shared token nobody waits for.
LEMMA InitRefines == Init => Shared!AInit
  BY DEF Init, Shared!AInit

\* A caller is given the token, or waits for the renewal with the others, or
\* finds a rejected flight, which changes nothing.
LEMMA CallerRefines ==
  ASSUME IInv, NEW c \in Callers, token(c) \/ refreshToken(c)
  PROVE  [Shared!Give(c) \/ Shared!Await(c)]_(Shared!avars)
<1> DEFINE awaiting == {d \in Callers : pc[d] = "waiting"}
<1>1. pc[c] = "idle" /\ pc \in [Callers -> {"idle", "waiting"}] /\ c \notin awaiting
  BY DEF token, refreshToken, IInv, TypeOK
<1>2. CASE refreshAccessToken(c) /\ UNCHANGED <<access, ttl, result>>
  <2>1. CASE pc' = [pc EXCEPT ![c] = "waiting"] /\ inflight' = "pending"
    <3>1. {d \in Callers : pc'[d] = "waiting"} = awaiting \cup {c}
      BY <1>1, <2>1
    <3>2. Shared!Await(c)
      BY <1>1, <1>2, <2>1, <3>1 DEF Shared!Await
    <3> QED
      BY <3>2
  <2>2. CASE pc' = pc /\ inflight # "pending" /\ inflight' # "pending"
    BY <1>2, <2>2 DEF Shared!avars
  <2> QED
    BY <1>2, <2>1, <2>2 DEF refreshAccessToken
<1>3. CASE /\ ttl > 0 /\ result' = [result EXCEPT ![c] = access]
           /\ UNCHANGED <<access, ttl, inflight, pc>>
  <2>1. Shared!Give(c)
    BY <1>1, <1>3 DEF Shared!Give
  <2> QED
    BY <2>1
<1> QED
  BY <1>2, <1>3 DEF token, refreshToken

\* The response that lands brings everybody who waits a newer token, or none.
LEMMA SettleRefines ==
  ASSUME IInv, NEW r \in replies, Settle(r)
  PROVE  Shared!Renewed
<1>1. inflight = "pending" /\ inflight' = "null"
  BY DEF Settle, IInv, OneRefreshAtATime
<1>2. access' # 0 => access' > access /\ \A c \in Callers : access' > result[c]
  BY DEF Settle, IInv, RepliesNewest
<1>3. ttl' \in 0..MaxTtl
  BY GrantFields DEF Settle, IInv, TypeOK
<1>4. {d \in Callers : pc'[d] = "waiting"} = {}
  BY DEF Settle
<1>5. result' = [c \in Callers |-> IF c \in {d \in Callers : pc[d] = "waiting"}
                                   THEN access' ELSE result[c]]
  BY DEF Settle
<1> QED
  BY <1>1, <1>2, <1>3, <1>4, <1>5 DEF Shared!Renewed

\* The flight that fails releases everybody and leaves the token as it was.
LEMMA FailRefines ==
  ASSUME IInv,
         \/ \E r \in replies : Fail(r) \/ LoseReply(r)
         \/ \E q \in requests : LoseRequest(q)
  PROVE  Shared!NotRenewed
<1>1. inflight = "pending"
  BY DEF Fail, LoseReply, LoseRequest, IInv, OneRefreshAtATime
<1>2. /\ inflight' = "null" /\ UNCHANGED <<access, ttl, result>>
      /\ {d \in Callers : pc'[d] = "waiting"} = {}
  BY DEF Fail, LoseReply, LoseRequest, Reject
<1> QED
  BY <1>1, <1>2 DEF Shared!NotRenewed

\* Every step of the store is one of the shared token, or invisible.
LEMMA StepRefines == IInv /\ [Next]_vars => [Shared!ANext]_(Shared!avars)
<1> SUFFICES ASSUME IInv, [Next]_vars
             PROVE  [Shared!ANext]_(Shared!avars)
  OBVIOUS
<1>1. CASE \E c \in Callers : token(c) \/ refreshToken(c)
  BY <1>1, CallerRefines DEF Shared!ANext
<1>2. CASE \E r \in replies : Settle(r) \/ Fail(r) \/ LoseReply(r)
  BY <1>2, SettleRefines, FailRefines DEF Shared!ANext
<1>3. CASE \E q \in requests : LoseRequest(q)
  BY <1>3, FailRefines DEF Shared!ANext
<1>4. CASE \E q \in requests : Honour(q) \/ Refuse(q)
  BY <1>4 DEF Honour, Refuse, Shared!avars
<1>5. CASE Tick
  <2>1. Shared!Ages
    BY <1>5 DEF Tick, Shared!Ages
  <2> QED
    BY <2>1 DEF Shared!ANext
<1>6. CASE UNCHANGED vars
  BY <1>6 DEF vars, Shared!avars
<1> QED
  BY <1>1, <1>2, <1>3, <1>4, <1>5, <1>6 DEF Next

\* Whatever the network, the server and fetchImpl do, the callers share one
\* token and one renewal (oauth.ts:47-110).
THEOREM StoreIsShared == Spec => ImplementsSharedToken
  BY InitRefines, StepRefines, Invariance, PTL
     DEF Spec, ImplementsSharedToken, Shared!ASpec
=============================================================================
