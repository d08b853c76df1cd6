----------------------------- MODULE ClientCalls -----------------------------
(***************************************************************************)
(* What an application does with the SDK over HTTP: one call of a client   *)
(* (HttpCall), a chat stream whose lines it reads once the call has been   *)
(* answered (ChatStream), or an iteration over the agents that makes one   *)
(* call per page (AgentPager).                                             *)
(***************************************************************************)
EXTENDS ChatStream, AgentPager

vars == <<httpVars, chatVars, pagerVars>>

\* The parts that a call does not use keep one value.
Init ==
    /\ HttpInit
    /\ ChatInit
    /\ PagerInit
    /\ method # <<"chat", "stream">> => body = <<>>
    /\ ~Iterating => joined = 0 /\ pageSize = 1

Next ==
    \/ ~Iterating /\ HttpNext /\ UNCHANGED <<chatVars, pagerVars>>
    \/ ChatNext /\ UNCHANGED pagerVars
    \/ PagerNext /\ UNCHANGED chatVars

Fairness ==
    /\ ChatFairness
    /\ PagerFairness

Spec == Init /\ [][Next]_vars /\ Fairness

TypeOK == HttpTypeOK /\ ChatTypeOK /\ PagerTypeOK
=============================================================================
