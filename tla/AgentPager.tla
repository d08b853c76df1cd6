----------------------------- MODULE AgentPager -----------------------------
(***************************************************************************)
(* AgentsService.iter: list() page after page until the page number has    *)
(* reached the totalPages of the page just read.  Each list() is a call of *)
(* HttpCall.  Agents register at the end of the server's list and leave it *)
(* at any time (external), also between two pages.  An agent is the number *)
(* of its registration.                                                    *)
(***************************************************************************)
EXTENDS HttpCall, FiniteSets, Sequences, Functions

CONSTANTS
    MaxAgents,      \* bound: agents that ever register
    MaxPageSize,    \* the clamp of list(): 100
    PageSizes       \* opts.pageSize of the callers

ASSUME PagerAssumption ==
    MaxAgents \in Nat /\ MaxPageSize \in Nat \ {0} /\ PageSizes \subseteq Nat

VARIABLES
    atStart,    \* the agents in the registry when iter() is called
    joined,     \* the agents that have registered by now
    gone,       \* those that have left since
    page,       \* the page asked for
    pageSize,   \* the page size iter() hands to list()
    response,   \* the page in hand: the agents still to yield, totalPages
    got,        \* the agents yielded
    sound,      \* every answer that was taken for a page was one
    iter        \* asking, page, yielded, or how the iteration ended

pagerVars == <<atStart, joined, gone, page, pageSize, response, got, sound, iter>>

Iterating == method = <<"agents", "iter">>

Clamp(n) == IF n < 1 THEN 1 ELSE IF n > MaxPageSize THEN MaxPageSize ELSE n

Iterates == Iterating /\ iter \in {"asking", "page", "yielded"}

\* The server's list, in the order of registration, and an agent's place in it.
registry == (1 .. joined) \ gone
Position(a) == Cardinality({b \in registry : b <= a})

\* The server's answer for pages of n agents (external).  The agents of a page
\* are a set, which is read in the list's order.
ServerPage(p, n) ==
    [agents |-> {a \in registry : (p - 1) * n < Position(a) /\ Position(a) <= p * n},
     totalPages |-> (Cardinality(registry) + n - 1) \div n]

PagerInit ==
    /\ atStart \in 0 .. MaxAgents
    /\ joined = atStart
    /\ gone = {}
    /\ page = 1
    /\ pageSize \in {IF n < 1 THEN 1 ELSE n : n \in PageSizes}
    /\ response = [agents |-> {}, totalPages |-> 0]
    /\ got = <<>>
    /\ sound = TRUE
    /\ iter = "asking"

Ask ==
    /\ Iterating
    /\ iter = "asking"
    /\ Send
    /\ UNCHANGED pagerVars

\* list() returns.  An answer below 400 that is no page, because it is no
\* JSON or has no agents, reads as an empty and last page.
List ==
    /\ Iterating
    /\ iter = "asking"
    /\ Answered
    /\ IF out'.is # "value"
       THEN iter' = "thrown" /\ UNCHANGED <<response, sound>>
       ELSE /\ iter' = "page"
            /\ sound' = (sound /\ answer'.body = "result")
            /\ response' = IF answer'.body = "result"
                           THEN ServerPage(page, Clamp(pageSize))
                           ELSE [agents |-> {}, totalPages |-> 1]
    /\ UNCHANGED <<atStart, joined, gone, page, pageSize, got>>

ListFails ==
    /\ Iterating
    /\ iter = "asking"
    /\ Refused \/ TimerFires
    /\ iter' = "thrown"
    /\ UNCHANGED <<atStart, joined, gone, page, pageSize, response, got, sound>>

Yield ==
    /\ iter = "page"
    /\ \E a \in response.agents :
         /\ \A b \in response.agents : a <= b
         /\ got' = Append(got, a)
         /\ response' = [response EXCEPT !.agents = @ \ {a}]
    /\ iter' = "yielded"
    /\ UNCHANGED <<atStart, joined, gone, page, pageSize, sound, httpVars>>

\* The caller asks for the next agent, or leaves its loop.
NextAgent ==
    /\ iter = "yielded"
    /\ iter' \in {"page", "left"}
    /\ UNCHANGED <<atStart, joined, gone, page, pageSize, response, got, sound,
                   httpVars>>

\* Fault: the last page is never asked for.
LastPage_OneEarly == page + 1 >= response.totalPages
LastPage == page >= response.totalPages

\* The page is used up: it was the last one, or list() is called again.
PageDone ==
    /\ Iterating
    /\ iter = "page"
    /\ response.agents = {}
    /\ IF LastPage
       THEN iter' = "returned" /\ UNCHANGED <<page, httpVars>>
       ELSE /\ iter' = "asking"
            /\ page' = page + 1
            /\ step' = "ready"
            /\ out' = Nothing
            /\ tries' = 0
            /\ UNCHANGED <<method, answer, used, served,
                           applied, unheard>>
    /\ UNCHANGED <<atStart, joined, gone, pageSize, response, got, sound>>

\* The registry changes under the iteration; who has left does not return.
Register ==
    /\ Iterates
    /\ joined < MaxAgents
    /\ joined' = joined + 1
    /\ UNCHANGED <<atStart, gone, page, pageSize, response, got, sound, iter,
                   httpVars>>

Deregister ==
    /\ Iterates
    /\ \E a \in (1 .. joined) \ gone : gone' = gone \cup {a}
    /\ UNCHANGED <<atStart, joined, page, pageSize, response, got, sound, iter,
                   httpVars>>

PagerNext ==
    \/ Ask
    \/ List
    \/ ListFails
    \/ Yield
    \/ NextAgent
    \/ PageDone
    \/ Register
    \/ Deregister

\* The code and its caller go on, and the timer of a list() fires.
PagerFairness ==
    /\ WF_<<pagerVars, httpVars>>(Ask)
    /\ WF_<<pagerVars, httpVars>>(ListFails /\ TimerFires)
    /\ WF_<<pagerVars, httpVars>>(Yield \/ NextAgent \/ PageDone)

----------------------------------------------------------------------------
\* The variables of the iteration keep their types.
PagerTypeOK ==
    /\ joined \in 0 .. MaxAgents
    /\ atStart \in 0 .. joined
    /\ gone \subseteq 1 .. joined
    /\ page \in Nat \ {0}
    /\ pageSize \in Nat \ {0}
    /\ response \in [agents : SUBSET (1 .. joined), totalPages : Nat]
    /\ got \in Seq(1 .. joined)
    /\ sound \in BOOLEAN
    /\ iter \in {"asking", "page", "yielded", "returned", "thrown", "left"}

\* agents.ts:77-90: an iteration that returns after good pages has yielded
\* everybody who was there from its start to its end, except at most one for
\* each agent that left under it; nobody is yielded twice.
EachLeaverHidesOne ==
    /\ iter = "returned" /\ sound =>
          Cardinality((1 .. atStart) \ (gone \cup Range(got)))
             <= Cardinality(gone)
    /\ IsInjective(got)

\* agents.ts:80-89: an iteration ends: the answers come or time out, and the registry cannot
\* grow for ever.
IterEnds == Iterating ~> (iter \in {"returned", "thrown", "left"})
=============================================================================
