------------------------------- MODULE EmailBot -------------------------------
(****************************************************************************)
(* src/bot/email/email.ts: the IMAP side of EmailBot.  start(), stop(), the *)
(* 'mail' event and the poll timer all reach fetchNewEmails(), which is     *)
(* three callbacks long and reads this.imap, this.running and this.lastUid  *)
(* anew in each; fetches overlap.                                           *)
(*                                                                          *)
(* Mails are known by their UID, 1, 2, ...  The i-th start() makes the i-th *)
(* connection and, if it succeeds, the i-th interval.  The transporter is   *)
(* set and cleared together with this.imap and has no variable of its own.  *)
(* start() looks at this.running only: a second call may come while the     *)
(* first is awaited, and then both continue on whatever this.imap is by     *)
(* then.  "crossed" records that it happened.                               *)
(****************************************************************************)
EXTENDS Integers, FiniteSetsExt

CONSTANTS
  Fetches,      \* fetchNewEmails() calls that can be in progress
  MaxStarts,    \* bound: successful or failed calls of start()
  MaxMails,     \* bound: mails in the mailbox
  MaxErrors,    \* bound: requests that fail, and connections that die, by an error
  MaxHandled,   \* bound: up to which deliveries of one mail are counted
  PartialFetch  \* may a FETCH fail after it has delivered some messages?

ASSUME FetchesAssumption == IsFiniteSet(Fetches)
ASSUME EmailBoundsAssumption ==
  MaxStarts \in Nat /\ MaxMails \in Nat /\ MaxErrors \in Nat /\ MaxHandled \in Nat \ {0}
ASSUME PartialAssumption == PartialFetch \in BOOLEAN

Starts == 1..MaxStarts
Uids == 1..MaxMails
null == 0

VARIABLES
  running,    \* this.running
  imap,       \* this.imap: the number of a start, or null
  pollTimer,  \* this.pollTimer: the number of a start, or null
  lastUid,    \* this.lastUid
  timers,     \* the intervals that are ticking
  started,    \* number of calls of start() so far
  conn,       \* [Starts -> ConnState]
  opening,    \* [Starts -> the SELECT that a start() waits for]
  listen,     \* [Starts -> the connection a start() put its listeners on]
  news,       \* the starts whose 'mail' listener has an event to handle
  fetch,      \* [Fetches -> the state of a fetchNewEmails() call]
  uidnext,    \* server: the UID of the next mail
  failures,   \* number of errors so far
  handled,    \* history: [Uids -> 0..MaxHandled]  times given to the handler, capped
  skipped,    \* history: mails a start() found in the mailbox and passed over
  crossed     \* history: a start() was called while another was awaited

bot == <<running, imap, pollTimer, lastUid, timers>>
net == <<started, conn, opening, listen, news>>
history == <<handled, skipped>>
vars == <<bot, net, fetch, uidnext, failures, history, crossed>>

\* ready: logged in.  open: with a mailbox.  lost: only 'error' told us so.
ConnState == {"none", "connecting", "ready", "open", "lost", "closed"}
NoSelect == [on |-> null, next |-> 1]
Idle == [st |-> "idle", on |-> null, from |-> 0, uids |-> {}, got |-> {}]

Larger(a, b) == IF a > b THEN a ELSE b

Init ==
  /\ running = FALSE /\ imap = null /\ pollTimer = null /\ lastUid = 0 /\ timers = {}
  /\ started = 0 /\ conn = [s \in Starts |-> "none"] /\ news = {}
  /\ opening = [s \in Starts |-> NoSelect] /\ listen = [s \in Starts |-> null]
  /\ fetch = [f \in Fetches |-> Idle]
  /\ uidnext \in 1..(MaxMails + 1) /\ failures = 0
  /\ handled = [u \in Uids |-> 0] /\ skipped = {} /\ crossed = FALSE

-----------------------------------------------------------------------------
(* start(): make the connection, wait for ready, open the box, listen.      *)

Starting == \E s \in Starts : conn[s] = "connecting" \/ opening[s].on # null

start ==
  /\ ~running
  /\ started < MaxStarts
  /\ started' = started + 1
  /\ imap' = started + 1
  /\ conn' = [conn EXCEPT ![started + 1] = "connecting"]
  /\ crossed' = (crossed \/ Starting)
  /\ UNCHANGED <<running, pollTimer, lastUid, timers, opening, listen, news, fetch,
                 uidnext, failures, history>>

\* 'ready' fires: openBox() asks for the mailbox of what is this.imap by now;
\* without one, or with one that is not logged in, start() rejects.
Ready(s) ==
  /\ conn[s] = "connecting"
  /\ conn' = [conn EXCEPT ![s] = "ready"]
  /\ opening' = IF imap # null /\ conn'[imap] \in {"ready", "open"}
                THEN [opening EXCEPT ![s] = [on |-> imap, next |-> uidnext]]
                ELSE opening
  /\ UNCHANGED <<bot, started, listen, news, fetch, uidnext, failures, history, crossed>>

\* 'error' instead of 'ready', or an error from openBox(): start() rejects and
\* this.imap keeps the connection.
StartFails(s) ==
  /\ \/ /\ conn[s] = "connecting"
        /\ conn' = [conn EXCEPT ![s] = "closed"]
        /\ opening' = opening
     \/ /\ opening[s].on # null
        /\ opening' = [opening EXCEPT ![s] = NoSelect]
        /\ conn' = conn
  /\ UNCHANGED <<bot, started, listen, news, fetch, uidnext, failures, history, crossed>>

\* Faults, for the mutation runs only.
FirstUid_PastNext(next) == next
KeepTimer_Forgets(s) == pollTimer' = pollTimer

\* The mark of a new run, and the interval that stop() will clear.
FirstUid(next) == next - 1
KeepTimer(s) == pollTimer' = s

\* openBox() calls back and start() runs to its end, on what is this.imap by
\* now; null throws.
Opened(s) ==
  LET select == opening[s]
  IN /\ select.on # null /\ conn[select.on] \in {"ready", "open"}
     /\ opening' = [opening EXCEPT ![s] = NoSelect]
     /\ conn' = [conn EXCEPT ![select.on] = "open"]
     /\ lastUid' = FirstUid(select.next)
     /\ skipped' = skipped \cup {u \in 1..(select.next - 1) : handled[u] = 0}
     /\ IF imap = null
        THEN UNCHANGED <<running, pollTimer, timers, listen>>
        ELSE /\ listen' = [listen EXCEPT ![s] = imap]
             /\ KeepTimer(s)
             /\ timers' = timers \cup {s}
             /\ running' = TRUE
     /\ UNCHANGED <<imap, started, news, fetch, uidnext, failures, handled, crossed>>

\* stop(): a no-op unless running; imap.end() closes the connection later.
stop ==
  /\ running
  /\ running' = FALSE
  /\ timers' = timers \ {pollTimer}
  /\ pollTimer' = null
  /\ imap' = null
  /\ UNCHANGED <<lastUid, net, fetch, uidnext, failures, history, crossed>>

Heard(k) == \E s \in Starts : listen[s] = k

\* 'end': the connection is over, at the server's or at stop()'s wish.  The
\* listener does not look whose connection it was.
End(k) ==
  /\ conn[k] \in {"ready", "open", "lost"}
  /\ conn' = [conn EXCEPT ![k] = "closed"]
  /\ news' = {s \in news : listen[s] # k}
  /\ running' = (running /\ ~Heard(k))
  /\ UNCHANGED <<imap, pollTimer, lastUid, timers, started, opening, listen, fetch,
                 uidnext, failures, history, crossed>>

\* 'error' on an open connection: it is dead, and the listener only logs that.
Lost(k) ==
  /\ conn[k] = "open" /\ Heard(k)
  /\ conn' = [conn EXCEPT ![k] = "lost"]
  /\ news' = {s \in news : listen[s] # k}
  /\ failures < MaxErrors
  /\ failures' = failures + 1
  /\ UNCHANGED <<bot, started, opening, listen, fetch, uidnext, history, crossed>>

-----------------------------------------------------------------------------
(* fetchNewEmails(). *)

Request(f, conn_, from) ==
  fetch' = [fetch EXCEPT ![f] = [Idle EXCEPT !.st = "searching", !.on = conn_, !.from = from]]

\* search() and fetch() throw without a connection or without a mailbox.
HasBox == imap # null /\ conn[imap] \notin {"connecting", "ready"}

fetchNewEmails ==
  \/ (~running \/ ~HasBox) /\ UNCHANGED fetch
  \/ /\ running /\ HasBox
     /\ \E f \in Fetches : fetch[f].st = "idle" /\ Request(f, imap, lastUid + 1)

MailEvent(s) ==
  /\ s \in news
  /\ news' = news \ {s}
  /\ fetchNewEmails
  /\ UNCHANGED <<bot, started, conn, opening, listen, uidnext, failures, history, crossed>>

\* Fault: a timer that fires once in place of the interval.
Poll_Once(t) ==
  /\ t \in timers
  /\ timers' = timers \ {t}
  /\ running
  /\ fetchNewEmails
  /\ UNCHANGED <<running, imap, pollTimer, lastUid, net, uidnext, failures, history, crossed>>

Poll(t) ==
  /\ t \in timers
  /\ running          \* the interval's callback looks at this first
  /\ fetchNewEmails
  /\ UNCHANGED <<bot, net, uidnext, failures, history, crossed>>

\* IMAP: the range n:* always contains the last mail of the mailbox, below n too.
Found(from) == {u \in 1..(uidnext - 1) : u >= from \/ u = uidnext - 1}

\* The search calls back.  No mail: done.  Else the FETCH goes to what is
\* this.imap by now, or throws.
Searched(f) ==
  LET uids == Found(fetch[f].from)
  IN /\ fetch[f].st = "searching" /\ conn[fetch[f].on] = "open"
     /\ fetch' = [fetch EXCEPT ![f] =
          IF uids # {} /\ HasBox
          THEN [@ EXCEPT !.st = "fetching", !.on = imap, !.uids = uids]
          ELSE Idle]
     /\ UNCHANGED <<bot, net, uidnext, failures, history, crossed>>

\* A message ends: it is kept for later, and lastUid moves up at once.
Message(f) ==
  LET left == fetch[f].uids \ fetch[f].got
  IN /\ fetch[f].st = "fetching" /\ conn[fetch[f].on] = "open"
     /\ left # {}
     /\ fetch' = [fetch EXCEPT ![f].got = @ \cup {Min(left)}]
     /\ lastUid' = Larger(lastUid, Min(left))
     /\ UNCHANGED <<running, imap, pollTimer, timers, net, uidnext, failures, history, crossed>>

Hand(uids) == handled' = [u \in Uids |-> IF u \in uids /\ handled[u] < MaxHandled
                                         THEN handled[u] + 1 ELSE handled[u]]

FetchEnd_SetsUid(f) ==
  /\ fetch[f].st = "fetching" /\ fetch[f].got = fetch[f].uids
  /\ Hand(fetch[f].got)
  /\ lastUid' = Max(fetch[f].uids)
  /\ fetch' = [fetch EXCEPT ![f] = Idle]
  /\ UNCHANGED <<running, imap, pollTimer, timers, net, uidnext, failures, skipped, crossed>>

FetchEnd_LastOnly(f) ==
  /\ fetch[f].st = "fetching" /\ fetch[f].got = fetch[f].uids
  /\ Hand({Max(fetch[f].got)})
  /\ lastUid' = Larger(lastUid, Max(fetch[f].uids))
  /\ fetch' = [fetch EXCEPT ![f] = Idle]
  /\ UNCHANGED <<running, imap, pollTimer, timers, net, uidnext, failures, skipped, crossed>>

\* The fetch ends: every message goes to the handler, whatever stop() did.
FetchEnd(f) ==
  /\ fetch[f].st = "fetching" /\ fetch[f].got = fetch[f].uids
  /\ Hand(fetch[f].got)
  /\ lastUid' = Larger(lastUid, Max(fetch[f].uids))
  /\ fetch' = [fetch EXCEPT ![f] = Idle]
  /\ UNCHANGED <<running, imap, pollTimer, timers, net, uidnext, failures, skipped, crossed>>

\* SEARCH or FETCH fails: the messages read so far are dropped.
FetchFails(f) ==
  /\ fetch[f].st # "idle"
  /\ \/ conn[fetch[f].on] \in {"lost", "closed"} /\ UNCHANGED failures
     \/ /\ failures < MaxErrors
        /\ fetch[f].got = {} \/ PartialFetch
        /\ failures' = failures + 1
  /\ fetch' = [fetch EXCEPT ![f] = Idle]
  /\ UNCHANGED <<bot, net, uidnext, history, crossed>>

-----------------------------------------------------------------------------
\* The server: a mail arrives, and the open connections are told.
Arrive ==
  /\ uidnext <= MaxMails
  /\ uidnext' = uidnext + 1
  /\ news' = {s \in Starts : listen[s] # null /\ conn[listen[s]] = "open"}
  /\ UNCHANGED <<bot, started, conn, opening, listen, fetch, failures, history, crossed>>

Progress(f) == Searched(f) \/ Message(f) \/ FetchEnd(f) \/ FetchFails(f)

Next ==
  \/ start
  \/ stop
  \/ \E s \in Starts : Ready(s) \/ StartFails(s) \/ Opened(s) \/ MailEvent(s)
  \/ \E k \in Starts : End(k) \/ Lost(k)
  \/ \E t \in timers : Poll(t)
  \/ \E f \in Fetches : Progress(f)
  \/ Arrive

Spec == Init /\ [][Next]_vars

(* setInterval keeps firing, and IMAP requests are answered or fail with    *)
(* their connection.  'mail' events are not promised.                       *)
Fairness ==
  /\ WF_vars(\E t \in timers : Poll(t))
  /\ \A f \in Fetches : WF_vars(Progress(f))

FairSpec == Spec /\ Fairness

-----------------------------------------------------------------------------
(* Properties. *)

\* The variables keep their types.
TypeOK ==
  /\ running \in BOOLEAN
  /\ imap \in Starts \cup {null} /\ pollTimer \in Starts \cup {null}
  /\ lastUid \in 0..MaxMails /\ timers \subseteq Starts
  /\ started \in 0..MaxStarts /\ conn \in [Starts -> ConnState]
  /\ opening \in [Starts -> [on : Starts \cup {null}, next : 1..(MaxMails + 1)]]
  /\ listen \in [Starts -> Starts \cup {null}] /\ news \subseteq Starts
  /\ fetch \in [Fetches -> [st : {"idle", "searching", "fetching"},
                            on : Starts \cup {null}, from : 0..(MaxMails + 1),
                            uids : SUBSET Uids, got : SUBSET Uids]]
  /\ uidnext \in 1..(MaxMails + 1) /\ failures \in 0..MaxErrors
  /\ handled \in [Uids -> 0..MaxHandled] /\ skipped \subseteq Uids /\ crossed \in BOOLEAN

\* email.ts:125-190: a bot that says it runs holds a connection, and the
\* interval it can clear is ticking.  Unless starts crossed, that interval is
\* the one of its connection, which is open or was lost by an error: no
\* connection that ended, early or late, its own or an older one, is taken for it.
RunningIsServed ==
  running => /\ imap # null /\ pollTimer \in timers
             /\ ~crossed => pollTimer = imap /\ conn[imap] \in {"open", "lost"}

\* The bot runs on a live connection, and no starts crossed.  email.ts:175-177
\* only logs an 'error': the bot then runs on without a connection.
Serving == running /\ ~crossed /\ imap # null /\ conn[imap] = "open"

\* email.ts:330-331, 345: lastUid never runs ahead of the mailbox, or the next
\* mail would be taken for one already processed.
LastUidBehindMailbox == lastUid < uidnext

\* email.ts:387-415: overlapping fetches that end in any order, on a live
\* connection or a dead one, never move a running bot's lastUid back; only the
\* openBox() of a start that crossed another does.
LastUidAdvances == [][running /\ ~crossed => lastUid' >= lastUid]_vars

\* email.ts:330 "lastUid = uidnext - 1 means processed up to uidnext - 1": up
\* to lastUid every mail was handed over, is in a fetch that is still running,
\* or was there before start(), as long as the connection lives.
NoMailLost ==
  Serving => \A u \in 1..lastUid :
    \/ handled[u] > 0
    \/ u \in skipped
    \/ \E f \in Fetches : u \in fetch[f].got

\* email.ts:183 "polling as a safety net: fine even if a 'mail' event is
\* missed": a mail that arrives while the bot runs reaches the handler, unless
\* the bot is stopped or loses its connection first.
MailIsHandled ==
  \A u \in Uids :
    Serving /\ u < uidnext ~> handled[u] > 0 \/ u \in skipped \/ ~Serving

\* email.ts:344 "search for new mails with UID > lastUid": no mail is given to
\* the handler twice.
NoRedelivery == \A u \in Uids : handled[u] <= 1

-----------------------------------------------------------------------------
(* To its handler the bot is a mark in an inbox, and batches read from it. *)

Mailbox == INSTANCE Inbox WITH
  arrived <- uidnext - 1,
  mark <- lastUid,
  open <- Serving,
  batch <- [f \in Fetches |-> fetch[f].got]

\* email.ts:183-225, 335-420: connections, searches, events and timers are
\* invisible to the handler.  However fetches overlap, a running bot moves
\* lastUid over no mail that is not accounted for, and mails of one fetch come
\* in order and are handed over together.
ImplementsInbox == Mailbox!ASpec
=============================================================================
