---------------------------- MODULE EmailBotProofs ----------------------------
(***************************************************************************)
(* Theorems about EmailBot, for any number of fetches, mails, starts and   *)
(* failures.  lastUid says that everything up to it is accounted for.      *)
(* That rests on what a fetch in progress may still know: from which UID   *)
(* it searched, what it found, and on which connection.  Some of it holds  *)
(* whatever starts cross, the rest (Uncrossed) as long as none did.        *)
(***************************************************************************)
EXTENDS EmailBot, WellFoundedInduction, TLAPS

\* What a start() will make is not there yet.
Untouched ==
    \A s \in Starts : s > started =>
        conn[s] = "none" /\ opening[s].on = null /\ listen[s] = null

\* openBox() tells where the mailbox ended when it was asked, or before.
NextKnown == \A s \in Starts : opening[s].next <= uidnext

\* A running bot has a connection to use and an interval to clear.
Backed == running => imap # null /\ pollTimer \in timers

\* What a FETCH brings is in the mailbox, without a gap above the UID it
\* searched from.
FoundKnown ==
    \A f \in Fetches :
        /\ fetch[f].st # "idle" => fetch[f].from <= uidnext
        /\ fetch[f].st = "fetching" =>
              /\ fetch[f].uids # {} /\ fetch[f].got \subseteq fetch[f].uids
              /\ \A v \in fetch[f].uids : v < uidnext
              /\ \A v \in fetch[f].uids, u \in Uids :
                    fetch[f].from <= u /\ u <= v => u \in fetch[f].uids

Fresh == \A f \in Fetches : fetch[f].st # "fetching" => fetch[f].got = {}

\* Only the last start() can be under way, and its connection is this.imap.
OneStart ==
    \A s \in Starts :
        /\ conn[s] = "connecting" \/ opening[s].on # null =>
              s = started /\ imap = s /\ ~running
        /\ opening[s].on \in {null, s} /\ listen[s] \in {null, s}

\* A running bot listens to its own connection.
Served ==
    running => pollTimer = imap /\ conn[imap] \in {"open", "lost"} /\ listen[imap] = imap

\* The mailbox of this.imap is being opened.
Pending == imap # null /\ opening[imap].on # null

\* A search starts no later than where the running bot will look next.
FromKnown ==
    \A f \in Fetches : fetch[f].st # "idle" =>
        /\ running => fetch[f].from <= lastUid + 1
        /\ Pending => fetch[f].from <= opening[imap].next

\* What an older connection's FETCH brings, start() passes over.
OldCovered ==
    \A f \in Fetches : fetch[f].st = "fetching" /\ fetch[f].on # imap =>
        \A v \in fetch[f].uids :
            /\ running => handled[v] > 0 \/ v \in skipped
            /\ Pending => v < opening[imap].next

Uncrossed == OneStart /\ Served /\ FromKnown /\ OldCovered

NothingLost == ~PartialFetch => NoMailLost

IInv ==
    /\ TypeOK
    /\ Untouched
    /\ NextKnown
    /\ Backed
    /\ FoundKnown
    /\ Fresh
    /\ LastUidBehindMailbox
    /\ ~crossed => Uncrossed
    /\ NothingLost

----------------------------------------------------------------------------
\* The least and the greatest of a set of UIDs.

LEMMA MinFact ==
  ASSUME NEW S \in SUBSET Nat, S # {}
  PROVE  Min(S) \in S /\ \A y \in S : Min(S) <= y
<1> DEFINE R == OpToRel(<, Nat)
<1>1. \A x, y \in Nat : <<x, y>> \in R <=> x < y
  BY DEF OpToRel
<1>2. IsWellFoundedOn(R, Nat)
  BY NatLessThanWellFounded
<1> HIDE DEF R
<1>3. PICK x \in S : \A y \in S : ~ (<<y, x>> \in R)
  BY <1>2, WFMin
<1>4. ASSUME NEW y \in S
      PROVE  x <= y
  <2>1. x \in Nat /\ y \in Nat
    OBVIOUS
  <2>2. ~ (y < x)
    BY <1>1, <1>3, <2>1
  <2> QED
    BY <2>1, <2>2
<1> QED
  BY <1>4 DEF Min

LEMMA MaxFact ==
  ASSUME NEW n \in Nat, NEW S \in SUBSET (1 .. n), S # {}
  PROVE  Max(S) \in S /\ \A y \in S : Max(S) >= y
<1> DEFINE T == {n - x : x \in S}
<1>1. T \in SUBSET Nat
  <2>1. \A x \in S : x \in Nat /\ x <= n
    OBVIOUS
  <2> QED
    BY <2>1
<1>2. T # {}
  OBVIOUS
<1>3. Min(T) \in T /\ \A y \in T : Min(T) <= y
  BY <1>1, <1>2, MinFact
<1>4. PICK x \in S : Min(T) = n - x
  BY <1>3
<1>5. ASSUME NEW y \in S
      PROVE  x >= y
  <2>1. n - y \in T
    OBVIOUS
  <2>2. n - x <= n - y
    BY <1>3, <1>4, <2>1
  <2>3. x \in Nat /\ y \in Nat
    OBVIOUS
  <2> HIDE DEF T
  <2> QED
    BY <2>2, <2>3
<1> QED
  BY <1>5 DEF Max

----------------------------------------------------------------------------
FetchType == [st : {"idle", "searching", "fetching"},
              on : Starts \cup {null}, from : 0..(MaxMails + 1),
              uids : SUBSET Uids, got : SUBSET Uids]

SelectType == [on : Starts \cup {null}, next : 1..(MaxMails + 1)]

LEMMA IdleFetch == Idle \in FetchType /\ Idle.st = "idle" /\ Idle.got = {}
BY EmailBoundsAssumption DEF Idle, FetchType, null

LEMMA NoSelectFact == NoSelect \in SelectType /\ NoSelect.on = null /\ NoSelect.next = 1
BY EmailBoundsAssumption DEF NoSelect, SelectType, null

LEMMA InitInv == Init => IInv
<1> SUFFICES ASSUME Init PROVE IInv
  OBVIOUS
<1> USE EmailBoundsAssumption DEF Init
<1>1. TypeOK
  <2>1. fetch \in [Fetches -> FetchType] /\ opening \in [Starts -> SelectType]
    BY IdleFetch, NoSelectFact
  <2>2. /\ conn \in [Starts -> ConnState] /\ handled \in [Uids -> 0..MaxHandled]
        /\ skipped \subseteq Uids /\ news \subseteq Starts /\ timers \subseteq Starts
        /\ listen \in [Starts -> Starts \cup {null}]
    BY DEF ConnState
  <2>3. /\ running \in BOOLEAN /\ crossed \in BOOLEAN
        /\ imap \in Starts \cup {null} /\ pollTimer \in Starts \cup {null}
    OBVIOUS
  <2>4. /\ lastUid \in 0..MaxMails /\ started \in 0..MaxStarts
        /\ failures \in 0..MaxErrors
    OBVIOUS
  <2> QED
    BY <2>1, <2>2, <2>3, <2>4 DEF TypeOK, FetchType, SelectType
<1>2. \A s \in Starts : opening[s].on = null /\ opening[s].next = 1
  BY NoSelectFact
<1>3. Untouched /\ NextKnown /\ Backed /\ OneStart /\ Served
  BY <1>2 DEF Untouched, NextKnown, Backed, OneStart, Served
<1>4. \A f \in Fetches : fetch[f].st = "idle" /\ fetch[f].got = {}
  BY DEF Idle
<1>5. FromKnown /\ FoundKnown /\ Fresh /\ OldCovered
  BY <1>4 DEF FromKnown, FoundKnown, Fresh, OldCovered
<1>6. LastUidBehindMailbox /\ NothingLost
  BY DEF LastUidBehindMailbox, NothingLost, NoMailLost
<1> QED
  BY <1>1, <1>3, <1>5, <1>6 DEF IInv, Uncrossed

----------------------------------------------------------------------------
\* The steps of start(), stop() and the connections.

\* They leave fetches and marks alone, and make no bot run or serve.
LEMMA ConnInv ==
  ASSUME IInv, TypeOK', Untouched', NextKnown', Backed',
         ~crossed' => ~crossed /\ OneStart' /\ Served',
         UNCHANGED <<fetch, lastUid, uidnext, handled, skipped>>,
         running' => running /\ imap' = imap,
         ~crossed' /\ Pending' => \/ opening'[imap'].next = uidnext
                                  \/ /\ Pending /\ imap' = imap
                                     /\ opening'[imap] = opening[imap],
         Serving' => Serving
  PROVE  IInv'
<1> USE DEF IInv
<1>1. FoundKnown' /\ Fresh' /\ LastUidBehindMailbox'
  BY DEF FoundKnown, Fresh, LastUidBehindMailbox
<1>2. NothingLost'
  BY DEF NothingLost, NoMailLost
<1>3. ASSUME ~crossed' PROVE FromKnown'
  BY <1>3 DEF FromKnown, FoundKnown, Uncrossed
<1>4. ASSUME ~crossed' PROVE OldCovered'
  <2> SUFFICES ASSUME NEW f \in Fetches, fetch[f].st = "fetching", fetch[f].on # imap',
                      NEW v \in fetch[f].uids
               PROVE  /\ running' => handled[v] > 0 \/ v \in skipped
                      /\ Pending' => v < opening'[imap'].next
    BY DEF OldCovered
  <2>1. v < uidnext
    BY DEF FoundKnown
  <2> QED
    BY <1>4, <2>1 DEF OldCovered, Uncrossed
<1> QED
  BY <1>1, <1>2, <1>3, <1>4 DEF Uncrossed

LEMMA StartInv == IInv /\ start => IInv'
<1> SUFFICES ASSUME IInv, start PROVE IInv'
  OBVIOUS
<1> USE EmailBoundsAssumption DEF IInv
<1>1. /\ ~running /\ started < MaxStarts /\ crossed' = (crossed \/ Starting)
      /\ started' = started + 1 /\ imap' = started + 1
      /\ UNCHANGED <<running, pollTimer, lastUid, timers, opening, listen, news, fetch,
                     uidnext, failures, handled, skipped>>
  BY DEF start, history
<1>2. started + 1 \in Starts /\ started \in Nat
  BY <1>1 DEF TypeOK, Starts
<1>3. /\ conn' \in [Starts -> ConnState]
      /\ \A s \in Starts : conn'[s] = IF s = started + 1 THEN "connecting" ELSE conn[s]
  BY <1>2 DEF start, TypeOK, ConnState
<1>4. TypeOK'
  <2>1. started' \in 0..MaxStarts /\ imap' \in Starts \cup {null} /\ crossed' \in BOOLEAN
    BY <1>1, <1>2 DEF TypeOK
  <2> QED
    BY <1>1, <1>3, <2>1 DEF TypeOK
<1>5. Untouched' /\ NextKnown' /\ Backed'
  BY <1>1, <1>2, <1>3 DEF Untouched, NextKnown, Backed, Starts
<1>6. ASSUME ~crossed' PROVE ~crossed /\ OneStart' /\ Served'
  <2>1. ~crossed /\ \A s \in Starts : conn[s] # "connecting" /\ opening[s].on = null
    BY <1>1, <1>6 DEF Starting
  <2> QED
    BY <1>1, <1>2, <1>3, <2>1 DEF OneStart, Served, Uncrossed
<1>7. ~Pending'
  BY <1>1, <1>2 DEF Pending, Untouched
<1>8. ~Serving'
  BY <1>1 DEF Serving
<1> QED
  BY <1>1, <1>4, <1>5, <1>6, <1>7, <1>8, ConnInv

LEMMA ReadyInv ==
  ASSUME IInv, NEW s \in Starts, Ready(s)
  PROVE  IInv'
<1> USE EmailBoundsAssumption DEF IInv
<1>1. /\ conn[s] = "connecting"
      /\ UNCHANGED <<running, imap, pollTimer, lastUid, timers, started, listen, news,
                     fetch, uidnext, failures, handled, skipped, crossed>>
  BY DEF Ready, bot, history
<1>2. /\ conn' \in [Starts -> ConnState]
      /\ \A t \in Starts : conn'[t] = IF t = s THEN "ready" ELSE conn[t]
  BY DEF Ready, TypeOK, ConnState
<1> DEFINE select == [on |-> imap, next |-> uidnext]
<1>3. \/ opening' = opening /\ (imap = null \/ conn'[imap] \notin {"ready", "open"})
      \/ imap # null /\ opening' = [opening EXCEPT ![s] = select]
  BY DEF Ready
<1>4. select \in SelectType /\ select.on = imap /\ select.next = uidnext
  BY DEF TypeOK, SelectType
<1> HIDE DEF select
<1>5. /\ opening' \in [Starts -> SelectType]
      /\ \A t \in Starts : opening'[t] = opening[t] \/ (t = s /\ opening'[t] = select)
  <2>1. opening \in [Starts -> SelectType]
    BY DEF TypeOK, SelectType
  <2> QED
    BY <1>3, <1>4, <2>1
<1>6. TypeOK'
  BY <1>1, <1>2, <1>5 DEF TypeOK, SelectType
<1>7. ~(s > started)
  BY <1>1 DEF Untouched
<1>8. Untouched' /\ Backed'
  BY <1>1, <1>2, <1>5, <1>7 DEF Untouched, Backed
<1>9. NextKnown'
  <2>1. uidnext <= uidnext
    BY DEF TypeOK
  <2> QED
    BY <1>1, <1>4, <1>5, <2>1 DEF NextKnown
<1>10. ASSUME ~crossed
       PROVE  /\ s = started /\ imap = s /\ ~running /\ imap # null
              /\ opening'[s] = select
  <2>1. s = started /\ imap = s /\ ~running /\ imap # null
    BY <1>1, <1>10 DEF OneStart, Uncrossed, Starts, null
  <2>2. opening' = [opening EXCEPT ![s] = select]
    BY <1>2, <1>3, <2>1
  <2> QED
    BY <2>1, <2>2 DEF TypeOK
<1>11. ~crossed' => ~crossed /\ OneStart' /\ Served'
  BY <1>1, <1>2, <1>4, <1>5, <1>10 DEF OneStart, Served, Uncrossed
<1>12. ~crossed' => opening'[imap'].next = uidnext
  BY <1>1, <1>4, <1>10
<1>13. ~Serving'
  BY <1>1, <1>10 DEF Serving
<1> QED
  BY <1>1, <1>6, <1>8, <1>9, <1>11, <1>12, <1>13, ConnInv

LEMMA StartFailsInv ==
  ASSUME IInv, NEW s \in Starts, StartFails(s)
  PROVE  IInv'
<1> USE DEF IInv
<1>1. /\ conn[s] = "connecting" \/ opening[s].on # null
      /\ UNCHANGED <<running, imap, pollTimer, lastUid, timers, started, listen, news,
                     fetch, uidnext, failures, handled, skipped, crossed>>
  BY DEF StartFails, bot, history
<1>2. /\ conn' \in [Starts -> ConnState]
      /\ \A t \in Starts : conn'[t] = conn[t] \/ (t = s /\ conn'[t] = "closed")
  BY DEF StartFails, TypeOK, ConnState
<1>3. /\ opening' \in [Starts -> SelectType]
      /\ \A t \in Starts : opening'[t] = opening[t] \/ (t = s /\ opening'[t] = NoSelect)
  <2>1. opening \in [Starts -> SelectType]
    BY DEF TypeOK, SelectType
  <2> QED
    BY <2>1, NoSelectFact DEF StartFails
<1>4. TypeOK'
  BY <1>1, <1>2, <1>3 DEF TypeOK, SelectType
<1>5. ~(s > started)
  BY <1>1 DEF Untouched
<1>6. Untouched' /\ Backed'
  BY <1>1, <1>2, <1>3, <1>5 DEF Untouched, Backed
<1>7. NextKnown'
  <2>1. 1 <= uidnext
    BY DEF TypeOK
  <2> QED
    BY <1>1, <1>3, <2>1, NoSelectFact DEF NextKnown
<1>8. ASSUME ~crossed PROVE s = started /\ imap = s /\ ~running
  BY <1>1, <1>8 DEF OneStart, Uncrossed
<1>9. ~crossed' => ~crossed /\ OneStart' /\ Served'
  BY <1>1, <1>2, <1>3, <1>8, NoSelectFact DEF OneStart, Served, Uncrossed
<1>10. Pending' => Pending /\ opening'[imap] = opening[imap]
  BY <1>1, <1>3, NoSelectFact DEF Pending, TypeOK
<1>11. ~Serving'
  BY <1>1, <1>8 DEF Serving
<1> QED
  BY <1>1, <1>4, <1>6, <1>7, <1>9, <1>10, <1>11, ConnInv

LEMMA StopInv == IInv /\ stop => IInv'
<1> SUFFICES ASSUME IInv, stop PROVE IInv'
  OBVIOUS
<1> USE DEF IInv
<1>1. /\ running /\ running' = FALSE /\ timers' = timers \ {pollTimer}
      /\ pollTimer' = null /\ imap' = null
      /\ UNCHANGED <<lastUid, started, conn, opening, listen, news, fetch, uidnext,
                     failures, handled, skipped, crossed>>
  BY DEF stop, net, history
<1>2. TypeOK'
  BY <1>1 DEF TypeOK
<1>3. Untouched' /\ NextKnown' /\ Backed'
  BY <1>1 DEF Untouched, NextKnown, Backed
<1>4. ~crossed' => ~crossed /\ OneStart' /\ Served'
  BY <1>1 DEF OneStart, Served, Uncrossed
<1>5. ~Pending' /\ ~Serving'
  BY <1>1 DEF Pending, Serving
<1> QED
  BY <1>1, <1>2, <1>3, <1>4, <1>5, ConnInv

\* A connection that ends, or dies by an error.
LEMMA OverInv ==
  ASSUME IInv, NEW k \in Starts, End(k) \/ Lost(k)
  PROVE  IInv'
<1> USE EmailBoundsAssumption DEF IInv
<1>1. /\ conn[k] \in {"ready", "open", "lost"} /\ news' \subseteq news
      /\ running' => running
      /\ failures' \in 0..MaxErrors /\ running' \in BOOLEAN
      /\ UNCHANGED <<imap, pollTimer, lastUid, timers, started, opening, listen, fetch,
                     uidnext, handled, skipped, crossed>>
  <2>1. failures \in 0..MaxErrors /\ running \in BOOLEAN
    BY DEF TypeOK
  <2>2. CASE End(k)
    BY <2>1, <2>2 DEF End, history
  <2>3. CASE Lost(k)
    <3>1. failures' \in 0..MaxErrors
      BY <2>1, <2>3 DEF Lost
    <3> QED
      BY <2>1, <2>3, <3>1 DEF Lost, bot, history
  <2> QED
    BY <2>2, <2>3
<1>2. /\ conn' \in [Starts -> ConnState]
      /\ \A t \in Starts : t # k => conn'[t] = conn[t]
      /\ conn'[k] \in {"lost", "closed"}
  BY DEF End, Lost, TypeOK, ConnState
<1>3. conn'[k] = "closed" => ~running' \/ ~Heard(k)
  BY DEF End, Lost, TypeOK
<1>4. TypeOK'
  BY <1>1, <1>2 DEF TypeOK
<1>5. Untouched' /\ NextKnown' /\ Backed'
  BY <1>1, <1>2 DEF Untouched, NextKnown, Backed
<1>6. ASSUME ~crossed' PROVE ~crossed /\ OneStart' /\ Served'
  <2>1. ~crossed /\ OneStart /\ Served
    BY <1>1, <1>6 DEF Uncrossed
  <2>2. OneStart'
    BY <1>1, <1>2, <2>1 DEF OneStart
  <2>3. Served'
    <3> SUFFICES ASSUME running' PROVE Served'
      BY DEF Served
    <3>1. /\ imap \in Starts /\ pollTimer = imap /\ conn[imap] \in {"open", "lost"}
          /\ listen[imap] = imap
      BY <1>1, <2>1 DEF Served, Backed, TypeOK
    <3>2. imap = k => conn'[k] = "lost"
      BY <1>2, <1>3, <3>1 DEF Heard
    <3> QED
      BY <1>1, <1>2, <3>1, <3>2 DEF Served
  <2> QED
    BY <2>1, <2>2, <2>3
<1>7. Pending' => Pending /\ opening'[imap] = opening[imap]
  BY <1>1 DEF Pending
<1>8. Serving' => Serving
  BY <1>1, <1>2 DEF Serving, TypeOK
<1> QED
  BY <1>1, <1>4, <1>5, <1>6, <1>7, <1>8, ConnInv

LEMMA OpenedInv ==
  ASSUME IInv, NEW s \in Starts, Opened(s)
  PROVE  IInv'
<1> DEFINE next == opening[s].next
           k == opening[s].on
<1> USE EmailBoundsAssumption DEF IInv
<1>1. /\ k # null /\ conn[k] \in {"ready", "open"} /\ lastUid' = next - 1
      /\ skipped' = skipped \cup {u \in 1..(next - 1) : handled[u] = 0}
      /\ UNCHANGED <<imap, started, news, fetch, uidnext, failures, handled, crossed>>
  BY DEF Opened, FirstUid
<1>2. /\ k \in Starts /\ next \in 1..(MaxMails + 1) /\ next <= uidnext
      /\ uidnext \in 1..(MaxMails + 1) /\ opening \in [Starts -> SelectType]
  BY <1>1 DEF TypeOK, NextKnown, SelectType
<1> HIDE DEF next
<1>3. /\ conn' \in [Starts -> ConnState]
      /\ \A t \in Starts : conn'[t] = IF t = k THEN "open" ELSE conn[t]
  BY <1>2 DEF Opened, TypeOK, ConnState
<1>4. /\ opening' \in [Starts -> SelectType]
      /\ \A t \in Starts : opening'[t] = IF t = s THEN NoSelect ELSE opening[t]
  BY <1>2, NoSelectFact DEF Opened
<1>5. \/ imap = null /\ UNCHANGED <<running, pollTimer, timers, listen>>
      \/ /\ imap # null /\ listen' = [listen EXCEPT ![s] = imap] /\ pollTimer' = s
         /\ timers' = timers \cup {s} /\ running' = TRUE
  BY DEF Opened, KeepTimer
<1>6. /\ listen' \in [Starts -> Starts \cup {null}]
      /\ \A t \in Starts : listen'[t] = listen[t] \/ (t = s /\ listen'[t] = imap)
      /\ imap # null => listen'[s] = imap
  BY <1>5 DEF TypeOK
<1>7. 1..(next - 1) \subseteq Uids /\ handled \in [Uids -> 0..MaxHandled]
  BY <1>2 DEF TypeOK, Uids
<1>8. TypeOK'
  <2>1. lastUid' \in 0..MaxMails
    BY <1>1, <1>2
  <2>2. skipped' \subseteq Uids
    BY <1>1, <1>7 DEF TypeOK
  <2>3. pollTimer' \in Starts \cup {null} /\ timers' \subseteq Starts /\ running' \in BOOLEAN
    BY <1>5 DEF TypeOK
  <2> QED
    BY <1>1, <1>3, <1>4, <1>6, <2>1, <2>2, <2>3 DEF TypeOK, SelectType
<1>9. ~(s > started) /\ ~(k > started)
  BY <1>1, <1>2 DEF Untouched
<1>10. Untouched'
  BY <1>1, <1>3, <1>4, <1>6, <1>9, NoSelectFact DEF Untouched
<1>11. NextKnown'
  <2>1. 1 <= uidnext
    BY <1>2
  <2> QED
    BY <1>1, <1>4, <2>1, NoSelectFact DEF NextKnown
<1>12. Backed'
  BY <1>1, <1>5 DEF Backed
<1>13. FoundKnown' /\ Fresh'
  BY <1>1 DEF FoundKnown, Fresh
<1>14. LastUidBehindMailbox'
  BY <1>1, <1>2 DEF LastUidBehindMailbox
<1>15. \A u \in 1..(next - 1) : handled'[u] > 0 \/ u \in skipped'
  BY <1>1, <1>7
<1>16. ASSUME ~crossed
       PROVE  /\ s = started /\ imap = s /\ k = s /\ ~running /\ imap # null /\ Pending
              /\ next = opening[imap].next
  <2>1. s = started /\ imap = s /\ k = s /\ ~running
    BY <1>1, <1>16 DEF OneStart, Uncrossed
  <2>2. s # null
    BY DEF Starts, null
  <2> QED
    BY <1>1, <2>1, <2>2 DEF Pending, next
<1>17. ASSUME ~crossed PROVE OneStart' /\ Served' /\ ~Pending'
  <2>1. running' = TRUE /\ pollTimer' = s
    BY <1>5, <1>16, <1>17
  <2>2. OneStart'
    BY <1>1, <1>3, <1>4, <1>6, <1>16, <1>17, NoSelectFact DEF OneStart, Uncrossed
  <2>3. Served' /\ ~Pending'
    BY <1>1, <1>3, <1>4, <1>6, <1>16, <1>17, <2>1, NoSelectFact DEF Served, Pending
  <2> QED
    BY <2>2, <2>3
<1>18. ASSUME ~crossed PROVE FromKnown'
  <2>1. \A f \in Fetches : fetch[f].st # "idle" => fetch[f].from <= next
    BY <1>16, <1>18 DEF FromKnown, Uncrossed
  <2>2. lastUid' + 1 = next
    BY <1>1, <1>2
  <2> QED
    BY <1>1, <1>17, <1>18, <2>1, <2>2 DEF FromKnown
<1>19. ASSUME ~crossed PROVE OldCovered'
  <2> SUFFICES ASSUME NEW f \in Fetches, fetch[f].st = "fetching", fetch[f].on # imap,
                      NEW v \in fetch[f].uids
               PROVE  handled'[v] > 0 \/ v \in skipped'
    BY <1>1, <1>17, <1>19 DEF OldCovered
  <2>1. v < next
    BY <1>16, <1>19 DEF OldCovered, Uncrossed
  <2>2. v \in Uids
    BY DEF TypeOK
  <2>3. v \in 1..(next - 1)
    BY <1>2, <2>1, <2>2 DEF Uids
  <2> QED
    BY <1>15, <2>3
<1>20. NothingLost'
  BY <1>1, <1>15 DEF NothingLost, NoMailLost
<1> QED
  BY <1>1, <1>8, <1>10, <1>11, <1>12, <1>13, <1>14, <1>17, <1>18, <1>19, <1>20
     DEF Uncrossed

LEMMA ArriveInv == IInv /\ Arrive => IInv'
<1> SUFFICES ASSUME IInv, Arrive PROVE IInv'
  OBVIOUS
<1> USE EmailBoundsAssumption DEF IInv
<1>1. /\ uidnext <= MaxMails /\ uidnext' = uidnext + 1
      /\ news' \subseteq Starts
      /\ UNCHANGED <<running, imap, pollTimer, lastUid, timers, started, conn, opening,
                     listen, fetch, failures, handled, skipped, crossed>>
  BY DEF Arrive, bot, history
<1>2. uidnext \in Nat
  BY DEF TypeOK
<1>3. TypeOK'
  <2>1. uidnext' \in 1..(MaxMails + 1)
    BY <1>1 DEF TypeOK
  <2> QED
    BY <1>1, <2>1 DEF TypeOK
<1>4. Untouched' /\ Backed' /\ Fresh' /\ OneStart' = OneStart /\ Served' = Served
      /\ (Pending' <=> Pending)
  BY <1>1 DEF Untouched, Backed, Fresh, OneStart, Served, Pending
<1>5. NextKnown'
  <2>1. \A s \in Starts : opening[s].next \in Int
    BY DEF TypeOK
  <2> QED
    BY <1>1, <1>2, <2>1 DEF NextKnown
<1>6. FoundKnown'
  <2>1. \A f \in Fetches : fetch[f].from \in Int /\ fetch[f].uids \subseteq Nat
    BY DEF TypeOK, Uids
  <2> QED
    BY <1>1, <1>2, <2>1 DEF FoundKnown
<1>7. ~crossed' => FromKnown' /\ OldCovered'
  BY <1>1, <1>4 DEF FromKnown, OldCovered, Uncrossed
<1>8. NothingLost'
  BY <1>1 DEF NothingLost, NoMailLost, Serving
<1>9. LastUidBehindMailbox'
  BY <1>1, <1>2 DEF LastUidBehindMailbox, TypeOK
<1> QED
  BY <1>1, <1>3, <1>4, <1>5, <1>6, <1>7, <1>8, <1>9 DEF Uncrossed

----------------------------------------------------------------------------
\* The steps of a fetch.

\* They leave the connections as they are.
LEMMA SameConns ==
  ASSUME IInv, UNCHANGED <<running, imap, pollTimer, timers, started, conn, opening,
                           listen, uidnext, crossed>>
  PROVE  /\ Untouched' /\ NextKnown' /\ Backed'
         /\ ~crossed' => OneStart' /\ Served'
         /\ Pending' <=> Pending
         /\ Serving' <=> Serving
BY DEF IInv, Uncrossed, Untouched, NextKnown, Backed, OneStart, Served, Pending, Serving

LEMMA NewFetchInv ==
  ASSUME IInv, fetchNewEmails, news' \subseteq Starts,
         UNCHANGED <<bot, started, conn, opening, listen, uidnext, failures, history,
                     crossed>>
  PROVE  IInv'
<1> USE DEF IInv
<1>1. /\ TypeOK /\ LastUidBehindMailbox
      /\ UNCHANGED <<running, imap, pollTimer, lastUid, timers, started, conn, opening,
                     listen, uidnext, failures, handled, skipped, crossed>>
  BY DEF bot, history
<1>2. /\ Untouched' /\ NextKnown' /\ Backed' /\ (~crossed' => OneStart' /\ Served')
      /\ (Pending' <=> Pending) /\ (Serving' <=> Serving) /\ LastUidBehindMailbox'
  BY <1>1, SameConns DEF LastUidBehindMailbox
<1>3. CASE fetch' = fetch
  <2>1. TypeOK'
    BY <1>1, <1>3 DEF TypeOK
  <2>2. FoundKnown' /\ Fresh' /\ NothingLost'
    BY <1>1, <1>2, <1>3 DEF FoundKnown, Fresh, NothingLost, NoMailLost
  <2>3. ~crossed => FromKnown' /\ OldCovered'
    BY <1>1, <1>2, <1>3 DEF FromKnown, OldCovered, Uncrossed
  <2> QED
    BY <1>1, <1>2, <2>1, <2>2, <2>3 DEF Uncrossed
<1>4. ASSUME running, NEW f \in Fetches, fetch[f].st = "idle",
             Request(f, imap, lastUid + 1)
      PROVE  IInv'
  <2> DEFINE r == [Idle EXCEPT !.st = "searching", !.on = imap, !.from = lastUid + 1]
  <2>1. /\ r.st = "searching" /\ r.on = imap /\ r.from = lastUid + 1
        /\ r.got = {} /\ r.uids = {}
    BY DEF Idle
  <2>2. r \in FetchType
    <3>1. lastUid + 1 \in 0..(MaxMails + 1) /\ imap \in Starts \cup {null}
      BY EmailBoundsAssumption DEF TypeOK
    <3> QED
      BY <3>1, IdleFetch DEF FetchType
  <2>3. /\ fetch' \in [Fetches -> FetchType]
        /\ \A g \in Fetches : fetch'[g] = IF g = f THEN r ELSE fetch[g]
    <3>1. fetch \in [Fetches -> FetchType]
      BY DEF TypeOK, FetchType
    <3>2. fetch' = [fetch EXCEPT ![f] = r]
      BY <1>4 DEF Request
    <3> HIDE DEF r
    <3> QED
      BY <2>2, <3>1, <3>2
  <2> HIDE DEF r
  <2>4. TypeOK'
    BY <1>1, <2>3 DEF TypeOK, FetchType
  <2>5. ASSUME ~crossed PROVE FromKnown' /\ OldCovered'
    <3>1. ~Pending
      BY <1>4, <2>5 DEF Uncrossed, OneStart, Pending, TypeOK
    <3>2. lastUid + 1 <= lastUid + 1
      BY DEF TypeOK
    <3>3. FromKnown'
      BY <1>1, <1>2, <2>1, <2>3, <2>5, <3>1, <3>2 DEF FromKnown, Uncrossed
    <3>4. OldCovered'
      BY <1>1, <1>2, <2>1, <2>3, <2>5, <3>1 DEF OldCovered, Uncrossed
    <3> QED
      BY <3>3, <3>4
  <2>6. FoundKnown'
    <3>1. lastUid + 1 <= uidnext
      BY DEF LastUidBehindMailbox, TypeOK
    <3> QED
      BY <1>1, <2>1, <2>3, <3>1 DEF FoundKnown
  <2>7. Fresh'
    BY <2>1, <2>3 DEF Fresh
  <2>8. NothingLost'
    <3>1. fetch[f].got = {}
      BY <1>4 DEF Fresh
    <3>2. \A g \in Fetches : fetch'[g].got = fetch[g].got
      BY <2>1, <2>3, <3>1
    <3> QED
      BY <1>1, <1>2, <3>2 DEF NothingLost, NoMailLost
  <2> QED
    BY <1>1, <1>2, <2>4, <2>5, <2>6, <2>7, <2>8 DEF Uncrossed
<1> QED
  BY <1>3, <1>4 DEF fetchNewEmails

\* A fetch that becomes idle is forgotten; nobody is told more or less for it.
LEMMA DroppedInv ==
  ASSUME IInv, NEW f \in Fetches, fetch' = [fetch EXCEPT ![f] = Idle],
         failures' \in 0..MaxErrors,
         UNCHANGED <<bot, net, uidnext, history, crossed>>,
         NothingLost'
  PROVE  IInv'
<1> USE DEF IInv
<1>1. /\ TypeOK /\ LastUidBehindMailbox
      /\ UNCHANGED <<running, imap, pollTimer, lastUid, timers, started, conn, opening,
                     listen, news, uidnext, handled, skipped, crossed>>
  BY DEF bot, net, history
<1>2. /\ Untouched' /\ NextKnown' /\ Backed' /\ (~crossed' => OneStart' /\ Served')
      /\ (Pending' <=> Pending) /\ LastUidBehindMailbox'
  BY <1>1, SameConns DEF LastUidBehindMailbox
<1>3. /\ fetch' \in [Fetches -> FetchType]
      /\ \A g \in Fetches : fetch'[g] = IF g = f THEN Idle ELSE fetch[g]
  <2>1. fetch \in [Fetches -> FetchType]
    BY DEF TypeOK, FetchType
  <2> QED
    BY <2>1, IdleFetch
<1>4. TypeOK'
  BY <1>1, <1>3 DEF TypeOK, FetchType
<1>5. Idle.st = "idle" /\ Idle.got = {}
  BY IdleFetch
<1>6. FoundKnown'
  BY <1>1, <1>3, <1>5 DEF FoundKnown
<1>7. ~crossed => FromKnown' /\ OldCovered'
  BY <1>1, <1>2, <1>3, <1>5 DEF FromKnown, OldCovered, Uncrossed
<1>8. Fresh'
  BY <1>3, <1>5 DEF Fresh
<1> QED
  BY <1>1, <1>2, <1>4, <1>6, <1>7, <1>8 DEF Uncrossed

LEMMA SearchedInv ==
  ASSUME IInv, NEW f \in Fetches, Searched(f)
  PROVE  IInv'
<1> DEFINE uids == Found(fetch[f].from)
           r == [fetch[f] EXCEPT !.st = "fetching", !.on = imap, !.uids = uids]
<1> USE DEF IInv
<1>1. /\ TypeOK /\ fetch[f].st = "searching"
      /\ UNCHANGED <<running, imap, pollTimer, lastUid, timers, started, conn, opening,
                     listen, news, uidnext, failures, handled, skipped, crossed>>
      /\ UNCHANGED <<bot, net, uidnext, failures, history, crossed>>
  BY DEF Searched, bot, net, history
<1>2. \/ fetch' = [fetch EXCEPT ![f] = Idle]
      \/ uids # {} /\ fetch' = [fetch EXCEPT ![f] = r]
  BY DEF Searched
<1>3. fetch[f].got = {}
  BY <1>1 DEF Fresh
<1>4. (Pending' <=> Pending) /\ (Serving' <=> Serving)
  BY <1>1, SameConns
<1>5. CASE fetch' = [fetch EXCEPT ![f] = Idle]
  <2>1. \A g \in Fetches : fetch'[g].got = fetch[g].got
    BY <1>1, <1>3, <1>5 DEF TypeOK, Idle
  <2>2. NothingLost'
    BY <1>1, <1>4, <2>1 DEF NothingLost, NoMailLost
  <2>3. failures' \in 0..MaxErrors
    BY <1>1 DEF TypeOK
  <2> QED
    BY <1>1, <1>5, <2>2, <2>3, DroppedInv
<1>6. CASE uids # {} /\ fetch' = [fetch EXCEPT ![f] = r]
  <2>1. Untouched' /\ NextKnown' /\ Backed' /\ (~crossed' => OneStart' /\ Served')
        /\ LastUidBehindMailbox'
    BY <1>1, SameConns DEF LastUidBehindMailbox
  <2>2. fetch \in [Fetches -> FetchType] /\ fetch[f] \in FetchType
        /\ uidnext \in 1..(MaxMails + 1) /\ imap \in Starts \cup {null}
    BY <1>1 DEF TypeOK, FetchType
  <2>3. /\ \A v \in uids : v < uidnext /\ v \in Uids
        /\ \A v \in uids, u \in Uids : fetch[f].from <= u /\ u <= v => u \in uids
    BY <2>2, EmailBoundsAssumption DEF Found, Uids
  <2> HIDE DEF uids
  <2>4. /\ r.st = "fetching" /\ r.on = imap /\ r.uids = uids /\ r.got = {}
        /\ r.from = fetch[f].from
    BY <1>3, <2>2 DEF FetchType
  <2>5. r \in FetchType
    BY <2>2, <2>3 DEF FetchType
  <2> HIDE DEF r
  <2>6. /\ fetch' \in [Fetches -> FetchType]
        /\ \A g \in Fetches : fetch'[g] = IF g = f THEN r ELSE fetch[g]
    BY <1>6, <2>2, <2>5
  <2>7. TypeOK'
    BY <1>1, <2>6 DEF TypeOK, FetchType
  <2>8. ~crossed => FromKnown'
    BY <1>1, <1>4, <2>4, <2>6 DEF FromKnown, Uncrossed
  <2>9. ~crossed => OldCovered'
    BY <1>1, <1>4, <2>4, <2>6 DEF OldCovered, Uncrossed
  <2>10. FoundKnown'
    <3>1. ASSUME NEW g \in Fetches, g # f
          PROVE  fetch'[g] = fetch[g]
      BY <2>6, <3>1
    <3> QED
      BY <1>1, <1>6, <2>3, <2>4, <2>6, <3>1 DEF FoundKnown
  <2>11. Fresh'
    BY <2>4, <2>6 DEF Fresh
  <2>12. NothingLost'
    <3>1. \A g \in Fetches : fetch'[g].got = fetch[g].got
      BY <1>3, <2>4, <2>6
    <3> QED
      BY <1>1, <1>4, <3>1 DEF NothingLost, NoMailLost
  <2> QED
    BY <1>1, <2>1, <2>7, <2>8, <2>9, <2>10, <2>11, <2>12 DEF Uncrossed
<1> QED
  BY <1>2, <1>5, <1>6

\* Whole fetches fail with their connection, which a bot on a live one has
\* replaced: what they bring was in the box that it opened.
LEMMA BrokenOffCovered ==
  ASSUME IInv, NEW f \in Fetches, FetchFails(f), Serving, ~PartialFetch,
         NEW u \in fetch[f].got
  PROVE  handled[u] > 0 \/ u \in skipped
<1> USE DEF IInv
<1>1. fetch[f].st = "fetching"
  BY DEF Fresh
<1>2. conn[fetch[f].on] \in {"lost", "closed"}
  BY DEF FetchFails
<1>3. running /\ ~crossed /\ fetch[f].on # imap
  BY <1>2 DEF Serving
<1>4. u \in fetch[f].uids
  BY <1>1 DEF FoundKnown
<1> QED
  BY <1>1, <1>3, <1>4 DEF OldCovered, Uncrossed

LEMMA FetchFailsInv ==
  ASSUME IInv, NEW f \in Fetches, FetchFails(f)
  PROVE  IInv'
<1> USE DEF IInv
<1>1. /\ fetch[f].st # "idle" /\ fetch' = [fetch EXCEPT ![f] = Idle]
      /\ UNCHANGED <<bot, net, uidnext, history, crossed>>
      /\ UNCHANGED <<running, imap, pollTimer, timers, started, conn, opening, listen,
                     lastUid, handled, skipped>>
  BY DEF FetchFails, bot, net, history
<1>2. failures' \in 0..MaxErrors
  BY EmailBoundsAssumption DEF FetchFails, TypeOK
<1>3. ASSUME Serving, ~PartialFetch, NEW u \in fetch[f].got
      PROVE  handled[u] > 0 \/ u \in skipped
  BY <1>3, BrokenOffCovered
<1>4. \A g \in Fetches : g # f => fetch'[g] = fetch[g]
  BY <1>1 DEF TypeOK
<1>5. Serving' <=> Serving
  BY <1>1, SameConns
<1>6. NothingLost'
  <2> SUFFICES ASSUME ~PartialFetch, Serving, NEW u \in 1..lastUid
               PROVE  \/ handled[u] > 0
                      \/ u \in skipped
                      \/ \E g \in Fetches : u \in fetch'[g].got
    BY <1>1, <1>5 DEF NothingLost, NoMailLost
  <2>1. \/ handled[u] > 0
        \/ u \in skipped
        \/ \E g \in Fetches : u \in fetch[g].got
    BY DEF NothingLost, NoMailLost
  <2> QED
    BY <1>3, <1>4, <2>1
<1> QED
  BY <1>1, <1>2, <1>6, DroppedInv

LEMMA MessageInv ==
  ASSUME IInv, NEW f \in Fetches, Message(f)
  PROVE  IInv'
<1> DEFINE left == fetch[f].uids \ fetch[f].got
           m == Min(left)
           r == [fetch[f] EXCEPT !.got = @ \cup {m}]
<1> USE DEF IInv
<1>1. /\ TypeOK /\ fetch[f].st = "fetching" /\ left # {}
      /\ lastUid' = Larger(lastUid, m) /\ fetch' = [fetch EXCEPT ![f] = r]
      /\ UNCHANGED <<running, imap, pollTimer, timers, started, conn, opening, listen,
                     news, uidnext, failures, handled, skipped, crossed>>
  BY DEF Message, net, history
<1>2. /\ fetch \in [Fetches -> FetchType] /\ fetch[f] \in FetchType
      /\ uidnext \in 1..(MaxMails + 1) /\ lastUid \in 0..MaxMails
      /\ fetch[f].from \in Nat
  BY <1>1 DEF TypeOK, FetchType
<1>3. fetch[f].uids \in SUBSET Uids /\ left \in SUBSET Nat /\ left \in SUBSET Uids
  BY <1>2 DEF FetchType, Uids
<1>4. m \in left /\ \A y \in left : m <= y
  BY <1>1, <1>3, MinFact
<1>5. /\ m \in fetch[f].uids /\ m \in Uids /\ m \in Nat /\ m < uidnext
      /\ \A u \in fetch[f].uids : u < m => u \in fetch[f].got
  <2>1. m \in fetch[f].uids
    BY <1>4
  <2>2. ASSUME NEW u \in fetch[f].uids, u < m
        PROVE  u \in fetch[f].got
    BY <1>3, <1>4, <2>2 DEF Uids
  <2>3. m \in Uids /\ m \in Nat
    BY <1>3, <2>1 DEF Uids
  <2>4. m < uidnext
    BY <1>1, <2>1 DEF FoundKnown
  <2> QED
    BY <2>1, <2>2, <2>3, <2>4
<1> HIDE DEF left, m
<1>6. /\ r.st = "fetching" /\ r.on = fetch[f].on /\ r.uids = fetch[f].uids
      /\ r.got = fetch[f].got \cup {m} /\ r.from = fetch[f].from /\ r \in FetchType
  BY <1>1, <1>2, <1>5 DEF FetchType
<1> HIDE DEF r
<1>7. /\ fetch' \in [Fetches -> FetchType]
      /\ \A g \in Fetches : fetch'[g] = IF g = f THEN r ELSE fetch[g]
  BY <1>1, <1>2, <1>6
<1>8. /\ lastUid' \in 0..MaxMails /\ lastUid' < uidnext /\ lastUid' >= lastUid
      /\ lastUid' \in {lastUid, m}
  BY <1>1, <1>2, <1>5, EmailBoundsAssumption DEF Larger, LastUidBehindMailbox, Uids
<1>9. TypeOK'
  BY <1>1, <1>7, <1>8 DEF TypeOK, FetchType
<1>10. /\ Untouched' /\ NextKnown' /\ Backed' /\ (~crossed' => OneStart' /\ Served')
       /\ (Pending' <=> Pending) /\ (Serving' <=> Serving) /\ LastUidBehindMailbox'
  BY <1>1, <1>8, SameConns DEF LastUidBehindMailbox
<1>11. \A g \in Fetches :
         /\ fetch'[g].st = fetch[g].st /\ fetch'[g].on = fetch[g].on
         /\ fetch'[g].uids = fetch[g].uids /\ fetch'[g].from = fetch[g].from
         /\ fetch[g].from \in Nat
         /\ fetch[g].got \subseteq fetch[g].uids
              => fetch'[g].got \subseteq fetch[g].uids
  BY <1>1, <1>2, <1>5, <1>6, <1>7 DEF FetchType
<1>12. ~crossed => FromKnown'
  BY <1>1, <1>2, <1>8, <1>10, <1>11 DEF FromKnown, Uncrossed
<1>13. ~crossed => OldCovered'
  BY <1>1, <1>10, <1>11 DEF OldCovered, Uncrossed
<1>14. FoundKnown'
  BY <1>1, <1>11 DEF FoundKnown
<1>15. Fresh'
  BY <1>6, <1>7 DEF Fresh
<1>16. NothingLost'
  <2> SUFFICES ASSUME ~PartialFetch, Serving, NEW u \in 1..lastUid'
               PROVE  \/ handled[u] > 0
                      \/ u \in skipped
                      \/ \E g \in Fetches : u \in fetch'[g].got
    BY <1>1, <1>10 DEF NothingLost, NoMailLost
  <2>1. \A g \in Fetches : fetch[g].got \subseteq fetch'[g].got
    BY <1>6, <1>7
  <2>2. CASE u <= lastUid
    <3>1. \/ handled[u] > 0
          \/ u \in skipped
          \/ \E g \in Fetches : u \in fetch[g].got
      BY <1>2, <2>2 DEF NothingLost, NoMailLost
    <3> QED
      BY <2>1, <3>1
  <2>3. CASE u > lastUid
    <3>1. lastUid' = m /\ u <= m /\ u \in Uids
      <4>1. lastUid' = m
        BY <1>2, <1>8, <2>3
      <4> QED
        BY <1>8, <4>1, EmailBoundsAssumption DEF Uids
    <3>2. running /\ ~crossed
      BY DEF Serving
    <3>3. fetch[f].from <= u
      BY <1>1, <1>2, <2>3, <3>2 DEF FromKnown, Uncrossed
    <3>4. u \in fetch[f].uids
      BY <1>1, <1>5, <3>1, <3>3 DEF FoundKnown
    <3>5. u = m \/ u \in fetch[f].got
      BY <1>5, <3>1, <3>4
    <3>6. u \in fetch'[f].got
      BY <1>6, <1>7, <3>5
    <3> QED
      BY <3>6
  <2> QED
    BY <1>2, <2>2, <2>3
<1> QED
  BY <1>1, <1>9, <1>10, <1>12, <1>13, <1>14, <1>15, <1>16 DEF Uncrossed

LEMMA FetchEndInv ==
  ASSUME IInv, NEW f \in Fetches, FetchEnd(f)
  PROVE  IInv' /\ lastUid' >= lastUid
<1> DEFINE m == Max(fetch[f].uids)
<1> USE EmailBoundsAssumption DEF IInv
<1>1. /\ TypeOK /\ fetch[f].st = "fetching" /\ fetch[f].got = fetch[f].uids
      /\ lastUid' = Larger(lastUid, m) /\ fetch' = [fetch EXCEPT ![f] = Idle]
      /\ UNCHANGED <<running, imap, pollTimer, timers, started, conn, opening, listen,
                     news, uidnext, failures, skipped, crossed>>
  BY DEF FetchEnd, net
<1>2. /\ fetch \in [Fetches -> FetchType] /\ fetch[f] \in FetchType
      /\ uidnext \in 1..(MaxMails + 1) /\ lastUid \in 0..MaxMails
      /\ fetch[f].from \in Nat /\ handled \in [Uids -> 0..MaxHandled]
  BY <1>1 DEF TypeOK, FetchType
<1>3. fetch[f].uids \in SUBSET (1..MaxMails) /\ fetch[f].uids # {}
  BY <1>1, <1>2 DEF FoundKnown, FetchType, Uids
<1>4. m \in fetch[f].uids /\ m \in Nat /\ m < uidnext
  <2>1. m \in fetch[f].uids
    BY <1>3, MaxFact
  <2> QED
    BY <1>1, <1>3, <2>1 DEF FoundKnown
<1> HIDE DEF m
<1>5. /\ fetch' \in [Fetches -> FetchType]
      /\ \A g \in Fetches : fetch'[g] = IF g = f THEN Idle ELSE fetch[g]
  BY <1>1, <1>2, IdleFetch
<1>6. /\ handled' \in [Uids -> 0..MaxHandled]
      /\ \A u \in Uids : handled[u] > 0 \/ u \in fetch[f].got => handled'[u] > 0
  <2>1. handled' = [u \in Uids |-> IF u \in fetch[f].got /\ handled[u] < MaxHandled
                                   THEN handled[u] + 1 ELSE handled[u]]
    BY DEF FetchEnd, Hand
  <2>2. \A u \in Uids : handled[u] \in 0..MaxHandled
    BY <1>2
  <2> QED
    BY <2>1, <2>2
<1>7. /\ lastUid' \in 0..MaxMails /\ lastUid' < uidnext /\ lastUid' >= lastUid
      /\ lastUid' \in {lastUid, m}
  BY <1>1, <1>2, <1>4 DEF Larger, LastUidBehindMailbox
<1>8. TypeOK'
  BY <1>1, <1>5, <1>6, <1>7 DEF TypeOK, FetchType
<1>9. /\ Untouched' /\ NextKnown' /\ Backed' /\ (~crossed' => OneStart' /\ Served')
      /\ (Pending' <=> Pending) /\ (Serving' <=> Serving) /\ LastUidBehindMailbox'
  BY <1>1, <1>7, SameConns DEF LastUidBehindMailbox
<1>10. ~crossed => FromKnown'
  <2>1. \A g \in Fetches : fetch'[g].st # "idle" =>
           fetch'[g].from = fetch[g].from /\ fetch[g].st # "idle" /\ fetch[g].from \in Nat
    BY <1>2, <1>5, IdleFetch DEF FetchType
  <2> QED
    BY <1>1, <1>2, <1>7, <1>9, <2>1 DEF FromKnown, Uncrossed
<1>11. ~crossed => OldCovered'
  <2> SUFFICES ASSUME ~crossed, NEW g \in Fetches, fetch'[g].st = "fetching",
                      fetch'[g].on # imap, NEW v \in fetch'[g].uids
               PROVE  /\ running => handled'[v] > 0 \/ v \in skipped
                      /\ Pending => v < opening[imap].next
    BY <1>1, <1>9 DEF OldCovered
  <2>1. fetch'[g] = fetch[g]
    BY <1>5, IdleFetch
  <2>2. v \in Uids
    BY <1>5 DEF FetchType
  <2> QED
    BY <1>6, <2>1, <2>2 DEF OldCovered, Uncrossed
<1>12. FoundKnown' /\ Fresh'
  BY <1>1, <1>5, IdleFetch DEF FoundKnown, Fresh
<1>13. NothingLost'
  <2> SUFFICES ASSUME ~PartialFetch, Serving, NEW u \in 1..lastUid'
               PROVE  \/ handled'[u] > 0
                      \/ u \in skipped
                      \/ \E g \in Fetches : u \in fetch'[g].got
    BY <1>1, <1>9 DEF NothingLost, NoMailLost
  <2>1. u \in Uids
    BY <1>7 DEF Uids
  <2>2. CASE u <= lastUid
    <3>1. \/ handled[u] > 0
          \/ u \in skipped
          \/ \E g \in Fetches : u \in fetch[g].got
      BY <1>2, <2>2 DEF NothingLost, NoMailLost
    <3> QED
      BY <1>5, <1>6, <2>1, <3>1
  <2>3. CASE u > lastUid
    <3>1. lastUid' = m /\ u <= m
      BY <1>2, <1>4, <1>7, <2>3
    <3>2. running /\ ~crossed
      BY DEF Serving
    <3>3. fetch[f].from <= u
      BY <1>1, <1>2, <2>3, <3>2 DEF FromKnown, Uncrossed
    <3>4. u \in fetch[f].uids
      BY <1>1, <1>4, <2>1, <3>1, <3>3 DEF FoundKnown
    <3> QED
      BY <1>1, <1>6, <2>1, <3>4
  <2> QED
    BY <1>2, <2>2, <2>3
<1> QED
  BY <1>1, <1>7, <1>8, <1>9, <1>10, <1>11, <1>12, <1>13 DEF Uncrossed

----------------------------------------------------------------------------
LEMMA NextInv == IInv /\ [Next]_vars => IInv'
<1> SUFFICES ASSUME IInv, [Next]_vars PROVE IInv'
  OBVIOUS
<1>1. ASSUME NEW s \in Starts, MailEvent(s)
      PROVE  IInv'
  <2>1. news' \subseteq Starts
    BY <1>1 DEF MailEvent, IInv, TypeOK
  <2> QED
    BY <1>1, <2>1, NewFetchInv DEF MailEvent
<1>2. ASSUME NEW t \in timers, Poll(t)
      PROVE  IInv'
  <2>1. news' \subseteq Starts /\ UNCHANGED <<started, conn, opening, listen>>
    BY <1>2 DEF Poll, net, IInv, TypeOK
  <2> QED
    BY <1>2, <2>1, NewFetchInv DEF Poll
<1>3. CASE UNCHANGED vars
  <2>1. /\ UNCHANGED <<running, imap, pollTimer, timers, started, conn, opening, listen,
                       uidnext, crossed>>
        /\ UNCHANGED <<lastUid, news, fetch, failures, handled, skipped>>
    BY <1>3 DEF vars, bot, net, history
  <2>2. TypeOK' /\ FoundKnown' /\ Fresh' /\ LastUidBehindMailbox'
    BY <2>1 DEF IInv, TypeOK, FoundKnown, Fresh, LastUidBehindMailbox
  <2>3. NothingLost' /\ (~crossed => FromKnown' /\ OldCovered')
    BY <2>1, SameConns DEF IInv, NothingLost, NoMailLost, Uncrossed, FromKnown, OldCovered
  <2> QED
    BY <2>1, <2>2, <2>3, SameConns DEF IInv, Uncrossed
<1> QED
  BY <1>1, <1>2, <1>3, StartInv, StopInv, ReadyInv, StartFailsInv, OpenedInv, OverInv,
     SearchedInv, MessageInv, FetchEndInv, FetchFailsInv, ArriveInv DEF Next, Progress

\* The inductive invariant holds throughout.
THEOREM Invariance == Spec => []IInv
BY InitInv, NextInv, PTL DEF Spec

\* The email bot's variables keep their types.
THEOREM TypeCorrect == Spec => []TypeOK
<1>1. IInv => TypeOK
  BY DEF IInv
<1> QED
  BY <1>1, Invariance, PTL

\* A bot that says it runs holds a connection, and the interval it can clear is
\* ticking.  If no starts crossed, both are of the same start, and the
\* connection is open or was lost by an 'error', which the bot only logs.
THEOREM ServedWhileRunning == Spec => []RunningIsServed
<1>1. IInv => RunningIsServed
  BY DEF IInv, Uncrossed, Backed, Served, RunningIsServed
<1> QED
  BY <1>1, Invariance, PTL

\* lastUid is always below the UID of the next mail, whatever starts cross.
THEOREM LastUidBehind == Spec => []LastUidBehindMailbox
<1>1. IInv => LastUidBehindMailbox
  BY DEF IInv
<1> QED
  BY <1>1, Invariance, PTL

\* However many fetches overlap and in whatever order they end, lastUid of a
\* running bot never goes back, unless starts crossed.
THEOREM LastUidNeverBack == Spec => LastUidAdvances
<1>1. IInv /\ [Next]_vars => [running /\ ~crossed => lastUid' >= lastUid]_vars
  <2> SUFFICES ASSUME IInv, Next, running, ~crossed PROVE lastUid' >= lastUid
    OBVIOUS
  <2>1. lastUid \in Nat
    BY DEF IInv, TypeOK
  <2>2. CASE start \/ stop \/ Arrive
    <3>1. lastUid' = lastUid
      BY <2>2 DEF start, stop, Arrive, bot
    <3> QED
      BY <2>1, <3>1
  <2>3. ASSUME NEW s \in Starts,
               Ready(s) \/ StartFails(s) \/ End(s) \/ Lost(s) \/ MailEvent(s)
        PROVE  lastUid' >= lastUid
    <3>1. lastUid' = lastUid
      BY <2>3 DEF Ready, StartFails, End, Lost, MailEvent, bot
    <3> QED
      BY <2>1, <3>1
  <2>4. ASSUME NEW s \in Starts, Opened(s)
        PROVE  FALSE
    BY <2>4 DEF Opened, IInv, Uncrossed, OneStart
  <2>5. ASSUME NEW t \in timers, Poll(t)
        PROVE  lastUid' >= lastUid
    <3>1. lastUid' = lastUid
      BY <2>5 DEF Poll, bot
    <3> QED
      BY <2>1, <3>1
  <2>6. ASSUME NEW f \in Fetches, Searched(f) \/ FetchFails(f)
        PROVE  lastUid' >= lastUid
    <3>1. lastUid' = lastUid
      BY <2>6 DEF Searched, FetchFails, bot
    <3> QED
      BY <2>1, <3>1
  <2>7. ASSUME NEW f \in Fetches, Message(f)
        PROVE  lastUid' >= lastUid
    <3>1. fetch[f].uids \ fetch[f].got \in SUBSET Nat
      BY DEF IInv, TypeOK, Uids
    <3>2. Min(fetch[f].uids \ fetch[f].got) \in Nat
      BY <2>7, <3>1, MinFact DEF Message
    <3> QED
      BY <2>1, <2>7, <3>2 DEF Message, Larger
  <2>8. ASSUME NEW f \in Fetches, FetchEnd(f)
        PROVE  lastUid' >= lastUid
    BY <2>8, FetchEndInv
  <2> QED
    BY <2>2, <2>3, <2>4, <2>5, <2>6, <2>7, <2>8 DEF Next, Progress
<1> QED
  BY <1>1, Invariance, PTL DEF Spec, LastUidAdvances

\* Unless a FETCH fails half-way, every mail up to the lastUid of a bot on a live
\* connection is accounted for, if no starts crossed.
THEOREM MailAccountedFor == ~PartialFetch => (Spec => []NoMailLost)
<1> SUFFICES ASSUME ~PartialFetch PROVE Spec => []NoMailLost
  OBVIOUS
<1>1. IInv => NoMailLost
  BY DEF IInv, NothingLost
<1> QED
  BY <1>1, Invariance, PTL

----------------------------------------------------------------------------
(* The bot implements Inbox.  Besides IInv this needs the order in which a *)
(* FETCH delivers.                                                         *)

\* The messages of a fetch come in the order of their UIDs.
InOrder ==
    \A f \in Fetches : \A w \in fetch[f].got, v \in fetch[f].uids \ fetch[f].got : w < v

Batch == [f \in Fetches |-> fetch[f].got]

\* What a message does to its fetch: it is the first of those left, and from
\* where the search began to it all have been read.
LEMMA NextMessage ==
  ASSUME IInv, NEW f \in Fetches, Message(f)
  PROVE  \E m \in fetch[f].uids \ fetch[f].got :
           /\ m \in Uids /\ m < uidnext
           /\ \A v \in fetch[f].uids \ fetch[f].got : m <= v
           /\ Serving => \A u \in (lastUid + 1)..m : u = m \/ u \in fetch[f].got
           /\ lastUid' = Larger(lastUid, m)
           /\ fetch' = [fetch EXCEPT ![f] = [fetch[f] EXCEPT !.got = @ \cup {m}]]
<1> DEFINE left == fetch[f].uids \ fetch[f].got
           m == Min(left)
<1> USE DEF IInv
<1>1. /\ TypeOK /\ fetch[f].st = "fetching" /\ left # {}
      /\ lastUid' = Larger(lastUid, m)
      /\ fetch' = [fetch EXCEPT ![f] = [fetch[f] EXCEPT !.got = @ \cup {m}]]
  BY DEF Message
<1>2. /\ fetch[f].uids \in SUBSET Uids /\ fetch[f].from \in Nat
      /\ lastUid \in Nat /\ left \in SUBSET Nat
  BY <1>1 DEF TypeOK, Uids
<1>3. m \in left /\ \A v \in left : m <= v
  BY <1>1, <1>2, MinFact
<1> HIDE DEF m
<1>4. m \in fetch[f].uids /\ m \in Uids /\ m \in Nat /\ m < uidnext
  BY <1>1, <1>2, <1>3 DEF FoundKnown, Uids
<1>5. ASSUME Serving, NEW u \in (lastUid + 1)..m
      PROVE  u = m \/ u \in fetch[f].got
  <2>0. fetch[f].from <= lastUid + 1
    BY <1>1, <1>5 DEF FromKnown, Uncrossed, Serving
  <2>1. u \in Uids /\ fetch[f].from <= u /\ u <= m
    BY <1>2, <1>4, <2>0, EmailBoundsAssumption DEF Uids
  <2>2. u \in fetch[f].uids
    BY <1>1, <1>4, <2>1 DEF FoundKnown
  <2>3. u \in left => m <= u
    BY <1>3
  <2> QED
    BY <1>4, <2>1, <2>2, <2>3 DEF Uids
<1> QED
  BY <1>1, <1>3, <1>4, <1>5

LEMMA InitOrder == Init => InOrder
BY DEF Init, InOrder, Idle

LEMMA IdleOrder ==
  ASSUME InOrder, TypeOK, NEW f \in Fetches, NEW r, r.got = {},
         fetch' = [fetch EXCEPT ![f] = r]
  PROVE  InOrder'
<1>1. \A g \in Fetches : fetch'[g] = IF g = f THEN r ELSE fetch[g]
  BY DEF TypeOK
<1>2. \A g \in Fetches : fetch'[g].got = {} \/ fetch'[g] = fetch[g]
  BY <1>1
<1> QED
  BY <1>2 DEF InOrder

LEMMA StepOrder == IInv /\ InOrder /\ [Next]_vars => InOrder'
<1> SUFFICES ASSUME IInv, InOrder, [Next]_vars PROVE InOrder'
  OBVIOUS
<1>0. TypeOK /\ \A f \in Fetches : fetch[f].st # "fetching" => fetch[f].got = {}
  BY DEF IInv, Fresh
<1>1. CASE fetch' = fetch
  BY <1>1 DEF InOrder
<1>2. CASE fetchNewEmails
  <2>1. ASSUME NEW f \in Fetches, Request(f, imap, lastUid + 1)
        PROVE  InOrder'
    <3> DEFINE r == [Idle EXCEPT !.st = "searching", !.on = imap, !.from = lastUid + 1]
    <3>1. r.got = {} /\ fetch' = [fetch EXCEPT ![f] = r]
      BY <2>1 DEF Request, Idle
    <3> HIDE DEF r
    <3> QED
      BY <1>0, <3>1, IdleOrder
  <2> QED
    BY <1>1, <1>2, <2>1 DEF fetchNewEmails
<1>3. ASSUME NEW f \in Fetches, Searched(f)
      PROVE  InOrder'
  <2>1. PICK r : r.got = {} /\ fetch' = [fetch EXCEPT ![f] = r]
    <3> DEFINE uids == Found(fetch[f].from)
               r == [fetch[f] EXCEPT !.st = "fetching", !.on = imap, !.uids = uids]
    <3>1. fetch[f].got = {} /\ fetch[f] \in FetchType
      BY <1>0, <1>3 DEF Searched, TypeOK, FetchType
    <3>2. r.got = {}
      BY <3>1 DEF FetchType
    <3>3. fetch' = [fetch EXCEPT ![f] = r] \/ fetch' = [fetch EXCEPT ![f] = Idle]
      BY <1>3 DEF Searched
    <3> HIDE DEF r
    <3> QED
      BY <3>2, <3>3, IdleFetch
  <2> QED
    BY <1>0, <2>1, IdleOrder
<1>4. ASSUME NEW f \in Fetches, Message(f)
      PROVE  InOrder'
  <2>1. PICK m \in fetch[f].uids \ fetch[f].got :
          /\ m \in Uids /\ \A v \in fetch[f].uids \ fetch[f].got : m <= v
          /\ fetch' = [fetch EXCEPT ![f] = [fetch[f] EXCEPT !.got = @ \cup {m}]]
    BY <1>4, NextMessage
  <2>2. /\ fetch'[f].got = fetch[f].got \cup {m} /\ fetch'[f].uids = fetch[f].uids
        /\ \A g \in Fetches : g # f => fetch'[g] = fetch[g]
    BY <1>0, <2>1 DEF TypeOK
  <2>3. ASSUME NEW w \in fetch'[f].got, NEW v \in fetch'[f].uids \ fetch'[f].got
        PROVE  w < v
    <3>1. v \in fetch[f].uids \ fetch[f].got /\ v # m
      BY <2>2
    <3>2. v \in Nat /\ m \in Nat
      BY <1>0, <2>1, <3>1 DEF TypeOK, Uids
    <3>3. CASE w \in fetch[f].got
      BY <3>1, <3>3 DEF InOrder
    <3>4. CASE w = m
      BY <2>1, <3>1, <3>2, <3>4
    <3> QED
      BY <2>2, <3>3, <3>4
  <2>4. \A g \in Fetches : g # f =>
          \A w \in fetch'[g].got, v \in fetch'[g].uids \ fetch'[g].got : w < v
    BY <2>2 DEF InOrder
  <2> QED
    BY <2>3, <2>4 DEF InOrder
<1>5. ASSUME NEW f \in Fetches, FetchEnd(f) \/ FetchFails(f)
      PROVE  InOrder'
  <2>1. fetch' = [fetch EXCEPT ![f] = Idle]
    BY <1>5 DEF FetchEnd, FetchFails
  <2> QED
    BY <1>0, <2>1, IdleFetch, IdleOrder
<1>6. CASE start \/ stop \/ Arrive \/ UNCHANGED vars
  <2>1. fetch' = fetch
    BY <1>6 DEF start, stop, Arrive, vars
  <2> QED
    BY <1>1, <2>1
<1>7. ASSUME NEW s \in Starts,
             Ready(s) \/ StartFails(s) \/ Opened(s) \/ End(s) \/ Lost(s)
      PROVE  InOrder'
  <2>1. fetch' = fetch
    BY <1>7 DEF Ready, StartFails, Opened, End, Lost
  <2> QED
    BY <1>1, <2>1
<1>8. ASSUME NEW s, MailEvent(s) \/ Poll(s)
      PROVE  InOrder'
  BY <1>2, <1>8 DEF MailEvent, Poll
<1> QED
  BY <1>3, <1>4, <1>5, <1>6, <1>7, <1>8 DEF Next, Progress

----------------------------------------------------------------------------
\* Only what a step does to the messages read shows in the inbox.
LEMMA BatchStep ==
  ASSUME TypeOK, NEW f \in Fetches, NEW r, fetch' = [fetch EXCEPT ![f] = r]
  PROVE  Batch' = [Batch EXCEPT ![f] = r.got]
<1>1. fetch' = [g \in Fetches |-> IF g = f THEN r ELSE fetch[g]]
  BY DEF TypeOK
<1> QED
  BY <1>1 DEF Batch

LEMMA SameBatch ==
  ASSUME TypeOK, NEW f \in Fetches, NEW r, fetch' = [fetch EXCEPT ![f] = r],
         r.got = fetch[f].got
  PROVE  Batch' = Batch
<1>1. fetch' = [g \in Fetches |-> IF g = f THEN r ELSE fetch[g]]
  BY DEF TypeOK
<1> QED
  BY <1>1 DEF Batch

\* What leaves batches, marks and mails alone is a stutter.
LEMMA Unseen ==
  ASSUME Batch' = Batch, Serving' <=> Serving,
         UNCHANGED <<lastUid, uidnext, handled, skipped>>
  PROVE  UNCHANGED Mailbox!avars
<1>1. Serving' = Serving
  BY DEF Serving
<1> QED
  BY <1>1 DEF Batch, Mailbox!avars

\* Serving changes with the connection and the fields only.
LEMMA SameServing ==
  ASSUME UNCHANGED <<running, imap, conn, crossed>>
  PROVE  Serving' = Serving
BY DEF Serving

LEMMA InitRefines == Init => Mailbox!AInit
<1> SUFFICES ASSUME Init PROVE Mailbox!AInit
  OBVIOUS
<1>1. uidnext - 1 \in 0..MaxMails
  BY EmailBoundsAssumption DEF Init
<1>2. [f \in Fetches |-> fetch[f].got] = [f \in Fetches |-> {}]
  BY DEF Init, Idle
<1>3. Serving = FALSE
  BY DEF Init, Serving
<1> QED
  BY <1>1, <1>2, <1>3 DEF Init, Mailbox!AInit, Mailbox!Uids, Uids

LEMMA ArriveRefines == IInv /\ Arrive => Mailbox!Arrives
<1> SUFFICES ASSUME IInv, Arrive PROVE Mailbox!Arrives
  OBVIOUS
<1>1. /\ uidnext <= MaxMails /\ uidnext' = uidnext + 1
      /\ UNCHANGED <<lastUid, fetch, handled, skipped>> /\ Serving' = Serving
  BY SameServing DEF Arrive, bot, history
<1>2. uidnext \in Nat /\ MaxMails \in Nat
  BY EmailBoundsAssumption DEF IInv, TypeOK
<1>3. uidnext - 1 < MaxMails /\ uidnext' - 1 = (uidnext - 1) + 1
  BY <1>1, <1>2
<1> QED
  BY <1>1, <1>3 DEF Mailbox!Arrives

LEMMA OpenedRefines ==
  ASSUME IInv, NEW s \in Starts, Opened(s)
  PROVE  Mailbox!Opens
<1> DEFINE next == opening[s].next
<1>1. /\ opening[s].on # null /\ lastUid' = next - 1
      /\ skipped' = skipped \cup {u \in 1..(next - 1) : handled[u] = 0}
      /\ UNCHANGED <<uidnext, fetch, handled>>
  BY DEF Opened, FirstUid
<1>2. ~Serving
  BY <1>1 DEF IInv, Uncrossed, OneStart, Serving
<1>3. next \in 1..(MaxMails + 1) /\ next <= uidnext /\ uidnext \in 1..(MaxMails + 1)
  BY DEF IInv, TypeOK, NextKnown
<1> HIDE DEF next
<1>4. lastUid' \in 0..(uidnext - 1)
  BY <1>1, <1>3, EmailBoundsAssumption
<1>5. skipped' = skipped \cup {u \in 1..lastUid' : handled[u] = 0}
  BY <1>1
<1>6. Serving' \in BOOLEAN
  BY DEF Serving
<1> QED
  BY <1>1, <1>2, <1>4, <1>5, <1>6 DEF Mailbox!Opens

\* What leaves mails and marks alone closes the bot at most.
LEMMA ClosingRefines ==
  ASSUME Serving' => Serving, UNCHANGED <<lastUid, fetch, uidnext, handled, skipped>>
  PROVE  Mailbox!Closes \/ UNCHANGED Mailbox!avars
<1>1. Batch' = Batch
  BY DEF Batch
<1>2. CASE Serving /\ ~Serving'
  <2>1. Serving' = FALSE
    BY <1>2 DEF Serving
  <2> QED
    BY <1>2, <2>1 DEF Mailbox!Closes
<1>3. CASE Serving' <=> Serving
  BY <1>1, <1>3, Unseen
<1> QED
  BY <1>2, <1>3

LEMMA MessageRefines ==
  ASSUME IInv, InOrder, NEW f \in Fetches, Message(f)
  PROVE  Mailbox!Reads(f)
<1>1. PICK m \in fetch[f].uids \ fetch[f].got :
        /\ m \in Uids /\ m < uidnext
        /\ Serving => \A u \in (lastUid + 1)..m : u = m \/ u \in fetch[f].got
        /\ lastUid' = Larger(lastUid, m)
        /\ fetch' = [fetch EXCEPT ![f] = [fetch[f] EXCEPT !.got = @ \cup {m}]]
  BY NextMessage
<1>2. UNCHANGED <<uidnext, handled, skipped>> /\ Serving' = Serving
  BY SameServing DEF Message, net, history
<1>3. TypeOK /\ lastUid \in Nat /\ m \in Nat /\ uidnext \in Nat
  BY <1>1 DEF IInv, TypeOK, Uids
<1>4. m \in 1..(uidnext - 1) /\ \A w \in Batch[f] : w < m
  BY <1>1, <1>3 DEF Uids, InOrder, Batch
<1>5. Batch' = [Batch EXCEPT ![f] = @ \cup {m}]
  <2> DEFINE r == [fetch[f] EXCEPT !.got = @ \cup {m}]
  <2>1. r.got = Batch[f] \cup {m}
    BY <1>3 DEF TypeOK, Batch
  <2>2. fetch' = [fetch EXCEPT ![f] = r]
    BY <1>1
  <2> HIDE DEF r
  <2> QED
    BY <1>3, <2>1, <2>2, BatchStep
<1>6. lastUid' = Mailbox!Upto(m)
  BY <1>1, <1>3 DEF Larger, Mailbox!Upto
<1>7. ASSUME Serving, NEW u \in (lastUid + 1)..lastUid'
      PROVE  \E g \in Fetches : u \in Batch'[g]
  <2>1. u \in (lastUid + 1)..m
    BY <1>1, <1>3, <1>7 DEF Larger
  <2>2. u \in Batch[f] \cup {m}
    BY <1>1, <1>7, <2>1 DEF Batch
  <2> QED
    BY <1>5, <2>2 DEF Batch
<1>8. Serving => \A u \in (lastUid + 1)..lastUid' : Mailbox!Accounted(u)'
  BY <1>7 DEF Batch, Mailbox!Accounted
<1> QED
  BY <1>2, <1>4, <1>5, <1>6, <1>8 DEF Batch, Mailbox!Reads

LEMMA FetchEndRefines ==
  ASSUME IInv, NEW f \in Fetches, FetchEnd(f)
  PROVE  Mailbox!Delivers(f)
<1> DEFINE m == Max(fetch[f].uids)
<1>1. /\ TypeOK /\ fetch[f].st = "fetching" /\ fetch[f].got = fetch[f].uids
      /\ lastUid' = Larger(lastUid, m) /\ fetch' = [fetch EXCEPT ![f] = Idle]
      /\ handled' = [u \in Uids |-> IF u \in fetch[f].got /\ handled[u] < MaxHandled
                                    THEN handled[u] + 1 ELSE handled[u]]
      /\ UNCHANGED <<uidnext, skipped>> /\ Serving' = Serving
  BY SameServing DEF FetchEnd, Hand, IInv, net
<1>2. /\ fetch[f].uids \in SUBSET (1..MaxMails) /\ fetch[f].uids # {}
      /\ lastUid \in Nat /\ fetch[f].from \in Nat /\ handled \in [Uids -> 0..MaxHandled]
  BY <1>1 DEF IInv, TypeOK, FoundKnown, Uids
<1>3. m \in fetch[f].uids /\ \A w \in fetch[f].uids : m >= w
  BY <1>2, MaxFact, EmailBoundsAssumption
<1> HIDE DEF m
<1>4. m \in Nat /\ \A w \in fetch[f].uids : w <= m
  <2>1. \A w \in fetch[f].uids : w \in Nat
    BY <1>2
  <2> QED
    BY <1>3, <2>1
<1>5. Batch' = [Batch EXCEPT ![f] = {}]
  <2>1. Batch' = [Batch EXCEPT ![f] = Idle.got]
    BY <1>1, BatchStep
  <2> QED
    BY <2>1, IdleFetch
<1>6. Batch[f] = fetch[f].uids
  BY <1>1 DEF Batch
<1>7. lastUid' = Mailbox!Upto(m)
  BY <1>1, <1>2, <1>4 DEF Larger, Mailbox!Upto
<1>8. ASSUME Serving, NEW u \in (lastUid + 1)..lastUid'
      PROVE  handled'[u] > 0
  <2>1. u \in Nat /\ lastUid < u /\ u <= m
    BY <1>1, <1>2, <1>4, <1>8 DEF Larger
  <2>2. u \in Uids
    BY <1>2, <1>3, <1>4, <2>1, EmailBoundsAssumption DEF Uids
  <2>3. fetch[f].from <= u
    <3>1. fetch[f].from <= lastUid + 1
      BY <1>1, <1>8 DEF IInv, FromKnown, Uncrossed, Serving
    <3> QED
      BY <1>2, <2>1, <3>1
  <2>4. u \in fetch[f].got
    BY <1>1, <1>3, <2>1, <2>2, <2>3 DEF IInv, FoundKnown
  <2>5. handled[u] \in 0..MaxHandled
    BY <1>2, <2>2
  <2> QED
    BY <1>1, <2>2, <2>4, <2>5, EmailBoundsAssumption
<1>9. Serving => \A u \in (lastUid + 1)..lastUid' : Mailbox!Accounted(u)'
  BY <1>8 DEF Mailbox!Accounted
<1>10. handled' = [u \in Mailbox!Uids |-> IF u \in Batch[f] /\ handled[u] < MaxHandled
                                         THEN handled[u] + 1 ELSE handled[u]]
  BY <1>1, <1>6 DEF Mailbox!Uids, Uids
<1>11. \E u \in Batch[f] : (\A w \in Batch[f] : w <= u) /\ lastUid' = Mailbox!Upto(u)
  BY <1>3, <1>4, <1>6, <1>7
<1> QED
  BY <1>1, <1>5, <1>9, <1>10, <1>11 DEF Batch, Mailbox!Delivers

LEMMA FetchFailsRefines ==
  ASSUME IInv, NEW f \in Fetches, FetchFails(f)
  PROVE  Mailbox!Drops(f)
<1>1. /\ TypeOK /\ fetch' = [fetch EXCEPT ![f] = Idle]
      /\ UNCHANGED <<lastUid, uidnext, handled, skipped>> /\ Serving' = Serving
  BY SameServing DEF FetchFails, bot, net, history, IInv
<1>2. Batch' = [Batch EXCEPT ![f] = {}]
  <2>1. Batch' = [Batch EXCEPT ![f] = Idle.got]
    BY <1>1, BatchStep
  <2> QED
    BY <2>1, IdleFetch
<1>3. Serving /\ ~PartialFetch => \A u \in Batch[f] : handled[u] > 0 \/ u \in skipped
  BY BrokenOffCovered DEF Batch
<1> QED
  BY <1>1, <1>2, <1>3 DEF Batch, Mailbox!Drops

\* A search, begun or answered, is not seen.
LEMMA SearchUnseen ==
  ASSUME IInv, NEW f \in Fetches,
         Searched(f) \/ (fetch[f].st = "idle" /\ Request(f, imap, lastUid + 1))
  PROVE  Batch' = Batch
<1>1. TypeOK /\ fetch[f] \in FetchType /\ fetch[f].got = {}
  BY DEF IInv, TypeOK, FetchType, Fresh, Searched
<1> DEFINE uids == Found(fetch[f].from)
           found == [fetch[f] EXCEPT !.st = "fetching", !.on = imap, !.uids = uids]
           asked == [Idle EXCEPT !.st = "searching", !.on = imap, !.from = lastUid + 1]
<1>2. found.got = {} /\ asked.got = {} /\ Idle.got = {}
  BY <1>1 DEF FetchType, Idle
<1>3. fetch' \in {[fetch EXCEPT ![f] = found], [fetch EXCEPT ![f] = asked],
                  [fetch EXCEPT ![f] = Idle]}
  BY DEF Searched, Request
<1> HIDE DEF found, asked
<1> QED
  BY <1>1, <1>2, <1>3, SameBatch

LEMMA FetchRefines ==
  ASSUME IInv, fetchNewEmails, Serving' <=> Serving,
         UNCHANGED <<lastUid, uidnext, handled, skipped>>
  PROVE  UNCHANGED Mailbox!avars
<1>1. CASE fetch' = fetch
  BY <1>1, Unseen DEF Batch
<1>2. ASSUME NEW f \in Fetches, fetch[f].st = "idle", Request(f, imap, lastUid + 1)
      PROVE  Batch' = Batch
  BY <1>2, SearchUnseen
<1> QED
  BY <1>1, <1>2, Unseen DEF fetchNewEmails

\* Every step of the bot is a step of the inbox or leaves it as it was.
LEMMA StepRefines == IInv /\ InOrder /\ [Next]_vars => [Mailbox!ANext]_(Mailbox!avars)
<1> SUFFICES ASSUME IInv, InOrder, [Next]_vars
             PROVE  Mailbox!ANext \/ UNCHANGED Mailbox!avars
  OBVIOUS
<1>1. CASE start \/ stop
  <2>1. ~Serving' /\ UNCHANGED <<lastUid, fetch, uidnext, handled, skipped>>
    BY <1>1 DEF start, stop, Serving, history
  <2> QED
    BY <2>1, ClosingRefines DEF Mailbox!ANext
<1>2. ASSUME NEW s \in Starts, Ready(s) \/ StartFails(s) \/ End(s) \/ Lost(s)
      PROVE  Mailbox!ANext \/ UNCHANGED Mailbox!avars
  <2>1. UNCHANGED <<lastUid, fetch, uidnext, handled, skipped>>
    BY <1>2 DEF Ready, StartFails, End, Lost, bot, history
  <2>2. /\ running' => running
        /\ UNCHANGED <<imap, crossed>>
        /\ imap # null /\ conn'[imap] = "open" => conn[imap] = "open"
    BY <1>2 DEF Ready, StartFails, End, Lost, bot, history, IInv, TypeOK
  <2> QED
    BY <2>1, <2>2, ClosingRefines DEF Mailbox!ANext, Serving
<1>3. ASSUME NEW s \in Starts, Opened(s)
      PROVE  Mailbox!ANext
  BY <1>3, OpenedRefines DEF Mailbox!ANext
<1>4. ASSUME NEW s, MailEvent(s) \/ Poll(s)
      PROVE  UNCHANGED Mailbox!avars
  <2>1. /\ fetchNewEmails
        /\ UNCHANGED <<running, imap, conn, crossed, lastUid, uidnext, handled, skipped>>
    BY <1>4 DEF MailEvent, Poll, bot, net, history
  <2> QED
    BY <2>1, FetchRefines, SameServing
<1>5. ASSUME NEW f \in Fetches, Searched(f)
      PROVE  UNCHANGED Mailbox!avars
  <2>1. /\ Batch' = Batch
        /\ UNCHANGED <<running, imap, conn, crossed, lastUid, uidnext, handled, skipped>>
    BY <1>5, SearchUnseen DEF Searched, bot, net, history
  <2> QED
    BY <2>1, Unseen, SameServing
<1>6. ASSUME NEW f \in Fetches, Message(f) \/ FetchEnd(f) \/ FetchFails(f)
      PROVE  Mailbox!ANext
  BY <1>6, MessageRefines, FetchEndRefines, FetchFailsRefines DEF Mailbox!ANext
<1>7. CASE Arrive
  BY <1>7, ArriveRefines DEF Mailbox!ANext
<1>8. CASE UNCHANGED vars
  <2>1. /\ Batch' = Batch
        /\ UNCHANGED <<running, imap, conn, crossed, lastUid, uidnext, handled, skipped>>
    BY <1>8 DEF vars, bot, net, history, Batch
  <2> QED
    BY <2>1, Unseen, SameServing
<1> QED
  BY <1>1, <1>2, <1>3, <1>4, <1>5, <1>6, <1>7, <1>8 DEF Next, Progress

\* The bot behaves as the inbox says: whatever fetches overlap and connections
\* end, a bot on a live connection marks no mail that is not accounted for, and
\* each fetch is read in order and handed over as one.
THEOREM BotIsInbox == Spec => ImplementsInbox
BY InitInv, NextInv, InitOrder, StepOrder, InitRefines, StepRefines, PTL
   DEF Spec, ImplementsInbox, Mailbox!ASpec
=============================================================================
