-------------------------------- MODULE Inbox --------------------------------
(****************************************************************************)
(* What the handler of the email bot may rely on, without connections,      *)
(* searches, events and timers.  Mails come to a mailbox; the bot keeps a   *)
(* mark in it and reads batches, several at a time.  While the bot is open  *)
(* the mark moves over a mail only when that is accounted for: it was       *)
(* handled, is in a batch, or lay in the mailbox when the bot opened.       *)
(****************************************************************************)
EXTENDS Integers

CONSTANTS
  Fetches,      \* the batches that can be read at a time
  MaxMails,     \* bound: mails in the mailbox
  MaxHandled,   \* bound: up to which deliveries of one mail are counted
  PartialFetch  \* may a batch break off after some of its mails were read?

VARIABLES
  arrived,  \* mails 1, 2, ... up to this one are in the mailbox
  mark,     \* the mails up to it are thought of as done
  open,     \* BOOLEAN
  batch,    \* [Fetches -> the mails read so far]
  handled,  \* [Uids -> 0..MaxHandled]  how often the handler was given a mail, capped
  skipped   \* the mails passed over when the bot opened

avars == <<arrived, mark, open, batch, handled, skipped>>

Uids == 1..MaxMails
Accounted(u) == handled[u] > 0 \/ u \in skipped \/ \E f \in Fetches : u \in batch[f]
Upto(u) == IF u > mark THEN u ELSE mark

AInit ==
  /\ arrived \in 0..MaxMails
  /\ mark = 0
  /\ open = FALSE
  /\ batch = [f \in Fetches |-> {}]
  /\ handled = [u \in Uids |-> 0]
  /\ skipped = {}

Arrives ==
  /\ arrived < MaxMails
  /\ arrived' = arrived + 1
  /\ UNCHANGED <<mark, open, batch, handled, skipped>>

(* The bot looks at the mailbox, and opens a little later if nothing is     *)
(* wrong by then.                                                           *)
Opens ==
  /\ ~open
  /\ open' \in BOOLEAN
  /\ mark' \in 0..arrived
  /\ skipped' = skipped \cup {u \in 1..mark' : handled[u] = 0}
  /\ UNCHANGED <<arrived, batch, handled>>

Closes ==
  /\ open
  /\ open' = FALSE
  /\ UNCHANGED <<arrived, mark, batch, handled, skipped>>

(* The next mail of a batch; one that was done before may come again. *)
Reads(f) ==
  /\ \E u \in 1..arrived :
       /\ \A w \in batch[f] : w < u
       /\ batch' = [batch EXCEPT ![f] = @ \cup {u}]
       /\ mark' = Upto(u)
  /\ open => \A u \in (mark + 1)..mark' : Accounted(u)'
  /\ UNCHANGED <<arrived, open, handled, skipped>>

(* A batch is complete: all of it is handled at once, open or not. *)
Delivers(f) ==
  /\ \E u \in batch[f] : (\A w \in batch[f] : w <= u) /\ mark' = Upto(u)
  /\ handled' = [u \in Uids |-> IF u \in batch[f] /\ handled[u] < MaxHandled
                                THEN handled[u] + 1 ELSE handled[u]]
  /\ batch' = [batch EXCEPT ![f] = {}]
  /\ open => \A u \in (mark + 1)..mark' : Accounted(u)'
  /\ UNCHANGED <<arrived, open, skipped>>

(* A batch breaks off.  An open bot loses nothing by it that would not be   *)
(* accounted for otherwise.                                                 *)
Drops(f) ==
  /\ batch' = [batch EXCEPT ![f] = {}]
  /\ open /\ ~PartialFetch => \A u \in batch[f] : handled[u] > 0 \/ u \in skipped
  /\ UNCHANGED <<arrived, mark, open, handled, skipped>>

ANext ==
  \/ Arrives
  \/ Opens
  \/ Closes
  \/ \E f \in Fetches : Reads(f) \/ Delivers(f) \/ Drops(f)

ASpec == AInit /\ [][ANext]_avars
=============================================================================
