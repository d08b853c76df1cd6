----------------------------- MODULE SharedToken -----------------------------
(****************************************************************************)
(* What the callers of a token store may rely on, without the lock, the     *)
(* requests, the network and the server: they share one token and one       *)
(* renewal.  A caller is given the token at once while it is trusted, or    *)
(* awaits the renewal, and all who await it are released together: with a   *)
(* newer token, with an error that leaves everything as it was, or, when    *)
(* the renewal brought no token, with none.                                 *)
(****************************************************************************)
EXTENDS Integers

CONSTANTS
  Callers,  \* the users of the store
  MaxTtl    \* a token is trusted for at most this

VARIABLES
  held,      \* the token everybody shares, as a number; a newer one is larger,
             \* 0 is none
  trust,     \* 0..MaxTtl  how much longer it is given without a renewal
  renewing,  \* BOOLEAN  a renewal is under way
  awaiting,  \* the callers that wait for it
  given      \* [Callers -> Nat]  the last token each caller was given

avars == <<held, trust, renewing, awaiting, given>>

AInit ==
  /\ held = 1
  /\ trust \in 0..MaxTtl
  /\ renewing = FALSE
  /\ awaiting = {}
  /\ given = [c \in Callers |-> 0]

Give(c) ==
  /\ c \notin awaiting
  /\ trust > 0
  /\ given' = [given EXCEPT ![c] = held]
  /\ UNCHANGED <<held, trust, renewing, awaiting>>

(* A caller starts the renewal, or joins the one that is under way. *)
Await(c) ==
  /\ c \notin awaiting
  /\ renewing' = TRUE
  /\ awaiting' = awaiting \cup {c}
  /\ UNCHANGED <<held, trust, given>>

Renewed ==
  /\ renewing
  /\ renewing' = FALSE
  /\ held' # 0 => held' > held /\ \A c \in Callers : held' > given[c]
  /\ trust' \in 0..MaxTtl
  /\ awaiting' = {}
  /\ given' = [c \in Callers |-> IF c \in awaiting THEN held' ELSE given[c]]

NotRenewed ==
  /\ renewing
  /\ renewing' = FALSE
  /\ awaiting' = {}
  /\ UNCHANGED <<held, trust, given>>

Ages ==
  /\ trust > 0
  /\ trust' = trust - 1
  /\ UNCHANGED <<held, renewing, awaiting, given>>

ANext ==
  \/ \E c \in Callers : Give(c) \/ Await(c)
  \/ Renewed
  \/ NotRenewed
  \/ Ages

ASpec == AInit /\ [][ANext]_avars
=============================================================================
