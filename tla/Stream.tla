------------------------------- MODULE Stream -------------------------------
(***************************************************************************)
(* What a bouncer promises about one direction of a connection: the        *)
(* receiver sees a head line of the bouncer's own, then exactly the        *)
(* sender's items, in order, none lost, none twice, up to the moment the   *)
(* connection goes down, and nothing after that.                           *)
(***************************************************************************)
EXTENDS Naturals, Sequences

CONSTANTS Preambles,  \* the possible head lines, sequences of tokens
          Item        \* Item[i] is the token of the sender's i-th item

VARIABLES preamble,  \* the head line of this connection
          arrived,   \* how many items the sender has handed over
          out,       \* what was passed on to the receiver
          up         \* is the connection still up

streamVars == <<preamble, arrived, out, up>>

StreamInit ==
  /\ preamble \in Preambles
  /\ arrived = 0
  /\ out = <<>>
  /\ up = TRUE

(* The head may be settled late, but not after a part of it was sent.      *)
Settle ==
  /\ out = <<>> /\ up
  /\ preamble' \in Preambles
  /\ UNCHANGED <<arrived, out, up>>

Arrive ==
  /\ up
  /\ arrived' = arrived + 1
  /\ UNCHANGED <<preamble, out, up>>

Deliver ==
  LET n == Len(out) IN
  /\ up
  /\ n < Len(preamble) + arrived
  /\ out' = Append(out, IF n < Len(preamble) THEN preamble[n + 1] ELSE Item[n - Len(preamble) + 1])
  /\ UNCHANGED <<preamble, arrived, up>>

GoDown ==
  /\ up' = FALSE
  /\ UNCHANGED <<preamble, arrived, out>>

StreamNext == Settle \/ Arrive \/ Deliver \/ GoDown

StreamSpec == StreamInit /\ [][StreamNext]_streamVars

=============================================================================
