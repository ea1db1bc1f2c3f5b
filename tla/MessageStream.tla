---------------------------- MODULE MessageStream ----------------------------
(***************************************************************************)
(* What the Peer expects of source/client/transmit: a connection is a      *)
(* stream of whole messages. Each is read once, in the order they were     *)
(* sent, until the connection breaks; what was on its way is then lost.    *)
(***************************************************************************)
EXTENDS Naturals, Sequences

CONSTANT Messages

VARIABLES sent, received, open

Init == sent = <<>> /\ received = <<>> /\ open = TRUE

Send ==
  /\ open
  /\ \E m \in Messages : sent' = Append(sent, m)
  /\ UNCHANGED <<received, open>>

Receive ==
  /\ Len(received) < Len(sent)
  /\ received' = Append(received, sent[Len(received) + 1])
  /\ UNCHANGED <<sent, open>>

Break == open /\ open' = FALSE /\ UNCHANGED <<sent, received>>

Next == Send \/ Receive \/ Break

Spec == Init /\ [][Next]_<<sent, received, open>>

=============================================================================
