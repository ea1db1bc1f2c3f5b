------------------------------ MODULE Download ------------------------------
(***************************************************************************)
(* What the user is promised: pieces are stored one by one and never lost  *)
(* again, not by a crash either, and the download is over when all of them *)
(* are there, or it fails. A crash starts it over on what is stored.       *)
(***************************************************************************)
CONSTANT Pieces

VARIABLES stored, outcome

Init == stored = {} /\ outcome = "running"

Store(p) ==
  /\ p \notin stored
  /\ stored' = stored \cup {p}
  /\ UNCHANGED outcome

Finish ==
  /\ outcome = "running"
  /\ stored = Pieces
  /\ outcome' = "finished"
  /\ UNCHANGED stored

Fail == outcome = "running" /\ outcome' = "failed" /\ UNCHANGED stored

StartOver == outcome # "running" /\ outcome' = "running" /\ UNCHANGED stored

Next == Finish \/ Fail \/ StartOver \/ \E p \in Pieces : Store(p)

Spec == Init /\ [][Next]_<<stored, outcome>>

=============================================================================
