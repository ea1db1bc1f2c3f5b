------------------------------ MODULE PieceWork ------------------------------
(***************************************************************************)
(* What a Downloader promises about each piece, and all that the Strategy  *)
(* builds on: a piece that was asked for is worked on until its bytes are  *)
(* there and their hash is right or wrong; a right one is taken once; a    *)
(* wrong one stays until it is asked for again.                            *)
(***************************************************************************)
CONSTANTS
  Items,  \* what is asked for
  Again   \* whether an item may be asked for while it is worked on

VARIABLE got

Init == got = [i \in Items |-> "none"]

Ask(i) ==
  /\ Again \/ got[i] \in {"none", "Corrupt"}
  /\ got' = [got EXCEPT ![i] = "working"]

Arrive(i) ==
  /\ got[i] = "working"
  /\ \E result \in {"Complete", "Corrupt"} : got' = [got EXCEPT ![i] = result]

Take(i) == got[i] = "Complete" /\ got' = [got EXCEPT ![i] = "none"]

(* The process starts anew. *)
Restart == got' = [i \in Items |-> "none"]

Next == Restart \/ \E i \in Items : Ask(i) \/ Arrive(i) \/ Take(i)

Spec == Init /\ [][Next]_got

=============================================================================
