------------------------------ MODULE PieceSet ------------------------------
(***************************************************************************)
(* What aux::BitField promises to the Peer, the Downloader and the         *)
(* Strategy: it is the set of the pieces the remote peer has announced.    *)
(***************************************************************************)
CONSTANT Indices  \* the piece indices anyone can name

VARIABLES
  pieces,  \* the set
  call     \* the last operation on it, with its arguments

Assigned(S) == [op |-> "assign", pieces |-> S]
Marked(i, value) == [op |-> "mark", index |-> i, value |-> value]

Init == pieces = {} /\ call = Assigned({})

(* A BitField message, or a constructor, replaces the set. *)
Assign ==
  /\ pieces' \subseteq Indices
  /\ call' = Assigned(pieces')

(* A Have message adds one piece; mark can also remove one. *)
Mark(i, value) ==
  /\ pieces' = IF value THEN pieces \cup {i} ELSE pieces \ {i}
  /\ call' = Marked(i, value)

Next == Assign \/ \E i \in Indices, value \in BOOLEAN : Mark(i, value)

Spec == Init /\ [][Next]_<<pieces, call>>

=============================================================================
