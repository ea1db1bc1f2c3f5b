----------------------------- MODULE MCTracker ------------------------------
(* Values for model-checking Tracker: a port on either side of 2^15, a     *)
(* total that fits 16 bits and one that does not, an endpoint without an   *)
(* address between two others, an Error text shorter and one longer than a *)
(* std::string, and an announce of another sender.                         *)
EXTENDS Tracker

CONSTANTS low, high, p1, p2, p3, zero

MCUrls == {low, high}
MCPort == [u \in MCUrls |-> IF u = low THEN 32767 ELSE 32768]

MCUnset == {zero}

MCListings == {[peers |-> <<p1, p2>>, total |-> 2],
               [peers |-> <<p1, zero, p2>>, total |-> 3],
               [peers |-> <<p1, p2>>, total |-> 65537]}

MCErrorTexts == {16, 32}

MCStrays ==
  {[action |-> "Announce", from |-> "other", peers |-> <<p3>>, total |-> 1, size |-> 26]}

=============================================================================
