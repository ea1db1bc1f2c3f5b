------------------------------- MODULE MCPeer -------------------------------
(* Values for model-checking Peer on its own. *)
EXTENDS Peer

CONSTANTS c1, c2

MCClients  == {c1, c2}
MCOutgoing == {[type |-> "Request"]}
MCIncoming == {[type |-> "Choke"], [type |-> "Unchoke"],
               [type |-> "Have", piece_index |-> 0],
               [type |-> "BitField", pieces |-> {}]}

=============================================================================
