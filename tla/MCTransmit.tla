----------------------------- MODULE MCTransmit -----------------------------
(***************************************************************************)
(* Values for model-checking Transmit: every type of message, with fields  *)
(* whose bytes differ, and the frames other clients may send: a keepalive, *)
(* a Have cut short, a Choke and a Have with bytes to spare, an empty      *)
(* BitField, a Piece without its fields, ids nobody knows.                 *)
(***************************************************************************)
EXTENDS Transmit

Message(type, fields, payload) == [type |-> type, fields |-> fields, payload |-> payload]

MCMessages ==
  {Message(t, <<>>, <<>>) : t \in {"Keepalive", "Choke", "Unchoke", "Interested", "NotInterested"}}
    \cup {Message("Have", <<258>>, <<>>), Message("Port", <<6881>>, <<>>),
          Message("Request", <<1, 8192, 66051>>, <<>>),
          Message("Cancel", <<0, 3, 8192>>, <<>>),
          Message("BitField", <<>>, <<128>>), Message("Piece", <<2, 512>>, <<7, 5>>)}

MCFrames ==
  {<<>>, <<4, 0>>, <<0, 4, 4>>, <<4, 0, 0, 0, 9, 1>>, <<5>>, <<7, 0, 0>>, <<20>>, <<255>>}

MCHandshakes == [infohash : {1, 2}, peer_id : {3}]

=============================================================================
