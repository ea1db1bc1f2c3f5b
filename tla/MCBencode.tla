------------------------------ MODULE MCBencode ------------------------------
(* Values for model-checking Bencode, with the texts they stand for.       *)
EXTENDS Bencode

(* i l d e : - 0 1 3 a *)
MCAlphabet == {105, 108, 100, 101, 58, 45, 48, 49, 51, 97}

MCOpenings ==
  {<<>>,
   <<100, 49, 58, 97, 105, 49, 101>>,         \* d1:ai1e
   <<100, 49, 58, 97, 108>>,                  \* d1:al
   <<100, 48, 58, 48, 58>>,                   \* d0:0:
   <<108, 100, 48, 58, 105, 48, 51, 101>>}    \* ld0:i03e

=============================================================================
