----------------------------- MODULE MCBitField -----------------------------
(* Values for model-checking BitField: bytes with the first bit, the last  *)
(* bit and several bits set.                                               *)
EXTENDS BitField

MCBytes == {{}, {7}, {0}, {0, 3, 6}}

=============================================================================
