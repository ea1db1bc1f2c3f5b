------------------------------ MODULE BitField ------------------------------
(***************************************************************************)
(* aux::BitField (source/torrent/bitfield/bitfield.cpp): the pieces a      *)
(* remote peer has announced, kept as the bytes of its BitField message.   *)
(* A byte is the set of its bits that are set, bit k being worth 2^k; the  *)
(* mask 1 << k is {k}, | and & ~ are union and difference.                 *)
(*                                                                         *)
(* Nobody checks an index or a length against the number of pieces: bits   *)
(* past the last piece, BitField messages of any length and a Have for any *)
(* 32-bit index are all taken, and mark resizes the vector to hold them.   *)
(***************************************************************************)
EXTENDS Integers, Sequences

CONSTANTS
  Indices,   \* the indices a Have can name: 0..(2^32 - 1) in the code
  MaxBytes,  \* the longest BitField message
  Bytes      \* the bytes a BitField message is made of

ASSUME BitFieldAssumption ==
  /\ Indices \subseteq Nat
  /\ MaxBytes \in Nat
  /\ Bytes \subseteq SUBSET (0..7)

VARIABLES m_bitfield, call

vars == <<m_bitfield, call>>

Byte == SUBSET (0..7)

Zeros(n) == [k \in 1..n |-> {}]

mask(i) == {7 - (i % 8)}
container_index(i) == i \div 8

(* m_bitfield.resize(container_index + 1), when it has to grow. *)
resizedAlways(b, i) ==
  [k \in 1..(container_index(i) + 1) |-> IF k <= Len(b) THEN b[k] ELSE {}]

resized(b, i) ==
  IF container_index(i) >= Len(b)
  THEN [k \in 1..(container_index(i) + 1) |-> IF k <= Len(b) THEN b[k] ELSE {}]
  ELSE b

mark(b, i, value) ==
  [resized(b, i) EXCEPT ![container_index(i) + 1] =
     IF value THEN @ \cup mask(i) ELSE @ \ mask(i)]

get(b, i) ==
  /\ container_index(i) < Len(b)
  /\ mask(i) \cap b[container_index(i) + 1] # {}

-----------------------------------------------------------------------------
Init ==
  /\ m_bitfield = <<>>
  /\ call = [op |-> "assign", raw |-> <<>>]

(* assign_bitfield: the vector of a BitField message becomes the field. *)
Assign(raw) ==
  /\ m_bitfield' = raw
  /\ call' = [op |-> "assign", raw |-> raw]

(* BitField(size_t piece_count), which counts bytes where it says pieces. *)
Construct(piece_count) == Assign(Zeros(piece_count))

(* mark_bitfield: Peer only ever passes TRUE. *)
Mark(i, value) ==
  /\ m_bitfield' = mark(m_bitfield, i, value)
  /\ call' = [op |-> "mark", index |-> i, value |-> value]

Next ==
  \/ \E n \in 0..MaxBytes : \E raw \in [1..n -> Bytes] : Assign(raw)
  \/ \E n \in 0..MaxBytes : Construct(n)
  \/ \E i \in Indices, value \in BOOLEAN : Mark(i, value)

Spec == Init /\ [][Next]_vars

-----------------------------------------------------------------------------
(* What a BitField message announces: the high bit of the first byte is    *)
(* piece 0, and so on through the bits of the bytes.                       *)
Announced(raw) ==
  {i \in Indices : \E k \in 1..Len(raw) : \E bit \in raw[k] : i = 8 * k - 1 - bit}

(* The field is a sequence of bytes, whatever a peer sends. *)
TypeOK == m_bitfield \in Seq(Byte)

(* However a field came about, by messages of any length and Have messages *)
(* for indices far past its end, get answers as a set of pieces would: the *)
(* last BitField's pieces and those marked since, and mark disturbs no     *)
(* other piece, whatever byte it shares or is resized along with.          *)
Set == INSTANCE PieceSet WITH
  pieces <- {i \in Indices : get(m_bitfield, i)},
  call <- IF call.op = "assign" THEN [op |-> "assign", pieces |-> Announced(call.raw)]
          ELSE call

ImplementsPieceSet == Set!Spec

=============================================================================
