--------------------------- MODULE BitFieldProofs ---------------------------
(***************************************************************************)
(* aux::BitField is a set of pieces, for every set of indices and every    *)
(* BitField message: Spec => Set!Spec.                                     *)
(***************************************************************************)
EXTENDS BitField, TLAPS

LEMMA SeqOf ==
  ASSUME NEW S, NEW n \in Nat, NEW g \in [1..n -> S]
  PROVE  g \in Seq(S) /\ Len(g) = n
  OBVIOUS

LEMMA SeqAt ==
  ASSUME NEW S, NEW s \in Seq(S)
  PROVE  Len(s) \in Nat /\ s \in [1..Len(s) -> S]
  OBVIOUS

(* An index and its place in the field determine each other. *)
LEMMA Place ==
  ASSUME NEW i \in Nat, NEW c \in Nat, NEW r \in 0..7
  PROVE  i = 8 * c + r <=> i \div 8 = c /\ i % 8 = r
  OBVIOUS

LEMMA PlaceType ==
  ASSUME NEW i \in Nat
  PROVE  /\ container_index(i) \in Nat
         /\ i % 8 \in 0..7
         /\ 7 - (i % 8) \in 0..7
         /\ i = 8 * container_index(i) + (i % 8)
  BY DEF container_index

LEMMA GetIs ==
  ASSUME NEW b, NEW i, Len(b) \in Nat, i \in Nat
  PROVE  get(b, i) <=> /\ container_index(i) + 1 <= Len(b)
                       /\ 7 - (i % 8) \in b[container_index(i) + 1]
<1>1. \A S : mask(i) \cap S # {} <=> 7 - (i % 8) \in S
  BY DEF mask
<1>2. container_index(i) \in Nat
  BY PlaceType
<1>3. container_index(i) < Len(b) <=> container_index(i) + 1 <= Len(b)
  BY <1>2
<1> QED
  BY <1>1, <1>3 DEF get

LEMMA ResizedType ==
  ASSUME NEW b \in Seq(Byte), NEW i \in Nat
  PROVE  /\ resized(b, i) \in Seq(Byte)
         /\ container_index(i) < Len(resized(b, i))
         /\ Len(b) <= Len(resized(b, i))
         /\ \A k \in 1..Len(resized(b, i)) :
              resized(b, i)[k] = IF k <= Len(b) THEN b[k] ELSE {}
<1> DEFINE n == container_index(i) + 1
           g == [k \in 1..n |-> IF k <= Len(b) THEN b[k] ELSE {}]
<1>1. container_index(i) \in Nat
  BY PlaceType
<1>2. CASE container_index(i) >= Len(b)
  <2>1. \A k \in 1..n : (IF k <= Len(b) THEN b[k] ELSE {}) \in Byte
    BY <1>1 DEF Byte
  <2>2. g \in Seq(Byte) /\ Len(g) = n
    <3>1. n \in Nat /\ g \in [1..n -> Byte]
      BY <1>1, <2>1
    <3> HIDE DEF g, n
    <3> QED
      BY <3>1, SeqOf
  <2> HIDE DEF g
  <2>3. resized(b, i) = g
    BY <1>2 DEF resized, g
  <2>4. \A k \in 1..n : g[k] = IF k <= Len(b) THEN b[k] ELSE {}
    BY DEF g
  <2>5. Len(b) \in Nat /\ container_index(i) < n /\ Len(b) <= n
    BY <1>1, <1>2, SeqAt
  <2> HIDE DEF n
  <2> QED
    BY <2>2, <2>3, <2>4, <2>5
<1>3. CASE ~(container_index(i) >= Len(b))
  BY <1>1, <1>3 DEF resized
<1> QED
  BY <1>2, <1>3

LEMMA MarkType ==
  ASSUME NEW b \in Seq(Byte), NEW i \in Nat, NEW value \in BOOLEAN
  PROVE  mark(b, i, value) \in Seq(Byte)
<1> DEFINE r == resized(b, i)
           c == container_index(i) + 1
<1>1. r \in Seq(Byte) /\ c \in 1..Len(r)
  <2>1. container_index(i) \in Nat
    BY PlaceType
  <2>2. r \in Seq(Byte) /\ container_index(i) < Len(r)
    BY ResizedType
  <2> HIDE DEF r
  <2> QED
    BY <2>1, <2>2
<1>2. mask(i) \in Byte
  BY PlaceType DEF mask, Byte
<1>3. r[c] \in Byte
  BY <1>1
<1>4. r[c] \cup mask(i) \in Byte /\ r[c] \ mask(i) \in Byte
  BY <1>2, <1>3 DEF Byte
<1> HIDE DEF r, c
<1>5. mark(b, i, value) = [r EXCEPT ![c] = IF value THEN r[c] \cup mask(i) ELSE r[c] \ mask(i)]
  BY DEF mark, r, c
<1> QED
  BY <1>1, <1>4, <1>5

(* mark changes what get says of one index, to value, and of no other. *)
LEMMA GetMark ==
  ASSUME NEW b \in Seq(Byte), NEW i \in Nat, NEW j \in Nat, NEW value \in BOOLEAN
  PROVE  get(mark(b, i, value), j) <=> IF j = i THEN value ELSE get(b, j)
<1> DEFINE r == resized(b, i)
           m == mark(b, i, value)
           c == container_index(i) + 1
           d == container_index(j) + 1
<1>1. /\ r \in Seq(Byte) /\ c \in 1..Len(r) /\ Len(b) <= Len(r)
      /\ c \in Nat /\ d \in Nat \ {0}
      /\ \A k \in 1..Len(r) : r[k] = IF k <= Len(b) THEN b[k] ELSE {}
  <2>1. container_index(i) \in Nat /\ container_index(j) \in Nat
    BY PlaceType
  <2>2. /\ r \in Seq(Byte) /\ container_index(i) < Len(r) /\ Len(b) <= Len(r)
        /\ \A k \in 1..Len(r) : r[k] = IF k <= Len(b) THEN b[k] ELSE {}
    BY ResizedType
  <2> HIDE DEF r
  <2> QED
    BY <2>1, <2>2
<1>2. /\ Len(m) = Len(r)
      /\ \A k \in 1..Len(r) : k # c => m[k] = r[k]
      /\ m[c] = IF value THEN r[c] \cup mask(i) ELSE r[c] \ mask(i)
  <2>1. m = [r EXCEPT ![c] = IF value THEN r[c] \cup mask(i) ELSE r[c] \ mask(i)]
    BY DEF mark
  <2> HIDE DEF r, m, c
  <2>2. r \in [1..Len(r) -> Byte] /\ Len(r) \in Nat
    BY <1>1, SeqAt
  <2>3. /\ DOMAIN m = 1..Len(r)
        /\ \A k \in 1..Len(r) : k # c => m[k] = r[k]
        /\ m[c] = IF value THEN r[c] \cup mask(i) ELSE r[c] \ mask(i)
    BY <1>1, <2>1, <2>2
  <2>4. m \in Seq(Byte)
    BY MarkType DEF m
  <2>5. DOMAIN m = 1..Len(m) /\ Len(m) \in Nat
    BY <2>4, SeqAt
  <2>6. Len(m) = Len(r)
    BY <2>2, <2>3, <2>5
  <2> QED
    BY <2>3, <2>6
<1>3. /\ get(m, j) <=> d <= Len(m) /\ 7 - (j % 8) \in m[d]
      /\ get(b, j) <=> d <= Len(b) /\ 7 - (j % 8) \in b[d]
  <2>1. m \in Seq(Byte)
    BY MarkType
  <2>2. Len(m) \in Nat /\ Len(b) \in Nat
    BY <2>1, SeqAt
  <2> HIDE DEF m
  <2> QED
    BY <2>2, GetIs
<1>4. j = i <=> c = d /\ j % 8 = i % 8
  <2>1. /\ i = 8 * container_index(i) + (i % 8) /\ i % 8 \in 0..7
        /\ j = 8 * container_index(j) + (j % 8) /\ j % 8 \in 0..7
        /\ container_index(i) \in Nat /\ container_index(j) \in Nat
    BY PlaceType
  <2>2. i = j => container_index(i) = container_index(j)
    OBVIOUS
  <2> QED
    BY <2>1, <2>2
<1>5. j = i => d = c
  OBVIOUS
<1> HIDE DEF r, m, c, d
<1>6. 7 - (j % 8) \in mask(i) <=> j % 8 = i % 8
  BY PlaceType DEF mask
<1>7. CASE d > Len(r)
  <2>1. j # i
    BY <1>1, <1>5, <1>7
  <2> QED
    BY <1>1, <1>2, <1>3, <1>7, <2>1 DEF m
<1>8. CASE d <= Len(r) /\ d # c
  <2>1. m[d] = r[d] /\ r[d] = IF d <= Len(b) THEN b[d] ELSE {}
    BY <1>1, <1>2, <1>8
  <2>2. get(m, j) <=> get(b, j)
    BY <1>1, <1>2, <1>3, <1>8, <2>1
  <2> QED
    BY <1>4, <1>8, <2>2 DEF m
<1>9. CASE d = c
  <2>1. r[c] = IF c <= Len(b) THEN b[c] ELSE {}
    BY <1>1
  <2>2. get(b, j) <=> 7 - (j % 8) \in r[c]
    BY <1>3, <1>9, <2>1
  <2>3. get(m, j) <=> 7 - (j % 8) \in m[c]
    BY <1>1, <1>2, <1>3, <1>9
  <2>4. j = i <=> 7 - (j % 8) \in mask(i)
    BY <1>4, <1>6, <1>9
  <2> QED
    BY <1>2, <2>2, <2>3, <2>4 DEF m
<1> QED
  BY <1>1, <1>2, <1>7, <1>8, <1>9

(* get reads the bits of a BitField message in the order of the protocol. *)
LEMMA GetAnnounced ==
  ASSUME NEW raw \in Seq(Byte), NEW i \in Nat
  PROVE  get(raw, i) <=> \E k \in 1..Len(raw) : \E bit \in raw[k] : i = 8 * k - 1 - bit
<1> DEFINE d == container_index(i) + 1
<1>1. get(raw, i) <=> d <= Len(raw) /\ 7 - (i % 8) \in raw[d]
  <2>1. Len(raw) \in Nat
    BY SeqAt
  <2> QED
    BY <2>1, GetIs
<1>2. ASSUME get(raw, i)
      PROVE  \E k \in 1..Len(raw) : \E bit \in raw[k] : i = 8 * k - 1 - bit
  <2>1. /\ container_index(i) \in Nat
        /\ i % 8 \in 0..7
        /\ i = 8 * container_index(i) + (i % 8)
    BY PlaceType
  <2>2. Len(raw) \in Nat
    BY SeqAt
  <2>3. d \in 1..Len(raw) /\ 7 - (i % 8) \in raw[d]
    BY <1>1, <1>2, <2>1, <2>2
  <2>4. i = 8 * d - 1 - (7 - (i % 8))
    BY <2>1
  <2> QED
    BY <2>3, <2>4
<1>3. ASSUME NEW k \in 1..Len(raw), NEW bit \in raw[k], i = 8 * k - 1 - bit
      PROVE  get(raw, i)
  <2>1. raw[k] \in Byte
    BY <1>3
  <2>2. bit \in 0..7
    BY <2>1 DEF Byte
  <2>3. i = 8 * (k - 1) + (7 - bit) /\ k - 1 \in Nat /\ 7 - bit \in 0..7
    BY <1>3, <2>2
  <2>4. i \div 8 = k - 1 /\ i % 8 = 7 - bit
    BY <2>3, Place
  <2>5. d = k /\ 7 - (i % 8) = bit
    BY <2>2, <2>4 DEF container_index
  <2> QED
    BY <1>1, <1>3, <2>5
<1> QED
  BY <1>2, <1>3

LEMMA RawType ==
  ASSUME BitFieldAssumption, NEW n \in 0..MaxBytes
  PROVE  /\ \A raw \in [1..n -> Bytes] : raw \in Seq(Byte)
         /\ Zeros(n) \in Seq(Byte)
<1>1. n \in Nat
  BY DEF BitFieldAssumption
<1>2. \A raw \in [1..n -> Bytes] : raw \in Seq(Byte)
  <2> TAKE raw \in [1..n -> Bytes]
  <2>1. raw \in [1..n -> Byte]
    BY DEF BitFieldAssumption, Byte
  <2> QED
    BY <1>1, <2>1
<1>3. Zeros(n) \in [1..n -> Byte]
  BY DEF Zeros, Byte
<1> QED
  BY <1>1, <1>2, <1>3

(* The field is always a sequence of bytes. *)
THEOREM TypeCorrect == Spec => []TypeOK
<1>1. Init => TypeOK
  BY DEF Init, TypeOK
<1>2. TypeOK /\ [Next]_vars => TypeOK'
  <2> SUFFICES ASSUME TypeOK, [Next]_vars PROVE TypeOK'
    OBVIOUS
  <2>1. ASSUME NEW raw \in Seq(Byte), Assign(raw) PROVE TypeOK'
    BY <2>1 DEF Assign, TypeOK
  <2>2. ASSUME NEW i \in Indices, NEW value \in BOOLEAN, Mark(i, value) PROVE TypeOK'
    BY <2>2, MarkType, BitFieldAssumption DEF Mark, TypeOK, BitFieldAssumption
  <2>3. CASE UNCHANGED vars
    BY <2>3 DEF vars, TypeOK
  <2> QED
    BY <2>1, <2>2, <2>3, RawType, BitFieldAssumption DEF Next, Construct
<1> QED
  BY <1>1, <1>2, PTL DEF Spec

(* BitField implements PieceSet: every operation on the bytes is the       *)
(* operation of the same name on the set of the pieces that get finds.     *)
THEOREM Refinement == Spec => ImplementsPieceSet
<1> DEFINE pieces == {i \in Indices : get(m_bitfield, i)}
           acall == IF call.op = "assign" THEN [op |-> "assign", pieces |-> Announced(call.raw)]
                    ELSE call
<1>1. Init => Set!Init
  <2> SUFFICES ASSUME Init PROVE pieces = {} /\ acall = [op |-> "assign", pieces |-> {}]
    BY DEF Set!Init, Set!Assigned
  <2>1. pieces = {}
    <3>1. \A i \in Nat : container_index(i) \in Nat
      BY PlaceType
    <3>2. \A i \in Indices : ~(container_index(i) < Len(<<>>))
      BY <3>1, BitFieldAssumption DEF BitFieldAssumption
    <3> QED
      BY <3>2 DEF Init, get
  <2>2. Announced(<<>>) = {}
    BY DEF Announced
  <2> QED
    BY <2>1, <2>2 DEF Init
<1>2. TypeOK /\ [Next]_vars => [Set!Next]_<<pieces, acall>>
  <2> SUFFICES ASSUME TypeOK, [Next]_vars PROVE [Set!Next]_<<pieces, acall>>
    OBVIOUS
  <2>1. ASSUME NEW raw \in Seq(Byte), Assign(raw) PROVE Set!Next
    <3>1. pieces' = Announced(raw)
      BY <2>1, GetAnnounced, BitFieldAssumption DEF Assign, Announced, BitFieldAssumption
    <3>2. acall' = [op |-> "assign", pieces |-> Announced(raw)]
      BY <2>1 DEF Assign
    <3>3. pieces' \subseteq Indices
      OBVIOUS
    <3>4. Set!Assign
      BY <3>1, <3>2, <3>3 DEF Set!Assign, Set!Assigned
    <3> QED
      BY <3>4 DEF Set!Next
  <2>2. ASSUME NEW i \in Indices, NEW value \in BOOLEAN, Mark(i, value) PROVE Set!Next
    <3>1. \A j \in Indices :
            get(m_bitfield', j) <=> IF j = i THEN value ELSE get(m_bitfield, j)
      BY <2>2, GetMark, BitFieldAssumption DEF Mark, TypeOK, BitFieldAssumption
    <3>2. pieces' = IF value THEN pieces \cup {i} ELSE pieces \ {i}
      BY <3>1
    <3>3. acall' = [op |-> "mark", index |-> i, value |-> value]
      BY <2>2 DEF Mark
    <3>4. Set!Mark(i, value)
      BY <3>2, <3>3 DEF Set!Mark, Set!Marked
    <3> QED
      BY <3>4 DEF Set!Next
  <2>3. CASE UNCHANGED vars
    BY <2>3 DEF vars, get
  <2> QED
    BY <2>1, <2>2, <2>3, RawType, BitFieldAssumption DEF Next, Construct
<1> QED
  BY <1>1, <1>2, TypeCorrect, PTL DEF Spec, ImplementsPieceSet, Set!Spec

=============================================================================
