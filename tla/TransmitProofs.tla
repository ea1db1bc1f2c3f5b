--------------------------- MODULE TransmitProofs ---------------------------
(***************************************************************************)
(* Theorems about Transmit, for any messages, foreign frames, handshakes,  *)
(* contents of freed memory and number of messages: what the reader makes  *)
(* of the bytes is the stream of messages that was written.                *)
(***************************************************************************)
EXTENDS Transmit, TLAPS

-----------------------------------------------------------------------------
(* Integers on the wire *)

LEMMA Powers ==
  /\ 256^0 = 1 /\ 256^1 = 256 /\ 256^2 = 65536 /\ 256^3 = 16777216
OBVIOUS

LEMMA ElementAt ==
  ASSUME NEW S, NEW s \in Seq(S), NEW i \in 1..Len(s)
  PROVE  s[i] \in S
OBVIOUS

LEMMA BytesAreNumbers == Byte \subseteq Nat /\ Byte \subseteq Int
BY DEF Byte

LEMMA ByteSplit ==
  ASSUME NEW v \in Nat
  PROVE  /\ v \div 256 \in Nat /\ v % 256 \in Byte
         /\ v = 256 * (v \div 256) + (v % 256)
         /\ (v \div 256) \div 256 = v \div 65536
         /\ (v \div 65536) \div 256 = v \div 16777216
         /\ v \div 65536 \in Nat /\ v \div 16777216 \in Nat
         /\ v \div 1 = v
<1>1. /\ v \div 256 \in Nat /\ v % 256 \in Byte
      /\ v = 256 * (v \div 256) + (v % 256)
  <2>1. v \div 256 \in Nat
    OBVIOUS
  <2>2. v % 256 \in 0..255
    OBVIOUS
  <2>3. v = 256 * (v \div 256) + (v % 256)
    OBVIOUS
  <2> QED BY <2>1, <2>2, <2>3, Zenon DEF Byte
<1>2. (v \div 256) \div 256 = v \div 65536 /\ v \div 1 = v
  OBVIOUS
<1>3. (v \div 65536) \div 256 = v \div 16777216
  OBVIOUS
<1>4. v \div 65536 \in Nat /\ v \div 16777216 \in Nat
  OBVIOUS
<1> QED BY <1>1, <1>2, <1>3, <1>4

LEMMA TwoBytes ==
  ASSUME NEW v \in Nat, v \div 256 < 256
  PROVE  256 * ((v \div 256) % 256) + (v % 256) = v
<1>1. v \div 256 \in 0..255
  BY ByteSplit
<1>2. (v \div 256) % 256 = v \div 256
  BY <1>1
<1> QED BY <1>2, ByteSplit

LEMMA FourBytes ==
  ASSUME NEW v \in Nat, v \div 16777216 < 256
  PROVE  256 * (256 * (256 * ((v \div 16777216) % 256) + ((v \div 65536) % 256))
                  + ((v \div 256) % 256)) + (v % 256) = v
<1>1. PICK a, b, c \in Nat : a = v \div 256 /\ b = v \div 65536 /\ c = v \div 16777216
  BY ByteSplit
<1>2. c \in 0..255
  BY <1>1
<1>3. c % 256 = c
  BY <1>2
<1>4. b = 256 * c + (b % 256)
  BY <1>1, ByteSplit
<1>5. a = 256 * b + (a % 256)
  BY <1>1, ByteSplit
<1>6. v = 256 * a + (v % 256)
  BY <1>1, ByteSplit
<1> QED BY <1>1, <1>3, <1>4, <1>5, <1>6

LEMMA BigEndianIs ==
  ASSUME NEW v \in Nat
  PROVE  /\ BigEndian(2, v) \in [1..2 -> Byte]
         /\ BigEndian(2, v)[1] = (v \div 256) % 256 /\ BigEndian(2, v)[2] = v % 256
         /\ BigEndian(4, v) \in [1..4 -> Byte]
         /\ BigEndian(4, v)[1] = (v \div 16777216) % 256
         /\ BigEndian(4, v)[2] = (v \div 65536) % 256
         /\ BigEndian(4, v)[3] = (v \div 256) % 256
         /\ BigEndian(4, v)[4] = v % 256
<1>1. /\ 256^(2 - 1) = 256 /\ 256^(2 - 2) = 1
      /\ 256^(4 - 1) = 16777216 /\ 256^(4 - 2) = 65536
      /\ 256^(4 - 3) = 256 /\ 256^(4 - 4) = 1
  BY Powers
<1>2. v \div 1 = v
  BY ByteSplit
<1>3. /\ (v \div 256) % 256 \in Byte /\ v % 256 \in Byte
      /\ (v \div 65536) % 256 \in Byte /\ (v \div 16777216) % 256 \in Byte
  BY ByteSplit
<1>4. /\ DOMAIN BigEndian(2, v) = 1..2
      /\ \A k \in 1..2 : BigEndian(2, v)[k] = (v \div 256^(2 - k)) % 256
      /\ BigEndian(2, v) = [k \in 1..2 |-> BigEndian(2, v)[k]]
  BY DEF BigEndian
<1>5. /\ DOMAIN BigEndian(4, v) = 1..4
      /\ \A k \in 1..4 : BigEndian(4, v)[k] = (v \div 256^(4 - k)) % 256
      /\ BigEndian(4, v) = [k \in 1..4 |-> BigEndian(4, v)[k]]
  BY DEF BigEndian
<1>6. BigEndian(2, v)[1] = (v \div 256) % 256 /\ BigEndian(2, v)[2] = v % 256
  BY <1>1, <1>2, <1>4, 1 \in 1..2, 2 \in 1..2
<1>7. /\ BigEndian(4, v)[1] = (v \div 16777216) % 256
      /\ BigEndian(4, v)[2] = (v \div 65536) % 256
      /\ BigEndian(4, v)[3] = (v \div 256) % 256
      /\ BigEndian(4, v)[4] = v % 256
  BY <1>1, <1>2, <1>5, 1 \in 1..4, 2 \in 1..4, 3 \in 1..4, 4 \in 1..4
<1>8. \A k \in 1..2 : BigEndian(2, v)[k] \in Byte
  <2>1. \A k \in 1..2 : k = 1 \/ k = 2
    OBVIOUS
  <2> QED BY <1>3, <1>6, <2>1
<1>9. \A k \in 1..4 : BigEndian(4, v)[k] \in Byte
  <2>1. \A k \in 1..4 : k = 1 \/ k = 2 \/ k = 3 \/ k = 4
    OBVIOUS
  <2> QED BY <1>3, <1>7, <2>1
<1> QED BY <1>4, <1>5, <1>6, <1>7, <1>8, <1>9

(* The loop of FromBigEndian, unrolled. *)
LEMMA FromTwo ==
  ASSUME NEW s \in Seq(Byte), Len(s) = 2
  PROVE  FromBigEndian(s) = 256 * s[1] + s[2]
<1> DEFINE body(f) == [k \in 0..Len(s) |-> IF k = 0 THEN 0 ELSE 256 * f[k - 1] + s[k]]
           upto == CHOOSE f : f = body(f)
           w == [k \in 0..2 |-> IF k = 0 THEN 0 ELSE IF k = 1 THEN s[1]
                                ELSE 256 * s[1] + s[2]]
<1>1. s[1] \in Int /\ s[2] \in Int
  <2>1. 1 \in 1..Len(s) /\ 2 \in 1..Len(s)
    OBVIOUS
  <2>2. s[1] \in Byte /\ s[2] \in Byte
    BY <2>1, ElementAt, Zenon
  <2> QED BY <2>2, BytesAreNumbers, Zenon
<1>2. w = body(w)
  BY <1>1
<1>3. upto = body(upto)
  BY <1>2
<1>4. FromBigEndian(s) = upto[2]
  BY DEF FromBigEndian
<1> HIDE DEF upto
<1>5. \A k \in 0..2 : upto[k] = IF k = 0 THEN 0 ELSE 256 * upto[k - 1] + s[k]
  BY <1>3
<1>6. upto[0] = 0 /\ upto[1] = 256 * upto[0] + s[1] /\ upto[2] = 256 * upto[1] + s[2]
  BY <1>5, 0 \in 0..2, 1 \in 0..2, 2 \in 0..2, 1 - 1 = 0, 2 - 1 = 1, 1 # 0, 2 # 0
<1> QED BY <1>1, <1>4, <1>6

LEMMA FromFour ==
  ASSUME NEW s \in Seq(Byte), Len(s) = 4
  PROVE  FromBigEndian(s) = 256 * (256 * (256 * s[1] + s[2]) + s[3]) + s[4]
<1> DEFINE body(f) == [k \in 0..Len(s) |-> IF k = 0 THEN 0 ELSE 256 * f[k - 1] + s[k]]
           upto == CHOOSE f : f = body(f)
           two == 256 * s[1] + s[2]
           three == 256 * two + s[3]
           w == [k \in 0..4 |-> IF k = 0 THEN 0 ELSE IF k = 1 THEN s[1]
                                ELSE IF k = 2 THEN two ELSE IF k = 3 THEN three
                                ELSE 256 * three + s[4]]
<1>1. s[1] \in Int /\ s[2] \in Int /\ s[3] \in Int /\ s[4] \in Int
  <2>1. 1 \in 1..Len(s) /\ 2 \in 1..Len(s) /\ 3 \in 1..Len(s) /\ 4 \in 1..Len(s)
    OBVIOUS
  <2>2. s[1] \in Byte /\ s[2] \in Byte /\ s[3] \in Byte /\ s[4] \in Byte
    BY <2>1, ElementAt, Zenon
  <2> QED BY <2>2, BytesAreNumbers, Zenon
<1>2. two \in Int /\ three \in Int
  BY <1>1
<1>3. w = body(w)
  BY <1>1
<1>4. upto = body(upto)
  BY <1>3
<1>5. FromBigEndian(s) = upto[4]
  BY DEF FromBigEndian
<1> HIDE DEF upto
<1>6. \A k \in 0..4 : upto[k] = IF k = 0 THEN 0 ELSE 256 * upto[k - 1] + s[k]
  BY <1>4
<1>7. /\ upto[0] = 0 /\ upto[1] = 256 * upto[0] + s[1] /\ upto[2] = 256 * upto[1] + s[2]
      /\ upto[3] = 256 * upto[2] + s[3] /\ upto[4] = 256 * upto[3] + s[4]
  BY <1>6, 0 \in 0..4, 1 \in 0..4, 2 \in 0..4, 3 \in 0..4, 4 \in 0..4,
     1 - 1 = 0, 2 - 1 = 1, 3 - 1 = 2, 4 - 1 = 3, 1 # 0, 2 # 0, 3 # 0, 4 # 0
<1>8. upto[1] = s[1] /\ upto[2] = two
  BY <1>1, <1>7
<1> QED BY <1>1, <1>2, <1>5, <1>7, <1>8

(* What BigEndian wrote is read back. *)
LEMMA RoundTrip ==
  ASSUME NEW w \in {2, 4}, NEW v \in Nat, v \div 256^(w - 1) < 256,
         NEW s \in Seq(Byte), Len(s) = w, \A j \in 1..w : s[j] = BigEndian(w, v)[j]
  PROVE  FromBigEndian(s) = v
<1>1. CASE w = 2
  <2>1. v \div 256 < 256
    BY <1>1, Powers, 2 - 1 = 1
  <2>2. s[1] = BigEndian(2, v)[1] /\ s[2] = BigEndian(2, v)[2]
    BY <1>1
  <2>3. s[1] = (v \div 256) % 256 /\ s[2] = v % 256
    BY <2>2, BigEndianIs
  <2>4. FromBigEndian(s) = 256 * s[1] + s[2]
    <3>1. Len(s) = 2
      BY <1>1
    <3> QED BY <3>1, FromTwo, Zenon
  <2>5. 256 * ((v \div 256) % 256) + (v % 256) = v
    BY <2>1, TwoBytes
  <2> QED BY <2>3, <2>4, <2>5
<1>2. CASE w = 4
  <2>1. v \div 16777216 < 256
    BY <1>2, Powers, 4 - 1 = 3
  <2>2. /\ s[1] = BigEndian(4, v)[1] /\ s[2] = BigEndian(4, v)[2]
        /\ s[3] = BigEndian(4, v)[3] /\ s[4] = BigEndian(4, v)[4]
    BY <1>2
  <2>3. /\ s[1] = (v \div 16777216) % 256 /\ s[2] = (v \div 65536) % 256
        /\ s[3] = (v \div 256) % 256 /\ s[4] = v % 256
    BY <2>2, BigEndianIs
  <2>4. FromBigEndian(s) = 256 * (256 * (256 * s[1] + s[2]) + s[3]) + s[4]
    <3>1. Len(s) = 4
      BY <1>2
    <3> QED BY <3>1, FromFour, Zenon
  <2>5. 256 * (256 * (256 * ((v \div 16777216) % 256) + ((v \div 65536) % 256))
                 + ((v \div 256) % 256)) + (v % 256) = v
    BY <2>1, FourBytes
  <2> QED BY <2>3, <2>4, <2>5
<1> QED BY <1>1, <1>2

-----------------------------------------------------------------------------
(* The structs *)

LEMMA LayoutIs ==
  /\ DOMAIN Layout = {"Choke", "Unchoke", "Interested", "NotInterested", "BitField",
                      "Request", "Cancel", "Have", "Piece", "Port"}
  /\ \A t \in {"Choke", "Unchoke", "Interested", "NotInterested", "BitField"} :
       Layout[t] = [length |-> 1, widths |-> <<>>]
  /\ \A t \in {"Request", "Cancel"} : Layout[t] = [length |-> 13, widths |-> <<4, 4, 4>>]
  /\ Layout["Have"] = [length |-> 5, widths |-> <<4>>]
  /\ Layout["Piece"] = [length |-> 9, widths |-> <<4, 4>>]
  /\ Layout["Port"] = [length |-> 3, widths |-> <<2>>]
<1>1. DOMAIN Layout = {"Choke", "Unchoke", "Interested", "NotInterested", "BitField",
                       "Request", "Cancel", "Have", "Piece", "Port"}
  BY DEF Layout
<1>2. \A t \in {"Choke", "Unchoke", "Interested", "NotInterested", "BitField"} :
        Layout[t] = [length |-> 1, widths |-> <<>>]
  BY DEF Layout
<1>3. \A t \in {"Request", "Cancel"} : Layout[t] = [length |-> 13, widths |-> <<4, 4, 4>>]
  BY DEF Layout
<1>4. Layout["Have"] = [length |-> 5, widths |-> <<4>>]
  BY DEF Layout
<1>5. Layout["Piece"] = [length |-> 9, widths |-> <<4, 4>>]
  BY DEF Layout
<1>6. Layout["Port"] = [length |-> 3, widths |-> <<2>>]
  BY DEF Layout
<1> QED BY <1>1, <1>2, <1>3, <1>4, <1>5, <1>6, Zenon

(* A struct has up to three fields, each of two or four bytes, and its     *)
(* length counts them and the id.                                          *)
LEMMA Structs ==
  ASSUME NEW t \in DOMAIN Layout, NEW ws, ws = Layout[t].widths
  PROVE  /\ ws \in Seq({2, 4}) /\ Layout[t].length \in Nat
         /\ \/ Len(ws) = 0 /\ Layout[t].length = 1
            \/ Len(ws) = 1 /\ Layout[t].length = 1 + ws[1]
            \/ Len(ws) = 2 /\ Layout[t].length = 1 + ws[1] + ws[2]
            \/ Len(ws) = 3 /\ Layout[t].length = 1 + ws[1] + ws[2] + ws[3]
<1>1. CASE t \in {"Choke", "Unchoke", "Interested", "NotInterested", "BitField"}
  <2>1. ws = <<>> /\ Layout[t].length = 1
    BY <1>1, LayoutIs
  <2> QED BY <2>1
<1>2. CASE t \in {"Request", "Cancel"}
  <2>1. ws = <<4, 4, 4>> /\ Layout[t].length = 13
    BY <1>2, LayoutIs
  <2> QED BY <2>1
<1>3. CASE t = "Have"
  <2>1. ws = <<4>> /\ Layout[t].length = 5
    BY <1>3, LayoutIs
  <2> QED BY <2>1
<1>4. CASE t = "Piece"
  <2>1. ws = <<4, 4>> /\ Layout[t].length = 9
    BY <1>4, LayoutIs
  <2> QED BY <2>1
<1>5. CASE t = "Port"
  <2>1. ws = <<2>> /\ Layout[t].length = 3
    BY <1>5, LayoutIs
  <2> QED BY <2>1
<1> QED BY <1>1, <1>2, <1>3, <1>4, <1>5, LayoutIs, Zenon

(* The loop of Offset, unrolled. *)
LEMMA Offsets ==
  ASSUME NEW t \in DOMAIN Layout, NEW ws, ws = Layout[t].widths
  PROVE  /\ Offset(t, 1) = 5
         /\ \A k \in 1..Len(ws) :
              Offset(t, k) \in Nat /\ Offset(t, k + 1) = Offset(t, k) + ws[k]
         /\ Len(ws) >= 1 => Offset(t, 2) = 5 + ws[1]
         /\ Len(ws) >= 2 => Offset(t, 3) = (5 + ws[1]) + ws[2]
         /\ sizeof(t) = 4 + Layout[t].length
<1> DEFINE body(k, f) == [j \in 1..k |-> IF j = 1 THEN 5 ELSE f[j - 1] + Layout[t].widths[j - 1]]
           w(k) == [j \in 1..k |-> IF j = 1 THEN 5
                                   ELSE IF j = 2 THEN 5 + ws[1]
                                   ELSE IF j = 3 THEN (5 + ws[1]) + ws[2]
                                   ELSE ((5 + ws[1]) + ws[2]) + ws[3]]
           at(k) == CHOOSE f : f = body(k, f)
<1>1. \A k \in 1..4 : w(k) = body(k, w(k))
  <2> TAKE k \in 1..4
  <2>1. \A j \in 1..k : j \in 1..4
    OBVIOUS
  <2>2. \A j \in 1..k : w(k)[j] = body(k, w(k))[j]
    <3> TAKE j \in 1..k
    <3>1. CASE j = 1
      BY <3>1
    <3>2. CASE j = 2
      BY <3>2
    <3>3. CASE j = 3
      BY <3>3
    <3>4. CASE j = 4
      BY <3>4
    <3> QED BY <2>1, <3>1, <3>2, <3>3, <3>4
  <2> QED BY <2>2
<1>2. \A k \in 1..4 : at(k) = body(k, at(k))
  BY <1>1, Zenon
<1>3. \A k \in 1..4 : Offset(t, k) = at(k)[k]
  BY DEF Offset
<1> HIDE DEF at
<1>4. \A k \in 1..4 : \A j \in 1..k :
        at(k)[j] = IF j = 1 THEN 5 ELSE at(k)[j - 1] + ws[j - 1]
  BY <1>2
<1>5. Offset(t, 1) = 5
  BY <1>3, <1>4
<1>6. Offset(t, 2) = 5 + ws[1]
  <2>1. at(2)[1] = 5 /\ at(2)[2] = at(2)[1] + ws[1]
    BY <1>4
  <2> QED BY <1>3, <2>1
<1>7. Offset(t, 3) = (5 + ws[1]) + ws[2]
  <2>1. at(3)[1] = 5 /\ at(3)[2] = at(3)[1] + ws[1] /\ at(3)[3] = at(3)[2] + ws[2]
    BY <1>4
  <2> QED BY <1>3, <2>1
<1>8. Offset(t, 4) = ((5 + ws[1]) + ws[2]) + ws[3]
  <2>1. /\ at(4)[1] = 5 /\ at(4)[2] = at(4)[1] + ws[1]
        /\ at(4)[3] = at(4)[2] + ws[2] /\ at(4)[4] = at(4)[3] + ws[3]
    BY <1>4
  <2> QED BY <1>3, <2>1
<1>9. /\ ws \in Seq({2, 4}) /\ Layout[t].length \in Nat
      /\ \/ Len(ws) = 0 /\ Layout[t].length = 1
         \/ Len(ws) = 1 /\ Layout[t].length = 1 + ws[1]
         \/ Len(ws) = 2 /\ Layout[t].length = 1 + ws[1] + ws[2]
         \/ Len(ws) = 3 /\ Layout[t].length = 1 + ws[1] + ws[2] + ws[3]
  BY Structs
<1>10. sizeof(t) = Offset(t, Len(ws) + 1)
  BY DEF sizeof
<1>11. \A k \in 1..Len(ws) : ws[k] \in Nat
  BY <1>9
<1>12. CASE Len(ws) = 0
  BY <1>5, <1>9, <1>10, <1>12
<1>13. CASE Len(ws) = 1
  BY <1>5, <1>6, <1>9, <1>10, <1>11, <1>13
<1>14. CASE Len(ws) = 2
  BY <1>5, <1>6, <1>7, <1>9, <1>10, <1>11, <1>14
<1>15. CASE Len(ws) = 3
  <2>1. \A k \in 1..Len(ws) : k = 1 \/ k = 2 \/ k = 3
    BY <1>15
  <2>2. ws[1] \in Nat /\ ws[2] \in Nat /\ ws[3] \in Nat
    BY <1>11, <1>15
  <2>3. \A k \in 1..Len(ws) :
          Offset(t, k) \in Nat /\ Offset(t, k + 1) = Offset(t, k) + ws[k]
    <3>1. PICK u \in Nat, v \in Nat, x \in Nat : u = ws[1] /\ v = ws[2] /\ x = ws[3]
      BY <2>2
    <3>2. /\ Offset(t, 1) = 5 /\ Offset(t, 2) = 5 + u /\ Offset(t, 3) = (5 + u) + v
          /\ Offset(t, 4) = ((5 + u) + v) + x
      BY <1>5, <1>6, <1>7, <1>8, <3>1, Zenon
    <3>3. /\ Offset(t, 1) \in Nat /\ Offset(t, 1 + 1) = Offset(t, 1) + ws[1]
          /\ Offset(t, 2) \in Nat /\ Offset(t, 2 + 1) = Offset(t, 2) + ws[2]
          /\ Offset(t, 3) \in Nat /\ Offset(t, 3 + 1) = Offset(t, 3) + ws[3]
      BY <3>1, <3>2
    <3> QED BY <2>1, <3>3, Zenon
  <2>4. sizeof(t) = 4 + Layout[t].length
    <3>1. PICK len \in Nat : len = Layout[t].length
      BY <1>9
    <3>2. len = 1 + ws[1] + ws[2] + ws[3]
      BY <1>9, <1>15, <3>1
    <3>3. sizeof(t) = ((5 + ws[1]) + ws[2]) + ws[3]
      <4>1. 3 + 1 = 4
        OBVIOUS
      <4> QED BY <1>8, <1>10, <1>15, <4>1, Zenon
    <3>4. sizeof(t) = 4 + len
      BY <2>2, <3>2, <3>3
    <3> QED BY <3>1, <3>4
  <2> QED BY <1>5, <2>3, <2>4
<1> QED BY <1>6, <1>7, <1>9, <1>12, <1>13, <1>14, <1>15

LEMMA FunctionIsSeq ==
  ASSUME NEW S, NEW n \in Nat, NEW s \in [1..n -> S]
  PROVE  s \in Seq(S) /\ Len(s) = n
OBVIOUS

LEMMA Written ==
  ASSUME NEW w \in {2, 4}, NEW v \in Nat
  PROVE  BigEndian(w, v) \in Seq(Byte) /\ Len(BigEndian(w, v)) = w
<1>1. BigEndian(2, v) \in Seq(Byte) /\ Len(BigEndian(2, v)) = 2
  <2>1. BigEndian(2, v) \in [1..2 -> Byte] /\ 2 \in Nat
    BY BigEndianIs
  <2> QED BY <2>1, FunctionIsSeq, Zenon
<1>2. BigEndian(4, v) \in Seq(Byte) /\ Len(BigEndian(4, v)) = 4
  <2>1. BigEndian(4, v) \in [1..4 -> Byte] /\ 4 \in Nat
    BY BigEndianIs
  <2> QED BY <2>1, FunctionIsSeq, Zenon
<1>3. w = 2 \/ w = 4
  OBVIOUS
<1> QED BY <1>1, <1>2, <1>3, Zenon

TwoParts(s, a, b) ==
  /\ Len(s) = Len(a) + Len(b)
  /\ \A i \in 1..Len(a) : s[i] = a[i]
  /\ \A i \in 1..Len(b) : s[Len(a) + i] = b[i]

LEMMA Joined ==
  ASSUME NEW S, NEW a \in Seq(S), NEW b \in Seq(S)
  PROVE  a \o b \in Seq(S) /\ TwoParts(a \o b, a, b)
BY DEF TwoParts

Parts(s, a, b, c, p, q, r) ==
  /\ Len(s) = p + q + r
  /\ \A i \in 1..p : i \in 1..Len(s) /\ s[i] = a[i]
  /\ \A i \in 1..q : p + i \in 1..Len(s) /\ s[p + i] = b[i]
  /\ \A i \in 1..r : p + q + i \in 1..Len(s) /\ s[p + q + i] = c[i]

LEMMA ThreeJoined ==
  ASSUME NEW S, NEW a \in Seq(S), NEW b \in Seq(S), NEW c \in Seq(S),
         NEW p \in Nat, NEW q \in Nat, NEW r \in Nat,
         Len(a) = p, Len(b) = q, Len(c) = r, NEW s, s = (a \o b) \o c
  PROVE  s \in Seq(S) /\ Parts(s, a, b, c, p, q, r)
<1>1. PICK d : d = a \o b
  OBVIOUS
<1>2. /\ d \in Seq(S) /\ Len(d) = p + q
      /\ \A i \in 1..p : d[i] = a[i]
      /\ \A i \in 1..q : d[p + i] = b[i]
  <2>1. d \in Seq(S) /\ TwoParts(d, a, b)
    BY <1>1, Joined, Zenon
  <2> QED BY <2>1 DEF TwoParts
<1>3. /\ s \in Seq(S) /\ Len(s) = p + q + r
      /\ \A i \in 1..(p + q) : s[i] = d[i]
      /\ \A i \in 1..r : s[p + q + i] = c[i]
  <2>1. s \in Seq(S) /\ TwoParts(s, d, c)
    BY <1>1, <1>2, Joined, Zenon
  <2> QED BY <1>2, <2>1 DEF TwoParts
<1>4. \A i \in 1..p : i \in 1..(p + q) /\ i \in 1..(p + q + r)
  OBVIOUS
<1>5. \A i \in 1..q : p + i \in 1..(p + q) /\ p + i \in 1..(p + q + r)
  OBVIOUS
<1>6. \A i \in 1..r : p + q + i \in 1..(p + q + r)
  OBVIOUS
<1> QED BY <1>2, <1>3, <1>4, <1>5, <1>6 DEF Parts

(* A message as its struct can hold it. *)
Fits(m) ==
  /\ m \in [type : DOMAIN Layout, fields : Seq(Nat), payload : Seq(Byte)]
  /\ DOMAIN m.fields = DOMAIN Layout[m.type].widths

FieldsLie(f, t, ws, fields) ==
  \A k \in 1..Len(ws) : \A j \in 1..ws[k] :
    /\ Offset(t, k) - 5 + j \in 1..Len(f)
    /\ f[Offset(t, k) - 5 + j] = BigEndian(ws[k], fields[k])[j]

(* The loop of FieldBytes, unrolled: each field is where its offset says. *)
LEMMA FieldsAtOffsets ==
  ASSUME NEW m, Fits(m), NEW ws, ws = Layout[m.type].widths
  PROVE  /\ FieldBytes(m) \in Seq(Byte) /\ Len(FieldBytes(m)) = Layout[m.type].length - 1
         /\ FieldsLie(FieldBytes(m), m.type, ws, m.fields)
<1>1. PICK t \in DOMAIN Layout : t = m.type
  BY DEF Fits
<1>2. ws = Layout[t].widths /\ DOMAIN m.fields = DOMAIN ws /\ m.fields \in Seq(Nat)
  BY <1>1 DEF Fits
<1>3. PICK n \in 0..3, len \in Nat : n = Len(ws) /\ len = Layout[t].length
  BY <1>2, Structs
<1>4. /\ ws \in Seq({2, 4})
      /\ \/ n = 0 /\ len = 1
         \/ n = 1 /\ len = 1 + ws[1]
         \/ n = 2 /\ len = 1 + ws[1] + ws[2]
         \/ n = 3 /\ len = 1 + ws[1] + ws[2] + ws[3]
  BY <1>2, <1>3, Structs
<1>5. /\ Offset(t, 1) = 5
      /\ n >= 1 => Offset(t, 2) = 5 + ws[1]
      /\ n >= 2 => Offset(t, 3) = (5 + ws[1]) + ws[2]
  BY <1>2, <1>3, Offsets
<1>6. \A k \in 0..n : k = 0 \/ k = 1 \/ k = 2 \/ k = 3
  OBVIOUS
<1> DEFINE B(k) == BigEndian(ws[k], m.fields[k])
<1>7. \A k \in 1..n :
        ws[k] \in Nat /\ B(k) \in Seq(Byte) /\ Len(B(k)) = ws[k]
  <2> TAKE k \in 1..n
  <2>1. ws[k] \in {2, 4} /\ m.fields[k] \in Nat
    BY <1>2, <1>3, <1>4
  <2>2. B(k) \in Seq(Byte) /\ Len(B(k)) = ws[k]
    BY <2>1, Written, Zenon
  <2>3. ws[k] \in Nat
    BY <2>1
  <2> QED BY <2>2, <2>3, Zenon
<1>8. /\ n >= 1 => ws[1] \in Nat /\ B(1) \in Seq(Byte) /\ Len(B(1)) = ws[1]
      /\ n >= 2 => ws[2] \in Nat /\ B(2) \in Seq(Byte) /\ Len(B(2)) = ws[2]
      /\ n >= 3 => ws[3] \in Nat /\ B(3) \in Seq(Byte) /\ Len(B(3)) = ws[3]
  <2> HIDE DEF B
  <2>1. (n >= 1 => 1 \in 1..n) /\ (n >= 2 => 2 \in 1..n) /\ (n >= 3 => 3 \in 1..n)
    OBVIOUS
  <2> QED BY <1>7, <2>1, Zenon
<1> DEFINE none == <<>>
           one == none \o B(1)
           two == one \o B(2)
           three == two \o B(3)
           body(f) == [k \in 0..n |-> IF k = 0 THEN none ELSE f[k - 1] \o B(k)]
           upto == CHOOSE f : f = body(f)
           w == [k \in 0..n |-> IF k = 0 THEN none ELSE IF k = 1 THEN one
                                ELSE IF k = 2 THEN two ELSE three]
<1>9. FieldBytes(m) = upto[n]
  BY <1>1, <1>2, <1>3 DEF FieldBytes
<1> HIDE DEF B, none, one, two, three
<1>10. w = body(w)
  <2>1. \A k \in 0..n : w[k] = body(w)[k]
    <3> TAKE k \in 0..n
    <3>1. CASE k = 0
      BY <3>1
    <3>2. CASE k = 1
      <4>1. w[0] = none /\ w[1] = one /\ 0 \in 0..n
        BY <3>2
      <4>2. body(w)[1] = w[0] \o B(1)
        BY <3>2
      <4> HIDE DEF w, body
      <4> QED BY <3>2, <4>1, <4>2 DEF one
    <3>3. CASE k = 2
      <4>1. w[1] = one /\ w[2] = two /\ 1 \in 0..n
        BY <3>3
      <4>2. body(w)[2] = w[1] \o B(2)
        BY <3>3
      <4> HIDE DEF w, body
      <4> QED BY <3>3, <4>1, <4>2 DEF two
    <3>4. CASE k = 3
      <4>1. w[2] = two /\ w[3] = three /\ 2 \in 0..n
        BY <3>4
      <4>2. body(w)[3] = w[2] \o B(3)
        BY <3>4
      <4> HIDE DEF w, body
      <4> QED BY <3>4, <4>1, <4>2 DEF three
    <3> QED BY <1>6, <3>1, <3>2, <3>3, <3>4
  <2> QED BY <2>1
<1>11. upto = body(upto)
  BY <1>10, Zenon
<1> HIDE DEF upto, w
<1>12. \A k \in 0..n : upto[k] = IF k = 0 THEN none ELSE upto[k - 1] \o B(k)
  BY <1>11
<1>13. /\ upto[0] = none
       /\ n >= 1 => upto[1] = none \o B(1)
       /\ n >= 2 => upto[2] = upto[1] \o B(2)
       /\ n >= 3 => upto[3] = upto[2] \o B(3)
  <2>1. upto[0] = none
    BY <1>12
  <2>2. CASE n = 0
    BY <2>1, <2>2
  <2>3. CASE n >= 1
    <3>1. 1 \in 0..n /\ 1 - 1 = 0 /\ 1 # 0
      BY <2>3
    <3>2. upto[1] = none \o B(1)
      BY <1>12, <2>1, <3>1
    <3>3. n >= 2 => 2 \in 0..n /\ 2 - 1 = 1 /\ 2 # 0
      OBVIOUS
    <3>4. n >= 2 => upto[2] = upto[1] \o B(2)
      BY <1>12, <3>3, Zenon
    <3>5. n >= 3 => 3 \in 0..n /\ 3 - 1 = 2 /\ 3 # 0
      OBVIOUS
    <3>6. n >= 3 => upto[3] = upto[2] \o B(3)
      BY <1>12, <3>5, Zenon
    <3> QED BY <2>1, <3>2, <3>4, <3>6, Zenon
  <2> QED BY <2>2, <2>3
<1>14. /\ none \in Seq(Byte) /\ Len(none) = 0
       /\ \A s \in Seq(Byte) : s \o none = s /\ none \o s = s
  BY DEF none
<1>15. PICK a \in Seq(Byte), b \in Seq(Byte), c \in Seq(Byte),
            p \in Nat, q \in Nat, r \in Nat :
         /\ FieldBytes(m) = (a \o b) \o c
         /\ Len(a) = p /\ Len(b) = q /\ Len(c) = r
         /\ len - 1 = p + q + r
         /\ n >= 1 => a = B(1) /\ p = ws[1]
         /\ n >= 2 => b = B(2) /\ q = ws[2]
         /\ n >= 3 => c = B(3) /\ r = ws[3]
  <2>1. CASE n = 0
    <3>1. FieldBytes(m) = (none \o none) \o none
      BY <1>9, <1>13, <1>14, <2>1
    <3>2. len - 1 = 0 + 0 + 0 /\ 0 \in Nat
      BY <1>4, <2>1
    <3>3. ~(n >= 1) /\ ~(n >= 2) /\ ~(n >= 3)
      BY <2>1
    <3> WITNESS none \in Seq(Byte), none \in Seq(Byte), none \in Seq(Byte),
                0 \in Nat, 0 \in Nat, 0 \in Nat
    <3> QED BY <1>14, <3>1, <3>2, <3>3, Zenon
  <2>2. CASE n = 1
    <3>1. PICK x1 \in Seq(Byte), p1 \in Nat : x1 = B(1) /\ p1 = ws[1] /\ Len(x1) = p1
      BY <1>8, <2>2
    <3>2. upto[1] = x1
      <4>1. n >= 1
        BY <2>2
      <4> QED BY <1>13, <1>14, <3>1, <4>1, Zenon
    <3>3. FieldBytes(m) = (x1 \o none) \o none
      BY <1>9, <1>14, <2>2, <3>2, Zenon
    <3>4. len = 1 + p1
      BY <1>4, <2>2, <3>1
    <3>5. len - 1 = p1 + 0 + 0 /\ 0 \in Nat
      BY <3>4
    <3>6. ~(n >= 2) /\ ~(n >= 3)
      BY <2>2
    <3> WITNESS x1 \in Seq(Byte), none \in Seq(Byte), none \in Seq(Byte),
                p1 \in Nat, 0 \in Nat, 0 \in Nat
    <3> QED BY <1>14, <3>1, <3>3, <3>5, <3>6, Zenon
  <2>3. CASE n = 2
    <3>1. PICK x1 \in Seq(Byte), p1 \in Nat : x1 = B(1) /\ p1 = ws[1] /\ Len(x1) = p1
      BY <1>8, <2>3
    <3>2. PICK x2 \in Seq(Byte), p2 \in Nat : x2 = B(2) /\ p2 = ws[2] /\ Len(x2) = p2
      BY <1>8, <2>3
    <3>3. upto[2] = upto[1] \o x2 /\ upto[1] = none \o x1
      BY <1>13, <2>3, <3>1, <3>2
    <3>4. x1 \o x2 \in Seq(Byte)
      BY Joined, Zenon
    <3>5. FieldBytes(m) = (x1 \o x2) \o none
      BY <1>9, <1>14, <2>3, <3>3, <3>4, Zenon
    <3>6. len = 1 + p1 + p2
      BY <1>4, <2>3, <3>1, <3>2
    <3>7. len - 1 = p1 + p2 + 0 /\ 0 \in Nat
      BY <3>6
    <3>8. ~(n >= 3)
      BY <2>3
    <3> WITNESS x1 \in Seq(Byte), x2 \in Seq(Byte), none \in Seq(Byte),
                p1 \in Nat, p2 \in Nat, 0 \in Nat
    <3> QED BY <1>14, <3>1, <3>2, <3>5, <3>7, <3>8, Zenon
  <2>4. CASE n = 3
    <3>1. PICK x1 \in Seq(Byte), p1 \in Nat : x1 = B(1) /\ p1 = ws[1] /\ Len(x1) = p1
      BY <1>8, <2>4
    <3>2. PICK x2 \in Seq(Byte), p2 \in Nat : x2 = B(2) /\ p2 = ws[2] /\ Len(x2) = p2
      BY <1>8, <2>4
    <3>3. PICK x3 \in Seq(Byte), p3 \in Nat : x3 = B(3) /\ p3 = ws[3] /\ Len(x3) = p3
      BY <1>8, <2>4
    <3>4. upto[3] = upto[2] \o x3 /\ upto[2] = upto[1] \o x2 /\ upto[1] = none \o x1
      <4>1. n >= 1 /\ n >= 2 /\ n >= 3
        BY <2>4
      <4> QED BY <1>13, <3>1, <3>2, <3>3, <4>1, Zenon
    <3>5. FieldBytes(m) = (x1 \o x2) \o x3
      BY <1>9, <1>14, <2>4, <3>4, Zenon
    <3>6. len = 1 + p1 + p2 + p3
      BY <1>4, <2>4, <3>1, <3>2, <3>3
    <3>7. len - 1 = p1 + p2 + p3
      BY <3>6
    <3> WITNESS x1 \in Seq(Byte), x2 \in Seq(Byte), x3 \in Seq(Byte),
                p1 \in Nat, p2 \in Nat, p3 \in Nat
    <3> QED BY <3>1, <3>2, <3>3, <3>5, <3>7, Zenon
  <2>5. n = 0 \/ n = 1 \/ n = 2 \/ n = 3
    OBVIOUS
  <2> QED BY <2>1, <2>2, <2>3, <2>4, <2>5, Zenon
<1>16. PICK s : s = (a \o b) \o c
  OBVIOUS
<1>17. /\ s \in Seq(Byte) /\ Len(s) = p + q + r
       /\ \A i \in 1..p : i \in 1..Len(s) /\ s[i] = a[i]
       /\ \A i \in 1..q : p + i \in 1..Len(s) /\ s[p + i] = b[i]
       /\ \A i \in 1..r : p + q + i \in 1..Len(s) /\ s[p + q + i] = c[i]
  <2>1. Len(a) = p /\ Len(b) = q /\ Len(c) = r
    BY <1>15
  <2>2. s \in Seq(Byte) /\ Parts(s, a, b, c, p, q, r)
    BY <1>16, <2>1, ThreeJoined, Zenon
  <2> QED BY <2>2 DEF Parts
<1>18. ASSUME NEW k \in 1..n, NEW j \in 1..ws[k]
       PROVE  /\ Offset(t, k) - 5 + j \in 1..Len(s)
              /\ s[Offset(t, k) - 5 + j] = B(k)[j]
  <2>1. CASE k = 1
    <3>1. a = B(k) /\ j \in 1..p
      BY <1>15, <2>1
    <3>2. Offset(t, k) - 5 + j = j
      BY <1>5, <2>1, <3>1
    <3> QED BY <1>17, <3>1, <3>2, Zenon
  <2>2. CASE k = 2
    <3>1. b = B(k) /\ j \in 1..q /\ p = ws[1]
      BY <1>15, <2>2
    <3>2. Offset(t, k) = 5 + p
      BY <1>5, <2>2, <3>1
    <3>3. Offset(t, k) - 5 + j = p + j
      BY <3>1, <3>2
    <3> QED BY <1>17, <3>1, <3>3, Zenon
  <2>3. CASE k = 3
    <3>1. c = B(k) /\ j \in 1..r /\ p = ws[1] /\ q = ws[2]
      BY <1>15, <2>3
    <3>2. Offset(t, k) = (5 + p) + q
      BY <1>5, <2>3, <3>1
    <3>3. \A i \in 1..r : ((5 + p) + q) - 5 + i = p + q + i
      OBVIOUS
    <3>4. Offset(t, k) - 5 + j = p + q + j
      BY <3>1, <3>2, <3>3, Zenon
    <3> QED BY <1>17, <3>1, <3>4, Zenon
  <2> QED BY <2>1, <2>2, <2>3
<1>19. FieldBytes(m) = s /\ Len(s) = len - 1
  BY <1>15, <1>16, <1>17
<1> QED BY <1>1, <1>3, <1>17, <1>18, <1>19 DEF B, FieldsLie

-----------------------------------------------------------------------------
(* Frames *)

LEMMA Ids ==
  /\ DOMAIN Layout \subseteq DOMAIN ID
  /\ \A t \in DOMAIN ID : ID[t] \in Byte
  /\ \A t, u \in DOMAIN ID : ID[t] = ID[u] => t = u
<1>1. /\ DOMAIN ID = {"Keepalive", "Choke", "Unchoke", "Interested", "NotInterested", "Have",
                      "BitField", "Request", "Piece", "Cancel", "Port"}
      /\ ID["Keepalive"] = 255 /\ ID["Choke"] = 0 /\ ID["Unchoke"] = 1
      /\ ID["Interested"] = 2 /\ ID["NotInterested"] = 3 /\ ID["Have"] = 4
      /\ ID["BitField"] = 5 /\ ID["Request"] = 6 /\ ID["Piece"] = 7
      /\ ID["Cancel"] = 8 /\ ID["Port"] = 9
  BY DEF ID
<1>2. DOMAIN Layout \subseteq DOMAIN ID
  BY <1>1, LayoutIs
<1>3. \A t \in DOMAIN ID : ID[t] \in 0..255
  BY <1>1
<1>4. \A t, u \in DOMAIN ID : ID[t] = ID[u] => t = u
  BY <1>1
<1> QED BY <1>2, <1>3, <1>4, Zenon DEF Byte

(* Keepalive selects no case of the switch, so nothing of it is written. *)
LEMMA HasLayout ==
  ASSUME NEW m \in Messages, m.type \in Selected(m)
  PROVE  m.type \in DOMAIN Layout
<1>1. m.type \in DOMAIN ID
  BY MessagesAssumption
<1>2. CASE m.type = "Keepalive"
  <2>1. TorrentMessage[1] = "Keepalive" /\ 1 \in DOMAIN TorrentMessage
    BY DEF TorrentMessage
  <2>2. \A k \in DOMAIN TorrentMessage : TorrentMessage[k] = "Keepalive" => k = 1
    BY DEF TorrentMessage
  <2>3. (CHOOSE k \in DOMAIN TorrentMessage : TorrentMessage[k] = m.type) = 1
    BY <1>2, <2>1, <2>2, Zenon
  <2>4. index(m) = 1 - 1
    BY <2>3, Zenon DEF index
  <2>5. ID["Keepalive"] = index(m) - 1
    BY <1>2 DEF Selected
  <2>6. ID["Keepalive"] = 255
    BY DEF ID
  <2> QED BY <2>4, <2>5, <2>6
<1>3. CASE m.type # "Keepalive"
  <2>1. DOMAIN ID = {"Keepalive", "Choke", "Unchoke", "Interested", "NotInterested", "Have",
                     "BitField", "Request", "Piece", "Cancel", "Port"}
    BY DEF ID
  <2> QED BY <1>1, <1>3, <2>1, LayoutIs
<1> QED BY <1>2, <1>3

LEMMA Sent ==
  ASSUME NEW m \in Messages, m.type \in Selected(m)
  PROVE  /\ Fits(m)
         /\ \A k \in DOMAIN m.fields :
              m.fields[k] \div 256^(Layout[m.type].widths[k] - 1) < 256
         /\ (Layout[m.type].length + Len(m.payload)) \div 256^3 < 256
         /\ m.type \notin Dynamic => m.payload = <<>>
<1>1. m.type \in DOMAIN Layout
  BY HasLayout
<1>2. m \in [type : DOMAIN ID, fields : Seq(Nat), payload : Seq(Byte)]
  BY MessagesAssumption
<1>3. m \in [type : DOMAIN Layout, fields : Seq(Nat), payload : Seq(Byte)]
  BY <1>1, <1>2
<1> QED BY <1>1, <1>3, MessagesAssumption, Zenon DEF Fits

(* Bytes that say in front how many follow. *)
Framed(bytes) ==
  /\ bytes \in Seq(Byte) /\ Len(bytes) >= 4
  /\ (Len(bytes) - 4) \div 256^3 < 256
  /\ \A j \in 1..4 : bytes[j] = BigEndian(4, Len(bytes) - 4)[j]

(* What read_message and parse_message make of the bytes of a frame,       *)
(* whatever the byte order of the length in front of them.                 *)
ParsedAs(what, bytes) ==
  /\ Len(bytes) > 4
  /\ \A data \in Seq(Byte) :
       (Len(data) = Len(bytes) /\ \A i \in 5..Len(bytes) : data[i] = bytes[i])
         => Shape(parse_message(data)) = Shape(what)

Holds(data, m, len, extra) ==
  /\ data \in Seq(Byte) /\ extra \in Nat /\ Len(data) = 4 + len + extra
  /\ data[5] = ID[m.type]
  /\ \A k \in DOMAIN m.fields : \A j \in 1..Layout[m.type].widths[k] :
       /\ Offset(m.type, k) + j \in 1..Len(data)
       /\ data[Offset(m.type, k) + j] = BigEndian(Layout[m.type].widths[k], m.fields[k])[j]

SliceOf(r, s, o, w) == Len(r) = w /\ \A j \in 1..w : r[j] = s[o + j]

LEMMA Slice ==
  ASSUME NEW S, NEW s \in Seq(S), NEW o \in Nat, NEW w \in Nat, o + w <= Len(s)
  PROVE  SubSeq(s, o + 1, o + w) \in Seq(S) /\ SliceOf(SubSeq(s, o + 1, o + w), s, o, w)
<1>1. \A j \in 1..w : o + j \in 1..Len(s)
  OBVIOUS
<1>2. SubSeq(s, o + 1, o + w) \in Seq(S)
  OBVIOUS
<1>3. Len(SubSeq(s, o + 1, o + w)) = w
  OBVIOUS
<1>4. \A j \in 1..w : SubSeq(s, o + 1, o + w)[j] = s[o + j]
  OBVIOUS
<1> QED BY <1>2, <1>3, <1>4 DEF SliceOf

LEMMA Parsed ==
  ASSUME NEW m, Fits(m), NEW len, len = Layout[m.type].length, NEW data,
         Holds(data, m, len, Len(m.payload)),
         \A k \in DOMAIN m.fields :
           m.fields[k] \div 256^(Layout[m.type].widths[k] - 1) < 256,
         m.type \notin Dynamic => m.payload = <<>>
  PROVE  Shape(parse_message(data)) = Shape(m)
<1>0. PICK t \in DOMAIN Layout : t = m.type
  BY DEF Fits
<1>1. PICK ws : t = m.type /\ ws = Layout[t].widths
  BY <1>0
<1>2. /\ m \in [type : DOMAIN Layout, fields : Seq(Nat), payload : Seq(Byte)]
      /\ DOMAIN m.fields = DOMAIN ws /\ m.fields \in Seq(Nat)
  BY <1>1 DEF Fits
<1>3. ws \in Seq({2, 4}) /\ len \in Nat /\ len >= 1
  <2>1. /\ ws \in Seq({2, 4}) /\ len \in Nat
        /\ \/ Len(ws) = 0 /\ len = 1
           \/ Len(ws) = 1 /\ len = 1 + ws[1]
           \/ Len(ws) = 2 /\ len = 1 + ws[1] + ws[2]
           \/ Len(ws) = 3 /\ len = 1 + ws[1] + ws[2] + ws[3]
    BY <1>1, Structs
  <2>2. /\ Len(ws) >= 1 => ws[1] \in {2, 4}
        /\ Len(ws) >= 2 => ws[2] \in {2, 4}
        /\ Len(ws) >= 3 => ws[3] \in {2, 4}
    BY <2>1
  <2> QED BY <2>1, <2>2
<1>4. /\ \A k \in 1..Len(ws) :
           Offset(t, k) \in Nat /\ Offset(t, k + 1) = Offset(t, k) + ws[k]
      /\ sizeof(t) = 4 + len
  BY <1>1, Offsets
<1>5. DOMAIN m.fields = 1..Len(ws)
  BY <1>2, <1>3
<1>6. PICK p \in Nat : p = Len(m.payload)
  BY <1>2
<1>7. /\ data \in Seq(Byte) /\ Len(data) = 4 + len + p
      /\ data[5] = ID[t]
      /\ \A k \in 1..Len(ws) : \A j \in 1..ws[k] :
           /\ Offset(t, k) + j \in 1..Len(data)
           /\ data[Offset(t, k) + j] = BigEndian(ws[k], m.fields[k])[j]
  BY <1>1, <1>5, <1>6, Zenon DEF Holds
<1>8. {u \in DOMAIN Layout : ID[u] = data[5]} = {t}
  <2>1. \A u \in DOMAIN Layout : ID[u] = ID[t] <=> u = t
    BY Ids, Zenon
  <2> QED BY <1>7, <2>1
<1>9. (CHOOSE u \in {t} : TRUE) = t
  OBVIOUS
<1>10. ~Short(t, data)
  BY <1>3, <1>4, <1>7 DEF Short
<1> DEFINE fields == [k \in DOMAIN ws |->
                        FromBigEndian(SubSeq(data, Offset(t, k) + 1, Offset(t, k + 1)))]
           payload == IF t \in Dynamic THEN SubSeq(data, sizeof(t) + 1, Len(data)) ELSE <<>>
<1>11. parse_message(data) = [type |-> t, fields |-> fields, payload |-> payload]
  BY <1>1, <1>8, <1>9, <1>10, Zenon DEF parse_message
<1>12. fields = m.fields
  <2>1. ASSUME NEW k \in 1..Len(ws)
        PROVE  FromBigEndian(SubSeq(data, Offset(t, k) + 1, Offset(t, k + 1))) = m.fields[k]
    <3>1. PICK w \in {2, 4}, v \in Nat, o \in Nat :
            w = ws[k] /\ v = m.fields[k] /\ o = Offset(t, k)
      BY <1>2, <1>3, <1>4, <1>5
    <3>2. Offset(t, k + 1) = o + w
      BY <1>4, <3>1
    <3>3. \A j \in 1..w : o + j \in 1..Len(data) /\ data[o + j] = BigEndian(w, v)[j]
      BY <1>7, <3>1
    <3>4. PICK s : s = SubSeq(data, o + 1, o + w)
      OBVIOUS
    <3>5. /\ s \in Seq(Byte) /\ Len(s) = w
          /\ \A j \in 1..w : s[j] = data[o + j]
      <4>1. o + w \in 1..Len(data)
        BY <3>3
      <4>2. w \in Nat /\ o + w <= Len(data)
        BY <1>7, <4>1
      <4>3. s \in Seq(Byte) /\ SliceOf(s, data, o, w)
        BY <1>7, <3>4, <4>2, Slice
      <4> QED BY <4>3 DEF SliceOf
    <3>6. v \div 256^(w - 1) < 256
      BY <1>1, <1>5, <3>1
    <3>7. FromBigEndian(s) = v
      <4>1. \A j \in 1..w : s[j] = BigEndian(w, v)[j]
        BY <3>3, <3>5
      <4> QED BY <3>5, <3>6, <4>1, RoundTrip
    <3> QED BY <3>1, <3>2, <3>4, <3>7
  <2>2. DOMAIN ws = 1..Len(ws)
    BY <1>3
  <2> QED BY <1>2, <1>5, <2>1, <2>2
<1>13. CASE t \in Dynamic
  <2>1. Len(payload) = p
    <3>1. sizeof(t) + 1 = (4 + len) + 1 /\ Len(data) = (4 + len) + p /\ 4 + len \in Nat
      BY <1>3, <1>4, <1>7
    <3>2. payload = SubSeq(data, (4 + len) + 1, (4 + len) + p)
      BY <1>13, <3>1
    <3>3. (4 + len) + p <= Len(data)
      BY <1>3, <3>1
    <3>4. SliceOf(payload, data, 4 + len, p)
      BY <1>7, <3>1, <3>2, <3>3, Slice
    <3> QED BY <3>4 DEF SliceOf
  <2>2. PICK q : q = payload
    OBVIOUS
  <2>3. Shape([type |-> t, fields |-> fields, payload |-> q])
          = [type |-> t, fields |-> fields, payload |-> Len(q)]
    BY <1>13 DEF Shape
  <2>4. Shape(m) = [m EXCEPT !.payload = Len(m.payload)]
    BY <1>1, <1>2, <1>13 DEF Shape
  <2>5. Shape(m) = [type |-> t, fields |-> m.fields, payload |-> Len(m.payload)]
    BY <1>1, <1>2, <2>4
  <2> QED BY <1>6, <1>11, <1>12, <2>1, <2>2, <2>3, <2>5
<1>14. CASE t \notin Dynamic
  <2>1. payload = <<>> /\ m.payload = <<>>
    BY <1>1, <1>14
  <2>2. m = [type |-> t, fields |-> m.fields, payload |-> m.payload]
    BY <1>1, <1>2
  <2>3. parse_message(data) = m
    BY <1>11, <1>12, <2>1, <2>2, Zenon
  <2> QED BY <2>3
<1> QED BY <1>13, <1>14

LEMMA MessageFrame ==
  ASSUME NEW m \in Messages, m.type \in Selected(m), NEW payload \in Payloads(m),
         NEW bytes, bytes = metadata(m.type, payload) \o FieldBytes(m) \o payload
  PROVE  Framed(bytes) /\ ParsedAs(m, bytes)
<1>1. /\ Fits(m)
      /\ \A k \in DOMAIN m.fields :
           m.fields[k] \div 256^(Layout[m.type].widths[k] - 1) < 256
      /\ (Layout[m.type].length + Len(m.payload)) \div 256^3 < 256
      /\ m.type \notin Dynamic => m.payload = <<>>
  BY Sent
<1>2. m.payload \in Seq(Byte) /\ m.type \in DOMAIN Layout
  BY <1>1 DEF Fits
<1>3. payload \in Seq(Byte) /\ Len(payload) = Len(m.payload)
  <2>1. CASE m.type \in Dynamic
    <3>1. CASE payload = m.payload
      BY <1>2, <3>1
    <3>2. CASE payload \in [1..Len(m.payload) -> FreedBytes]
      <4>1. Len(m.payload) \in Nat
        BY <1>2
      <4>2. payload \in [1..Len(m.payload) -> Byte]
        BY <3>2, BytesAssumption
      <4> QED BY <4>1, <4>2, FunctionIsSeq, Zenon
    <3> QED BY <2>1, <3>1, <3>2 DEF Payloads
  <2>2. CASE m.type \notin Dynamic
    <3>1. payload = m.payload
      BY <1>1, <2>2 DEF Payloads
    <3> QED BY <1>2, <3>1
  <2> QED BY <2>1, <2>2
<1>4t. PICK t \in DOMAIN Layout : t = m.type
  BY <1>2
<1>4a. PICK ws : t = m.type /\ ws = Layout[t].widths
  BY <1>4t
<1>4b. PICK len \in Nat, p \in Nat : len = Layout[t].length /\ p = Len(payload)
  BY <1>3, <1>4a, Structs
<1>4c. PICK n \in Nat : n = len + p
  OBVIOUS
<1>4. /\ t = m.type /\ ws = Layout[t].widths /\ len = Layout[t].length
      /\ p = Len(payload) /\ n = len + p
  BY <1>4a, <1>4b, <1>4c, Zenon
<1>5. PICK f \in Seq(Byte) : f = FieldBytes(m)
  BY <1>1, FieldsAtOffsets
<1>6. /\ Len(f) = len - 1 /\ DOMAIN m.fields = 1..Len(ws)
      /\ \A k \in DOMAIN m.fields : \A j \in 1..ws[k] :
           /\ Offset(t, k) - 5 + j \in 1..Len(f)
           /\ f[Offset(t, k) - 5 + j] = BigEndian(ws[k], m.fields[k])[j]
  <2>1. ws \in Seq({2, 4})
    BY <1>4, Structs
  <2>2. DOMAIN m.fields = 1..Len(ws)
    BY <1>1, <1>4, <2>1 DEF Fits
  <2>3. Len(f) = len - 1 /\ FieldsLie(f, t, ws, m.fields)
    BY <1>1, <1>4, <1>5, FieldsAtOffsets, Zenon
  <2> QED BY <2>2, <2>3 DEF FieldsLie
<1>7. len - 1 \in Nat
  BY <1>6
<1>8. PICK number \in Seq(Byte) : number = BigEndian(4, n) /\ Len(number) = 4
  BY Written
<1>9. PICK id \in Seq(Byte) : id = <<ID[t]>> /\ Len(id) = 1 /\ id[1] = ID[t]
  <2>1. ID[t] \in Byte
    BY Ids
  <2>2. PICK x \in Byte : x = ID[t]
    BY <2>1
  <2>3. <<x>> \in Seq(Byte) /\ Len(<<x>>) = 1 /\ <<x>>[1] = x
    OBVIOUS
  <2> QED BY <2>2, <2>3, Zenon
<1>10. PICK head \in Seq(Byte) : head = number \o id /\ TwoParts(head, number, id)
  BY Joined, Zenon
<1>11. /\ Len(head) = 5 /\ head[5] = ID[t]
       /\ \A j \in 1..4 : head[j] = number[j]
  <2>1. 1 \in 1..Len(id) /\ Len(number) + 1 = 5 /\ Len(number) + Len(id) = 5
    <3>1. Len(number) = 4 /\ Len(id) = 1
      BY <1>8, <1>9
    <3> QED BY <3>1
  <2> QED BY <1>8, <1>9, <1>10, <2>1 DEF TwoParts
<1>12. metadata(m.type, payload) = head
  BY <1>4, <1>8, <1>9, <1>10 DEF metadata
<1>13. bytes \in Seq(Byte) /\ Parts(bytes, head, f, payload, 5, len - 1, p)
  <2>1. bytes = (head \o f) \o payload
    BY <1>5, <1>12
  <2>2. Len(f) = len - 1 /\ Len(payload) = p /\ Len(head) = 5 /\ 5 \in Nat
    BY <1>4, <1>6, <1>11
  <2> QED BY <1>3, <1>7, <2>1, <2>2, ThreeJoined
<1>14. /\ Len(bytes) = 4 + len + p /\ Len(bytes) = 4 + n /\ Len(bytes) > 4
       /\ \A j \in 1..5 : bytes[j] = head[j]
       /\ \A j \in 1..Len(f) : 5 + j \in 1..Len(bytes) /\ bytes[5 + j] = f[j]
  <2>1. PICK g \in Nat : g = len - 1
    BY <1>7
  <2>2. Len(bytes) = 5 + g + p /\ 4 + len + p = 5 + g + p /\ 4 + n = 5 + g + p
    <3>1. Len(bytes) = 5 + g + p
      BY <1>13, <2>1 DEF Parts
    <3>2. n = len + p /\ g = len - 1
      BY <1>4, <2>1
    <3> QED BY <3>1, <3>2
  <2>3. Len(f) = g
    BY <1>6, <2>1
  <2>4. \A j \in 1..5 : bytes[j] = head[j]
    BY <1>13 DEF Parts
  <2>5. \A j \in 1..g : 5 + j \in 1..Len(bytes) /\ bytes[5 + j] = f[j]
    BY <1>13, <2>1 DEF Parts
  <2>6. Len(bytes) = 4 + len + p /\ Len(bytes) = 4 + n /\ Len(bytes) > 4
    BY <2>2
  <2> QED BY <2>3, <2>4, <2>5, <2>6
<1>15. Framed(bytes)
  <2>1. Len(bytes) - 4 = n
    BY <1>14
  <2>2. n \div 256^3 < 256
    BY <1>1, <1>3, <1>4
  <2>3. \A j \in 1..4 : bytes[j] = BigEndian(4, n)[j]
    <3>1. \A j \in 1..4 : j \in 1..5
      OBVIOUS
    <3> QED BY <1>8, <1>11, <1>14, <3>1, Zenon
  <2>4. Len(bytes) >= 4
    BY <1>14
  <2> QED BY <1>13, <2>1, <2>2, <2>3, <2>4 DEF Framed
<1>16. ASSUME NEW data \in Seq(Byte), Len(data) = Len(bytes),
              \A i \in 5..Len(bytes) : data[i] = bytes[i]
       PROVE  Shape(parse_message(data)) = Shape(m)
  <2>1. data[5] = ID[t]
    <3>1. 5 \in 5..Len(bytes) /\ 5 \in 1..5
      BY <1>14
    <3> QED BY <1>11, <1>14, <1>16, <3>1
  <2>2. ASSUME NEW k \in DOMAIN m.fields, NEW j \in 1..ws[k]
        PROVE  /\ Offset(t, k) + j \in 1..Len(data)
               /\ data[Offset(t, k) + j] = BigEndian(ws[k], m.fields[k])[j]
    <3>1. PICK o \in Nat, w \in {2, 4} : o = Offset(t, k) /\ w = ws[k]
      <4>1. Offset(t, k) \in Nat
        BY <1>4, <1>6, Offsets
      <4>2. ws \in Seq({2, 4})
        BY <1>4, Structs
      <4>3. ws[k] \in {2, 4}
        BY <1>6, <4>2
      <4> QED BY <4>1, <4>3
    <3>2. PICK q \in 1..Len(f) : q = o - 5 + j
      BY <1>6, <3>1
    <3>3. f[q] = BigEndian(ws[k], m.fields[k])[j]
      BY <1>6, <3>1, <3>2
    <3>4. 5 + q \in 1..Len(bytes) /\ bytes[5 + q] = f[q]
      BY <1>14
    <3>5. 5 + q = o + j /\ 5 + q \in 5..Len(bytes)
      <4>1. PICK i \in Nat : i = j
        BY <3>1
      <4>2. q \in Nat /\ q >= 1 /\ q = o - 5 + i
        BY <3>2, <4>1
      <4>3. 5 + q = o + i
        BY <4>2
      <4>4. 5 + q \in 5..Len(bytes)
        BY <3>4, <4>2
      <4> QED BY <4>1, <4>3, <4>4
    <3> QED BY <1>16, <3>1, <3>3, <3>4, <3>5
  <2>3. Holds(data, m, len, Len(m.payload))
    <3>1. Len(m.payload) = p
      BY <1>3, <1>4
    <3> QED BY <1>4, <1>14, <1>16, <2>1, <2>2, <3>1 DEF Holds
  <2> QED BY <1>1, <1>4, <2>3, Parsed
<1> QED BY <1>14, <1>15, <1>16 DEF ParsedAs

LEMMA ForeignFrame ==
  ASSUME NEW body \in Frames, NEW bytes, bytes = BigEndian(4, Len(body)) \o body
  PROVE  Framed(bytes)
<1>1. body \in Seq(Byte) /\ Len(body) \div 256^3 < 256
  BY FramesAssumption
<1>2. PICK n \in Nat : n = Len(body)
  BY <1>1
<1>3. PICK number \in Seq(Byte) : number = BigEndian(4, n) /\ Len(number) = 4
  BY Written
<1>4. bytes \in Seq(Byte) /\ TwoParts(bytes, number, body)
  BY <1>1, <1>2, <1>3, Joined, Zenon
<1>5. Len(bytes) = 4 + n /\ \A j \in 1..4 : bytes[j] = number[j]
  BY <1>2, <1>3, <1>4 DEF TwoParts
<1>6. Len(bytes) - 4 = n /\ Len(bytes) >= 4
  BY <1>5
<1> QED BY <1>1, <1>2, <1>3, <1>4, <1>5, <1>6 DEF Framed

LEMMA HandshakeOffsets ==
  /\ HandshakeOffset(4) = 28 /\ HandshakeOffset(5) = 48 /\ sizeof_Handshake = 68
<1> DEFINE body(k, f) == [j \in 1..k |-> IF j = 1 THEN 0 ELSE f[j - 1] + Handshake[j - 1]]
           w(k) == [j \in 1..k |-> IF j = 1 THEN 0 ELSE IF j = 2 THEN 1 ELSE IF j = 3 THEN 20
                                   ELSE IF j = 4 THEN 28 ELSE IF j = 5 THEN 48 ELSE 68]
           at(k) == CHOOSE f : f = body(k, f)
<1>1. /\ Handshake[1] = 1 /\ Handshake[2] = 19 /\ Handshake[3] = 8
      /\ Handshake[4] = 20 /\ Handshake[5] = 20
  BY DEF Handshake
<1>2. \A k \in 1..6 : w(k) = body(k, w(k))
  <2> TAKE k \in 1..6
  <2>1. \A j \in 1..k : j = 1 \/ j = 2 \/ j = 3 \/ j = 4 \/ j = 5 \/ j = 6
    OBVIOUS
  <2>2. \A j \in 1..k : w(k)[j] = body(k, w(k))[j]
    <3> TAKE j \in 1..k
    <3>1. CASE j = 1
      BY <3>1
    <3>2. CASE j = 2
      BY <1>1, <3>2
    <3>3. CASE j = 3
      BY <1>1, <3>3
    <3>4. CASE j = 4
      BY <1>1, <3>4
    <3>5. CASE j = 5
      BY <1>1, <3>5
    <3>6. CASE j = 6
      BY <1>1, <3>6
    <3> QED BY <2>1, <3>1, <3>2, <3>3, <3>4, <3>5, <3>6
  <2> QED BY <2>2
<1>3. \A k \in 1..6 : at(k) = body(k, at(k))
  BY <1>2, Zenon
<1>4. \A k \in 1..6 : HandshakeOffset(k) = at(k)[k]
  BY DEF HandshakeOffset
<1> HIDE DEF at
<1>5. \A k \in 1..6 : \A j \in 1..k :
        at(k)[j] = IF j = 1 THEN 0 ELSE at(k)[j - 1] + Handshake[j - 1]
  BY <1>3
<1>6. \A k \in 4..6 : at(k)[1] = 0 /\ at(k)[2] = 1 /\ at(k)[3] = 20 /\ at(k)[4] = 28
  <2> TAKE k \in 4..6
  <2>1. k \in 1..6 /\ 1 \in 1..k /\ 2 \in 1..k /\ 3 \in 1..k /\ 4 \in 1..k
    OBVIOUS
  <2>2. /\ at(k)[1] = 0 /\ at(k)[2] = at(k)[1] + Handshake[1]
        /\ at(k)[3] = at(k)[2] + Handshake[2] /\ at(k)[4] = at(k)[3] + Handshake[3]
    BY <1>5, <2>1
  <2> QED BY <1>1, <2>2
<1>7. at(5)[5] = 48
  <2>1. at(5)[5] = at(5)[4] + Handshake[4]
    BY <1>5
  <2> QED BY <1>1, <1>6, <2>1
<1>8. at(6)[6] = 68
  <2>1. at(6)[5] = at(6)[4] + Handshake[4] /\ at(6)[6] = at(6)[5] + Handshake[5]
    BY <1>5
  <2> QED BY <1>1, <1>6, <2>1
<1> QED BY <1>4, <1>6, <1>7, <1>8 DEF sizeof_Handshake

LEMMA HandshakeFrame ==
  ASSUME NEW h \in Handshakes
  PROVE  /\ HandshakeBytes(h) \in Seq(Byte) /\ Len(HandshakeBytes(h)) = 68
         /\ HandshakeBytes(h)[29] = h.infohash /\ HandshakeBytes(h)[49] = h.peer_id
         /\ h = [infohash |-> h.infohash, peer_id |-> h.peer_id]
<1>1. h \in [infohash : Byte, peer_id : Byte]
  BY BytesAssumption
<1>2. 19 \in Byte /\ 66 \in Byte /\ 0 \in Byte
  BY DEF Byte
<1>3. PICK a \in Seq(Byte) : a = <<19>> /\ Len(a) = 1
  <2>1. <<19>> \in Seq(Byte) /\ Len(<<19>>) = 1
    BY <1>2
  <2> QED BY <2>1, Zenon
<1>4. PICK b \in Seq(Byte) : b = [k \in 1..19 |-> 66] /\ Len(b) = 19
  <2>1. PICK f : f = [k \in 1..19 |-> 66]
    OBVIOUS
  <2>2. f \in [1..19 -> Byte] /\ 19 \in Nat
    BY <1>2, <2>1
  <2>3. f \in Seq(Byte) /\ Len(f) = 19
    BY <2>2, FunctionIsSeq, Zenon
  <2> QED BY <2>1, <2>3, Zenon
<1>5. PICK c \in Seq(Byte) : c = [k \in 1..8 |-> 0] /\ Len(c) = 8
  <2>1. PICK f : f = [k \in 1..8 |-> 0]
    OBVIOUS
  <2>2. f \in [1..8 -> Byte] /\ 8 \in Nat
    BY <1>2, <2>1
  <2>3. f \in Seq(Byte) /\ Len(f) = 8
    BY <2>2, FunctionIsSeq, Zenon
  <2> QED BY <2>1, <2>3, Zenon
<1>6. PICK d \in Seq(Byte) : d = [k \in 1..20 |-> h.infohash] /\ Len(d) = 20
  <2>1. PICK f : f = [k \in 1..20 |-> h.infohash]
    OBVIOUS
  <2>2. f \in [1..20 -> Byte] /\ 20 \in Nat
    BY <1>1, <2>1
  <2>3. f \in Seq(Byte) /\ Len(f) = 20
    BY <2>2, FunctionIsSeq, Zenon
  <2> QED BY <2>1, <2>3, Zenon
<1>7. PICK e \in Seq(Byte) : e = [k \in 1..20 |-> h.peer_id] /\ Len(e) = 20
  <2>1. PICK f : f = [k \in 1..20 |-> h.peer_id]
    OBVIOUS
  <2>2. f \in [1..20 -> Byte] /\ 20 \in Nat
    BY <1>1, <2>1
  <2>3. f \in Seq(Byte) /\ Len(f) = 20
    BY <2>2, FunctionIsSeq, Zenon
  <2> QED BY <2>1, <2>3, Zenon
<1>8. PICK x \in Seq(Byte) : x = (a \o b) \o c /\ Len(x) = 28
  <2>1. PICK x : x = (a \o b) \o c
    OBVIOUS
  <2>2. x \in Seq(Byte) /\ Parts(x, a, b, c, 1, 19, 8)
    <3>1. 1 \in Nat /\ 19 \in Nat /\ 8 \in Nat
      OBVIOUS
    <3> QED BY <1>3, <1>4, <1>5, <2>1, <3>1, ThreeJoined, Zenon
  <2>3. Len(x) = 28
    BY <2>2 DEF Parts
  <2> QED BY <2>1, <2>2, <2>3, Zenon
<1>9. PICK y : y = (x \o d) \o e
  OBVIOUS
<1>10. y \in Seq(Byte) /\ Parts(y, x, d, e, 28, 20, 20)
  <2>1. 28 \in Nat /\ 20 \in Nat
    OBVIOUS
  <2> QED BY <1>6, <1>7, <1>8, <1>9, <2>1, ThreeJoined, Zenon
<1>11. Len(y) = 68 /\ y[28 + 1] = d[1] /\ y[28 + 20 + 1] = e[1]
  <2>1. 1 \in 1..20 /\ 28 + 20 + 20 = 68
    OBVIOUS
  <2> QED BY <1>10, <2>1, Zenon DEF Parts
<1>12. d[1] = h.infohash /\ e[1] = h.peer_id
  BY <1>6, <1>7
<1>13. y[29] = h.infohash /\ y[49] = h.peer_id
  <2>1. 28 + 1 = 29 /\ 28 + 20 + 1 = 49
    OBVIOUS
  <2> QED BY <1>11, <1>12, <2>1, Zenon
<1>14. HandshakeBytes(h) = y
  BY <1>3, <1>4, <1>5, <1>6, <1>7, <1>8, <1>9, Zenon DEF HandshakeBytes
<1>15. h = [infohash |-> h.infohash, peer_id |-> h.peer_id]
  BY <1>1
<1> QED BY <1>10, <1>11, <1>13, <1>14, <1>15, Zenon

-----------------------------------------------------------------------------
(* The invariant: all that was written, cut into frames *)

(* all is cut into n frames: frame k is what follows the first at[k] bytes. *)
Cut(all, at, frame, n) ==
  /\ all \in Seq(Byte) /\ at \in [Nat -> Nat] /\ frame \in [Nat -> Seq(Byte)]
  /\ at[1] = 0 /\ at[n + 1] = Len(all)
  /\ \A k \in 1..n :
       /\ at[k + 1] = at[k] + Len(frame[k]) /\ at[k + 1] <= Len(all)
       /\ \A i \in 1..Len(frame[k]) : all[at[k] + i] = frame[k][i]

WrittenAs(k, what, bytes) ==
  IF k = 1 THEN what \in Handshakes /\ bytes = HandshakeBytes(what)
  ELSE /\ Framed(bytes)
       /\ what = Foreign \/ (what \in Messages /\ ParsedAs(what, bytes))

(* After the first pos bytes of all, got has arrived and coming is on its  *)
(* way.                                                                    *)
OnTheWay(all, pos, got, coming) ==
  /\ pos + Len(got) + Len(coming) <= Len(all)
  /\ \A i \in 1..Len(got) : got[i] = all[pos + i]
  /\ \A i \in 1..Len(coming) : coming[i] = all[pos + Len(got) + i]

(* On an open connection that is all of the rest. *)
Whole(all, pos, got, coming) ==
  OnTheWay(all, pos, got, coming) /\ pos + Len(got) + Len(coming) = Len(all)

IsSeq(s) == Len(s) \in Nat /\ s = [k \in 1..Len(s) |-> s[k]]

(* How many of the bytes the reader has taken. *)
Taken(at) == at[Len(received) + 1] + (IF reader.pc = "body" THEN 4 ELSE 0)

StreamOf(all, at, frame) ==
  /\ Cut(all, at, frame, Len(sent))
  /\ \A k \in 1..Len(sent) : WrittenAs(k, sent[k], frame[k])
  /\ reader.pc = "body" =>
       Len(received) < Len(sent) /\ reader.asks = Len(frame[Len(received) + 1]) - 4
  /\ reader.pc # "failed" =>
       /\ OnTheWay(all, Taken(at), arrived, wire)
       /\ open => Whole(all, Taken(at), arrived, wire)

ReaderOK ==
  /\ reader \in [pc : {"handshake", "length", "body", "failed"}, asks : Nat]
  /\ reader.pc = "handshake" => Len(received) = 0 /\ reader.asks = 68
  /\ reader.pc \in {"length", "body"} => Len(received) >= 1
  /\ reader.pc = "length" => reader.asks = 4
  /\ reader.pc = "body" => reader.asks > 0
  /\ reader.pc = "failed" => ~open

StreamInv ==
  /\ wire \in Seq(Byte) /\ arrived \in Seq(Byte) /\ open \in BOOLEAN
  /\ IsSeq(sent) /\ IsSeq(received) /\ Len(received) <= Len(sent)
  /\ ~open => wire = <<>>
  /\ ReaderOK
  /\ \E all, at, frame : StreamOf(all, at, frame)

LEMMA AppendIs ==
  ASSUME NEW s, IsSeq(s), NEW x
  PROVE  /\ IsSeq(Append(s, x)) /\ Len(Append(s, x)) = Len(s) + 1
         /\ \A k \in 1..Len(s) : Append(s, x)[k] = s[k]
         /\ Append(s, x)[Len(s) + 1] = x
         /\ DOMAIN s = 1..Len(s) /\ DOMAIN Append(s, x) = 1..(Len(s) + 1)
<1> DEFINE S == {s[k] : k \in 1..Len(s)} \cup {x}
<1>1. s \in [1..Len(s) -> S] /\ Len(s) \in Nat
  BY DEF IsSeq
<1>2. s \in Seq(S) /\ x \in S
  BY <1>1, FunctionIsSeq, Zenon
<1> HIDE DEF S
<1>3. /\ Append(s, x) \in Seq(S) /\ Len(Append(s, x)) = Len(s) + 1
      /\ \A k \in 1..Len(s) : Append(s, x)[k] = s[k]
      /\ Append(s, x)[Len(s) + 1] = x
      /\ DOMAIN s = 1..Len(s) /\ DOMAIN Append(s, x) = 1..(Len(s) + 1)
  BY <1>2
<1>4. PICK a \in Seq(S) : a = Append(s, x)
  BY <1>3
<1>5. Len(a) \in Nat /\ a = [k \in 1..Len(a) |-> a[k]]
  OBVIOUS
<1> QED BY <1>3, <1>4, <1>5, Zenon DEF IsSeq

Put(f, i, v) == [f EXCEPT ![i] = v]

Stores(g, f, i, v) == g[i] = v /\ \A k \in Nat : k # i => g[k] = f[k]

LEMMA PutNumber ==
  ASSUME NEW f \in [Nat -> Nat], NEW i \in Nat, NEW v \in Nat, NEW g, g = Put(f, i, v)
  PROVE  g \in [Nat -> Nat] /\ Stores(g, f, i, v)
BY DEF Put, Stores

LEMMA PutBytes ==
  ASSUME NEW f \in [Nat -> Seq(Byte)], NEW i \in Nat, NEW v \in Seq(Byte),
         NEW g, g = Put(f, i, v)
  PROVE  g \in [Nat -> Seq(Byte)] /\ Stores(g, f, i, v)
BY DEF Put, Stores

LEMMA CutMore ==
  ASSUME NEW n \in Nat, NEW all, NEW at, NEW frame, Cut(all, at, frame, n),
         NEW bytes \in Seq(Byte), NEW at2, NEW frame2,
         at2 = Put(at, n + 2, Len(all) + Len(bytes)), frame2 = Put(frame, n + 1, bytes)
  PROVE  /\ Cut(all \o bytes, at2, frame2, n + 1)
         /\ \A k \in 1..(n + 1) : at2[k] = at[k]
         /\ \A k \in 1..n : frame2[k] = frame[k]
         /\ frame2[n + 1] = bytes
<1>1. /\ all \in Seq(Byte) /\ at \in [Nat -> Nat] /\ frame \in [Nat -> Seq(Byte)]
      /\ at[1] = 0 /\ at[n + 1] = Len(all)
      /\ \A k \in 1..n :
           /\ at[k + 1] = at[k] + Len(frame[k]) /\ at[k + 1] <= Len(all)
           /\ \A i \in 1..Len(frame[k]) : all[at[k] + i] = frame[k][i]
  BY DEF Cut
<1>2. PICK L \in Nat, B \in Nat : L = Len(all) /\ B = Len(bytes)
  BY <1>1
<1>3. PICK more \in Seq(Byte) : more = all \o bytes /\ TwoParts(more, all, bytes)
  BY <1>1, Joined, Zenon
<1>4. /\ Len(more) = L + B
      /\ \A i \in 1..L : more[i] = all[i]
      /\ \A i \in 1..B : more[L + i] = bytes[i]
  BY <1>2, <1>3 DEF TwoParts
<1>5. /\ at2 \in [Nat -> Nat] /\ frame2 \in [Nat -> Seq(Byte)]
      /\ at2[n + 2] = L + B /\ frame2[n + 1] = bytes
      /\ \A k \in 1..(n + 1) : at2[k] = at[k]
      /\ \A k \in 1..n : frame2[k] = frame[k]
  <2>1. PICK v \in Nat, i \in Nat, j \in Nat : v = L + B /\ i = n + 2 /\ j = n + 1
    OBVIOUS
  <2>2. at2 = Put(at, i, v) /\ frame2 = Put(frame, j, bytes)
    BY <1>2, <2>1
  <2>3. at2 \in [Nat -> Nat] /\ Stores(at2, at, i, v)
    <3>1. at \in [Nat -> Nat]
      BY <1>1
    <3> QED BY <2>2, <3>1, PutNumber
  <2>4. frame2 \in [Nat -> Seq(Byte)] /\ Stores(frame2, frame, j, bytes)
    <3>1. frame \in [Nat -> Seq(Byte)]
      BY <1>1
    <3> QED BY <2>2, <3>1, PutBytes
  <2>5. \A k \in 1..(n + 1) : k \in Nat /\ k # i
    BY <2>1
  <2>6. \A k \in 1..n : k \in Nat /\ k # j
    BY <2>1
  <2> QED BY <2>1, <2>3, <2>4, <2>5, <2>6, Zenon DEF Stores
<1>6. at2[1] = 0 /\ at2[(n + 1) + 1] = Len(more)
  <2>1. (n + 1) + 1 = n + 2 /\ 1 \in 1..(n + 1)
    OBVIOUS
  <2> QED BY <1>1, <1>4, <1>5, <2>1
<1>7. ASSUME NEW k \in 1..(n + 1)
      PROVE  /\ at2[k + 1] = at2[k] + Len(frame2[k]) /\ at2[k + 1] <= Len(more)
             /\ \A i \in 1..Len(frame2[k]) : more[at2[k] + i] = frame2[k][i]
  <2>1. CASE k \in 1..n
    <3>1. PICK a \in Nat, f \in Seq(Byte) : a = at[k] /\ f = frame[k]
      <4>1. k \in Nat
        OBVIOUS
      <4>2. at[k] \in Nat /\ frame[k] \in Seq(Byte)
        BY <1>1, <4>1, Zenon
      <4> QED BY <4>2, Zenon
    <3>2. PICK F \in Nat : F = Len(f)
      OBVIOUS
    <3>3. at[k + 1] = a + F /\ a + F <= L /\ \A i \in 1..F : all[a + i] = f[i]
      BY <1>1, <1>2, <2>1, <3>1, <3>2
    <3>4. k + 1 \in 1..(n + 1) /\ k \in 1..(n + 1)
      BY <2>1
    <3>5. at2[k + 1] = a + F /\ at2[k] = a /\ frame2[k] = f
      BY <1>5, <2>1, <3>1, <3>3, <3>4
    <3>6. \A i \in 1..F : a + i \in 1..L
      BY <3>3
    <3>7. \A i \in 1..F : more[a + i] = f[i]
      BY <1>4, <3>3, <3>6, Zenon
    <3>8. a + F <= L + B
      BY <3>3
    <3> QED BY <1>4, <3>2, <3>5, <3>7, <3>8
  <2>2. CASE k = n + 1
    <3>1. k + 1 = n + 2 /\ n + 1 \in 1..(n + 1)
      BY <2>2
    <3>2. at2[k + 1] = L + B /\ at2[k] = L /\ frame2[k] = bytes
      BY <1>1, <1>2, <1>5, <2>2, <3>1
    <3>3. L + B = L + Len(frame2[k]) /\ L + B <= L + B
      <4>1. B = Len(frame2[k])
        BY <1>2, <3>2
      <4>2. L + B <= L + B
        OBVIOUS
      <4> QED BY <4>1, <4>2, Zenon
    <3>4. \A i \in 1..Len(frame2[k]) : more[L + i] = bytes[i]
      BY <1>2, <1>4, <3>2
    <3> QED BY <1>4, <3>2, <3>3, <3>4
  <2> QED BY <2>1, <2>2
<1>8. Cut(more, at2, frame2, n + 1)
  BY <1>5, <1>6, <1>7, Zenon DEF Cut
<1> QED BY <1>3, <1>5, <1>8, Zenon

LEMMA WayMore ==
  ASSUME NEW all \in Seq(Byte), NEW got \in Seq(Byte), NEW coming \in Seq(Byte),
         NEW bytes \in Seq(Byte), NEW pos \in Nat, Whole(all, pos, got, coming)
  PROVE  Whole(all \o bytes, pos, got, coming \o bytes)
<1>1. PICK g \in Nat, c \in Nat, b \in Nat :
        g = Len(got) /\ c = Len(coming) /\ b = Len(bytes)
  OBVIOUS
<1>2. PICK more \in Seq(Byte) : more = all \o bytes /\ TwoParts(more, all, bytes)
  BY Joined, Zenon
<1>3. PICK way \in Seq(Byte) : way = coming \o bytes /\ TwoParts(way, coming, bytes)
  BY Joined, Zenon
<1>4. /\ Len(all) = pos + g + c
      /\ \A i \in 1..g : got[i] = all[pos + i]
      /\ \A i \in 1..c : coming[i] = all[pos + g + i]
  BY <1>1 DEF Whole, OnTheWay
<1>5. /\ Len(more) = pos + g + c + b
      /\ \A i \in 1..(pos + g + c) : more[i] = all[i]
      /\ \A i \in 1..b : more[pos + g + c + i] = bytes[i]
  BY <1>1, <1>2, <1>4 DEF TwoParts
<1>6. /\ Len(way) = c + b
      /\ \A i \in 1..c : way[i] = coming[i]
      /\ \A i \in 1..b : way[c + i] = bytes[i]
  BY <1>1, <1>3 DEF TwoParts
<1>7. \A i \in 1..g : got[i] = more[pos + i]
  <2>1. \A i \in 1..g : pos + i \in 1..(pos + g + c)
    OBVIOUS
  <2> QED BY <1>4, <1>5, <2>1, Zenon
<1>8. \A i \in 1..(c + b) : way[i] = more[pos + g + i]
  <2> TAKE i \in 1..(c + b)
  <2>1. CASE i \in 1..c
    <3>1. pos + g + i \in 1..(pos + g + c)
      BY <2>1
    <3> QED BY <1>4, <1>5, <1>6, <2>1, <3>1, Zenon
  <2>2. CASE i \notin 1..c
    <3>1. PICK j \in 1..b : i = c + j
      <4>1. i - c \in 1..b /\ i = c + (i - c)
        BY <2>2
      <4> QED BY <4>1
    <3>2. pos + g + i = pos + g + c + j
      BY <3>1
    <3> QED BY <1>5, <1>6, <3>1, <3>2
  <2> QED BY <2>1, <2>2
<1>9. pos + g + (c + b) = Len(more)
  BY <1>5
<1>10. pos + g + (c + b) <= Len(more)
  BY <1>9
<1>11. OnTheWay(more, pos, got, way)
  BY <1>1, <1>6, <1>7, <1>8, <1>10, Zenon DEF OnTheWay
<1>12. pos + Len(got) + Len(way) = Len(more)
  BY <1>1, <1>6, <1>9, Zenon
<1> QED BY <1>2, <1>3, <1>11, <1>12, Zenon DEF Whole

LEMMA WayArrives ==
  ASSUME NEW all \in Seq(Byte), NEW got \in Seq(Byte), NEW coming \in Seq(Byte),
         coming # <<>>, NEW pos \in Nat, OnTheWay(all, pos, got, coming)
  PROVE  /\ Append(got, Head(coming)) \in Seq(Byte) /\ Tail(coming) \in Seq(Byte)
         /\ OnTheWay(all, pos, Append(got, Head(coming)), Tail(coming))
         /\ Whole(all, pos, got, coming)
              => Whole(all, pos, Append(got, Head(coming)), Tail(coming))
<1>1. PICK h \in Byte, rest \in Seq(Byte) : h = Head(coming) /\ rest = Tail(coming)
  <2>1. Head(coming) \in Byte
    OBVIOUS
  <2>2. Tail(coming) \in Seq(Byte)
    OBVIOUS
  <2> QED BY <2>1, <2>2, Zenon
<1>2. PICK more \in Seq(Byte) : more = Append(got, h)
  <2>1. Append(got, h) \in Seq(Byte)
    OBVIOUS
  <2> QED BY <2>1, Zenon
<1>3. PICK g \in Nat, c \in Nat : g = Len(got) /\ c + 1 = Len(coming)
  <2>1. Len(coming) - 1 \in Nat /\ Len(got) \in Nat
    OBVIOUS
  <2>2. (Len(coming) - 1) + 1 = Len(coming)
    BY <2>1
  <2> QED BY <2>1, <2>2, Zenon
<1>4. /\ pos + g + (c + 1) <= Len(all)
      /\ \A i \in 1..g : got[i] = all[pos + i]
      /\ \A i \in 1..(c + 1) : coming[i] = all[pos + g + i]
  BY <1>3, Zenon DEF OnTheWay
<1>5. /\ Len(more) = g + 1 /\ more[g + 1] = h
      /\ \A i \in 1..g : more[i] = got[i]
  BY <1>2, <1>3
<1>6. /\ h = coming[1] /\ Len(rest) = c
      /\ \A i \in 1..c : rest[i] = coming[i + 1]
  BY <1>1, <1>3
<1>7. \A i \in 1..(g + 1) : more[i] = all[pos + i]
  <2> TAKE i \in 1..(g + 1)
  <2>1. CASE i \in 1..g
    BY <1>4, <1>5, <2>1
  <2>2. CASE i \notin 1..g
    <3>1. i = g + 1
      BY <2>2
    <3>2. 1 \in 1..(c + 1) /\ pos + g + 1 = pos + i
      BY <3>1
    <3>3. coming[1] = all[pos + i]
      BY <1>4, <3>2
    <3> QED BY <1>5, <1>6, <3>1, <3>3
  <2> QED BY <2>1, <2>2
<1>8. \A i \in 1..c : rest[i] = all[pos + (g + 1) + i]
  <2> TAKE i \in 1..c
  <2>1. i + 1 \in 1..(c + 1) /\ pos + g + (i + 1) = pos + (g + 1) + i
    OBVIOUS
  <2>2. coming[i + 1] = all[pos + g + (i + 1)]
    BY <1>4, <2>1, Zenon
  <2> QED BY <1>6, <2>1, <2>2
<1>9. pos + (g + 1) + c = pos + g + (c + 1)
  OBVIOUS
<1>10. OnTheWay(all, pos, more, rest)
  BY <1>4, <1>5, <1>6, <1>7, <1>8, <1>9, Zenon DEF OnTheWay
<1>11. pos + Len(more) + Len(rest) = pos + Len(got) + Len(coming)
  BY <1>3, <1>5, <1>6, <1>9, Zenon
<1> QED BY <1>1, <1>2, <1>10, <1>11, Zenon DEF Whole

LEMMA WayTaken ==
  ASSUME NEW all \in Seq(Byte), NEW got \in Seq(Byte), NEW coming \in Seq(Byte),
         NEW pos \in Nat, OnTheWay(all, pos, got, coming),
         NEW n \in Nat, n <= Len(got), NEW left, left = SubSeq(got, n + 1, Len(got))
  PROVE  /\ left \in Seq(Byte) /\ OnTheWay(all, pos + n, left, coming)
         /\ Whole(all, pos, got, coming) => Whole(all, pos + n, left, coming)
<1>1. PICK w \in Nat, c \in Nat : Len(got) = n + w /\ c = Len(coming)
  <2>1. Len(got) - n \in Nat /\ Len(coming) \in Nat
    OBVIOUS
  <2>2. n + (Len(got) - n) = Len(got)
    BY <2>1
  <2> QED BY <2>1, <2>2, Zenon
<1>2. left \in Seq(Byte) /\ SliceOf(left, got, n, w)
  <2>1. left = SubSeq(got, n + 1, n + w) /\ n + w <= Len(got)
    BY <1>1
  <2> QED BY <2>1, Slice
<1>3. Len(left) = w /\ \A i \in 1..w : left[i] = got[n + i]
  BY <1>2 DEF SliceOf
<1>4. /\ pos + (n + w) + c <= Len(all)
      /\ \A i \in 1..(n + w) : got[i] = all[pos + i]
      /\ \A i \in 1..c : coming[i] = all[pos + (n + w) + i]
  BY <1>1, Zenon DEF OnTheWay
<1>5. \A i \in 1..w : left[i] = all[(pos + n) + i]
  <2> TAKE i \in 1..w
  <2>1. n + i \in 1..(n + w) /\ pos + (n + i) = (pos + n) + i
    OBVIOUS
  <2>2. got[n + i] = all[pos + (n + i)]
    BY <1>4, <2>1, Zenon
  <2> QED BY <1>3, <2>1, <2>2
<1>6. \A i \in 1..c : coming[i] = all[(pos + n) + w + i]
  <2> TAKE i \in 1..c
  <2>1. pos + (n + w) + i = (pos + n) + w + i
    OBVIOUS
  <2> QED BY <1>4, <2>1
<1>7. (pos + n) + w + c = pos + (n + w) + c
  OBVIOUS
<1>8. OnTheWay(all, pos + n, left, coming)
  BY <1>1, <1>3, <1>4, <1>5, <1>6, <1>7, Zenon DEF OnTheWay
<1>9. (pos + n) + Len(left) + Len(coming) = pos + Len(got) + Len(coming)
  BY <1>1, <1>3, <1>7, Zenon
<1> QED BY <1>2, <1>8, <1>9, Zenon DEF Whole

LEMMA NativeIs ==
  ASSUME NEW v \in Nat
  PROVE  NativeEndian(4, v) \in Seq(Byte) /\ Len(NativeEndian(4, v)) = 4
<1>1. /\ 256^(1 - 1) = 1 /\ 256^(2 - 1) = 256
      /\ 256^(3 - 1) = 65536 /\ 256^(4 - 1) = 16777216
  BY Powers
<1>2. v \div 1 = v
  BY ByteSplit
<1>3. /\ (v \div 256) % 256 \in Byte /\ v % 256 \in Byte
      /\ (v \div 65536) % 256 \in Byte /\ (v \div 16777216) % 256 \in Byte
  BY ByteSplit
<1>4. PICK s : s = NativeEndian(4, v)
  OBVIOUS
<1>5. /\ DOMAIN s = 1..4 /\ s = [k \in 1..4 |-> s[k]]
      /\ \A k \in 1..4 : s[k] = (v \div 256^(k - 1)) % 256
  BY <1>4 DEF NativeEndian
<1>6. s[1] \in Byte /\ s[2] \in Byte /\ s[3] \in Byte /\ s[4] \in Byte
  <2>1. /\ s[1] = v % 256 /\ s[2] = (v \div 256) % 256
        /\ s[3] = (v \div 65536) % 256 /\ s[4] = (v \div 16777216) % 256
    BY <1>1, <1>2, <1>5, 1 \in 1..4, 2 \in 1..4, 3 \in 1..4, 4 \in 1..4
  <2> QED BY <1>3, <2>1
<1>7. \A k \in 1..4 : s[k] \in Byte
  <2>1. \A k \in 1..4 : k = 1 \/ k = 2 \/ k = 3 \/ k = 4
    OBVIOUS
  <2> QED BY <1>6, <2>1, Zenon
<1>8. s \in [1..4 -> Byte] /\ 4 \in Nat
  BY <1>5, <1>7
<1> QED BY <1>4, <1>8, FunctionIsSeq, Zenon

FrameAt(all, at, frame, k) ==
  /\ frame[k] \in Seq(Byte) /\ at[k] \in Nat
  /\ at[k + 1] = at[k] + Len(frame[k])
  /\ \A i \in 1..Len(frame[k]) : all[at[k] + i] = frame[k][i]

LEMMA Begun ==
  ASSUME NEW n \in Nat, NEW all, NEW at, NEW frame, Cut(all, at, frame, n),
         NEW k \in 1..(n + 1), NEW x \in Nat, x > at[k], x <= Len(all)
  PROVE  k \in 1..n /\ FrameAt(all, at, frame, k)
<1>1. /\ all \in Seq(Byte) /\ at \in [Nat -> Nat] /\ frame \in [Nat -> Seq(Byte)]
      /\ at[n + 1] = Len(all)
      /\ \A j \in 1..n :
           /\ at[j + 1] = at[j] + Len(frame[j])
           /\ \A i \in 1..Len(frame[j]) : all[at[j] + i] = frame[j][i]
  BY Zenon DEF Cut
<1>2. k # n + 1
  <2>1. PICK l \in Nat : l = Len(all)
    BY <1>1
  <2>2. ~(x > l)
    BY <2>1
  <2> QED BY <1>1, <2>1, <2>2, Zenon
<1>3. k \in 1..n /\ k \in Nat
  BY <1>2
<1>4. at[k] \in Nat /\ frame[k] \in Seq(Byte)
  BY <1>1, <1>3, Zenon
<1> QED BY <1>1, <1>3, <1>4, Zenon DEF FrameAt

(* Every write puts one more frame behind all that was written. *)
LEMMA WriteKeeps ==
  ASSUME StreamInv, NEW bytes \in Seq(Byte), NEW what, Write(bytes, what),
         WrittenAs(Len(sent) + 1, what, bytes)
  PROVE  StreamInv'
<1>1. /\ wire \in Seq(Byte) /\ arrived \in Seq(Byte) /\ open = TRUE
      /\ IsSeq(sent) /\ IsSeq(received) /\ Len(received) <= Len(sent)
      /\ ReaderOK
  BY DEF StreamInv, Write
<1>2. PICK all, at, frame : StreamOf(all, at, frame)
  BY DEF StreamInv
<1>3. /\ wire' = wire \o bytes /\ sent' = Append(sent, what)
      /\ arrived' = arrived /\ reader' = reader /\ open' = open /\ received' = received
  BY DEF Write
<1>4. PICK n \in Nat, r \in Nat : n = Len(sent) /\ r = Len(received)
  BY <1>1 DEF IsSeq
<1>5. /\ IsSeq(sent') /\ Len(sent') = n + 1
      /\ \A k \in 1..n : sent'[k] = sent[k]
      /\ sent'[n + 1] = what
  BY <1>1, <1>3, <1>4, AppendIs
<1>6. /\ Cut(all, at, frame, n)
      /\ \A k \in 1..n : WrittenAs(k, sent[k], frame[k])
  BY <1>2, <1>4, Zenon DEF StreamOf
<1>7. all \in Seq(Byte) /\ at \in [Nat -> Nat]
  BY <1>6 DEF Cut
<1>8. PICK at2, frame2, more :
        /\ at2 = Put(at, n + 2, Len(all) + Len(bytes)) /\ frame2 = Put(frame, n + 1, bytes)
        /\ more = all \o bytes
  OBVIOUS
<1>9. /\ Cut(more, at2, frame2, n + 1)
      /\ \A k \in 1..(n + 1) : at2[k] = at[k]
      /\ \A k \in 1..n : frame2[k] = frame[k]
      /\ frame2[n + 1] = bytes
  BY <1>6, <1>8, CutMore
<1>10. \A k \in 1..Len(sent') : WrittenAs(k, sent'[k], frame2[k])
  <2>1. ASSUME NEW k \in 1..(n + 1)
        PROVE  WrittenAs(k, sent'[k], frame2[k])
    <3>1. CASE k \in 1..n
      BY <1>5, <1>6, <1>9, <3>1, Zenon
    <3>2. CASE k \notin 1..n
      <4>1. k = n + 1
        BY <3>2
      <4> QED BY <1>4, <1>5, <1>9, <4>1, Zenon
    <3> QED BY <3>1, <3>2
  <2> QED BY <1>5, <2>1, Zenon
<1>11. r + 1 \in 1..(n + 1) /\ (r < n => r + 1 \in 1..n /\ r < n + 1)
  BY <1>1, <1>4
<1>12. Taken(at2)' = Taken(at)
  BY <1>3, <1>4, <1>9, <1>11, Zenon DEF Taken
<1>13. reader'.pc = "body" =>
         Len(received') < Len(sent') /\ reader'.asks = Len(frame2[Len(received') + 1]) - 4
  <2> SUFFICES ASSUME reader.pc = "body"
               PROVE  r < n + 1 /\ reader.asks = Len(frame2[r + 1]) - 4
    BY <1>3, <1>4, <1>5, Zenon
  <2>1. r < n /\ reader.asks = Len(frame[r + 1]) - 4
    BY <1>2, <1>4, Zenon DEF StreamOf
  <2>2. frame2[r + 1] = frame[r + 1]
    BY <1>9, <1>11, <2>1, Zenon
  <2> QED BY <1>11, <2>1, <2>2, Zenon
<1>14. CASE reader.pc = "failed"
  BY <1>1, <1>14 DEF ReaderOK
<1>15. CASE reader.pc # "failed"
  <2>1. Whole(all, Taken(at), arrived, wire)
    BY <1>1, <1>2, <1>15, Zenon DEF StreamOf
  <2>2. PICK p \in Nat : p = Taken(at)
    <3>1. at[r + 1] \in Nat
      <4>1. r + 1 \in Nat
        OBVIOUS
      <4>2. \A k \in Nat : at[k] \in Nat
        BY <1>7
      <4> QED BY <4>1, <4>2, Zenon
    <3>2. at[r + 1] + (IF reader.pc = "body" THEN 4 ELSE 0) \in Nat
      BY <3>1
    <3> QED BY <1>4, <3>2, Zenon DEF Taken
  <2>3. Whole(more, p, arrived, wire')
    BY <1>1, <1>3, <1>7, <1>8, <2>1, <2>2, WayMore, Zenon
  <2>4. StreamOf(more, at2, frame2)'
    BY <1>3, <1>5, <1>9, <1>10, <1>12, <1>13, <2>2, <2>3, Zenon DEF StreamOf, Whole
  <2>5. wire' \in Seq(Byte)
    BY <1>1, <1>3, Joined, Zenon
  <2>6. Len(received') <= Len(sent')
    BY <1>1, <1>3, <1>4, <1>5
  <2>7. ReaderOK' /\ IsSeq(received)' /\ (arrived \in Seq(Byte))'
    BY <1>1, <1>3, Zenon DEF ReaderOK, IsSeq
  <2>8. open' = TRUE
    BY <1>1, <1>3
  <2>9. \E a, b, c : StreamOf(a, b, c)'
    BY <2>4, Zenon
  <2> QED BY <1>5, <2>5, <2>6, <2>7, <2>8, <2>9, Zenon DEF StreamInv, IsSeq
<1> QED BY <1>14, <1>15

LEMMA TakenIsNat ==
  ASSUME StreamInv, NEW all, NEW at, NEW frame, StreamOf(all, at, frame)
  PROVE  all \in Seq(Byte) /\ Taken(at) \in Nat /\ at[Len(received) + 1] \in Nat
<1>1. all \in Seq(Byte) /\ at \in [Nat -> Nat]
  BY DEF StreamOf, Cut
<1>2. PICK r \in Nat : r = Len(received)
  BY DEF StreamInv, IsSeq
<1>3. at[r + 1] \in Nat /\ 0 \in Nat
  BY <1>1
<1>4. at[r + 1] + 4 \in Nat /\ at[r + 1] + 0 \in Nat
  BY <1>3
<1>5. at[r + 1] + (IF reader.pc = "body" THEN 4 ELSE 0) \in Nat
  BY <1>4
<1> QED BY <1>1, <1>2, <1>3, <1>5, Zenon DEF Taken

LEMMA DeliverKeeps ==
  ASSUME StreamInv, Deliver
  PROVE  StreamInv'
<1>1. /\ wire \in Seq(Byte) /\ arrived \in Seq(Byte) /\ wire # <<>>
      /\ IsSeq(sent) /\ IsSeq(received) /\ Len(received) <= Len(sent)
      /\ ReaderOK /\ open \in BOOLEAN /\ (~open => wire = <<>>)
  BY DEF StreamInv, Deliver
<1>2. PICK all, at, frame : StreamOf(all, at, frame)
  BY DEF StreamInv
<1>3. /\ arrived' = Append(arrived, Head(wire)) /\ wire' = Tail(wire)
      /\ reader' = reader /\ open' = open /\ sent' = sent /\ received' = received
  BY DEF Deliver
<1>4. PICK p \in Nat : p = Taken(at) /\ all \in Seq(Byte)
  BY <1>2, TakenIsNat, Zenon
<1>5. arrived' \in Seq(Byte) /\ wire' \in Seq(Byte)
  BY <1>1, <1>3
<1>6. /\ OnTheWay(all, p, arrived, wire) =>
           OnTheWay(all, p, arrived', wire')
      /\ Whole(all, p, arrived, wire) => Whole(all, p, arrived', wire')
  <2>1. ASSUME OnTheWay(all, p, arrived, wire)
        PROVE  /\ OnTheWay(all, p, arrived', wire')
               /\ Whole(all, p, arrived, wire) => Whole(all, p, arrived', wire')
    BY <1>1, <1>3, <1>4, <2>1, WayArrives
  <2>2. Whole(all, p, arrived, wire) => OnTheWay(all, p, arrived, wire)
    BY Zenon DEF Whole
  <2> QED BY <2>1, <2>2, Zenon
<1>7. Taken(at)' = p
  BY <1>3, <1>4, Zenon DEF Taken
<1>8. StreamOf(all, at, frame)'
  BY <1>2, <1>3, <1>4, <1>6, <1>7, Zenon DEF StreamOf
<1>9. ReaderOK'
  BY <1>1, <1>3, Zenon DEF ReaderOK
<1>10. open' = TRUE
  BY <1>1, <1>3
<1>11. \E a, b, c : StreamOf(a, b, c)'
  BY <1>8, Zenon
<1> QED BY <1>1, <1>3, <1>5, <1>9, <1>10, <1>11, Zenon DEF StreamInv, IsSeq

LEMMA LoseKeeps ==
  ASSUME StreamInv, Lose
  PROVE  StreamInv'
<1>1. /\ wire \in Seq(Byte) /\ arrived \in Seq(Byte)
      /\ IsSeq(sent) /\ IsSeq(received) /\ Len(received) <= Len(sent)
      /\ ReaderOK
  BY DEF StreamInv
<1>2. PICK all, at, frame : StreamOf(all, at, frame)
  BY DEF StreamInv
<1>3. /\ wire' = <<>> /\ open' = FALSE /\ arrived' = arrived
      /\ reader' = reader /\ sent' = sent /\ received' = received
  BY DEF Lose
<1>4. PICK p \in Nat : p = Taken(at) /\ all \in Seq(Byte)
  BY <1>2, TakenIsNat, Zenon
<1>5. <<>> \in Seq(Byte)
  OBVIOUS
<1>6. OnTheWay(all, p, arrived, wire) => OnTheWay(all, p, arrived, <<>>)
  <2> SUFFICES ASSUME OnTheWay(all, p, arrived, wire)
               PROVE  OnTheWay(all, p, arrived, <<>>)
    OBVIOUS
  <2>1. PICK g \in Nat, c \in Nat, l \in Nat :
          g = Len(arrived) /\ c = Len(wire) /\ l = Len(all)
    BY <1>1, <1>4
  <2>2. p + g + c <= l
    BY <2>1, Zenon DEF OnTheWay
  <2>3. p + g + 0 <= l
    BY <2>2
  <2>4. \A i \in 1..g : arrived[i] = all[p + i]
    BY <2>1, Zenon DEF OnTheWay
  <2>5. Len(<<>>) = 0 /\ ~(\E i \in 1..0 : TRUE)
    OBVIOUS
  <2> QED BY <2>1, <2>3, <2>4, <2>5, Zenon DEF OnTheWay
<1>7. Taken(at)' = p
  BY <1>3, <1>4, Zenon DEF Taken
<1>8. StreamOf(all, at, frame)'
  BY <1>2, <1>3, <1>4, <1>6, <1>7, Zenon DEF StreamOf
<1>9. ReaderOK'
  BY <1>1, <1>3, Zenon DEF ReaderOK
<1>10. \E a, b, c : StreamOf(a, b, c)'
  BY <1>8, Zenon
<1>11. open' \in BOOLEAN
  BY <1>3
<1> QED BY <1>1, <1>3, <1>5, <1>9, <1>10, <1>11, Zenon DEF StreamInv, IsSeq

LEMMA FailKeeps ==
  ASSUME StreamInv, ReadFails
  PROVE  StreamInv'
<1>1. /\ wire \in Seq(Byte) /\ arrived \in Seq(Byte) /\ open \in BOOLEAN
      /\ IsSeq(sent) /\ IsSeq(received) /\ Len(received) <= Len(sent)
      /\ ~open => wire = <<>>
  BY DEF StreamInv
<1>2. PICK all, at, frame : StreamOf(all, at, frame)
  BY DEF StreamInv
<1>3. /\ wire' = wire /\ open' = open /\ arrived' = arrived
      /\ sent' = sent /\ received' = received /\ ~open
      /\ reader' = [pc |-> "failed", asks |-> 0]
  BY DEF ReadFails
<1>4. reader'.pc = "failed" /\ ReaderOK'
  BY <1>3 DEF ReaderOK
<1>5. reader'.pc # "body"
  BY <1>4
<1>6. StreamOf(all, at, frame)'
  BY <1>2, <1>3, <1>4, <1>5, Zenon DEF StreamOf
<1>7. \E a, b, c : StreamOf(a, b, c)'
  BY <1>6, Zenon
<1> QED BY <1>1, <1>3, <1>4, <1>7, Zenon DEF StreamInv, IsSeq

(* What the reader takes are the next bytes of all. *)
LEMMA TakeIs ==
  ASSUME StreamInv, NEW all, NEW at, NEW frame, StreamOf(all, at, frame),
         reader.pc # "failed", Len(arrived) >= reader.asks,
         NEW p \in Nat, p = Taken(at), NEW left,
         left = SubSeq(arrived, reader.asks + 1, Len(arrived))
  PROVE  /\ left \in Seq(Byte)
         /\ OnTheWay(all, p + reader.asks, left, wire)
         /\ open => Whole(all, p + reader.asks, left, wire)
         /\ Take \in Seq(Byte) /\ Len(Take) = reader.asks
         /\ \A i \in 1..reader.asks : Take[i] = all[p + i]
         /\ reader.asks \in Nat /\ p + reader.asks <= Len(all)
<1>1. arrived \in Seq(Byte) /\ wire \in Seq(Byte) /\ reader.asks \in Nat
  BY DEF StreamInv, ReaderOK
<1>2. all \in Seq(Byte)
  BY TakenIsNat, Zenon
<1>3. OnTheWay(all, p, arrived, wire) /\ (open => Whole(all, p, arrived, wire))
  BY Zenon DEF StreamOf
<1>4. PICK n \in Nat : n = reader.asks /\ n <= Len(arrived)
  BY <1>1
<1>5. /\ left \in Seq(Byte) /\ OnTheWay(all, p + n, left, wire)
      /\ Whole(all, p, arrived, wire) => Whole(all, p + n, left, wire)
  <2>1. left = SubSeq(arrived, n + 1, Len(arrived))
    BY <1>4
  <2> QED BY <1>1, <1>2, <1>3, <1>4, <2>1, WayTaken
<1>6. PICK s : s = Take
  OBVIOUS
<1>7. s \in Seq(Byte) /\ SliceOf(s, arrived, 0, n)
  <2>1. s = SubSeq(arrived, 0 + 1, 0 + n) /\ 0 + n <= Len(arrived) /\ 0 \in Nat
    BY <1>4, <1>6 DEF Take
  <2> QED BY <1>1, <2>1, Slice
<1>8. Len(s) = n /\ \A i \in 1..n : s[i] = arrived[i]
  BY <1>7 DEF SliceOf
<1>9. \A i \in 1..n : s[i] = all[p + i]
  <2>1. \A i \in 1..Len(arrived) : arrived[i] = all[p + i]
    BY <1>3, Zenon DEF OnTheWay
  <2>2. \A i \in 1..n : i \in 1..Len(arrived)
    BY <1>1, <1>4
  <2> QED BY <1>8, <2>1, <2>2, Zenon
<1>10. p + n <= Len(all)
  <2>1. PICK g \in Nat, c \in Nat, l \in Nat :
          g = Len(arrived) /\ c = Len(wire) /\ l = Len(all)
    BY <1>1, <1>2
  <2>2. p + g + c <= l
    BY <1>3, <2>1, Zenon DEF OnTheWay
  <2>3. n <= g
    BY <1>4, <2>1
  <2>4. p + n <= l
    BY <2>2, <2>3
  <2> QED BY <2>1, <2>4
<1> QED BY <1>1, <1>3, <1>4, <1>5, <1>6, <1>7, <1>8, <1>9, <1>10, Zenon

Finishes(at) == Taken(at) + reader.asks = at[(Len(received) + 1) + 1]

(* A result is returned when all the bytes of the frame are taken. *)
LEMMA ReturnKeeps ==
  ASSUME StreamInv, NEW all, NEW at, NEW frame, StreamOf(all, at, frame),
         reader.pc # "failed", Len(arrived) >= reader.asks, Ask("length", 4),
         NEW x, received' = Append(received, x),
         Len(received) < Len(sent), Finishes(at)
  PROVE  StreamInv'
<1>1. /\ wire \in Seq(Byte) /\ open \in BOOLEAN /\ (~open => wire = <<>>)
      /\ IsSeq(sent) /\ IsSeq(received)
  BY DEF StreamInv
<1>2. /\ arrived' = SubSeq(arrived, reader.asks + 1, Len(arrived))
      /\ reader' = [pc |-> "length", asks |-> 4]
      /\ wire' = wire /\ open' = open /\ sent' = sent
  BY DEF Ask
<1>3. PICK p \in Nat : p = Taken(at)
  BY TakenIsNat, Zenon
<1>4. /\ arrived' \in Seq(Byte)
      /\ OnTheWay(all, p + reader.asks, arrived', wire)
      /\ open => Whole(all, p + reader.asks, arrived', wire)
  BY <1>2, <1>3, TakeIs
<1>5. PICK n \in Nat, r \in Nat : n = Len(sent) /\ r = Len(received) /\ r < n
  BY <1>1 DEF IsSeq
<1>6. IsSeq(received') /\ Len(received') = r + 1
  BY <1>1, <1>5, AppendIs, Zenon
<1>7. reader'.pc = "length" /\ reader'.asks = 4
      /\ reader' \in [pc : {"handshake", "length", "body", "failed"}, asks : Nat]
  BY <1>2
<1>8. Taken(at)' = p + reader.asks
  <2>1. at[(r + 1) + 1] \in Nat
    <3>1. at \in [Nat -> Nat]
      BY DEF StreamOf, Cut
    <3>2. (r + 1) + 1 \in Nat
      OBVIOUS
    <3> QED BY <3>1, <3>2, Zenon
  <2>2. at[(r + 1) + 1] + 0 = at[(r + 1) + 1]
    BY <2>1
  <2>3. Taken(at)' = at[(r + 1) + 1]
    <3>1. reader'.pc # "body"
      BY <1>7
    <3> QED BY <1>6, <2>2, <3>1, Zenon DEF Taken
  <2> QED BY <1>3, <1>5, <2>3, Zenon DEF Finishes
<1>9. reader'.pc # "body"
  BY <1>7
<1>10. StreamOf(all, at, frame)'
  BY <1>2, <1>4, <1>8, <1>9, Zenon DEF StreamOf
<1>11. \E a, b, c : StreamOf(a, b, c)'
  BY <1>10, Zenon
<1>12. ReaderOK'
  BY <1>5, <1>6, <1>7 DEF ReaderOK
<1>13. Len(received') <= Len(sent')
  BY <1>2, <1>5, <1>6
<1> QED BY <1>1, <1>2, <1>4, <1>6, <1>11, <1>12, <1>13, Zenon DEF StreamInv, IsSeq

(* One message is received, as the one that was sent, or in its place      *)
(* something made of a foreign frame.                                      *)
Reads ==
  /\ Len(received) < Len(sent)
  /\ \E x : /\ received' = Append(received, x)
            /\ sent[Len(received) + 1] # Foreign =>
                 Shape(x) = Shape(sent[Len(received) + 1])
  /\ UNCHANGED <<sent, open>>

LEMMA HandshakeRead ==
  ASSUME StreamInv, read_handshake
  PROVE  StreamInv' /\ Reads
<1>1. PICK all, at, frame : StreamOf(all, at, frame)
  BY DEF StreamInv
<1>2. /\ reader.pc = "handshake" /\ Len(arrived) >= reader.asks /\ Ask("length", 4)
      /\ received' = Append(received, [infohash |-> Take[HandshakeOffset(4) + 1],
                                       peer_id |-> Take[HandshakeOffset(5) + 1]])
  BY DEF read_handshake, Completes
<1>3. Len(received) = 0 /\ reader.asks = 68 /\ reader.pc # "failed" /\ reader.pc # "body"
  BY <1>2 DEF StreamInv, ReaderOK
<1>4. PICK n \in Nat : n = Len(sent)
  BY DEF StreamInv, IsSeq
<1>5. Cut(all, at, frame, n) /\ \A k \in 1..n : WrittenAs(k, sent[k], frame[k])
  BY <1>1, <1>4, Zenon DEF StreamOf
<1>6. at[1] = 0
  BY <1>5 DEF Cut
<1>7. Taken(at) = 0
  <2>1. 0 + 1 = 1 /\ 0 + 0 = 0
    OBVIOUS
  <2> QED BY <1>3, <1>6, <2>1, Zenon DEF Taken
<1>8. /\ Len(Take) = 68 /\ \A i \in 1..68 : Take[i] = all[0 + i]
      /\ 0 + 68 <= Len(all)
  <2>1. PICK left : left = SubSeq(arrived, reader.asks + 1, Len(arrived))
    OBVIOUS
  <2> QED BY <1>1, <1>2, <1>3, <1>7, <2>1, 0 \in Nat, TakeIs
<1>9. /\ 0 < n /\ 1 \in 1..n /\ at[1 + 1] = 0 + Len(frame[1])
      /\ \A i \in 1..Len(frame[1]) : all[0 + i] = frame[1][i]
  <2>1. 68 <= Len(all) /\ 1 \in 1..(n + 1) /\ 68 \in Nat
    BY <1>8
  <2>2. 68 > at[1]
    BY <1>6
  <2>3. 1 \in 1..n /\ FrameAt(all, at, frame, 1)
    BY <1>5, <2>1, <2>2, Begun, Zenon
  <2>4. 0 < n
    BY <2>3
  <2> QED BY <1>6, <2>3, <2>4, Zenon DEF FrameAt
<1>10. PICK h \in Handshakes : h = sent[1] /\ frame[1] = HandshakeBytes(h)
  BY <1>5, <1>9 DEF WrittenAs
<1>11. /\ Len(frame[1]) = 68 /\ frame[1][29] = h.infohash /\ frame[1][49] = h.peer_id
       /\ h = [infohash |-> h.infohash, peer_id |-> h.peer_id]
  BY <1>10, HandshakeFrame, Zenon
<1>12. Take[29] = h.infohash /\ Take[49] = h.peer_id
  <2>1. 29 \in 1..68 /\ 49 \in 1..68 /\ 0 + 29 = 29 /\ 0 + 49 = 49
    OBVIOUS
  <2>2. Take[29] = all[29] /\ Take[49] = all[49]
    BY <1>8, <2>1
  <2>3. all[29] = frame[1][29] /\ all[49] = frame[1][49]
    BY <1>9, <1>11, <2>1
  <2> QED BY <1>11, <2>2, <2>3, Zenon
<1>13. received' = Append(received, h)
  <2>1. HandshakeOffset(4) + 1 = 29 /\ HandshakeOffset(5) + 1 = 49
    BY HandshakeOffsets
  <2> QED BY <1>2, <1>11, <1>12, <2>1, Zenon
<1>14. Finishes(at)
  <2>1. 0 + 68 = 68 /\ (0 + 1) + 1 = 1 + 1
    OBVIOUS
  <2> QED BY <1>3, <1>7, <1>9, <1>11, <2>1, Zenon DEF Finishes
<1>15. Len(received) < Len(sent)
  BY <1>3, <1>4, <1>9
<1>16. StreamInv'
  BY <1>1, <1>2, <1>3, <1>13, <1>14, <1>15, ReturnKeeps, Zenon
<1>17. sent' = sent /\ open' = open
  BY <1>2 DEF Ask
<1>18. sent[Len(received) + 1] = h
  BY <1>3, <1>10, 0 + 1 = 1
<1> QED BY <1>13, <1>15, <1>16, <1>17, <1>18, Zenon DEF Reads

Facing(at, k, f, skip) ==
  /\ Len(received) < Len(sent) /\ at[k] \in Nat
  /\ f \in Seq(Byte) /\ Len(f) >= 4 /\ Framed(f)
  /\ Taken(at) = at[k] + skip /\ at[k + 1] = at[k] + Len(f)
  /\ sent[k] = Foreign \/ ParsedAs(sent[k], f)
  /\ \A i \in 1..reader.asks : skip + i \in 1..Len(f) => Take[i] = f[skip + i]

(* Before a frame, and with its length taken, the reader is at its bytes.  *)
LEMMA AtFrame ==
  ASSUME StreamInv, NEW all, NEW at, NEW frame, StreamOf(all, at, frame),
         reader.pc \in {"length", "body"}, Len(arrived) >= reader.asks
  PROVE  Facing(at, Len(received) + 1, frame[Len(received) + 1],
                IF reader.pc = "body" THEN 4 ELSE 0)
<1>1. PICK n \in Nat, r \in Nat : n = Len(sent) /\ r = Len(received) /\ r <= n /\ r >= 1
  <2>1. IsSeq(sent) /\ IsSeq(received) /\ Len(received) <= Len(sent) /\ Len(received) >= 1
    BY DEF StreamInv, ReaderOK
  <2> QED BY <2>1 DEF IsSeq
<1>2. Cut(all, at, frame, n) /\ \A k \in 1..n : WrittenAs(k, sent[k], frame[k])
  BY <1>1, Zenon DEF StreamOf
<1>3. PICK a \in Nat : a = at[r + 1]
  BY <1>1, TakenIsNat, Zenon
<1>4. PICK skip \in Nat : skip = IF reader.pc = "body" THEN 4 ELSE 0
  OBVIOUS
<1>5. Taken(at) = a + skip
  BY <1>1, <1>3, <1>4, Zenon DEF Taken
<1>6. PICK asks \in Nat : asks = reader.asks /\ asks > 0
  BY DEF StreamInv, ReaderOK
<1>7. /\ \A i \in 1..asks : Take[i] = all[(a + skip) + i]
      /\ (a + skip) + asks <= Len(all)
  <2>1. reader.pc # "failed" /\ a + skip \in Nat
    OBVIOUS
  <2>2. PICK left : left = SubSeq(arrived, reader.asks + 1, Len(arrived))
    OBVIOUS
  <2> QED BY <1>5, <1>6, <2>1, <2>2, TakeIs
<1>8. /\ r < n /\ r + 1 \in 1..n /\ frame[r + 1] \in Seq(Byte)
      /\ at[(r + 1) + 1] = a + Len(frame[r + 1])
      /\ \A i \in 1..Len(frame[r + 1]) : all[a + i] = frame[r + 1][i]
  <2>1. PICK x \in Nat, k \in 1..(n + 1) : x = (a + skip) + asks /\ k = r + 1
    <3>1. (a + skip) + asks \in Nat
      OBVIOUS
    <3>2. r + 1 \in 1..(n + 1)
      BY <1>1
    <3> QED BY <3>1, <3>2, Zenon
  <2>2. x > a /\ x <= Len(all)
    BY <1>6, <1>7, <2>1
  <2>3. x > at[k]
    BY <1>3, <2>1, <2>2
  <2>4. k \in 1..n /\ FrameAt(all, at, frame, k)
    BY <1>2, <2>2, <2>3, Begun, Zenon
  <2>5. r < n
    BY <2>1, <2>4
  <2> QED BY <1>3, <2>1, <2>4, <2>5, Zenon DEF FrameAt
<1>9. /\ Framed(frame[r + 1])
      /\ sent[r + 1] = Foreign \/ ParsedAs(sent[r + 1], frame[r + 1])
  <2>1. r + 1 # 1
    BY <1>1
  <2> QED BY <1>2, <1>8, <2>1, Zenon DEF WrittenAs
<1>10. Len(frame[r + 1]) >= 4
  BY <1>9 DEF Framed
<1>11. ASSUME NEW i \in 1..asks, skip + i \in 1..Len(frame[r + 1])
       PROVE  Take[i] = frame[r + 1][skip + i]
  <2>1. (a + skip) + i = a + (skip + i)
    OBVIOUS
  <2>2. all[a + (skip + i)] = frame[r + 1][skip + i]
    BY <1>8, <1>11, Zenon
  <2> QED BY <1>7, <2>1, <2>2
<1> QED BY <1>1, <1>3, <1>4, <1>5, <1>6, <1>8, <1>9, <1>10, <1>11, Zenon DEF Facing

LEMMA LengthRead ==
  ASSUME StreamInv, read_message
  PROVE  StreamInv' /\ (Reads \/ UNCHANGED <<sent, received, open>>)
<1>1. PICK all, at, frame : StreamOf(all, at, frame)
  BY DEF StreamInv
<1>2. /\ reader.pc = "length" /\ Len(arrived) >= reader.asks
      /\ FromBigEndian(Take) = 0 =>
           received' = Append(received, [type |-> "Keepalive"]) /\ Ask("length", 4)
      /\ FromBigEndian(Take) # 0 => Ask("body", FromBigEndian(Take)) /\ received' = received
  BY DEF read_message, Completes
<1>3. reader.asks = 4 /\ reader.pc # "failed" /\ reader.pc # "body"
  BY <1>2 DEF StreamInv, ReaderOK
<1>4. PICK k, f : k = Len(received) + 1 /\ f = frame[k]
  OBVIOUS
<1>5. Facing(at, k, f, 0)
  BY <1>1, <1>2, <1>3, <1>4, AtFrame
<1>6. PICK a \in Nat, l \in Nat : a = at[k] /\ l + 4 = Len(f)
  <2>1. PICK L \in Nat : L = Len(f) /\ L >= 4
    BY <1>5 DEF Facing
  <2>2. L - 4 \in Nat /\ (L - 4) + 4 = L
    BY <2>1
  <2>3. at[k] \in Nat
    BY <1>5 DEF Facing
  <2> QED BY <2>1, <2>2, <2>3, Zenon
<1>7. Taken(at) = a /\ at[k + 1] = a + (l + 4) /\ Len(received) < Len(sent)
  BY <1>5, <1>6 DEF Facing
<1>8. PICK left : left = SubSeq(arrived, reader.asks + 1, Len(arrived))
  OBVIOUS
<1>9. /\ Take \in Seq(Byte) /\ Len(Take) = 4 /\ left \in Seq(Byte)
      /\ OnTheWay(all, a + 4, left, wire)
      /\ open => Whole(all, a + 4, left, wire)
  BY <1>1, <1>2, <1>3, <1>7, <1>8, TakeIs
<1>10. FromBigEndian(Take) = l
  <2>1. Framed(f) /\ Len(f) - 4 = l
    BY <1>5, <1>6 DEF Facing
  <2>2. l \div 256^3 < 256 /\ \A j \in 1..4 : f[j] = BigEndian(4, l)[j]
    BY <2>1, Zenon DEF Framed
  <2>3. \A j \in 1..4 : j \in 1..Len(f) /\ 0 + j = j
    BY <1>6
  <2>4. \A j \in 1..4 : Take[j] = f[j]
    BY <1>3, <1>5, <2>3 DEF Facing
  <2>5. \A j \in 1..4 : Take[j] = BigEndian(4, l)[j]
    BY <2>2, <2>4, Zenon
  <2>6. l \div 256^(4 - 1) < 256
    BY <2>2, 4 - 1 = 3
  <2> QED BY <1>9, <2>5, <2>6, RoundTrip
<1>11. CASE l = 0
  <2>1. /\ received' = Append(received, [type |-> "Keepalive"]) /\ Ask("length", 4)
    BY <1>2, <1>10, <1>11
  <2>2. Finishes(at)
    <3>1. a + 4 = a + (l + 4)
      BY <1>11
    <3> QED BY <1>3, <1>4, <1>7, <3>1, Zenon DEF Finishes
  <2>3. StreamInv'
    BY <1>1, <1>2, <1>3, <1>7, <2>1, <2>2, ReturnKeeps, Zenon
  <2>4. sent[k] = Foreign
    <3>1. ~(Len(f) > 4)
      <4>1. 4 = Len(f)
        <5>1. l + 4 = 4
          BY <1>11
        <5> QED BY <1>6, <5>1, Zenon
      <4>2. ~(4 > 4)
        OBVIOUS
      <4> QED BY <4>1, <4>2, Zenon
    <3> QED BY <1>5, <3>1, Zenon DEF Facing, ParsedAs
  <2>5. sent' = sent /\ open' = open
    BY <2>1 DEF Ask
  <2> QED BY <1>4, <1>7, <2>1, <2>3, <2>4, <2>5, Zenon DEF Reads
<1>12. CASE l # 0
  <2>1. /\ received' = received /\ arrived' = left /\ wire' = wire /\ open' = open
        /\ sent' = sent /\ reader' = [pc |-> "body", asks |-> l]
    BY <1>2, <1>8, <1>10, <1>12 DEF Ask
  <2>2. reader'.pc = "body" /\ reader'.asks = l /\ l > 0
        /\ reader' \in [pc : {"handshake", "length", "body", "failed"}, asks : Nat]
    BY <1>12, <2>1
  <2>3. Taken(at)' = a + 4
    BY <1>4, <1>6, <2>1, <2>2, Zenon DEF Taken
  <2>4. l = Len(f) - 4
    BY <1>6
  <2>5. StreamOf(all, at, frame)'
    <3>1. /\ Cut(all, at, frame, Len(sent))
          /\ \A j \in 1..Len(sent) : WrittenAs(j, sent[j], frame[j])
      BY <1>1, Zenon DEF StreamOf
    <3> QED BY <1>4, <1>7, <1>9, <2>1, <2>2, <2>3, <2>4, <3>1, Zenon DEF StreamOf
  <2>6. \E b, c, d : StreamOf(b, c, d)'
    BY <2>5, Zenon
  <2>7. Len(received) >= 1
    BY <1>2 DEF StreamInv, ReaderOK
  <2>8. ReaderOK'
    BY <2>1, <2>2, <2>7 DEF ReaderOK
  <2>9. /\ wire \in Seq(Byte) /\ open \in BOOLEAN /\ (~open => wire = <<>>)
        /\ IsSeq(sent) /\ IsSeq(received) /\ Len(received) <= Len(sent)
    BY DEF StreamInv
  <2>10. StreamInv'
    BY <1>9, <2>1, <2>6, <2>8, <2>9, Zenon DEF StreamInv, IsSeq
  <2> QED BY <2>1, <2>10
<1> QED BY <1>11, <1>12

LEMMA BodyRead ==
  ASSUME StreamInv, ReadBody
  PROVE  StreamInv' /\ Reads
<1>1. PICK all, at, frame : StreamOf(all, at, frame)
  BY DEF StreamInv
<1>2. /\ reader.pc = "body" /\ Len(arrived) >= reader.asks /\ Ask("length", 4)
      /\ received' = Append(received, parse_message(NativeEndian(4, reader.asks) \o Take))
  BY DEF ReadBody, Completes
<1>3. PICK k, f : k = Len(received) + 1 /\ f = frame[k]
  OBVIOUS
<1>4. Facing(at, k, f, 4)
  BY <1>1, <1>2, <1>3, AtFrame
<1>5. PICK a \in Nat, l \in Nat : a = at[k] /\ l + 4 = Len(f)
  <2>1. PICK L \in Nat : L = Len(f) /\ L >= 4
    BY <1>4 DEF Facing
  <2>2. L - 4 \in Nat /\ (L - 4) + 4 = L
    BY <2>1
  <2>3. at[k] \in Nat
    BY <1>4 DEF Facing
  <2> QED BY <2>1, <2>2, <2>3, Zenon
<1>6. Taken(at) = a + 4 /\ at[k + 1] = a + (l + 4) /\ Len(received) < Len(sent)
  BY <1>4, <1>5 DEF Facing
<1>7. reader.asks = l
  <2>1. reader.asks = Len(f) - 4
    BY <1>1, <1>2, <1>3, Zenon DEF StreamOf
  <2> QED BY <1>5, <2>1
<1>8. Finishes(at)
  <2>1. (a + 4) + l = a + (l + 4)
    OBVIOUS
  <2> QED BY <1>3, <1>6, <1>7, <2>1, Zenon DEF Finishes
<1>9. PICK data, x : data = NativeEndian(4, l) \o Take /\ x = parse_message(data)
  OBVIOUS
<1>10. received' = Append(received, x) /\ reader.pc # "failed"
  BY <1>2, <1>7, <1>9
<1>11. StreamInv'
  BY <1>1, <1>2, <1>6, <1>8, <1>10, ReturnKeeps, Zenon
<1>12. Take \in Seq(Byte) /\ Len(Take) = l
  <2>1. PICK left : left = SubSeq(arrived, reader.asks + 1, Len(arrived))
    OBVIOUS
  <2>2. PICK p \in Nat : p = Taken(at)
    BY <1>1, TakenIsNat, Zenon
  <2> QED BY <1>1, <1>2, <1>7, <1>10, <2>1, <2>2, TakeIs
<1>13. /\ data \in Seq(Byte) /\ Len(data) = Len(f)
       /\ \A i \in 5..Len(f) : data[i] = f[i]
  <2>1. PICK number \in Seq(Byte) : number = NativeEndian(4, l) /\ Len(number) = 4
    BY NativeIs
  <2>2. data \in Seq(Byte) /\ TwoParts(data, number, Take)
    BY <1>9, <1>12, <2>1, Joined, Zenon
  <2>3. Len(data) = 4 + l /\ \A i \in 1..l : data[4 + i] = Take[i]
    BY <1>12, <2>1, <2>2, Zenon DEF TwoParts
  <2>4. Len(data) = Len(f)
    BY <1>5, <2>3
  <2>5. \A i \in 1..l : Take[i] = f[4 + i]
    <3>1. \A i \in 1..l : 4 + i \in 1..Len(f)
      BY <1>5
    <3> QED BY <1>4, <1>7, <3>1 DEF Facing
  <2>6. ASSUME NEW i \in 5..Len(f)
        PROVE  data[i] = f[i]
    <3>1. PICK j \in 1..l : i = 4 + j
      <4>1. i - 4 \in 1..l /\ i = 4 + (i - 4)
        BY <1>5
      <4> QED BY <4>1
    <3> QED BY <2>3, <2>5, <3>1
  <2> QED BY <2>2, <2>4, <2>6
<1>14. sent[k] # Foreign => Shape(x) = Shape(sent[k])
  BY <1>4, <1>9, <1>13, Zenon DEF Facing, ParsedAs
<1>15. sent' = sent /\ open' = open
  BY <1>2 DEF Ask
<1> QED BY <1>3, <1>6, <1>10, <1>11, <1>14, <1>15, Zenon DEF Reads

LEMMA LiteralIsSeq ==
  ASSUME NEW n \in Nat, NEW f, f = [k \in 1..n |-> f[k]]
  PROVE  IsSeq(f) /\ Len(f) = n
<1> DEFINE S == {f[k] : k \in 1..n}
<1>1. f \in [1..n -> S]
  OBVIOUS
<1> HIDE DEF S
<1>2. Len(f) = n
  BY <1>1, FunctionIsSeq, Zenon
<1> QED BY <1>2, Zenon DEF IsSeq

LEMMA StreamInit == Init => StreamInv
<1> SUFFICES ASSUME Init PROVE StreamInv
  OBVIOUS
<1>1. /\ wire = <<>> /\ arrived = <<>> /\ open = TRUE /\ sent = <<>> /\ received = <<>>
      /\ reader = [pc |-> "handshake", asks |-> 68]
  BY HandshakeOffsets, Zenon DEF Init
<1>2. reader.pc = "handshake" /\ reader.asks = 68
  BY <1>1
<1>3. PICK none : none = <<>>
  OBVIOUS
<1>4. none \in Seq(Byte) /\ Len(none) = 0 /\ 0 \in Nat /\ none = [k \in 1..0 |-> none[k]]
  BY <1>3
<1>5. IsSeq(none)
  BY <1>4, Zenon DEF IsSeq
<1> DEFINE at == [k \in Nat |-> 0]
           frame == [k \in Nat |-> none]
<1>6. at \in [Nat -> Nat] /\ frame \in [Nat -> Seq(Byte)] /\ at[1] = 0 /\ at[0 + 1] = 0
  BY <1>4
<1> HIDE DEF at, frame
<1>7. Cut(none, at, frame, 0)
  <2>1. ~(\E k \in 1..0 : TRUE)
    OBVIOUS
  <2> QED BY <1>4, <1>6, <2>1, Zenon DEF Cut
<1>8. Taken(at) = 0
  <2>1. 0 + 0 = 0 /\ reader.pc # "body"
    BY <1>2
  <2> QED BY <1>1, <1>3, <1>4, <1>6, <2>1, Zenon DEF Taken
<1>9. Whole(none, 0, none, none) /\ OnTheWay(none, 0, none, none)
  <2>1. 0 + 0 + 0 = 0 /\ 0 + 0 + 0 <= 0 /\ ~(\E k \in 1..0 : TRUE)
    OBVIOUS
  <2> QED BY <1>4, <2>1, Zenon DEF Whole, OnTheWay
<1>10. StreamOf(none, at, frame)
  <2>1. reader.pc # "body" /\ ~(\E k \in 1..0 : TRUE)
    BY <1>2
  <2> QED BY <1>1, <1>3, <1>4, <1>7, <1>8, <1>9, <2>1, Zenon DEF StreamOf
<1>11. ReaderOK
  BY <1>1, <1>2, <1>3, <1>4 DEF ReaderOK
<1>12. \E a, b, c : StreamOf(a, b, c)
  BY <1>10, Zenon
<1>13. 0 <= 0 /\ open \in BOOLEAN
  BY <1>1
<1> QED BY <1>1, <1>3, <1>4, <1>5, <1>11, <1>12, <1>13, Zenon DEF StreamInv

(* A write, and what the abstract stream is given by it. *)
Writes ==
  /\ \E what \in Messages \cup {Foreign} \cup Handshakes : sent' = Append(sent, what)
  /\ open /\ open' = open /\ received' = received

LEMMA HandshakeSent ==
  ASSUME StreamInv, send_handshake
  PROVE  StreamInv' /\ Writes
<1>1. PICK h \in Handshakes : Write(HandshakeBytes(h), h)
  BY DEF send_handshake
<1>2. Len(sent) + 1 = 1
  <2>1. sent = <<>>
    BY DEF send_handshake
  <2> QED BY <2>1
<1>3. WrittenAs(Len(sent) + 1, h, HandshakeBytes(h))
  BY <1>2, Zenon DEF WrittenAs
<1>4. HandshakeBytes(h) \in Seq(Byte)
  BY HandshakeFrame, Zenon
<1>5. StreamInv'
  BY <1>1, <1>3, <1>4, WriteKeeps, Zenon
<1> QED BY <1>1, <1>5, Zenon DEF Write, Writes

LEMMA MessageSent ==
  ASSUME StreamInv, NEW m \in Messages, send_message(m)
  PROVE  StreamInv' /\ Writes
<1>1. PICK payload, bytes :
        /\ payload \in Payloads(m)
        /\ bytes = metadata(m.type, payload) \o FieldBytes(m) \o payload
        /\ Write(bytes, m)
  BY DEF send_message
<1>2. m.type \in Selected(m) /\ Len(sent) + 1 # 1
  <2>1. m.type \in Selected(m) /\ Len(sent) \in 1..MaxSent
    BY DEF send_message, MaySend
  <2> QED BY <2>1
<1>3. Framed(bytes) /\ ParsedAs(m, bytes)
  BY <1>1, <1>2, MessageFrame
<1>4. bytes \in Seq(Byte)
  BY <1>3, Zenon DEF Framed
<1>5. WrittenAs(Len(sent) + 1, m, bytes)
  BY <1>2, <1>3, Zenon DEF WrittenAs
<1>6. StreamInv'
  BY <1>1, <1>4, <1>5, WriteKeeps, Zenon
<1> QED BY <1>1, <1>6, Zenon DEF Write, Writes

LEMMA ForeignSent ==
  ASSUME StreamInv, NEW body \in Frames, SendForeign(body)
  PROVE  StreamInv' /\ Writes
<1>1. PICK bytes : bytes = BigEndian(4, Len(body)) \o body /\ Write(bytes, Foreign)
  BY DEF SendForeign
<1>2. Len(sent) + 1 # 1
  <2>1. Len(sent) \in 1..MaxSent
    BY DEF SendForeign, MaySend
  <2> QED BY <2>1
<1>3. Framed(bytes)
  BY <1>1, ForeignFrame
<1>4. bytes \in Seq(Byte)
  BY <1>3, Zenon DEF Framed
<1>5. WrittenAs(Len(sent) + 1, Foreign, bytes)
  BY <1>2, <1>3, Zenon DEF WrittenAs
<1>6. StreamInv'
  BY <1>1, <1>4, <1>5, WriteKeeps, Zenon
<1> QED BY <1>1, <1>6, Zenon DEF Write, Writes

Breaks == open /\ open' = FALSE /\ UNCHANGED <<sent, received>>

LEMMA StreamNext ==
  ASSUME StreamInv, [Next]_vars
  PROVE  StreamInv' /\ (Writes \/ Reads \/ Breaks \/ UNCHANGED <<sent, received, open>>)
<1>1. CASE send_handshake
  BY <1>1, HandshakeSent, Zenon
<1>2. ASSUME NEW m \in Messages, send_message(m)
      PROVE  StreamInv' /\ Writes
  BY <1>2, MessageSent, Zenon
<1>3. ASSUME NEW body \in Frames, SendForeign(body)
      PROVE  StreamInv' /\ Writes
  BY <1>3, ForeignSent, Zenon
<1>4. CASE Deliver
  <2>1. UNCHANGED <<sent, received, open>>
    BY <1>4 DEF Deliver
  <2> QED BY <1>4, <2>1, DeliverKeeps, Zenon
<1>5. CASE Lose
  <2>1. Breaks
    BY <1>5 DEF Lose, Breaks
  <2> QED BY <1>5, <2>1, LoseKeeps, Zenon
<1>6. CASE read_handshake
  BY <1>6, HandshakeRead, Zenon
<1>7. CASE read_message
  BY <1>7, LengthRead, Zenon
<1>8. CASE ReadBody
  BY <1>8, BodyRead, Zenon
<1>9. CASE ReadFails
  <2>1. UNCHANGED <<sent, received, open>>
    BY <1>9 DEF ReadFails
  <2> QED BY <1>9, <2>1, FailKeeps, Zenon
<1>10. CASE UNCHANGED vars
  <2>1. /\ wire' = wire /\ arrived' = arrived /\ reader' = reader /\ open' = open
        /\ sent' = sent /\ received' = received
    BY <1>10 DEF vars
  <2>2. ReaderOK' = ReaderOK
    BY <2>1, Zenon DEF ReaderOK
  <2>3. PICK all, at, frame : StreamOf(all, at, frame)
    BY DEF StreamInv
  <2>4. StreamOf(all, at, frame)'
    BY <2>1, <2>3, Zenon DEF StreamOf, Taken
  <2>5. \E a, b, c : StreamOf(a, b, c)'
    BY <2>4, Zenon
  <2>6. StreamInv'
    BY <2>1, <2>2, <2>5, Zenon DEF StreamInv, IsSeq
  <2> QED BY <2>1, <2>6
<1> QED BY <1>1, <1>2, <1>3, <1>4, <1>5, <1>6, <1>7, <1>8, <1>9, <1>10, Zenon DEF Next

(* All that was ever written is a sequence of whole frames, each the bytes *)
(* of one handshake, message or foreign frame, and what has arrived and    *)
(* what is on its way are the bytes of it that the reader has not taken:   *)
(* read_handshake and read_message (transmit.cpp:159-193) always stand at  *)
(* the start of a frame, or behind the length of one, whatever was sent.   *)
THEOREM StreamInvariant == Spec => []StreamInv
<1>1. StreamInv /\ [Next]_vars => StreamInv'
  BY StreamNext, Zenon
<1> QED BY <1>1, StreamInit, PTL DEF Spec

-----------------------------------------------------------------------------
(* The refinement of MessageStream *)

SentShapes == [k \in DOMAIN sent |-> Shape(sent[k])]

ReceivedShapes ==
  [k \in DOMAIN received |-> IF sent[k] = Foreign THEN Foreign ELSE Shape(received[k])]

LEMMA IsAppend ==
  ASSUME NEW u, IsSeq(u), NEW v, IsSeq(v), NEW y, Len(v) = Len(u) + 1,
         \A k \in 1..Len(u) : v[k] = u[k], v[Len(u) + 1] = y
  PROVE  v = Append(u, y)
<1>1. PICK w : w = Append(u, y)
  OBVIOUS
<1>2. /\ IsSeq(w) /\ Len(w) = Len(u) + 1 /\ w[Len(u) + 1] = y
      /\ \A k \in 1..Len(u) : w[k] = u[k]
  <2>1. /\ IsSeq(Append(u, y)) /\ Len(Append(u, y)) = Len(u) + 1
        /\ \A k \in 1..Len(u) : Append(u, y)[k] = u[k]
        /\ Append(u, y)[Len(u) + 1] = y
    BY AppendIs
  <2> QED BY <1>1, <2>1, Zenon
<1>3. PICK n \in Nat : n = Len(u)
  BY DEF IsSeq
<1>4. \A k \in 1..(n + 1) : v[k] = w[k]
  <2>1. \A k \in 1..(n + 1) : k \in 1..n \/ k = n + 1
    BY <1>3
  <2> QED BY <1>2, <1>3, <2>1, Zenon
<1>5. v = [k \in 1..(n + 1) |-> v[k]] /\ w = [k \in 1..(n + 1) |-> w[k]]
  BY <1>2, <1>3, Zenon DEF IsSeq
<1>6. v = w
  BY <1>4, <1>5
<1> QED BY <1>1, <1>6

LEMMA SeqDomain ==
  ASSUME NEW s, IsSeq(s)
  PROVE  DOMAIN s = 1..Len(s)
<1>1. PICK n : n = Len(s)
  OBVIOUS
<1>2. s = [k \in 1..n |-> s[k]]
  BY <1>1, Zenon DEF IsSeq
<1>3. DOMAIN s = 1..n
  BY <1>2, Zenon
<1> QED BY <1>1, <1>3

LEMMA ShapesAre ==
  ASSUME IsSeq(sent), IsSeq(received), Len(received) <= Len(sent)
  PROVE  /\ IsSeq(SentShapes) /\ Len(SentShapes) = Len(sent)
         /\ IsSeq(ReceivedShapes) /\ Len(ReceivedShapes) = Len(received)
         /\ \A k \in 1..Len(sent) : SentShapes[k] = Shape(sent[k])
         /\ \A k \in 1..Len(received) :
              ReceivedShapes[k] = IF sent[k] = Foreign THEN Foreign ELSE Shape(received[k])
<1>1. DOMAIN sent = 1..Len(sent) /\ DOMAIN received = 1..Len(received)
  BY SeqDomain, Zenon
<1>2. Len(sent) \in Nat /\ Len(received) \in Nat
  BY DEF IsSeq
<1>3. /\ SentShapes = [k \in 1..Len(sent) |-> SentShapes[k]]
      /\ \A k \in 1..Len(sent) : SentShapes[k] = Shape(sent[k])
  BY <1>1, Zenon DEF SentShapes
<1>4. /\ ReceivedShapes = [k \in 1..Len(received) |-> ReceivedShapes[k]]
      /\ \A k \in 1..Len(received) :
           ReceivedShapes[k] = IF sent[k] = Foreign THEN Foreign ELSE Shape(received[k])
  BY <1>1, Zenon DEF ReceivedShapes
<1> QED BY <1>2, <1>3, <1>4, LiteralIsSeq, Zenon


(* A state of the abstract stream: the shapes of what was sent and read. *)
ShapesOf(s, r, ss, rs) ==
  /\ IsSeq(ss) /\ Len(ss) = Len(s) /\ IsSeq(rs) /\ Len(rs) = Len(r)
  /\ \A k \in 1..Len(s) : ss[k] = Shape(s[k])
  /\ \A k \in 1..Len(r) : rs[k] = IF s[k] = Foreign THEN Foreign ELSE Shape(r[k])

Sendable == {Shape(m) : m \in Messages} \cup {Foreign} \cup Handshakes

LEMMA ShapeIsSendable ==
  ASSUME NEW what \in Messages \cup {Foreign} \cup Handshakes
  PROVE  Shape(what) \in Sendable
<1>1. CASE what \in Messages
  BY <1>1 DEF Sendable
<1>2. CASE what = Foreign
  <2>1. "foreign" \notin Dynamic
    BY DEF Dynamic
  <2>2. Foreign.type = "foreign"
    BY DEF Foreign
  <2>3. Shape(Foreign) = Foreign
    BY <2>1, <2>2, Zenon DEF Shape
  <2> QED BY <1>2, <2>3 DEF Sendable
<1>3. CASE what \in Handshakes
  <2>1. what \in [infohash : Byte, peer_id : Byte]
    BY <1>3, BytesAssumption
  <2>2. "type" \notin DOMAIN what
    BY <2>1
  <2>3. Shape(what) = what
    BY <2>2, Zenon DEF Shape
  <2> QED BY <1>3, <2>3 DEF Sendable
<1> QED BY <1>1, <1>2, <1>3

(* A write is a Send of the shape of what it writes. *)
LEMMA WriteIsSend ==
  ASSUME NEW s, NEW r, NEW ss, NEW rs, NEW s1, NEW ss1, NEW rs1, NEW what,
         IsSeq(s), IsSeq(r), Len(r) <= Len(s), s1 = Append(s, what),
         ShapesOf(s, r, ss, rs), ShapesOf(s1, r, ss1, rs1)
  PROVE  ss1 = Append(ss, Shape(what)) /\ rs1 = rs
<1>1. PICK n \in Nat, l \in Nat : n = Len(s) /\ l = Len(r) /\ l <= n
  BY DEF IsSeq
<1>2. /\ Len(s1) = n + 1 /\ s1[n + 1] = what
      /\ \A k \in 1..n : s1[k] = s[k]
  BY <1>1, AppendIs
<1>3. /\ \A k \in 1..n : k \in 1..(n + 1)
      /\ \A k \in 1..l : k \in 1..n
      /\ n + 1 \in 1..(n + 1)
  BY <1>1
<1>4. ss1 = Append(ss, Shape(what))
  <2>1. \A k \in 1..n : ss1[k] = ss[k]
    BY <1>1, <1>2, <1>3, Zenon DEF ShapesOf
  <2>2. ss1[n + 1] = Shape(what)
    BY <1>1, <1>2, <1>3, Zenon DEF ShapesOf
  <2>3. IsSeq(ss) /\ IsSeq(ss1) /\ Len(ss) = n /\ Len(ss1) = Len(ss) + 1
    BY <1>1, <1>2, Zenon DEF ShapesOf
  <2> QED BY <2>1, <2>2, <2>3, IsAppend, Zenon
<1>5. rs1 = rs
  <2>1. \A k \in 1..l : rs1[k] = rs[k]
    BY <1>1, <1>2, <1>3, Zenon DEF ShapesOf
  <2>2. rs = [k \in 1..l |-> rs[k]] /\ rs1 = [k \in 1..l |-> rs1[k]]
    BY <1>1, Zenon DEF ShapesOf, IsSeq
  <2> QED BY <2>1, <2>2
<1> QED BY <1>4, <1>5

(* A read is a Receive of the first of the messages not received. *)
Answers(s, r, x) == s[Len(r) + 1] # Foreign => Shape(x) = Shape(s[Len(r) + 1])

Receives(ss, rs, ss1, rs1) ==
  Len(rs) < Len(ss) /\ rs1 = Append(rs, ss[Len(rs) + 1]) /\ ss1 = ss

LEMMA ReadIsReceive ==
  ASSUME NEW s, NEW r, NEW ss, NEW rs, NEW r1, NEW ss1, NEW rs1, NEW x,
         IsSeq(s), IsSeq(r), Len(r) < Len(s), r1 = Append(r, x),
         Answers(s, r, x),
         ShapesOf(s, r, ss, rs), ShapesOf(s, r1, ss1, rs1)
  PROVE  Receives(ss, rs, ss1, rs1)
<1>1. PICK n \in Nat, l \in Nat : n = Len(s) /\ l = Len(r) /\ l < n
  BY DEF IsSeq
<1>2. /\ Len(r1) = l + 1 /\ r1[l + 1] = x
      /\ \A k \in 1..l : r1[k] = r[k]
  BY <1>1, AppendIs
<1>3. /\ \A k \in 1..l : k \in 1..(l + 1)
      /\ l + 1 \in 1..(l + 1) /\ l + 1 \in 1..n
  BY <1>1
<1>4. rs1 = Append(rs, ss[l + 1])
  <2>1. \A k \in 1..l : rs1[k] = rs[k]
    BY <1>1, <1>2, <1>3, Zenon DEF ShapesOf
  <2>2. ss[l + 1] = Shape(s[l + 1])
    BY <1>1, <1>3, Zenon DEF ShapesOf
  <2>3. rs1[l + 1] = IF s[l + 1] = Foreign THEN Foreign ELSE Shape(x)
    BY <1>1, <1>2, <1>3, Zenon DEF ShapesOf
  <2>4. rs1[l + 1] = ss[l + 1]
    <3>1. CASE s[l + 1] = Foreign
      <4>1. Shape(Foreign) = Foreign
        <5>1. "foreign" \notin Dynamic
          BY DEF Dynamic
        <5>2. Foreign.type = "foreign"
          BY DEF Foreign
        <5> QED BY <5>1, <5>2, Zenon DEF Shape
      <4> QED BY <2>2, <2>3, <3>1, <4>1, Zenon
    <3>2. CASE s[l + 1] # Foreign
      BY <1>1, <2>2, <2>3, <3>2, Zenon DEF Answers
    <3> QED BY <3>1, <3>2
  <2>5. IsSeq(rs) /\ IsSeq(rs1) /\ Len(rs) = l /\ Len(rs1) = Len(rs) + 1
    BY <1>1, <1>2, Zenon DEF ShapesOf
  <2> QED BY <2>1, <2>4, <2>5, IsAppend, Zenon
<1>5. ss1 = ss
  <2>1. \A k \in 1..n : ss1[k] = ss[k]
    BY <1>1, Zenon DEF ShapesOf
  <2>2. ss = [k \in 1..n |-> ss[k]] /\ ss1 = [k \in 1..n |-> ss1[k]]
    BY <1>1, Zenon DEF ShapesOf, IsSeq
  <2> QED BY <2>1, <2>2
<1>6. Len(rs) = l /\ Len(ss) = n
  BY <1>1, Zenon DEF ShapesOf
<1> QED BY <1>1, <1>4, <1>5, <1>6 DEF Receives

Shaped == ShapesOf(sent, received, SentShapes, ReceivedShapes)

LEMMA InvariantShapes == StreamInv => Shaped
<1>1. StreamInv => IsSeq(sent) /\ IsSeq(received) /\ Len(received) <= Len(sent)
  BY Zenon DEF StreamInv
<1> QED BY <1>1, ShapesAre, Zenon DEF Shaped, ShapesOf

StreamStep == [Stream!Next]_<<SentShapes, ReceivedShapes, open>>

LEMMA WritesStep ==
  ASSUME StreamInv, Shaped, Shaped', Writes
  PROVE  StreamStep
<1>1. PICK what \in Messages \cup {Foreign} \cup Handshakes : sent' = Append(sent, what)
  BY Zenon DEF Writes
<1>2. /\ ShapesOf(sent, received, SentShapes, ReceivedShapes)
      /\ ShapesOf(sent', received, SentShapes', ReceivedShapes')
  BY Zenon DEF Shaped, Writes, ShapesOf, IsSeq
<1>3. SentShapes' = Append(SentShapes, Shape(what)) /\ ReceivedShapes' = ReceivedShapes
  <2>1. IsSeq(sent) /\ IsSeq(received) /\ Len(received) <= Len(sent)
    BY Zenon DEF StreamInv
  <2> QED BY <1>1, <1>2, <2>1, WriteIsSend, Zenon
<1>4. Shape(what) \in Sendable
  BY <1>1, ShapeIsSendable, Zenon
<1>5. Stream!Send
  BY <1>3, <1>4, Zenon DEF Writes, Stream!Send, SentShapes, ReceivedShapes, Sendable
<1> QED BY <1>5, Zenon DEF StreamStep, Stream!Next

LEMMA ReadsStep ==
  ASSUME StreamInv, Shaped, Shaped', Reads
  PROVE  StreamStep
<1>1. PICK x : received' = Append(received, x) /\ Answers(sent, received, x)
  BY Zenon DEF Reads, Answers
<1>2. /\ ShapesOf(sent, received, SentShapes, ReceivedShapes)
      /\ ShapesOf(sent, received', SentShapes', ReceivedShapes')
  BY Zenon DEF Shaped, Reads, ShapesOf, IsSeq
<1>3. Receives(SentShapes, ReceivedShapes, SentShapes', ReceivedShapes')
  <2>1. IsSeq(sent) /\ IsSeq(received) /\ Len(received) < Len(sent)
    BY Zenon DEF StreamInv, Reads
  <2> QED BY <1>1, <1>2, <2>1, ReadIsReceive, Zenon
<1>4. open' = open
  BY DEF Reads
<1>5. Stream!Receive
  BY <1>3, <1>4, Zenon DEF Receives, Stream!Receive, SentShapes, ReceivedShapes
<1> QED BY <1>5, Zenon DEF StreamStep, Stream!Next

LEMMA QuietStep ==
  ASSUME Breaks \/ UNCHANGED <<sent, received, open>>
  PROVE  StreamStep
<1>1. sent' = sent /\ received' = received
  BY DEF Breaks
<1>2. SentShapes' = SentShapes /\ ReceivedShapes' = ReceivedShapes
  BY <1>1, Zenon DEF SentShapes, ReceivedShapes
<1>3. CASE Breaks
  <2>1. open /\ open' = FALSE
    BY <1>3 DEF Breaks
  <2>2. Stream!Break
    BY <1>2, <2>1 DEF Stream!Break, SentShapes, ReceivedShapes
  <2> QED BY <2>2, Zenon DEF StreamStep, Stream!Next
<1>4. CASE UNCHANGED <<sent, received, open>>
  BY <1>2, <1>4 DEF StreamStep
<1> QED BY <1>3, <1>4

(* Whatever sizes the bytes come in, and whatever frames other clients mix *)
(* in, the two ends of a connection are a MessageStream: read_handshake    *)
(* and read_message (transmit.cpp:113-193) return each message that        *)
(* send_handshake and send_message (transmit.cpp:10-99, 195-201) wrote,    *)
(* once, in order and as it was; an error costs no more than its frame.    *)
THEOREM TransmitImplementsMessageStream == Spec => ImplementsMessageStream
<1>1. Init => Stream!Init
  <2> SUFFICES ASSUME Init PROVE Stream!Init
    OBVIOUS
  <2>1. sent = <<>> /\ received = <<>> /\ open = TRUE
    BY Zenon DEF Init
  <2> QED BY <2>1 DEF Stream!Init
<1>2. StreamInv /\ Shaped /\ Shaped' /\ [Next]_vars => StreamStep
  BY StreamNext, WritesStep, ReadsStep, QuietStep, Zenon
<1>3. StreamStep =>
        [Stream!Next]_<<[k \in DOMAIN sent |-> Shape(sent[k])],
                        [k \in DOMAIN received |->
                           IF sent[k] = Foreign THEN Foreign ELSE Shape(received[k])],
                        open>>
  BY DEF StreamStep, SentShapes, ReceivedShapes
<1> QED
  BY <1>1, <1>2, <1>3, InvariantShapes, StreamInvariant, PTL
     DEF Spec, ImplementsMessageStream, Stream!Spec

=============================================================================
