----------------------------- MODULE BlockProofs -----------------------------
(***************************************************************************)
(* Proofs about the blocks of a Downloader, for every geometry, policy and *)
(* remote peer: none is forgotten, no slot of m_active_requests is lost,   *)
(* the byte count says when a piece is whole, and what the strategy sees   *)
(* of it all is PieceWork.  Where a request can be answered twice          *)
(* (SecondCopies), the same proofs say what remains true.                  *)
(***************************************************************************)
EXTENDS DownloaderProofs, WellFoundedInduction

-----------------------------------------------------------------------------
(***************************************************************************)
(* Chokes: a remote peer that chokes us has no requests of ours, and we    *)
(* know of it or its Choke is coming with no Unchoke behind it; we have no *)
(* active requests once we know.                                           *)
(***************************************************************************)
Silent(line, j) == \A i \in DOMAIN line : i > j => line[i].type # "Unchoke"

Comes(line) == \E j \in DOMAIN line : line[j].type = "Choke" /\ Silent(line, j)

ChokeComes ==
  remote.choking => (status.self_choked /\ Silent(inbound, 0)) \/ Comes(inbound)

ChokedHasNone == status.self_choked => m_active_requests = {}

RemoteDrops == remote.choking => remote.requests = <<>>

Chokes == ChokeComes /\ ChokedHasNone /\ RemoteDrops

(* The signals in a line that grows and shrinks. *)
LEMMA AppendAt ==
  ASSUME NEW S, NEW s \in Seq(S), NEW m \in S
  PROVE  /\ Len(s) \in Nat
         /\ DOMAIN s = 1..Len(s)
         /\ DOMAIN Append(s, m) = 1..(Len(s) + 1)
         /\ Append(s, m)[Len(s) + 1] = m
         /\ \A i \in DOMAIN s : Append(s, m)[i] = s[i]
OBVIOUS

LEMMA TailAt ==
  ASSUME NEW S, NEW s \in Seq(S), s # <<>>
  PROVE  /\ Len(s) \in Nat \ {0}
         /\ DOMAIN s = 1..Len(s)
         /\ DOMAIN Tail(s) = 1..(Len(s) - 1)
         /\ s[1] = Head(s)
         /\ \A i \in DOMAIN Tail(s) : Tail(s)[i] = s[i + 1]
OBVIOUS

LEMMA SignalsAppend ==
  ASSUME NEW line \in Seq(Incoming), NEW m \in Incoming
  PROVE  /\ m.type # "Unchoke" => /\ Silent(line, 0) => Silent(Append(line, m), 0)
                                  /\ Comes(line) => Comes(Append(line, m))
         /\ m.type = "Choke" => Comes(Append(line, m))
<1> DEFINE s == Append(line, m)
           n == Len(line)
<1>1. /\ n \in Nat /\ DOMAIN line = 1..n /\ DOMAIN s = 1..(n + 1)
      /\ s[n + 1] = m /\ \A i \in DOMAIN line : s[i] = line[i]
  BY AppendAt
<1> HIDE DEF s, n
<1>2. ASSUME m.type # "Unchoke", NEW j \in Nat, Silent(line, j)
      PROVE  Silent(s, j)
  <2> SUFFICES ASSUME NEW i \in DOMAIN s, i > j PROVE s[i].type # "Unchoke"
    BY DEF Silent
  <2>1. CASE i = n + 1
    BY <1>1, <1>2, <2>1
  <2>2. CASE i # n + 1
    <3>1. i \in DOMAIN line
      BY <1>1, <2>2
    <3> QED BY <1>1, <1>2, <3>1 DEF Silent
  <2> QED BY <2>1, <2>2
<1>3. ASSUME m.type # "Unchoke", Comes(line)
      PROVE  Comes(s)
  <2>1. PICK j \in DOMAIN line : line[j].type = "Choke" /\ Silent(line, j)
    BY <1>3 DEF Comes
  <2>2. j \in DOMAIN s /\ j \in Nat /\ s[j].type = "Choke"
    BY <1>1, <2>1
  <2>3. Silent(s, j)
    BY <1>2, <1>3, <2>1, <2>2
  <2> QED BY <2>2, <2>3 DEF Comes
<1>4. ASSUME m.type = "Choke"
      PROVE  Comes(s)
  <2>1. n + 1 \in DOMAIN s /\ s[n + 1].type = "Choke"
    BY <1>1, <1>4
  <2>2. Silent(s, n + 1)
    BY <1>1 DEF Silent
  <2> QED BY <2>1, <2>2 DEF Comes
<1> QED BY <1>2, <1>3, <1>4 DEF s

LEMMA SignalsTail ==
  ASSUME NEW line \in Seq(Incoming), line # <<>>
  PROVE  /\ Silent(line, 0) => Silent(Tail(line), 0) /\ Head(line).type # "Unchoke"
         /\ Comes(line) => \/ Comes(Tail(line))
                           \/ Head(line).type = "Choke" /\ Silent(Tail(line), 0)
<1> DEFINE s == Tail(line)
           n == Len(line)
<1>1. /\ n \in Nat \ {0} /\ DOMAIN line = 1..n /\ DOMAIN s = 1..(n - 1)
      /\ line[1] = Head(line) /\ \A i \in DOMAIN s : s[i] = line[i + 1]
  BY TailAt
<1> HIDE DEF s, n
<1>2. ASSUME NEW j \in Nat, Silent(line, j + 1)
      PROVE  Silent(s, j)
  <2> SUFFICES ASSUME NEW i \in DOMAIN s, i > j PROVE s[i].type # "Unchoke"
    BY DEF Silent
  <2>1. i + 1 \in DOMAIN line /\ i + 1 > j + 1
    BY <1>1
  <2> QED BY <1>1, <1>2, <2>1 DEF Silent
<1>3. ASSUME Silent(line, 0)
      PROVE  Silent(s, 0) /\ Head(line).type # "Unchoke"
  <2>1. 1 \in DOMAIN line /\ 1 > 0
    BY <1>1
  <2>2. Silent(line, 0 + 1)
    BY <1>1, <1>3 DEF Silent
  <2>3. Silent(s, 0)
    BY <1>2, <2>2
  <2> QED BY <1>1, <1>3, <2>1, <2>3 DEF Silent
<1>4. ASSUME Comes(line)
      PROVE  Comes(s) \/ (Head(line).type = "Choke" /\ Silent(s, 0))
  <2>1. PICK j \in DOMAIN line : line[j].type = "Choke" /\ Silent(line, j)
    BY <1>4 DEF Comes
  <2>2. CASE j = 1
    <3>1. Silent(line, 0 + 1)
      BY <2>1, <2>2
    <3>2. Silent(s, 0)
      BY <1>2, <3>1
    <3> QED BY <1>1, <2>1, <2>2, <3>2
  <2>3. CASE j # 1
    <3>1. j - 1 \in DOMAIN s /\ j - 1 \in Nat /\ (j - 1) + 1 = j
      BY <1>1, <2>3
    <3>2. Silent(s, j - 1)
      BY <1>2, <2>1, <3>1
    <3>3. s[j - 1].type = "Choke"
      BY <1>1, <2>1, <3>1
    <3> QED BY <3>1, <3>2, <3>3 DEF Comes
  <2> QED BY <2>2, <2>3
<1> QED BY <1>3, <1>4 DEF s

(* What an own step, or one of the Peer, leaves as it is. *)
LEMMA OwnStepKeeps ==
  ASSUME Quiet \/ OwnStep
  PROVE  UNCHANGED <<inbound, remote, status>>
BY DEF Quiet, OwnStep, GoesOn, GetsInLine, Downloads, GivesUp, Takes

LEMMA ChokeComesStep ==
  ASSUME DownloaderInv, BlockTypes, Chokes, BlockStep
  PROVE  ChokeComes'
<1>1. inbound \in Seq(Incoming)
  BY DEF DownloaderInv, OwnInv, NetworkTyped
<1>2. CASE Quiet \/ OwnStep
  BY <1>2, OwnStepKeeps DEF Chokes, ChokeComes
<1>3. ASSUME NEW m \in Incoming, Opens(m)
      PROVE  ChokeComes'
  <2>1. status'.self_choked
    BY <1>3 DEF Opens
  <2>2. PICK line : line = <<m>> /\ inbound' = line
    BY <1>3 DEF Opens
  <2>3. DOMAIN line = {1} /\ line[1] = m /\ m.type = "BitField"
    BY <1>3, <2>2 DEF Opens
  <2>4. Silent(line, 0)
    BY <2>3 DEF Silent
  <2> QED BY <2>1, <2>2, <2>4 DEF ChokeComes
<1>4. ASSUME NEW m \in Incoming, Reads(m)
      PROVE  ChokeComes'
  <2>1. /\ inbound # <<>> /\ m = Head(inbound) /\ inbound' = Tail(inbound)
        /\ status' = handle_message(m) /\ remote' = remote
    BY <1>4 DEF Reads
  <2>2. /\ Silent(inbound, 0) => Silent(inbound', 0) /\ m.type # "Unchoke"
        /\ Comes(inbound) => Comes(inbound') \/ (m.type = "Choke" /\ Silent(inbound', 0))
    BY <1>1, <2>1, SignalsTail
  <2>3. /\ m.type = "Choke" => status'.self_choked
        /\ m.type # "Unchoke" /\ status.self_choked => status'.self_choked
    BY <2>1, HandleMessage, IncomingFacts
  <2> QED BY <2>1, <2>2, <2>3 DEF Chokes, ChokeComes
<1>5. CASE TookOne
  BY <1>5 DEF TookOne, OursUntouched, Chokes, ChokeComes
<1>6. ASSUME NEW m \in Incoming, Answered(m) \/ Choked(m) \/ Unchoked(m) \/ Announced(m)
      PROVE  ChokeComes'
  <2>1. inbound' = Append(inbound, m) /\ status' = status
    BY <1>6 DEF Answered, Choked, Unchoked, Announced, SaidOne, OursUntouched
  <2>2. /\ m.type # "Unchoke" => /\ Silent(inbound, 0) => Silent(inbound', 0)
                                 /\ Comes(inbound) => Comes(inbound')
        /\ m.type = "Choke" => Comes(inbound')
    BY <1>1, <2>1, SignalsAppend
  <2>3. \/ m.type = "Choke"
        \/ ~remote'.choking
        \/ m.type # "Unchoke" /\ remote'.choking = remote.choking
    BY <1>6 DEF Answered, Choked, Unchoked, Announced
  <2> QED BY <2>1, <2>2, <2>3 DEF Chokes, ChokeComes
<1> QED
  BY <1>2, <1>3, <1>4, <1>5, <1>6
     DEF BlockStep, ReadStep, RemoteMoves, ReadsBlock, ReadsChoke, ReadsUnchoke, ReadsNews

LEMMA RemoteDropsStep ==
  ASSUME Chokes, BlockStep
  PROVE  RemoteDrops'
<1>1. CASE Quiet \/ OwnStep
  BY <1>1, OwnStepKeeps DEF Chokes, RemoteDrops
<1>2. CASE UNCHANGED remote
  BY <1>2 DEF Chokes, RemoteDrops
<1>3. CASE RemoteMoves
  BY <1>3 DEF RemoteMoves, TookOne, Answered, Choked, Unchoked, Announced, Chokes, RemoteDrops
<1> QED
  BY <1>1, <1>2, <1>3
     DEF BlockStep, Opens, ReadStep, ReadsBlock, ReadsChoke, ReadsUnchoke, ReadsNews, Reads

(* A turn of the loop while choked adds nothing. *)
LEMMA ChokedTurn ==
  ASSUME DownloaderInv', NEW pending, NEW active, active = {}, Turn(pending, active, TRUE)
  PROVE  m_active_requests' = {}
<1>1. m_active_requests' \subseteq Requests
  BY DEF DownloaderInv, OwnInv, Containers
<1> QED BY <1>1 DEF Turn, Moves, Stays

LEMMA ChokedHasNoneStep ==
  ASSUME DownloaderInv, DownloaderInv', BlockTypes, Chokes, BlockStep
  PROVE  ChokedHasNone'
<1>1. status.self_choked \in BOOLEAN
  BY DEF BlockTypes
<1>2. CASE UNCHANGED <<status, m_active_requests>> \/ m_active_requests' = {}
  BY <1>2 DEF Chokes, ChokedHasNone
<1>3. ASSUME NEW pending, NEW active, Turn(pending, active, status.self_choked),
             active \subseteq m_active_requests, status'.self_choked = status.self_choked
      PROVE  ChokedHasNone'
  <2>1. CASE status.self_choked
    <3>1. active = {} /\ status.self_choked = TRUE
      BY <1>1, <1>3, <2>1 DEF Chokes, ChokedHasNone
    <3> QED BY <1>3, <3>1, ChokedTurn DEF ChokedHasNone
  <2>2. CASE ~status.self_choked
    BY <1>3, <2>2 DEF ChokedHasNone
  <2> QED BY <2>1, <2>2
<1>4. CASE Quiet \/ RemoteMoves \/ \E m \in Incoming : Opens(m)
  BY <1>2, <1>4
     DEF Quiet, Opens, RemoteMoves, TookOne, Answered, Choked, Unchoked, Announced,
         SaidOne, OursUntouched
<1>5. CASE OwnStep
  <2>1. CASE GoesOn
    BY <1>3, <2>1 DEF GoesOn
  <2>2. ASSUME NEW c \in Clients, NEW p \in Pieces, GetsInLine(c, p)
        PROVE  ChokedHasNone'
    BY <1>3, <2>2 DEF GetsInLine
  <2>3. ASSUME NEW c \in Clients, NEW p \in Pieces, Downloads(c, p)
        PROVE  ChokedHasNone'
    <3>1. CASE UNCHANGED <<status, m_active_requests>>
      BY <1>2, <3>1
    <3>2. CASE ~status.self_choked /\ UNCHANGED status
      BY <3>2 DEF ChokedHasNone
    <3> QED BY <2>3, <3>1, <3>2 DEF Downloads
  <2>4. CASE (\E c \in Clients : GivesUp(c)) \/ \E p \in Pieces : Takes(p)
    BY <1>2, <2>4 DEF GivesUp, Takes
  <2> QED BY <1>5, <2>1, <2>2, <2>3, <2>4 DEF OwnStep
<1>6. ASSUME NEW m \in Incoming, ReadsBlock(m)
      PROVE  ChokedHasNone'
  <2>1. status' = status
    BY <1>6, HandleMessage DEF ReadsBlock, Reads
  <2>2. ActiveAfter(m) \subseteq m_active_requests
    BY DEF ActiveAfter
  <2> QED BY <1>3, <1>6, <2>1, <2>2 DEF ReadsBlock
<1>7. ASSUME NEW m \in Incoming, ReadsUnchoke(m)
      PROVE  ChokedHasNone'
  <2>1. ~status'.self_choked
    BY <1>7, HandleMessage DEF ReadsUnchoke, Reads
  <2> QED BY <2>1 DEF ChokedHasNone
<1>8. ASSUME NEW m \in Incoming, ReadsNews(m)
      PROVE  ChokedHasNone'
  <2>1. status'.self_choked = status.self_choked /\ UNCHANGED m_active_requests
    BY <1>8, HandleMessage DEF ReadsNews, Reads
  <2> QED BY <2>1 DEF Chokes, ChokedHasNone
<1>9. CASE \E m \in Incoming : ReadsChoke(m)
  BY <1>2, <1>9 DEF ReadsChoke
<1> QED
  BY <1>4, <1>5, <1>6, <1>7, <1>8, <1>9 DEF BlockStep, ReadStep

LEMMA ChokesStep ==
  ASSUME DownloaderInv, DownloaderInv', BlockTypes, Chokes, BlockStep
  PROVE  Chokes'
BY ChokeComesStep, ChokedHasNoneStep, RemoteDropsStep DEF Chokes

-----------------------------------------------------------------------------
(***************************************************************************)
(* Counting the bytes of a piece.  g[k] is the number of bytes of those of *)
(* the first k blocks that have not arrived.                               *)
(***************************************************************************)
Missing(p, x, k) == IF x.data[Block(p, k)] = "zero" THEN Block(p, k).length ELSE 0

Sums(p, x, g) ==
  /\ g \in [0..BlockCount(p) -> Int]
  /\ g[0] = 0
  /\ \A k \in 1..BlockCount(p) : g[k] = g[k - 1] + Missing(p, x, k)

(* What is missing and what was counted make up the piece and the bytes    *)
(* counted again, if blocks may be; and a piece is Complete by its count.  *)
Counts(p, x, exact) ==
  /\ x.status = "Complete" <=> x.bytes_downloaded = get_piece_size(p)
  /\ exact => x.repeated = 0
  /\ \E g : /\ Sums(p, x, g)
            /\ g[BlockCount(p)] + x.bytes_downloaded = get_piece_size(p) + x.repeated

(* Induction, as a fact about sets. *)
LEMMA LeastElement ==
  ASSUME NEW T \in SUBSET Nat, T # {}
  PROVE  \E x \in T : \A y \in T : x <= y
<1>1. PICK R : R = OpToRel(<, Nat)
  OBVIOUS
<1>2. IsWellFoundedOn(R, Nat)
  BY <1>1, NatLessThanWellFounded
<1>3. PICK x \in T : \A y \in T : ~ (<<y, x>> \in R)
  BY <1>2, WFMin
<1>4. \A y \in T : ~(y < x)
  BY <1>1, <1>3 DEF OpToRel
<1> QED
  BY <1>3, <1>4

LEMMA SetInduction ==
  ASSUME NEW S, 0 \in S, \A n \in Nat : n \in S => n + 1 \in S
  PROVE  Nat \subseteq S
<1> SUFFICES ASSUME Nat \ S # {} PROVE FALSE
  OBVIOUS
<1>1. PICK x \in Nat \ S : \A y \in Nat \ S : x <= y
  BY LeastElement
<1> QED
  BY <1>1, x - 1 \in Nat

(* Bytes are missing if, and only if, a block is, and then all of its.     *)
LEMMA MissingBytes ==
  ASSUME NEW p \in Pieces, NEW x, NEW g, Sums(p, x, g)
  PROVE  /\ g[BlockCount(p)] \in Nat
         /\ g[BlockCount(p)] = 0 <=> \A b \in Blocks(p) : x.data[b] # "zero"
         /\ \A b \in Blocks(p) : x.data[b] = "zero" => b.length <= g[BlockCount(p)]
<1> DEFINE N == BlockCount(p)
           zero(k) == x.data[Block(p, k)] = "zero"
           S == {n \in Nat : n <= N =>
                   /\ g[n] \in Nat
                   /\ g[n] = 0 <=> \A k \in 1..n : ~zero(k)
                   /\ \A k \in 1..n : zero(k) => Block(p, k).length <= g[n]}
<1>1. N \in Nat
  BY BlocksHold
<1>2. \A k \in 1..N : Block(p, k).length \in Nat \ {0}
  BY BlockFacts
<1>3. 0 \in S
  BY DEF Sums
<1>4. ASSUME NEW n \in Nat, n \in S
      PROVE  n + 1 \in S
  <2> SUFFICES ASSUME n + 1 <= N
               PROVE  /\ g[n + 1] \in Nat
                      /\ g[n + 1] = 0 <=> \A k \in 1..(n + 1) : ~zero(k)
                      /\ \A k \in 1..(n + 1) : zero(k) => Block(p, k).length <= g[n + 1]
    OBVIOUS
  <2>1. n + 1 \in 1..N /\ n <= N /\ (n + 1) - 1 = n
    BY <1>1
  <2>2. g[n] \in Nat /\ (g[n] = 0 <=> \A k \in 1..n : ~zero(k))
    BY <1>4, <2>1
  <2>3. g[n + 1] = g[n] + (IF zero(n + 1) THEN Block(p, n + 1).length ELSE 0)
    BY <2>1 DEF Sums, Missing
  <2>4. (\A k \in 1..(n + 1) : ~zero(k)) <=> (\A k \in 1..n : ~zero(k)) /\ ~zero(n + 1)
    <3>1. 1..(n + 1) = (1..n) \cup {n + 1}
      OBVIOUS
    <3> HIDE DEF zero
    <3> QED BY <3>1
  <2>5. \A k \in 1..n : zero(k) => Block(p, k).length <= g[n]
    BY <1>4, <2>1
  <2>6. Block(p, n + 1).length \in Nat \ {0}
    BY <1>2, <2>1
  <2> HIDE DEF zero
  <2>7. /\ g[n + 1] \in Nat
        /\ g[n + 1] = 0 <=> \A k \in 1..(n + 1) : ~zero(k)
        /\ g[n] <= g[n + 1]
    BY <2>2, <2>3, <2>4, <2>6
  <2>8. ASSUME NEW k \in 1..(n + 1), zero(k)
        PROVE  Block(p, k).length <= g[n + 1]
    <3>1. CASE k \in 1..n
      <4>1. Block(p, k).length \in Nat /\ Block(p, k).length <= g[n]
        BY <1>1, <1>2, <2>1, <2>5, <2>8, <3>1
      <4> QED BY <2>2, <2>7, <4>1
    <3>2. CASE k = n + 1
      BY <2>2, <2>3, <2>6, <2>8, <3>2
    <3> QED BY <3>1, <3>2
  <2> QED BY <2>7, <2>8
<1>5. Nat \subseteq S
  BY <1>3, <1>4, SetInduction
<1>6. /\ g[N] \in Nat /\ (g[N] = 0 <=> \A k \in 1..N : ~zero(k))
      /\ \A k \in 1..N : zero(k) => Block(p, k).length <= g[N]
  BY <1>1, <1>5
<1>7. (\A k \in 1..N : ~zero(k)) <=> \A b \in Blocks(p) : x.data[b] # "zero"
  BY DEF Blocks
<1>8. \A b \in Blocks(p) : x.data[b] = "zero" => b.length <= g[N]
  BY <1>6 DEF Blocks
<1> QED BY <1>6, <1>7, <1>8

(* A fresh piece misses all its bytes. *)
LEMMA FreshCounts ==
  ASSUME NEW p \in Pieces
  PROVE  Counts(p, FreshPiece(p), TRUE)
<1> DEFINE N == BlockCount(p)
           s == get_piece_size(p)
           B == MaxBlockBytes
           x == FreshPiece(p)
           g == [k \in 0..N |-> IF k * B < s THEN k * B ELSE s]
<1>1. /\ N \in Nat \ {0} /\ s \in Nat \ {0} /\ B \in Nat \ {0} /\ s <= N * B
      /\ \A k \in 1..N : (k - 1) * B \in Nat /\ (k - 1) * B < s
  BY BlocksHold, PieceHasBytes, GeometryAssumption
<1>2. /\ x.status = "Pending" /\ x.bytes_downloaded = 0 /\ x.repeated = 0
      /\ \A b \in Blocks(p) : x.data[b] = "zero"
  BY DEF FreshPiece
<1>3. ASSUME NEW k \in 1..N
      PROVE  Missing(p, x, k) = IF s - (k - 1) * B < B THEN s - (k - 1) * B ELSE B
  <2>1. Block(p, k) \in Blocks(p)
        /\ Block(p, k).length = IF s - (k - 1) * B < B THEN s - (k - 1) * B ELSE B
    BY BlockFacts
  <2>2. x.data[Block(p, k)] = "zero"
    BY <1>2, <2>1
  <2> QED BY <2>1, <2>2 DEF Missing
<1> HIDE DEF x, N, s, B
<1>4. g \in [0..N -> Int]
  BY <1>1
<1>5. g[0] = 0
  <2>1. 0 * B = 0 /\ 0 \in 0..N
    BY <1>1
  <2> QED BY <1>1, <2>1
<1>6. ASSUME NEW k \in 1..N
      PROVE  g[k] = g[k - 1] + Missing(p, x, k)
  <2>1. k \in 0..N /\ k - 1 \in 0..N /\ k \in Nat /\ k - 1 \in Nat
    BY <1>1
  <2>2. k * B = (k - 1) * B + B /\ (k - 1) * B \in Nat /\ (k - 1) * B < s /\ k * B \in Nat
    BY <1>1, <2>1
  <2>3. g[k] = IF k * B < s THEN k * B ELSE s
    BY <2>1
  <2>4. g[k - 1] = IF (k - 1) * B < s THEN (k - 1) * B ELSE s
    BY <2>1
  <2> HIDE DEF g
  <2>5. g[k - 1] = (k - 1) * B
    BY <2>2, <2>4
  <2> QED BY <1>1, <1>3, <2>2, <2>3, <2>5
<1>7. g[N] = s
  BY <1>1
<1> HIDE DEF g
<1>8. Sums(p, x, g)
  BY <1>4, <1>5, <1>6 DEF Sums, N
<1>9. g[N] + x.bytes_downloaded = s + x.repeated
  BY <1>1, <1>2, <1>7
<1>10. x.status = "Complete" <=> x.bytes_downloaded = s
  BY <1>1, <1>2
<1>11. Counts(p, x, TRUE)
  BY <1>2, <1>8, <1>9, <1>10 DEF Counts, N, s
<1> QED BY <1>11 DEF x

(* A block that arrives is counted, and one that was missing is no longer. *)
LEMMA ArrivalCounts ==
  ASSUME NEW p \in Pieces, NEW x \in FilePiece(p), NEW y \in FilePiece(p), NEW exact \in BOOLEAN,
         NEW b \in Blocks(p), NEW content \in {"good", "bad"},
         Counts(p, x, exact), exact => x.data[b] = "zero",
         y.data = [x.data EXCEPT ![b] = content],
         y.bytes_downloaded = x.bytes_downloaded + b.length,
         y.repeated = IF x.data[b] = "zero" THEN x.repeated ELSE x.repeated + b.length,
         y.status = "Complete" <=> y.bytes_downloaded = get_piece_size(p)
  PROVE  Counts(p, y, exact)
<1> DEFINE N == BlockCount(p)
           s == get_piece_size(p)
<1>1. PICK g : /\ Sums(p, x, g)
               /\ g[N] + x.bytes_downloaded = s + x.repeated
  BY DEF Counts
<1>2. PICK j \in 1..N : b = Block(p, j)
  BY DEF Blocks
<1>3. N \in Nat \ {0} /\ s \in Nat /\ b.length \in Nat \ {0}
  BY <1>2, BlocksHold, PieceHasBytes, BlockFacts
<1>4. \A k \in 1..N : Block(p, k) = b => k = j
  BY <1>2, BlocksDiffer
<1>5. x.bytes_downloaded \in Nat /\ x.repeated \in Nat /\ x.data \in [Blocks(p) -> Contents]
  BY DEF FilePiece
<1>6. \A k \in 1..N : Block(p, k) \in Blocks(p)
  BY DEF Blocks
<1>7. /\ y.data[b] # "zero"
      /\ \A k \in 1..N : k # j => y.data[Block(p, k)] = x.data[Block(p, k)]
  BY <1>4, <1>5, <1>6
<1>8. /\ g \in [0..N -> Int] /\ g[0] = 0
      /\ \A k \in 1..N : g[k] = g[k - 1] + Missing(p, x, k)
  BY <1>1 DEF Sums
<1>9. /\ Missing(p, y, j) = 0
      /\ \A k \in 1..N : k # j => Missing(p, y, k) = Missing(p, x, k)
  BY <1>2, <1>7 DEF Missing
<1>10. \A k \in 1..N : Missing(p, x, k) \in Nat
  BY BlockFacts DEF Missing
<1>11. PICK d : d = Missing(p, x, j)
  OBVIOUS
<1>12. /\ d \in Nat
       /\ d = IF x.data[b] = "zero" THEN b.length ELSE 0
  BY <1>2, <1>3, <1>11 DEF Missing
<1>19. d \in Nat
  BY <1>12
<1> HIDE DEF N, s
<1> DEFINE h == [k \in 0..N |-> IF k < j THEN g[k] ELSE g[k] - d]
<1>13. h \in [0..N -> Int] /\ h[0] = 0
  BY <1>3, <1>8, <1>12
<1>14. ASSUME NEW k \in 1..N
       PROVE  h[k] = h[k - 1] + Missing(p, y, k)
  <2>1. /\ k \in 0..N /\ k - 1 \in 0..N /\ k \in Int /\ j \in Int
        /\ g[k] \in Int /\ g[k - 1] \in Int
    BY <1>3, <1>8
  <2>2. /\ h[k] = IF k < j THEN g[k] ELSE g[k] - d
        /\ h[k - 1] = IF k - 1 < j THEN g[k - 1] ELSE g[k - 1] - d
    BY <2>1
  <2>3. g[k] = g[k - 1] + Missing(p, x, k) /\ Missing(p, x, k) \in Nat
    BY <1>8, <1>10
  <2> HIDE DEF h
  <2>4. CASE k = j
    BY <1>9, <1>11, <1>19, <2>1, <2>2, <2>3, <2>4
  <2>5. CASE k # j
    BY <1>9, <1>19, <2>1, <2>2, <2>3, <2>5
  <2> QED BY <2>4, <2>5
<1>15. h[N] = g[N] - d /\ g[N] \in Int
  BY <1>3, <1>8
<1> HIDE DEF h
<1>16. Sums(p, y, h)
  BY <1>13, <1>14 DEF Sums, N
<1>17. h[N] + y.bytes_downloaded = s + y.repeated
  BY <1>1, <1>3, <1>5, <1>12, <1>15
<1>18. exact => y.repeated = 0
  BY DEF Counts
<1> QED BY <1>16, <1>17, <1>18 DEF Counts, N, s

-----------------------------------------------------------------------------
(* What a step does to the pieces *)

(* x became y, when block b came with this content. *)
Arrival(p, x, y, b, content) ==
  /\ b \in Blocks(p)
  /\ content \in {"good", "bad"}
  /\ y.data = [x.data EXCEPT ![b] = content]
  /\ y.bytes_downloaded = x.bytes_downloaded + b.length
  /\ y.repeated = IF x.data[b] = "zero" THEN x.repeated ELSE x.repeated + b.length
  /\ y.status = "Complete" <=> y.bytes_downloaded = get_piece_size(p)

Kept(p) == p \in DOMAIN m_pieces /\ m_pieces'[p] = m_pieces[p]

Fresh(p) == m_pieces'[p] = FreshPiece(p) /\ \E c \in Clients : Downloads(c, p)

Grown(p, m) ==
  /\ ReadsBlock(m)
  /\ p \in DOMAIN m_pieces
  /\ m.block.piece_index = p
  /\ Arrival(p, m_pieces[p], m_pieces'[p], m.block, m.content)

LEMMA ArrivalLemma ==
  ASSUME BlockTypes, NEW m \in Incoming, m.type = "Piece", m_pieces' = PiecesAfter(m)
  PROVE  /\ DOMAIN m_pieces' = DOMAIN m_pieces
         /\ \A p \in DOMAIN m_pieces :
              /\ m_pieces'[p] \in FilePiece(p)
              /\ IF p = m.block.piece_index
                 THEN Arrival(p, m_pieces[p], m_pieces'[p], m.block, m.content)
                 ELSE m_pieces'[p] = m_pieces[p]
<1>1. m.block \in Requests /\ m.content \in {"good", "bad"}
  BY IncomingFacts
<1>2. PICK b \in Requests, content \in {"good", "bad"} : b = m.block /\ content = m.content
  BY <1>1
<1>3. PICK q \in Pieces : q = b.piece_index /\ b \in Blocks(q) /\ b.length \in Nat
  BY RequestFacts
<1>4. CASE q \notin DOMAIN m_pieces
  BY <1>2, <1>3, <1>4 DEF PiecesAfter, BlockTypes
<1>5. CASE q \in DOMAIN m_pieces
  <2>1. PICK x \in FilePiece(q) : x = m_pieces[q]
    BY <1>5 DEF BlockTypes
  <2>2. /\ x.data \in [Blocks(q) -> Contents] /\ x.bytes_downloaded \in Nat
        /\ x.repeated \in Nat
    BY DEF FilePiece
  <2>3. PICK bytes \in Nat : bytes = x.bytes_downloaded + b.length
    BY <1>3, <2>2
  <2>11. PICK again \in Nat :
           again = IF x.data[b] = "zero" THEN x.repeated ELSE x.repeated + b.length
    BY <1>3, <2>2
  <2>4. PICK y : y = [status |-> IF IsComplete(q, bytes) THEN "Complete" ELSE "Active",
                      data |-> [x.data EXCEPT ![b] = content],
                      bytes_downloaded |-> bytes,
                      repeated |-> again]
    OBVIOUS
  <2>5. [x.data EXCEPT ![b] = content] \in [Blocks(q) -> Contents]
    BY <1>3, <2>2 DEF Contents
  <2>6. y \in FilePiece(q)
    BY <2>4, <2>5 DEF FilePiece
  <2>7. Arrival(q, x, y, b, content)
    BY <1>3, <2>3, <2>4, <2>11 DEF Arrival, IsComplete
  <2>8. m_pieces' = [m_pieces EXCEPT ![q] = y]
    BY <1>2, <1>3, <1>5, <2>1, <2>3, <2>4, <2>11 DEF PiecesAfter
  <2>9. /\ DOMAIN m_pieces' = DOMAIN m_pieces
        /\ m_pieces'[q] = y
        /\ \A p \in DOMAIN m_pieces : p # q => m_pieces'[p] = m_pieces[p]
    BY <1>5, <2>8
  <2>10. \A p \in DOMAIN m_pieces : m_pieces[p] \in FilePiece(p)
    BY DEF BlockTypes
  <2> QED BY <1>2, <1>3, <2>1, <2>6, <2>7, <2>9, <2>10
<1> QED BY <1>4, <1>5

LEMMA PieceChanges ==
  ASSUME BlockTypes, BlockStep
  PROVE  \A p \in DOMAIN m_pieces' :
           Kept(p) \/ (p \in Pieces /\ Fresh(p)) \/ \E m \in Incoming : Grown(p, m)
<1> SUFFICES ASSUME NEW p \in DOMAIN m_pieces'
             PROVE  Kept(p) \/ (p \in Pieces /\ Fresh(p)) \/ \E m \in Incoming : Grown(p, m)
  OBVIOUS
<1>1. CASE UNCHANGED m_pieces
  BY <1>1 DEF Kept
<1>2. ASSUME NEW m \in Incoming, ReadsBlock(m)
      PROVE  Kept(p) \/ Grown(p, m)
  BY <1>2, ArrivalLemma DEF ReadsBlock, Kept, Grown
<1>3. ASSUME NEW c \in Clients, NEW q \in Pieces, Downloads(c, q)
      PROVE  Kept(p) \/ (p \in Pieces /\ Fresh(p))
  <2>1. m_pieces' = [d \in DOMAIN m_pieces \cup {q} |->
                       IF d = q THEN FreshPiece(q) ELSE m_pieces[d]]
    BY <1>3 DEF Downloads
  <2>2. CASE p = q
    BY <1>3, <2>1, <2>2 DEF Fresh
  <2>3. CASE p # q
    BY <2>1, <2>3 DEF Kept
  <2> QED BY <2>2, <2>3
<1>4. ASSUME NEW q \in Pieces, Takes(q)
      PROVE  Kept(p)
  BY <1>4 DEF Takes, Kept
<1> QED
  BY <1>1, <1>2, <1>3, <1>4
     DEF BlockStep, Quiet, Opens, OwnStep, GoesOn, GetsInLine, GivesUp, ReadStep,
         ReadsChoke, ReadsUnchoke, ReadsNews, RemoteMoves, TookOne, Answered, Choked,
         Unchoked, Announced, SaidOne, OursUntouched

(* The budget is a bound of the model. *)
LEMMA BudgetStep ==
  ASSUME BlockTypes, [Next]_vars
  PROVE  budget' \in [calls : 0..MaxCalls, chokes : 0..MaxChokes, bad : 0..MaxBad]
<1>1. /\ budget \in [calls : 0..MaxCalls, chokes : 0..MaxChokes, bad : 0..MaxBad]
      /\ MaxCalls \in Nat /\ MaxChokes \in Nat /\ MaxBad \in Nat
  BY DownloaderAssumption DEF BlockTypes
<1>2. CASE UNCHANGED budget
  BY <1>1, <1>2
<1>3. CASE budget.calls > 0 /\ budget' = [budget EXCEPT !.calls = @ - 1]
  BY <1>1, <1>3
<1>4. CASE budget.chokes > 0 /\ budget' = [budget EXCEPT !.chokes = @ - 1]
  BY <1>1, <1>4
<1>5. CASE budget.bad > 0 /\ budget' = [budget EXCEPT !.bad = @ - 1]
  BY <1>1, <1>5
<1>6. CASE UNCHANGED vars \/ PeerStep \/ Connect \/ Write \/ ReceiveMessage \/ CallbackResume
  BY <1>2, <1>6 DEF vars, networkVars, PeerStep, Connect, Write, ReceiveMessage, CallbackResume
<1>7. CASE \E c \in Clients : Call(c)
  BY <1>2, <1>7 DEF Call, InterestedSent, RequestSent, CallThrows, networkVars
<1>8. CASE \E c \in Clients, p \in Pieces : AssignPiece(c, p) \/ PollPiece(c, p)
  BY <1>2, <1>3, <1>8 DEF AssignPiece, PollPiece, networkVars
<1>9. CASE Remote
  BY <1>2, <1>4, <1>5, <1>9
     DEF Remote, RemoteTakes, RemoteServes, RemoteChokes, RemoteUnchokes, RemoteGets
<1> QED BY <1>6, <1>7, <1>8, <1>9 DEF Next

LEMMA BlockTypesStep ==
  ASSUME BlockTypes, BlockStep, [Next]_vars
  PROVE  BlockTypes'
<1>1. budget' \in [calls : 0..MaxCalls, chokes : 0..MaxChokes, bad : 0..MaxBad]
  BY BudgetStep
<1>2. \A p \in DOMAIN m_pieces' : p \in Pieces /\ m_pieces'[p] \in FilePiece(p)
  <2> SUFFICES ASSUME NEW p \in DOMAIN m_pieces'
               PROVE  p \in Pieces /\ m_pieces'[p] \in FilePiece(p)
    OBVIOUS
  <2>1. CASE Kept(p)
    BY <2>1 DEF Kept, BlockTypes
  <2>2. CASE p \in Pieces /\ Fresh(p)
    <3>1. FreshPiece(p) \in FilePiece(p)
      BY DEF FreshPiece, FilePiece, Contents
    <3> QED BY <2>2, <3>1 DEF Fresh
  <2>3. ASSUME NEW m \in Incoming, Grown(p, m)
        PROVE  p \in Pieces /\ m_pieces'[p] \in FilePiece(p)
    <3>1. p \in DOMAIN m_pieces /\ m.type = "Piece" /\ m_pieces' = PiecesAfter(m)
      BY <2>3 DEF Grown, ReadsBlock
    <3> QED BY <3>1, ArrivalLemma DEF BlockTypes
  <2> QED BY <2>1, <2>2, <2>3, PieceChanges
<1>3. stored' \subseteq Pieces
  <2>1. CASE UNCHANGED stored
    BY <2>1 DEF BlockTypes
  <2>2. CASE \E p \in Pieces : stored' = stored \cup {p}
    BY <2>2 DEF BlockTypes
  <2> QED
    BY <2>1, <2>2
       DEF BlockStep, Quiet, Opens, OwnStep, GoesOn, GetsInLine, Downloads, GivesUp, Takes,
           ReadStep, ReadsBlock, ReadsChoke, ReadsUnchoke, ReadsNews, Reads, RemoteMoves,
           TookOne, Answered, Choked, Unchoked, Announced, SaidOne, OursUntouched
<1>4. status' \in [self_choked : BOOLEAN, remote_bitfield : SUBSET Pieces]
  <2>1. CASE UNCHANGED status
    BY <2>1 DEF BlockTypes
  <2>2. CASE \E m \in Incoming : Reads(m)
    BY <2>2, HandleMessage DEF Reads
  <2> QED
    BY <2>1, <2>2, OwnStepKeeps
       DEF BlockStep, Opens, ReadStep, ReadsBlock, ReadsChoke, ReadsUnchoke, ReadsNews,
           RemoteMoves, TookOne, Answered, Choked, Unchoked, Announced, SaidOne, OursUntouched
<1> QED BY <1>1, <1>2, <1>3, <1>4 DEF BlockTypes

(* The count of every piece is right, up to blocks counted twice. *)
Counted == \A p \in DOMAIN m_pieces : Counts(p, m_pieces[p], FALSE)

LEMMA CountedStep ==
  ASSUME BlockTypes, BlockTypes', Counted, BlockStep
  PROVE  Counted'
<1> SUFFICES ASSUME NEW p \in DOMAIN m_pieces'
             PROVE  Counts(p, m_pieces'[p], FALSE)
  BY DEF Counted
<1>1. CASE Kept(p)
  BY <1>1 DEF Kept, Counted
<1>2. CASE p \in Pieces /\ Fresh(p)
  <2>1. Counts(p, FreshPiece(p), TRUE)
    BY <1>2, FreshCounts
  <2> QED BY <1>2, <2>1 DEF Fresh, Counts
<1>3. ASSUME NEW m \in Incoming, Grown(p, m)
      PROVE  Counts(p, m_pieces'[p], FALSE)
  <2>1. /\ p \in DOMAIN m_pieces /\ p \in Pieces
        /\ m_pieces[p] \in FilePiece(p) /\ m_pieces'[p] \in FilePiece(p)
    BY <1>3 DEF Grown, BlockTypes
  <2>2. Counts(p, m_pieces[p], FALSE)
    BY <2>1 DEF Counted
  <2> QED BY <1>3, <2>1, <2>2, ArrivalCounts DEF Grown, Arrival
<1> QED BY <1>1, <1>2, <1>3, PieceChanges

-----------------------------------------------------------------------------
(* Requests, wherever they are *)

(* What is with the remote peer or on its way back does not change with    *)
(* what we do, and a message that is read is one less.                     *)
LEMMA ServedSame ==
  ASSUME UNCHANGED <<inbound, remote>>, NEW r
  PROVE  Served(r)' = Served(r)
BY DEF Served

LEMMA ServedRead ==
  ASSUME DownloaderInv, DownloaderInv', NEW m \in Incoming, Reads(m), NEW r \in Requests
  PROVE  Served(r) = Served(r)' + (IF m.type = "Piece" /\ m.block = r THEN 1 ELSE 0)
<1>1. /\ inbound \in Seq(Incoming) /\ inbound # <<>> /\ m = Head(inbound)
      /\ inbound' = Tail(inbound) /\ remote' = remote
  BY DEF DownloaderInv, OwnInv, NetworkTyped, Reads
<1>2. /\ ComingIn(Tail(inbound), r) \in Nat
      /\ ComingIn(inbound, r)
           = ComingIn(Tail(inbound), r)
               + (IF Head(inbound).type = "Piece" /\ Head(inbound).block = r THEN 1 ELSE 0)
  BY <1>1, ComingTail
<1>3. ComingIn(inbound, r)' = ComingIn(Tail(inbound), r)
  BY <1>1
<1>4. InSequence(remote.requests, r)' = InSequence(remote.requests, r)
  BY <1>1
<1>5. /\ Served(r) = InSequence(remote.requests, r) + ComingIn(inbound, r)
      /\ InSequence(remote.requests, r) \in Nat
  BY CopiesNow DEF CopiesAre
<1>6. Served(r)' = InSequence(remote.requests, r)' + ComingIn(inbound, r)'
  BY CopiesThen DEF CopiesAre
<1> QED BY <1>1, <1>2, <1>3, <1>4, <1>5, <1>6

(* The line, with the requests of a piece behind it. *)
LEMMA Lengthened ==
  ASSUME DownloaderInv, NEW p \in Pieces, NEW r \in Requests
  PROVE  InSequence(m_pending_requests \o BlockRequests(p), r)
           = InSequence(m_pending_requests, r) + (IF r.piece_index = p THEN 1 ELSE 0)
<1>1. m_pending_requests \in Seq(Requests) /\ BlockRequests(p) \in Seq(Requests)
  BY BlockRequestsType DEF DownloaderInv, OwnInv, Containers
<1>2. InSequence(m_pending_requests \o BlockRequests(p), r)
        = InSequence(m_pending_requests, r) + InSequence(BlockRequests(p), r)
  BY <1>1, InConcat
<1>3. InSequence(BlockRequests(p), r) = IF r \in Blocks(p) THEN 1 ELSE 0
  BY AskedOnce
<1>4. r \in Blocks(p) <=> r.piece_index = p
  BY RequestFacts
<1> QED BY <1>2, <1>3, <1>4

(* A request that is in a container or underway. *)
Present(r) ==
  \/ InSequence(m_pending_requests, r) > 0
  \/ r \in m_active_requests
  \/ CopiesUnderway(r) > 0

(* Nothing is asked for but pieces that are, or were, being downloaded. *)
Known ==
  /\ \A r \in Requests : Present(r) => r.piece_index \in DOMAIN m_pieces \cup stored
  /\ \A c \in Clients : \A p \in Pieces : Asks(c, p) => p \in DOMAIN m_pieces \cup stored

(* A turn of the loop brings in only what is in the containers. *)
LEMMA TurnPresent ==
  ASSUME DownloaderInv, DownloaderInv', NEW pending \in Seq(Requests), NEW active, NEW choked,
         Turn(pending, active, choked), active \subseteq m_active_requests,
         NEW r \in Requests, Served(r)' <= Served(r), Present(r)'
  PROVE  InSequence(pending, r) > 0 \/ Present(r)
<1>1. /\ CopiesToRemote(r) \in Nat /\ Served(r) \in Nat
      /\ CopiesUnderway(r) = CopiesToRemote(r) + Served(r)
  BY CopiesNow DEF CopiesAre
<1>2. /\ CopiesToRemote(r)' \in Nat /\ Served(r)' \in Nat
      /\ CopiesUnderway(r)' = CopiesToRemote(r)' + Served(r)'
      /\ InSequence(m_pending_requests, r)' \in Nat
  BY CopiesThen DEF CopiesAre
<1>3. InSequence(pending, r) \in Nat
  BY InSequenceFacts
<1>4. CASE Moves(r, pending, choked)
  BY <1>2, <1>3, <1>4 DEF Moves
<1>5. CASE Stays(r, pending, active)
  BY <1>1, <1>2, <1>3, <1>5 DEF Stays, Present
<1> QED BY <1>4, <1>5 DEF Turn

LEMMA KnownGrows ==
  ASSUME BlockTypes, BlockStep
  PROVE  DOMAIN m_pieces \cup stored \subseteq DOMAIN m_pieces' \cup stored'
<1>1. CASE UNCHANGED <<m_pieces, stored>>
  BY <1>1
<1>2. ASSUME NEW m \in Incoming, ReadsBlock(m)
      PROVE  DOMAIN m_pieces' = DOMAIN m_pieces /\ UNCHANGED stored
  BY <1>2, ArrivalLemma DEF ReadsBlock, Reads
<1>3. ASSUME NEW c \in Clients, NEW p \in Pieces, Downloads(c, p)
      PROVE  DOMAIN m_pieces \subseteq DOMAIN m_pieces' /\ UNCHANGED stored
  BY <1>3 DEF Downloads
<1>4. ASSUME NEW p \in Pieces, Takes(p)
      PROVE  DOMAIN m_pieces \cup stored \subseteq DOMAIN m_pieces' \cup stored'
  BY <1>4 DEF Takes
<1> QED
  BY <1>1, <1>2, <1>3, <1>4
     DEF BlockStep, Quiet, Opens, OwnStep, GoesOn, GetsInLine, GivesUp,
         ReadStep, ReadsChoke, ReadsUnchoke, ReadsNews, Reads, RemoteMoves,
         TookOne, Answered, Choked, Unchoked, Announced, SaidOne, OursUntouched

(* Every step but those of download_piece leaves at most what was there. *)
LEMMA PresentStep ==
  ASSUME DownloaderInv, DownloaderInv', BlockTypes, BlockStep, NEW r \in Requests, Present(r)'
  PROVE  \/ Present(r)
         \/ \E c \in Clients, p \in Pieces : GetsInLine(c, p) /\ r.piece_index = p
         \/ \E c \in Clients, p \in Pieces : Downloads(c, p) /\ r.piece_index = p
<1>1. /\ CopiesToRemote(r) \in Nat /\ Served(r) \in Nat
      /\ CopiesUnderway(r) = CopiesToRemote(r) + Served(r)
      /\ InSequence(m_pending_requests, r) \in Nat
  BY CopiesNow DEF CopiesAre
<1>2. /\ CopiesToRemote(r)' \in Nat /\ Served(r)' \in Nat
      /\ CopiesUnderway(r)' = CopiesToRemote(r)' + Served(r)'
      /\ InSequence(m_pending_requests, r)' \in Nat
  BY CopiesThen DEF CopiesAre
<1>3. ASSUME UNCHANGED <<m_pending_requests, m_active_requests>>,
             CopiesToRemote(r)' <= CopiesToRemote(r), Served(r)' <= Served(r)
      PROVE  Present(r)
  BY <1>1, <1>2, <1>3 DEF Present
<1>4. ASSUME NEW active, NEW choked, Turn(m_pending_requests, active, choked),
             active \subseteq m_active_requests, Served(r)' <= Served(r)
      PROVE  Present(r)
  <2>1. m_pending_requests \in Seq(Requests)
    BY DEF DownloaderInv, OwnInv, Containers
  <2> QED BY <1>4, <2>1, TurnPresent DEF Present
<1>5. ASSUME NEW p \in Pieces, NEW choked, Served(r)' <= Served(r),
             Turn(m_pending_requests \o BlockRequests(p), m_active_requests, choked)
      PROVE  Present(r) \/ r.piece_index = p
  <2>1. m_pending_requests \o BlockRequests(p) \in Seq(Requests)
    BY BlockRequestsType DEF DownloaderInv, OwnInv, Containers
  <2>2. InSequence(m_pending_requests \o BlockRequests(p), r)
          = InSequence(m_pending_requests, r) + (IF r.piece_index = p THEN 1 ELSE 0)
    BY Lengthened
  <2>3. InSequence(m_pending_requests \o BlockRequests(p), r) > 0 \/ Present(r)
    BY <1>5, <2>1, TurnPresent
  <2> QED BY <1>1, <2>2, <2>3 DEF Present
<1>6. ASSUME SameCopies PROVE CopiesToRemote(r)' <= CopiesToRemote(r)
  BY <1>1, <1>6 DEF SameCopies
<1>7. ASSUME UNCHANGED <<inbound, remote>> PROVE Served(r)' <= Served(r)
  BY <1>1, <1>7, ServedSame
<1>8. ASSUME NEW m \in Incoming, Reads(m) PROVE Served(r)' <= Served(r)
  BY <1>1, <1>2, <1>8, ServedRead
<1>9. CASE Quiet \/ \E m \in Incoming : Opens(m)
  <2>1. CASE Quiet
    BY <1>3, <1>7, <2>1 DEF Quiet
  <2>2. ASSUME NEW m \in Incoming, Opens(m) PROVE Present(r)
    BY <1>1, <1>3, <2>2 DEF Opens
  <2> QED BY <1>9, <2>1, <2>2
<1>10. CASE OwnStep
  <2>1. CASE GoesOn
    BY <1>4, <1>7, <2>1 DEF GoesOn
  <2>2. ASSUME NEW c \in Clients, NEW p \in Pieces, GetsInLine(c, p)
        PROVE  Present(r) \/ r.piece_index = p
    BY <1>5, <1>7, <2>2 DEF GetsInLine
  <2>3. ASSUME NEW c \in Clients, NEW p \in Pieces, Downloads(c, p)
        PROVE  Present(r) \/ r.piece_index = p
    BY <1>3, <1>5, <1>6, <1>7, <2>3 DEF Downloads
  <2>4. CASE (\E c \in Clients : GivesUp(c)) \/ \E p \in Pieces : Takes(p)
    BY <1>3, <1>6, <1>7, <2>4 DEF GivesUp, Takes
  <2> QED BY <1>10, <2>1, <2>2, <2>3, <2>4 DEF OwnStep
<1>11. CASE ReadStep
  <2>1. ASSUME NEW m \in Incoming, ReadsBlock(m) PROVE Present(r)
    <3>1. ActiveAfter(m) \subseteq m_active_requests
      BY DEF ActiveAfter
    <3> QED BY <1>4, <1>8, <2>1, <3>1 DEF ReadsBlock
  <2>2. ASSUME NEW m \in Incoming, ReadsChoke(m) PROVE Present(r)
    <3>1. Served(r)' <= Served(r) /\ CopiesToRemote(r)' <= CopiesToRemote(r)
      BY <1>6, <1>8, <2>2 DEF ReadsChoke
    <3>2. /\ m_active_requests' = {}
          /\ InSequence(m_pending_requests, r)'
               = InSequence(m_pending_requests, r) + (IF r \in m_active_requests THEN 1 ELSE 0)
      BY <2>2 DEF ReadsChoke
    <3> QED BY <1>1, <1>2, <3>1, <3>2 DEF Present
  <2>3. ASSUME NEW m \in Incoming, ReadsUnchoke(m) PROVE Present(r)
    BY <1>4, <1>8, <2>3 DEF ReadsUnchoke
  <2>4. ASSUME NEW m \in Incoming, ReadsNews(m) PROVE Present(r)
    BY <1>3, <1>6, <1>8, <2>4 DEF ReadsNews
  <2> QED BY <1>11, <2>1, <2>2, <2>3, <2>4 DEF ReadStep
<1>12. CASE RemoteMoves
  <2>1. UNCHANGED <<m_pending_requests, m_active_requests>>
    BY <1>12 DEF RemoteMoves, TookOne, Answered, Choked, Unchoked, Announced, SaidOne,
                 OursUntouched
  <2>2. CopiesUnderway(r)' <= CopiesUnderway(r)
    <3>1. CASE TookOne
      BY <1>1, <1>2, <3>1 DEF TookOne
    <3>2. ASSUME SameCopies, Served(r)' <= Served(r)
          PROVE  CopiesUnderway(r)' <= CopiesUnderway(r)
      BY <1>1, <1>2, <1>6, <3>2
    <3>3. ASSUME NEW m \in Incoming, Answered(m) \/ Choked(m) \/ Unchoked(m) \/ Announced(m)
          PROVE  CopiesUnderway(r)' <= CopiesUnderway(r)
      BY <1>1, <3>2, <3>3 DEF Answered, Choked, Unchoked, Announced, SaidOne
    <3> QED BY <1>12, <3>1, <3>3 DEF RemoteMoves
  <2>3. CopiesUnderway(r) \in Nat /\ CopiesUnderway(r)' \in Nat
    BY <1>1, <1>2
  <2> QED BY <2>1, <2>2, <2>3 DEF Present
<1> QED BY <1>9, <1>10, <1>11, <1>12 DEF BlockStep

(* Who asks: only download_piece makes a client ask. *)
LEMMA AsksStep ==
  ASSUME BlockStep, NEW c \in Clients, NEW p \in Pieces, Asks(c, p)'
  PROVE  Asks(c, p) \/ Downloads(c, p)
<1>1. CASE SameAsks \/ UNCHANGED call
  BY <1>1 DEF SameAsks, Asks
<1>2. ASSUME NEW d \in Clients, OthersAsk(d), AsksNothing(d)'
      PROVE  Asks(c, p)
  BY <1>2 DEF OthersAsk, AsksNothing
<1>3. ASSUME NEW d \in Clients, NEW q \in Pieces, Downloads(d, q)
      PROVE  Asks(c, p) \/ Downloads(c, p)
  <2>1. CASE SameAsks
    BY <1>1, <2>1
  <2>2. CASE OthersAsk(d) /\ \A e \in Pieces \ {q} : ~Asks(d, e)'
    BY <1>3, <2>2 DEF OthersAsk
  <2> QED BY <1>3, <2>1, <2>2 DEF Downloads
<1>4. CASE OwnStep
  BY <1>1, <1>2, <1>3, <1>4 DEF OwnStep, GoesOn, GetsInLine, GivesUp, Takes
<1> QED
  BY <1>1, <1>4
     DEF BlockStep, Quiet, Opens, ReadStep, ReadsBlock, ReadsChoke, ReadsUnchoke, ReadsNews,
         Reads, RemoteMoves, TookOne, Answered, Choked, Unchoked, Announced, SaidOne,
         OursUntouched

LEMMA KnownStep ==
  ASSUME DownloaderInv, DownloaderInv', BlockTypes, Known, BlockStep
  PROVE  Known'
<1>1. DOMAIN m_pieces \cup stored \subseteq DOMAIN m_pieces' \cup stored'
  BY KnownGrows
<1>2. ASSUME NEW c \in Clients, NEW p \in Pieces, Downloads(c, p)
      PROVE  p \in DOMAIN m_pieces'
  BY <1>2 DEF Downloads
<1>3. ASSUME NEW r \in Requests, Present(r)'
      PROVE  r.piece_index \in DOMAIN m_pieces' \cup stored'
  <2>1. CASE Present(r)
    BY <1>1, <2>1 DEF Known
  <2>2. ASSUME NEW c \in Clients, NEW p \in Pieces, GetsInLine(c, p)
        PROVE  p \in DOMAIN m_pieces' \cup stored'
    BY <1>1, <2>2 DEF GetsInLine, Known
  <2> QED BY <1>2, <1>3, <2>1, <2>2, PresentStep
<1>4. ASSUME NEW c \in Clients, NEW p \in Pieces, Asks(c, p)'
      PROVE  p \in DOMAIN m_pieces' \cup stored'
  BY <1>1, <1>2, <1>4, AsksStep DEF Known
<1> QED BY <1>3, <1>4 DEF Known

-----------------------------------------------------------------------------
(* No block is forgotten *)

(* Block b is in a container, or a client is about to put it there. *)
Held(b) ==
  \/ InSequence(m_pending_requests, b) > 0
  \/ b \in m_active_requests
  \/ \E c \in Clients : Asks(c, b.piece_index)

Remembered ==
  is_sender_active =>
    \A p \in DOMAIN m_pieces : \A b \in Blocks(p) :
      m_pieces[p].data[b] # "zero" \/ Held(b)

LEMMA TurnHolds ==
  ASSUME DownloaderInv', NEW pending \in Seq(Requests), NEW active, NEW choked,
         Turn(pending, active, choked), NEW b \in Requests,
         InSequence(pending, b) > 0 \/ b \in active
  PROVE  InSequence(m_pending_requests, b)' > 0 \/ b \in m_active_requests'
<1>1. InSequence(m_pending_requests, b)' \in Nat
  BY CopiesThen DEF CopiesAre
<1>2. InSequence(pending, b) \in Nat
  BY InSequenceFacts
<1> QED BY <1>1, <1>2 DEF Turn, Moves, Stays

(* While the sender runs, a block is let go of only when it arrives. *)
LEMMA HeldStep ==
  ASSUME DownloaderInv, DownloaderInv', PeerSide, BlockTypes, BlockStep,
         is_sender_active', NEW b \in Requests, Held(b)
  PROVE  \/ Held(b)'
         \/ \E m \in Incoming : ReadsBlock(m) /\ m.block = b
         \/ \E m \in Incoming : Opens(m)
<1>1. /\ InSequence(m_pending_requests, b) \in Nat
      /\ m_pending_requests \in Seq(Requests)
  BY CopiesNow DEF CopiesAre, DownloaderInv, OwnInv, Containers
<1>2. b.piece_index \in Pieces
  BY RequestFacts
<1>3. ASSUME UNCHANGED <<m_pending_requests, m_active_requests>>, SameAsks \/ UNCHANGED call
      PROVE  Held(b)'
  <2>1. \A c \in Clients : Asks(c, b.piece_index) => Asks(c, b.piece_index)'
    BY <1>2, <1>3 DEF SameAsks, Asks
  <2> QED BY <1>3, <2>1 DEF Held
<1>4. ASSUME NEW active, NEW choked, Turn(m_pending_requests, active, choked), SameAsks,
             b \in m_active_requests => b \in active
      PROVE  Held(b)'
  <2>1. \A c \in Clients : Asks(c, b.piece_index) => Asks(c, b.piece_index)'
    BY <1>2, <1>4 DEF SameAsks
  <2>2. ASSUME InSequence(m_pending_requests, b) > 0 \/ b \in active
        PROVE  InSequence(m_pending_requests, b)' > 0 \/ b \in m_active_requests'
    BY <1>1, <1>4, <2>2, TurnHolds
  <2> QED BY <1>4, <2>1, <2>2 DEF Held
<1>5. ASSUME NEW p \in Pieces, NEW choked,
             Turn(m_pending_requests \o BlockRequests(p), m_active_requests, choked),
             b.piece_index = p \/ InSequence(m_pending_requests, b) > 0 \/ b \in m_active_requests
      PROVE  Held(b)'
  <2>1. m_pending_requests \o BlockRequests(p) \in Seq(Requests)
    BY BlockRequestsType DEF DownloaderInv, OwnInv, Containers
  <2>2. InSequence(m_pending_requests \o BlockRequests(p), b)
          = InSequence(m_pending_requests, b) + (IF b.piece_index = p THEN 1 ELSE 0)
    BY Lengthened
  <2>3. InSequence(m_pending_requests \o BlockRequests(p), b) > 0 \/ b \in m_active_requests
    BY <1>1, <1>5, <2>2
  <2>4. InSequence(m_pending_requests, b)' > 0 \/ b \in m_active_requests'
    BY <1>5, <2>1, <2>3, TurnHolds
  <2> QED BY <2>4 DEF Held
<1>6. CASE Quiet \/ RemoteMoves
  BY <1>3, <1>6
     DEF Quiet, RemoteMoves, TookOne, Answered, Choked, Unchoked, Announced, SaidOne,
         OursUntouched
<1>7. CASE OwnStep
  <2>1. CASE GoesOn
    BY <1>4, <2>1 DEF GoesOn
  <2>2. ASSUME NEW c \in Clients, NEW p \in Pieces, GetsInLine(c, p)
        PROVE  Held(b)'
    <3>1. CASE b.piece_index = p \/ InSequence(m_pending_requests, b) > 0
                 \/ b \in m_active_requests
      BY <1>5, <2>2, <3>1 DEF GetsInLine
    <3>2. ASSUME NEW d \in Clients, Asks(d, b.piece_index), b.piece_index # p
          PROVE  Held(b)'
      <4>1. d # c
        BY <2>2, <3>2, AsksFacts DEF GetsInLine
      <4>2. Asks(d, b.piece_index)'
        BY <1>2, <2>2, <3>2, <4>1 DEF GetsInLine, OthersAsk
      <4> QED BY <4>2 DEF Held
    <3> QED BY <3>1, <3>2 DEF Held
  <2>3. ASSUME NEW c \in Clients, NEW p \in Pieces, Downloads(c, p)
        PROVE  Held(b)'
    <3>1. \A d \in Clients : Asks(d, b.piece_index) => Asks(d, b.piece_index)'
      BY <1>2, <2>3 DEF Downloads, AsksNothing, OthersAsk, SameAsks
    <3>2. CASE \E d \in Clients : Asks(d, b.piece_index)
      BY <3>1, <3>2 DEF Held
    <3>3. CASE InSequence(m_pending_requests, b) > 0 \/ b \in m_active_requests
      <4>1. CASE UNCHANGED <<m_pending_requests, m_active_requests>>
        BY <3>3, <4>1 DEF Held
      <4>2. CASE Turn(m_pending_requests \o BlockRequests(p), m_active_requests, FALSE)
        BY <1>5, <3>3, <4>2
      <4> QED BY <2>3, <4>1, <4>2 DEF Downloads
    <3> QED BY <3>2, <3>3 DEF Held
  <2>4. ASSUME NEW c \in Clients, GivesUp(c)
        PROVE  FALSE
    BY <2>4 DEF GivesUp, Steady, PeerSide, ThrowsAfterEnd
  <2>5. CASE \E p \in Pieces : Takes(p)
    BY <1>3, <2>5 DEF Takes
  <2> QED BY <1>7, <2>1, <2>2, <2>3, <2>4, <2>5 DEF OwnStep
<1>8. CASE ReadStep
  <2>1. ASSUME NEW m \in Incoming, ReadsBlock(m), m.block # b
        PROVE  Held(b)'
    <3>1. b \in m_active_requests => b \in ActiveAfter(m)
      BY <2>1 DEF ActiveAfter
    <3> QED BY <1>4, <2>1, <3>1 DEF ReadsBlock, Reads
  <2>2. ASSUME NEW m \in Incoming, ReadsChoke(m)
        PROVE  Held(b)'
    <3>1. /\ InSequence(m_pending_requests, b)'
               = InSequence(m_pending_requests, b) + (IF b \in m_active_requests THEN 1 ELSE 0)
          /\ SameAsks
      BY <2>2 DEF ReadsChoke, Reads
    <3>2. \A c \in Clients : Asks(c, b.piece_index) => Asks(c, b.piece_index)'
      BY <1>2, <3>1 DEF SameAsks
    <3> QED BY <1>1, <3>1, <3>2 DEF Held
  <2>3. ASSUME NEW m \in Incoming, ReadsUnchoke(m)
        PROVE  Held(b)'
    BY <1>4, <2>3 DEF ReadsUnchoke, Reads
  <2>4. ASSUME NEW m \in Incoming, ReadsNews(m)
        PROVE  Held(b)'
    BY <1>3, <2>4 DEF ReadsNews, Reads
  <2> QED BY <1>8, <2>1, <2>2, <2>3, <2>4 DEF ReadStep
<1> QED BY <1>6, <1>7, <1>8 DEF BlockStep

LEMMA RememberedStep ==
  ASSUME DownloaderInv, DownloaderInv', PeerSide, BlockTypes, Remembered, BlockStep
  PROVE  Remembered'
<1> SUFFICES ASSUME is_sender_active', NEW p \in DOMAIN m_pieces', NEW b \in Blocks(p)
             PROVE  m_pieces'[p].data[b] # "zero" \/ Held(b)'
  BY DEF Remembered
<1>1. ASSUME NEW m \in Incoming, Opens(m)
      PROVE  FALSE
  BY <1>1 DEF Opens
<1>2. is_sender_active
  BY <1>1 DEF BlockStep, Quiet, OwnStep, GoesOn, GetsInLine, Downloads, GivesUp, Takes,
              ReadStep, ReadsBlock, ReadsChoke, ReadsUnchoke, ReadsNews, Reads, RemoteMoves,
              TookOne, Answered, Choked, Unchoked, Announced, SaidOne, OursUntouched, Steady
<1>3. ASSUME p \in Pieces
      PROVE  b \in Requests /\ b.piece_index = p
  <2>1. b \in Requests
    BY <1>3 DEF Requests
  <2> QED BY <1>3, <2>1, RequestFacts
<1>4. CASE Kept(p)
  <2>1. p \in DOMAIN m_pieces /\ m_pieces'[p] = m_pieces[p] /\ p \in Pieces
    BY <1>4 DEF Kept, BlockTypes
  <2>2. b \in Requests /\ b.piece_index = p
    BY <1>3, <2>1
  <2>3. CASE m_pieces[p].data[b] # "zero"
    BY <2>1, <2>3
  <2>4. CASE Held(b)
    <3>1. ASSUME NEW m \in Incoming, ReadsBlock(m), m.block = b
          PROVE  m_pieces'[p].data[b] # "zero"
      <4>1. /\ Arrival(p, m_pieces[p], m_pieces'[p], m.block, m.content)
            /\ m_pieces[p] \in FilePiece(p)
        BY <2>1, <2>2, <3>1, ArrivalLemma DEF ReadsBlock, BlockTypes
      <4> QED BY <3>1, <4>1 DEF Arrival, FilePiece
    <3> QED BY <1>1, <2>2, <2>4, <3>1, HeldStep
  <2> QED BY <1>2, <2>1, <2>3, <2>4 DEF Remembered
<1>5. CASE p \in Pieces /\ Fresh(p)
  <2>1. PICK c \in Clients : Downloads(c, p)
    BY <1>5 DEF Fresh
  <2>2. b \in Requests /\ b.piece_index = p
    BY <1>3, <1>5
  <2>3. CASE Asks(c, p)'
    BY <2>2, <2>3 DEF Held
  <2>4. CASE Turn(m_pending_requests \o BlockRequests(p), m_active_requests, FALSE)
    <3>1. m_pending_requests \o BlockRequests(p) \in Seq(Requests)
      BY <1>5, BlockRequestsType DEF DownloaderInv, OwnInv, Containers
    <3>2. /\ InSequence(m_pending_requests \o BlockRequests(p), b)
               = InSequence(m_pending_requests, b) + 1
          /\ InSequence(m_pending_requests, b) \in Nat
      BY <1>5, <2>2, Lengthened, CopiesNow DEF CopiesAre
    <3>3. InSequence(m_pending_requests \o BlockRequests(p), b) > 0
      BY <3>2
    <3>4. InSequence(m_pending_requests, b)' > 0 \/ b \in m_active_requests'
      BY <2>2, <2>4, <3>1, <3>3, TurnHolds
    <3> QED BY <3>4 DEF Held
  <2> QED BY <2>1, <2>3, <2>4 DEF Downloads
<1>6. ASSUME NEW m \in Incoming, Grown(p, m)
      PROVE  m_pieces'[p].data[b] # "zero" \/ Held(b)'
  <2>1. /\ p \in DOMAIN m_pieces /\ p \in Pieces /\ ReadsBlock(m)
        /\ Arrival(p, m_pieces[p], m_pieces'[p], m.block, m.content)
        /\ m_pieces[p] \in FilePiece(p)
    BY <1>6 DEF Grown, BlockTypes
  <2>2. b \in Requests /\ b.piece_index = p
    BY <1>3, <2>1
  <2>3. CASE m.block = b
    BY <2>1, <2>3 DEF Arrival, FilePiece
  <2>4. CASE m.block # b
    <3>1. m_pieces'[p].data[b] = m_pieces[p].data[b]
      BY <2>1, <2>4 DEF Arrival, FilePiece
    <3>2. ASSUME Held(b)
          PROVE  Held(b)'
      <4>1. \A n \in Incoming : ReadsBlock(n) => n = m
        BY <2>1 DEF ReadsBlock, Reads
      <4> QED BY <1>1, <2>2, <2>4, <3>2, <4>1, HeldStep
    <3> QED BY <1>2, <2>1, <3>1, <3>2 DEF Remembered
  <2> QED BY <2>3, <2>4
<1> QED BY <1>4, <1>5, <1>6, PieceChanges

(* The same in the words of the specification. *)
LEMMA RememberedIs == DownloaderInv /\ BlockTypes /\ Remembered => NoBlockForgotten
<1> SUFFICES ASSUME DownloaderInv, BlockTypes, Remembered, is_sender_active,
                    NEW p \in DOMAIN m_pieces, NEW b \in Blocks(p)
             PROVE  RequestedOrArrived(p, b)
  BY DEF NoBlockForgotten
<1>1. p \in Pieces
  BY DEF BlockTypes
<1>2. b \in Requests
  BY <1>1 DEF Requests
<1>3. b.piece_index = p
  BY <1>1, <1>2, RequestFacts
<1>4. Waiting(b) <=> InSequence(m_pending_requests, b) > 0
  BY WaitingIs
<1> QED BY <1>3, <1>4 DEF Remembered, Held, Asks, RequestedOrArrived

-----------------------------------------------------------------------------
(* No slot is lost but those of pieces that were handed out *)

Leaked(r) ==
  /\ r.piece_index \in stored
  /\ InSequence(m_pending_requests, r) > 0 \/ r.piece_index \notin DOMAIN m_pieces

SlotsCome ==
  Connected =>
    \A r \in m_active_requests : CopiesUnderway(r) > 0 \/ ChokeUnderway \/ Leaked(r)

(* A Choke that is coming is coming until it is read. *)
LEMMA ChokeStays ==
  ASSUME DownloaderInv, NEW m \in Incoming
  PROVE  /\ Reads(m) /\ m.type # "Choke" /\ ChokeUnderway => ChokeUnderway'
         /\ SaidOne(m) /\ (ChokeUnderway \/ m.type = "Choke") => ChokeUnderway'
<1>1. inbound \in Seq(Incoming)
  BY DEF DownloaderInv, OwnInv, NetworkTyped
<1>2. ASSUME Reads(m), m.type # "Choke", ChokeUnderway
      PROVE  ChokeUnderway'
  <2>1. inbound # <<>> /\ m = Head(inbound) /\ inbound' = Tail(inbound)
    BY <1>2 DEF Reads
  <2>2. /\ Len(inbound) \in Nat \ {0}
        /\ DOMAIN inbound = 1..Len(inbound)
        /\ DOMAIN Tail(inbound) = 1..(Len(inbound) - 1)
        /\ inbound[1] = Head(inbound)
        /\ \A i \in DOMAIN Tail(inbound) : Tail(inbound)[i] = inbound[i + 1]
    BY <1>1, <2>1, TailAt
  <2>3. PICK i \in DOMAIN inbound : inbound[i].type = "Choke"
    BY <1>2 DEF ChokeUnderway
  <2>4. i # 1
    BY <1>2, <2>1, <2>2, <2>3
  <2>5. i - 1 \in DOMAIN Tail(inbound) /\ (i - 1) + 1 = i
    BY <2>2, <2>4
  <2>6. i - 1 \in DOMAIN inbound' /\ inbound'[i - 1].type = "Choke"
    BY <2>1, <2>2, <2>3, <2>5
  <2> QED BY <2>6 DEF ChokeUnderway
<1>3. ASSUME SaidOne(m), ChokeUnderway \/ m.type = "Choke"
      PROVE  ChokeUnderway'
  <2>1. inbound' = Append(inbound, m)
    BY <1>3 DEF SaidOne
  <2>2. /\ Len(inbound) \in Nat
        /\ DOMAIN inbound = 1..Len(inbound)
        /\ DOMAIN Append(inbound, m) = 1..(Len(inbound) + 1)
        /\ Append(inbound, m)[Len(inbound) + 1] = m
        /\ \A i \in DOMAIN inbound : Append(inbound, m)[i] = inbound[i]
    BY <1>1, AppendAt
  <2>3. CASE m.type = "Choke"
    <3>1. Len(inbound) + 1 \in DOMAIN inbound' /\ inbound'[Len(inbound) + 1].type = "Choke"
      BY <2>1, <2>2, <2>3
    <3> QED BY <3>1 DEF ChokeUnderway
  <2>4. ASSUME NEW i \in DOMAIN inbound, inbound[i].type = "Choke"
        PROVE  ChokeUnderway'
    <3>1. i \in DOMAIN inbound' /\ inbound'[i].type = "Choke"
      BY <2>1, <2>2, <2>4
    <3> QED BY <3>1 DEF ChokeUnderway
  <2> QED BY <1>3, <2>3, <2>4 DEF ChokeUnderway
<1> QED BY <1>2, <1>3

LEMMA ComesIsUnderway ==
  ASSUME Comes(inbound)
  PROVE  ChokeUnderway
BY DEF Comes, ChokeUnderway

LEMMA SlotsComeStep ==
  ASSUME DownloaderInv, DownloaderInv', BlockTypes, Chokes, Known, SlotsCome, BlockStep
  PROVE  SlotsCome'
<1> SUFFICES ASSUME Connected', NEW r \in m_active_requests'
             PROVE  CopiesUnderway(r)' > 0 \/ ChokeUnderway' \/ Leaked(r)'
  BY DEF SlotsCome
<1>0. r \in Requests
  BY DEF DownloaderInv, OwnInv, Containers
<1>1. /\ CopiesToRemote(r) \in Nat /\ Served(r) \in Nat
      /\ CopiesUnderway(r) = CopiesToRemote(r) + Served(r)
      /\ InSequence(m_pending_requests, r) \in Nat
  BY <1>0, CopiesNow DEF CopiesAre
<1>2. /\ CopiesToRemote(r)' \in Nat /\ Served(r)' \in Nat
      /\ CopiesUnderway(r)' = CopiesToRemote(r)' + Served(r)'
      /\ InSequence(m_pending_requests, r)' \in Nat
  BY <1>0, CopiesThen DEF CopiesAre
<1>3. ASSUME Connected, r \in m_active_requests
      PROVE  CopiesUnderway(r) > 0 \/ ChokeUnderway \/ Leaked(r)
  BY <1>3 DEF SlotsCome
<1>4. ASSUME UNCHANGED inbound PROVE ChokeUnderway' = ChokeUnderway
  BY <1>4 DEF ChokeUnderway
<1>5. ASSUME Steady \/ Quiet \/ OursUntouched PROVE Connected
  BY <1>5 DEF Steady, Quiet, OursUntouched, Connected
<1>6. CASE Quiet
  <2>1. /\ CopiesToRemote(r)' = CopiesToRemote(r) /\ r \in m_active_requests
        /\ UNCHANGED <<inbound, remote, m_pending_requests, m_pieces, stored>>
    BY <1>0, <1>6 DEF Quiet
  <2>2. Served(r)' = Served(r)
    BY <2>1, ServedSame
  <2> QED BY <1>1, <1>2, <1>3, <1>4, <1>5, <1>6, <2>1, <2>2 DEF Leaked
<1>7. ASSUME NEW m \in Incoming, Opens(m)
      PROVE  FALSE
  BY <1>7 DEF Opens
<1>8. ASSUME NEW pending, NEW active, NEW choked, Moves(r, pending, choked)
      PROVE  CopiesUnderway(r)' > 0
  BY <1>1, <1>2, <1>8 DEF Moves
<1>9. ASSUME NEW pending, NEW active, NEW choked, Turn(pending, active, choked)
      PROVE  CopiesUnderway(r)' > 0 \/ Stays(r, pending, active)
  BY <1>0, <1>8, <1>9 DEF Turn
<1>10. CASE OwnStep
  <2>1. Connected /\ UNCHANGED <<inbound, remote>> /\ Served(r)' = Served(r)
    <3>1. Steady /\ UNCHANGED <<inbound, remote>>
      BY <1>10 DEF OwnStep, GoesOn, GetsInLine, Downloads, GivesUp, Takes
    <3> QED BY <1>5, <3>1, ServedSame
  <2>2. ASSUME r \in m_active_requests, CopiesToRemote(r)' = CopiesToRemote(r)
        PROVE  CopiesUnderway(r)' > 0 \/ ChokeUnderway' \/ Leaked(r)
    BY <1>1, <1>2, <1>3, <1>4, <2>1, <2>2
  <2>3. CASE GoesOn
    <3>1. UNCHANGED <<m_pieces, stored>>
          /\ Turn(m_pending_requests, m_active_requests, status.self_choked)
      BY <2>3 DEF GoesOn
    <3>2. ASSUME Stays(r, m_pending_requests, m_active_requests)
          PROVE  CopiesUnderway(r)' > 0 \/ ChokeUnderway' \/ Leaked(r)'
      BY <2>2, <3>1, <3>2 DEF Stays, Leaked
    <3> QED BY <1>9, <3>1, <3>2
  <2>4. ASSUME NEW p \in Pieces, NEW choked,
               Turn(m_pending_requests \o BlockRequests(p), m_active_requests, choked)
        PROVE  \/ CopiesUnderway(r)' > 0
               \/ /\ CopiesToRemote(r)' = CopiesToRemote(r)
                  /\ r \in m_active_requests
                  /\ InSequence(m_pending_requests, r) > 0 \/ r.piece_index = p =>
                       InSequence(m_pending_requests, r)' > 0
    <3>1. InSequence(m_pending_requests \o BlockRequests(p), r)
            = InSequence(m_pending_requests, r) + (IF r.piece_index = p THEN 1 ELSE 0)
      BY <1>0, Lengthened
    <3>2. ASSUME Stays(r, m_pending_requests \o BlockRequests(p), m_active_requests)
          PROVE  /\ CopiesToRemote(r)' = CopiesToRemote(r)
                 /\ r \in m_active_requests
                 /\ InSequence(m_pending_requests, r) > 0 \/ r.piece_index = p =>
                      InSequence(m_pending_requests, r)' > 0
      BY <1>1, <3>1, <3>2 DEF Stays
    <3> QED BY <1>9, <2>4, <3>2
  <2>5. ASSUME NEW c \in Clients, NEW p \in Pieces, GetsInLine(c, p)
        PROVE  CopiesUnderway(r)' > 0 \/ ChokeUnderway' \/ Leaked(r)'
    <3>1. UNCHANGED <<m_pieces, stored>>
          /\ Turn(m_pending_requests \o BlockRequests(p), m_active_requests, status.self_choked)
      BY <2>5 DEF GetsInLine
    <3> QED BY <2>2, <2>4, <3>1 DEF Leaked
  <2>6. ASSUME NEW c \in Clients, NEW p \in Pieces, Downloads(c, p)
        PROVE  CopiesUnderway(r)' > 0 \/ ChokeUnderway' \/ Leaked(r)'
    <3>1. CASE ~status.self_choked
      <4>1. /\ Turn(m_pending_requests \o BlockRequests(p), m_active_requests, FALSE)
            /\ UNCHANGED stored /\ DOMAIN m_pieces' = DOMAIN m_pieces \cup {p}
        BY <2>6, <3>1 DEF Downloads
      <4> QED BY <2>2, <2>4, <4>1 DEF Leaked
    <3>2. CASE status.self_choked
      <4>1. m_active_requests = {} /\ UNCHANGED m_active_requests
        BY <2>6, <3>2 DEF Downloads, Chokes, ChokedHasNone
      <4> QED BY <4>1
    <3> QED BY <3>1, <3>2
  <2>7. ASSUME NEW c \in Clients, GivesUp(c)
        PROVE  CopiesUnderway(r)' > 0 \/ ChokeUnderway' \/ Leaked(r)'
    <3>1. /\ UNCHANGED <<m_pieces, stored, m_pending_requests, m_active_requests>>
          /\ CopiesToRemote(r)' = CopiesToRemote(r)
      BY <1>0, <2>7 DEF GivesUp, SameCopies
    <3> QED BY <2>2, <3>1 DEF Leaked
  <2>8. ASSUME NEW p \in Pieces, Takes(p)
        PROVE  CopiesUnderway(r)' > 0 \/ ChokeUnderway' \/ Leaked(r)'
    <3>1. /\ UNCHANGED <<m_pending_requests, m_active_requests>>
          /\ CopiesToRemote(r)' = CopiesToRemote(r)
          /\ stored' = stored \cup {p} /\ DOMAIN m_pieces' = DOMAIN m_pieces \ {p}
      BY <1>0, <2>8 DEF Takes, SameCopies
    <3> QED BY <2>2, <3>1 DEF Leaked
  <2> QED BY <1>10, <2>3, <2>5, <2>6, <2>7, <2>8 DEF OwnStep
<1>11. CASE ReadStep
  <2>1. ASSUME NEW m \in Incoming, Reads(m), m.type # "Choke", ChokeUnderway
        PROVE  ChokeUnderway'
    BY <2>1, ChokeStays
  <2>2. ASSUME NEW m \in Incoming, Reads(m)
        PROVE  /\ Connected /\ UNCHANGED stored
               /\ Served(r) = Served(r)' + (IF m.type = "Piece" /\ m.block = r THEN 1 ELSE 0)
    BY <1>0, <1>5, <2>2, ServedRead DEF Reads
  <2>3. ASSUME NEW m \in Incoming, ReadsBlock(m)
        PROVE  CopiesUnderway(r)' > 0 \/ ChokeUnderway' \/ Leaked(r)'
    <3>1. /\ Reads(m) /\ m.type = "Piece" /\ DOMAIN m_pieces' = DOMAIN m_pieces
          /\ Turn(m_pending_requests, ActiveAfter(m), status.self_choked)
      BY <2>3, ArrivalLemma DEF ReadsBlock
    <3>2. ASSUME Stays(r, m_pending_requests, ActiveAfter(m))
          PROVE  CopiesUnderway(r)' > 0 \/ ChokeUnderway' \/ Leaked(r)'
      <4>1. /\ r \in ActiveAfter(m) /\ r \in m_active_requests
            /\ CopiesToRemote(r)' = CopiesToRemote(r)
            /\ InSequence(m_pending_requests, r)' = InSequence(m_pending_requests, r)
        BY <3>2 DEF Stays, ActiveAfter
      <4>2. CASE m.block = r
        <5>1. r.piece_index \notin DOMAIN m_pieces
          BY <4>1, <4>2 DEF ActiveAfter
        <5>2. r.piece_index \in stored
          BY <1>0, <4>1, <5>1 DEF Known, Present
        <5> QED BY <2>2, <3>1, <5>1, <5>2 DEF Leaked
      <4>3. CASE m.block # r
        <5>1. CopiesUnderway(r)' = CopiesUnderway(r)
          BY <1>1, <1>2, <2>2, <3>1, <4>1, <4>3
        <5> QED BY <1>3, <2>1, <2>2, <3>1, <4>1, <5>1 DEF Leaked
      <4> QED BY <4>2, <4>3
    <3> QED BY <1>9, <3>1, <3>2
  <2>4. ASSUME NEW m \in Incoming, ReadsChoke(m)
        PROVE  FALSE
    BY <2>4 DEF ReadsChoke
  <2>5. ASSUME NEW m \in Incoming, ReadsUnchoke(m)
        PROVE  CopiesUnderway(r)' > 0 \/ ChokeUnderway' \/ Leaked(r)'
    <3>1. /\ Reads(m) /\ m.type = "Unchoke" /\ UNCHANGED m_pieces
          /\ Turn(m_pending_requests, m_active_requests, FALSE)
      BY <2>5 DEF ReadsUnchoke
    <3>2. ASSUME Stays(r, m_pending_requests, m_active_requests)
          PROVE  CopiesUnderway(r)' > 0 \/ ChokeUnderway' \/ Leaked(r)'
      <4>1. /\ r \in m_active_requests
            /\ CopiesToRemote(r)' = CopiesToRemote(r)
            /\ InSequence(m_pending_requests, r)' = InSequence(m_pending_requests, r)
        BY <3>2 DEF Stays
      <4>2. CopiesUnderway(r)' = CopiesUnderway(r)
        BY <1>1, <1>2, <2>2, <3>1, <4>1
      <4> QED BY <1>3, <2>1, <2>2, <3>1, <4>1, <4>2 DEF Leaked
    <3> QED BY <1>9, <3>1, <3>2
  <2>6. ASSUME NEW m \in Incoming, ReadsNews(m)
        PROVE  CopiesUnderway(r)' > 0 \/ ChokeUnderway' \/ Leaked(r)'
    <3>1. /\ Reads(m) /\ m.type # "Choke" /\ m.type # "Piece"
          /\ UNCHANGED <<m_pieces, m_pending_requests, m_active_requests>>
          /\ CopiesToRemote(r)' = CopiesToRemote(r)
      BY <1>0, <2>6 DEF ReadsNews, SameCopies
    <3>2. CopiesUnderway(r)' = CopiesUnderway(r)
      BY <1>1, <1>2, <2>2, <3>1
    <3> QED BY <1>3, <2>1, <2>2, <3>1, <3>2 DEF Leaked
  <2> QED BY <1>11, <2>3, <2>4, <2>5, <2>6 DEF ReadStep
<1>12. CASE RemoteMoves
  <2>1. OursUntouched
    BY <1>12 DEF RemoteMoves, TookOne, Answered, Choked, Unchoked, Announced, SaidOne
  <2>2. /\ Connected /\ r \in m_active_requests
        /\ Leaked(r)' = Leaked(r)
    BY <1>5, <2>1 DEF OursUntouched, Leaked
  <2>3. CASE TookOne
    <3>1. CASE remote.choking
      <4>1. ~status.self_choked
        BY <2>2 DEF Chokes, ChokedHasNone
      <4>2. ChokeUnderway
        BY <3>1, <4>1, ComesIsUnderway DEF Chokes, ChokeComes
      <4> QED BY <1>4, <2>3, <4>2 DEF TookOne
    <3>2. CASE ~remote.choking
      BY <1>0, <1>3, <1>4, <2>2, <2>3, <3>2 DEF TookOne
    <3> QED BY <3>1, <3>2
  <2>4. ASSUME NEW m \in Incoming, Answered(m) \/ Unchoked(m) \/ Announced(m)
        PROVE  CopiesUnderway(r)' > 0 \/ ChokeUnderway' \/ Leaked(r)'
    <3>1. SaidOne(m) /\ Served(r)' = Served(r)
      BY <1>0, <2>4 DEF Answered, Unchoked, Announced
    <3>2. CopiesUnderway(r)' = CopiesUnderway(r)
      BY <1>0, <1>1, <1>2, <3>1 DEF SaidOne, SameCopies
    <3>3. ChokeUnderway => ChokeUnderway'
      BY <3>1, ChokeStays
    <3> QED BY <1>3, <2>2, <3>2, <3>3
  <2>5. ASSUME NEW m \in Incoming, Choked(m)
        PROVE  ChokeUnderway'
    BY <2>5, ChokeStays DEF Choked
  <2> QED BY <1>12, <2>3, <2>4, <2>5 DEF RemoteMoves
<1> QED BY <1>6, <1>7, <1>10, <1>11, <1>12 DEF BlockStep

-----------------------------------------------------------------------------
(***************************************************************************)
(* The inductive invariant, whether or not requests are answered twice.    *)
(***************************************************************************)
BlockInv ==
  /\ DownloaderInv
  /\ PeerSide
  /\ BlockTypes
  /\ Begins
  /\ Chokes
  /\ Counted
  /\ Known
  /\ Remembered
  /\ SlotsCome

LEMMA BlockInit ==
  ASSUME Init
  PROVE  BlockInv
<1>1. DownloaderInv
  BY DownloaderInit
<1>2. PeerSide
  BY DEF Init, PeerInit, PeerSide, HandEmpty, ConnectsOnce, ThrowsAfterEnd, Tasks
<1>3. /\ DOMAIN m_pieces = {} /\ stored = {}
      /\ m_pending_requests = <<>> /\ m_active_requests = {}
      /\ remote.choking /\ remote.requests = <<>> /\ inbound = <<>> /\ outbound = <<>>
      /\ call = [c \in Clients |-> Idle]
  BY DEF Init
<1>4. BlockTypes
  <2>1. status \in [self_choked : BOOLEAN, remote_bitfield : SUBSET Pieces]
    BY DEF Init, PeerInit
  <2>2. budget \in [calls : 0..MaxCalls, chokes : 0..MaxChokes, bad : 0..MaxBad]
    BY DownloaderAssumption DEF Init
  <2> QED BY <1>3, <2>1, <2>2 DEF BlockTypes
<1>5. status.self_choked /\ link # "up"
  BY DEF Init, PeerInit
<1>6. Begins
  BY <1>3, <1>5 DEF Begins
<1>7. Chokes
  <2>1. DOMAIN inbound = {}
    BY <1>3
  <2>2. Silent(inbound, 0)
    BY <2>1 DEF Silent
  <2> QED BY <1>3, <1>5, <2>2 DEF Chokes, ChokeComes, ChokedHasNone, RemoteDrops
<1>8. Counted /\ Remembered /\ SlotsCome
  BY <1>3 DEF Counted, Remembered, SlotsCome
<1>9. Known
  <2>1. ASSUME NEW r \in Requests
        PROVE  ~Present(r)
    <3>1. InSequence(m_pending_requests, r) = 0
      BY <1>3, InSequenceFacts, <<>> \in Seq(Requests)
    <3>2. InSequence(outbound, r) = 0 /\ InSequence(remote.requests, r) = 0
      BY <1>3, InSequenceFacts, <<>> \in Seq(Requests)
    <3>3. ComingIn(inbound, r) = 0
      <4>1. inbound \in Seq(Incoming) /\ DOMAIN inbound = {}
        BY <1>3
      <4>2. /\ ComingIn(inbound, r) \in Nat
            /\ ComingIn(inbound, r) > 0 <=>
              \E i \in DOMAIN inbound : inbound[i].type = "Piece" /\ inbound[i].block = r
        BY <4>1, ComingType
      <4> QED BY <4>1, <4>2
    <3>4. Queued(r) = 0
      <4>1. m_send_queue = <<>> /\ waiters = <<>> /\ hand = NoMessage
        BY DEF Init, PeerInit
      <4>2. InSequence(m_send_queue, r) = 0
        BY <4>1, InSequenceFacts, <<>> \in Seq(Requests)
      <4>3. <<>> \in Seq(Waiter)
        OBVIOUS
      <4>4. InLine(r) = 0
        BY <4>1, <4>3, LineCounts DEF InLine
      <4>5. hand # r
        BY <4>1, RequestFacts
      <4> QED BY <4>2, <4>4, <4>5 DEF Queued
    <3>5. CopiesUnderway(r) = 0
      BY <1>1, <3>2, <3>3, <3>4, CopiesNow DEF CopiesAre
    <3> QED BY <1>3, <3>1, <3>5 DEF Present
  <2>2. \A c \in Clients : \A p \in Pieces : ~Asks(c, p)
    BY <1>3, AsksFacts
  <2> QED BY <2>1, <2>2 DEF Known
<1> QED BY <1>1, <1>2, <1>4, <1>6, <1>7, <1>8, <1>9 DEF BlockInv

LEMMA BlockInvStep ==
  ASSUME BlockInv, [Next]_vars
  PROVE  BlockInv' /\ BlockStep
<1>1. DownloaderInv /\ PeerSide /\ BlockTypes /\ Begins /\ Chokes /\ Counted /\ Known
      /\ Remembered /\ SlotsCome
  BY DEF BlockInv
<1>2. DownloaderInv' /\ [PeerNext]_peerVars
  BY <1>1, DownloaderStep
<1>3. PeerSide'
  BY <1>1, <1>2, PeerSideStep
<1>4. Begins'
  BY <1>1, <1>2, BeginsStep
<1>5. BlockStep
  BY <1>1, <1>2, StepEffect
<1>6. BlockTypes'
  BY <1>1, <1>5, BlockTypesStep
<1>7. Chokes'
  BY <1>1, <1>2, <1>5, ChokesStep
<1>8. Counted'
  BY <1>1, <1>5, <1>6, CountedStep
<1>9. Known'
  BY <1>1, <1>2, <1>5, KnownStep
<1>10. Remembered'
  BY <1>1, <1>2, <1>5, RememberedStep
<1>11. SlotsCome'
  BY <1>1, <1>2, <1>5, SlotsComeStep
<1> QED BY <1>2, <1>3, <1>4, <1>5, <1>6, <1>7, <1>8, <1>9, <1>10, <1>11 DEF BlockInv

(* The invariant holds in every state of every behaviour. *)
THEOREM BlockInvariant == Spec => []BlockInv
<1>1. Init => BlockInv
  BY BlockInit
<1>2. BlockInv /\ [Next]_vars => BlockInv'
  BY BlockInvStep
<1> QED BY <1>1, <1>2, PTL DEF Spec

(* The containers, the pieces, the calls and the connection have their     *)
(* types, for every geometry and every remote peer                         *)
(* (downloader.hpp:20-61, downloader.cpp).                                 *)
THEOREM DownloaderTypes == Spec => []TypeOK
<1>1. BlockInv => TypeOK
  BY DEF BlockInv, DownloaderInv, PeerInv, OwnInv, Containers, NetworkTyped, CallsFollow,
         BlockTypes, TypeOK
<1> QED BY <1>1, BlockInvariant, PTL

(* While the sender runs, every block of a piece being downloaded arrived, *)
(* or is in one of the request containers, or is about to be put there;    *)
(* chokes, corrupt blocks and repeated downloads included                  *)
(* (downloader.cpp:40-62, 124-131, 145-149).                               *)
THEOREM BlocksAreRemembered == Spec => []NoBlockForgotten
<1>1. BlockInv => NoBlockForgotten
  BY RememberedIs DEF BlockInv
<1> QED BY <1>1, BlockInvariant, PTL

(* What the invariant says of the slots, in the words of the property. *)
LEMMA SlotsAre == BlockInv => LeakOnlyForStoredPieces
<1> SUFFICES ASSUME BlockInv, Connected, NEW r \in m_active_requests
             PROVE  \/ CopiesUnderway(r) > 0
                    \/ ChokeUnderway
                    \/ /\ r.piece_index \in stored
                       /\ Waiting(r) \/ r.piece_index \notin DOMAIN m_pieces
  BY DEF LeakOnlyForStoredPieces
<1>1. Waiting(r) <=> InSequence(m_pending_requests, r) > 0
  BY WaitingIs DEF BlockInv
<1> QED BY <1>1 DEF BlockInv, SlotsCome, Leaked

(* A slot of m_active_requests is lost only to a piece that was handed     *)
(* out, even when requests are answered twice (downloader.cpp:71-79).      *)
THEOREM OnlyStoredPiecesLeak == Spec => []LeakOnlyForStoredPieces
BY SlotsAre, BlockInvariant, PTL

(* A byte that is missing is one of a missing block, which is in one of    *)
(* the containers; and a slot of a piece being downloaded is not lost.     *)
LEMMA StuckCounted == BlockInv => StuckOnlyByOvershoot
<1> SUFFICES ASSUME BlockInv, NEW p \in DOMAIN m_pieces, Connected,
                    m_pieces[p].status # "Complete",
                    ~(m_pieces[p].bytes_downloaded > get_piece_size(p)),
                    ~ChokeUnderway,
                    ~\E c \in Clients : call[c] = [pc |-> "interested", piece |-> p]
             PROVE  \E b \in Blocks(p) : Waiting(b) \/ CopiesUnderway(b) > 0
  BY DEF StuckOnlyByOvershoot
<1>1. p \in Pieces /\ m_pieces[p] \in FilePiece(p) /\ Counts(p, m_pieces[p], FALSE)
  BY DEF BlockInv, BlockTypes, Counted
<1>2. /\ m_pieces[p].bytes_downloaded \in Nat /\ get_piece_size(p) \in Nat
      /\ m_pieces[p].repeated \in Nat
      /\ m_pieces[p].bytes_downloaded # get_piece_size(p)
  BY <1>1, PieceHasBytes DEF FilePiece, Counts
<1>3. PICK g : /\ Sums(p, m_pieces[p], g)
               /\ g[BlockCount(p)] + m_pieces[p].bytes_downloaded
                    = get_piece_size(p) + m_pieces[p].repeated
  BY <1>1 DEF Counts
<1>4. /\ g[BlockCount(p)] \in Nat
      /\ g[BlockCount(p)] = 0 <=> \A b \in Blocks(p) : m_pieces[p].data[b] # "zero"
  BY <1>1, <1>3, MissingBytes
<1>5. PICK b \in Blocks(p) : m_pieces[p].data[b] = "zero"
  BY <1>2, <1>3, <1>4
<1>6. RequestedOrArrived(p, b)
  BY RememberedIs DEF BlockInv, NoBlockForgotten, Connected
<1>7. CASE b \in m_active_requests
  <2>1. b \in Requests
    BY <1>1 DEF Requests
  <2>2. b.piece_index = p
    BY <1>1, <2>1, RequestFacts
  <2> QED BY <1>7, <2>2, SlotsAre DEF LeakOnlyForStoredPieces
<1> QED BY <1>5, <1>6, <1>7 DEF RequestedOrArrived

(* A piece that will get no more blocks without being Complete has counted *)
(* a block twice: bytes_downloaded passed the size it is compared with     *)
(* (downloader.cpp:87-93, 145-149).                                        *)
THEOREM StuckPiecesOvershot == Spec => []StuckOnlyByOvershoot
BY StuckCounted, BlockInvariant, PTL

(* A Complete piece without one of its blocks counted as many bytes of     *)
(* others again, however often requests are answered: what is missing and  *)
(* what was counted make up the size and what was counted again, of which  *)
(* a new download_piece leaves nothing (downloader.cpp:34-45, 87-93).      *)
THEOREM GapsAreOfRepeats == Spec => []OnlyRepeatsFillGaps
<1>1. BlockInv => OnlyRepeatsFillGaps
  <2> SUFFICES ASSUME BlockInv, NEW p \in DOMAIN m_pieces, NEW b \in Blocks(p),
                      m_pieces[p].status = "Complete", m_pieces[p].data[b] = "zero"
               PROVE  m_pieces[p].repeated >= b.length
    BY DEF OnlyRepeatsFillGaps
  <2>1. p \in Pieces /\ m_pieces[p] \in FilePiece(p) /\ Counts(p, m_pieces[p], FALSE)
    BY DEF BlockInv, BlockTypes, Counted
  <2>2. PICK g : /\ Sums(p, m_pieces[p], g)
                 /\ g[BlockCount(p)] + m_pieces[p].bytes_downloaded
                      = get_piece_size(p) + m_pieces[p].repeated
    BY <2>1 DEF Counts
  <2>3. g[BlockCount(p)] \in Nat /\ b.length <= g[BlockCount(p)]
    BY <2>1, <2>2, MissingBytes
  <2>4. /\ m_pieces[p].bytes_downloaded = get_piece_size(p)
        /\ get_piece_size(p) \in Nat /\ m_pieces[p].repeated \in Nat
    BY <2>1, PieceHasBytes DEF Counts, FilePiece
  <2>5. g[BlockCount(p)] = m_pieces[p].repeated
    BY <2>2, <2>3, <2>4
  <2> QED BY <2>3, <2>5
<1> QED BY <1>1, BlockInvariant, PTL

-----------------------------------------------------------------------------
(***************************************************************************)
(* When no request is underway twice                                       *)
(*                                                                         *)
(* Each block is asked for once at a time: it is in one of the containers  *)
(* or about to be put there, or it has arrived.  What the remote peer may  *)
(* still answer is active; after its Choke come only Have messages.        *)
(***************************************************************************)
InHand(r) ==
  InSequence(m_pending_requests, r) + (IF r \in m_active_requests THEN 1 ELSE 0)

AllZero(p) == \A b \in Blocks(p) : m_pieces[p].data[b] = "zero"

OneOfEach ==
  \A r \in Requests :
    /\ InHand(r) <= 1
    /\ InHand(r) = 1 => /\ r.piece_index \in DOMAIN m_pieces
                        /\ m_pieces[r.piece_index].data[r] = "zero"
                        /\ \A c \in Clients : ~Asks(c, r.piece_index)

AsksOnce ==
  \A c \in Clients : \A p \in Pieces :
    Asks(c, p) => /\ p \in DOMAIN m_pieces
                  /\ AllZero(p)
                  /\ \A d \in Clients : Asks(d, p) => d = c

AnswersWanted ==
  \A r \in Requests : Served(r) <= 1 /\ (Served(r) > 0 => r \in m_active_requests)

CopiesWanted ==
  ~remote.choking =>
    /\ ~ChokeUnderway
    /\ \A r \in Requests :
         CopiesUnderway(r) <= 1 /\ (CopiesUnderway(r) > 0 => r \in m_active_requests)

ChokeIsLast ==
  \A i, j \in DOMAIN inbound :
    inbound[i].type = "Choke" /\ j > i => inbound[j].type = "Have"

Exact == \A p \in DOMAIN m_pieces : Counts(p, m_pieces[p], TRUE)

Order ==
  OneOfEach /\ AsksOnce /\ AnswersWanted /\ CopiesWanted /\ ChokeIsLast /\ Exact

OrderlyInv == BlockInv /\ Order

LEMMA InHandType ==
  ASSUME DownloaderInv, NEW r \in Requests
  PROVE  /\ InHand(r) \in Nat
         /\ InSequence(m_pending_requests, r) \in Nat
         /\ r \in m_active_requests => InHand(r) = InSequence(m_pending_requests, r) + 1
         /\ r \notin m_active_requests => InHand(r) = InSequence(m_pending_requests, r)
<1>1. InSequence(m_pending_requests, r) \in Nat
  BY CopiesNow DEF CopiesAre
<1> QED BY <1>1 DEF InHand

(* By its exact count, a Complete piece is whole. *)
LEMMA WholeByCount ==
  ASSUME NEW p \in Pieces, NEW x \in FilePiece(p), Counts(p, x, TRUE), x.status = "Complete"
  PROVE  \A b \in Blocks(p) : x.data[b] # "zero"
<1>1. PICK g : /\ Sums(p, x, g) /\ x.repeated = 0
               /\ g[BlockCount(p)] + x.bytes_downloaded = get_piece_size(p) + x.repeated
  BY DEF Counts
<1>2. x.bytes_downloaded = get_piece_size(p) /\ get_piece_size(p) \in Nat
  BY PieceHasBytes DEF Counts
<1>3. /\ g[BlockCount(p)] \in Nat
      /\ g[BlockCount(p)] = 0 <=> \A b \in Blocks(p) : x.data[b] # "zero"
  BY <1>1, MissingBytes
<1> QED BY <1>1, <1>2, <1>3

(* A whole piece has no request and no client that asks for it. *)
LEMMA WholeIsFree ==
  ASSUME DownloaderInv, BlockTypes, OneOfEach, AsksOnce, NEW p \in Pieces,
         p \in DOMAIN m_pieces => \A b \in Blocks(p) : m_pieces[p].data[b] # "zero"
  PROVE  /\ \A r \in Requests : r.piece_index = p => InHand(r) = 0
         /\ \A c \in Clients : ~Asks(c, p)
<1>1. ASSUME NEW r \in Requests, r.piece_index = p
      PROVE  InHand(r) = 0
  <2>1. r \in Blocks(p) /\ InHand(r) \in Nat
    BY <1>1, RequestFacts, InHandType
  <2> QED BY <1>1, <2>1 DEF OneOfEach
<1>2. ASSUME NEW c \in Clients, Asks(c, p)
      PROVE  FALSE
  <2>1. p \in DOMAIN m_pieces /\ AllZero(p)
    BY <1>2 DEF AsksOnce
  <2>2. 1 \in 1..BlockCount(p)
    BY BlocksHold
  <2>3. Block(p, 1) \in Blocks(p)
    BY <2>2, BlockFacts
  <2> QED BY <2>1, <2>3 DEF AllZero
<1> QED BY <1>1, <1>2

(* So there is none of a piece that is handed out or asked for. *)
LEMMA FreshIsFree ==
  ASSUME ~SecondCopies, OrderlyInv, NEW p \in Pieces,
         Takes(p) \/ \E c \in Clients : Downloads(c, p)
  PROVE  /\ \A r \in Requests : r.piece_index = p => InHand(r) = 0
         /\ \A c \in Clients : ~Asks(c, p)
<1>1. p \notin DOMAIN m_pieces \/ m_pieces[p].status = "Complete"
  BY DEF Takes, Downloads
<1>2. ASSUME p \in DOMAIN m_pieces
      PROVE  \A b \in Blocks(p) : m_pieces[p].data[b] # "zero"
  <2>1. m_pieces[p] \in FilePiece(p) /\ Counts(p, m_pieces[p], TRUE)
    BY <1>2 DEF OrderlyInv, BlockInv, BlockTypes, Order, Exact
  <2> QED BY <1>1, <1>2, <2>1, WholeByCount
<1> QED BY <1>2, WholeIsFree DEF OrderlyInv, BlockInv, Order

(* A turn of the loop moves a request from one container to the other. *)
LEMMA TurnOnce ==
  ASSUME DownloaderInv', NEW pending \in Seq(Requests), NEW active, NEW choked,
         Turn(pending, active, choked), NEW r \in Requests,
         InSequence(pending, r) + (IF r \in active THEN 1 ELSE 0) <= 1
  PROVE  InHand(r)' = InSequence(pending, r) + (IF r \in active THEN 1 ELSE 0)
<1>1. InSequence(m_pending_requests, r)' \in Nat
  BY CopiesThen DEF CopiesAre
<1>2. InSequence(pending, r) \in Nat
  BY InSequenceFacts
<1>3. InHand(r)' = InSequence(m_pending_requests, r)'
                     + (IF r \in m_active_requests' THEN 1 ELSE 0)
  BY DEF InHand
<1>4. CASE Moves(r, pending, choked)
  BY <1>1, <1>2, <1>3, <1>4 DEF Moves
<1>5. CASE Stays(r, pending, active)
  BY <1>1, <1>2, <1>3, <1>5 DEF Stays
<1> QED BY <1>4, <1>5 DEF Turn

(* A block that comes in answers the one request for it. *)
LEMMA BlockRead ==
  ASSUME OrderlyInv, DownloaderInv', NEW m \in Incoming, ReadsBlock(m),
         NEW r \in Requests, m.block = r
  PROVE  /\ r \in m_active_requests
         /\ InHand(r) = 1 /\ InHand(r)' = 0
         /\ Served(r)' = 0
<1>1. DownloaderInv /\ OneOfEach /\ AnswersWanted
  BY DEF OrderlyInv, BlockInv, Order
<1>2. /\ InHand(r) \in Nat /\ InHand(r) <= 1
      /\ InSequence(m_pending_requests, r) \in Nat
      /\ m_pending_requests \in Seq(Requests)
  BY <1>1, InHandType DEF OneOfEach, DownloaderInv, OwnInv, Containers
<1>3. Turn(m_pending_requests, ActiveAfter(m), status.self_choked)
  BY DEF ReadsBlock
<1>4. /\ Served(r) = Served(r)' + 1 /\ Served(r)' \in Nat
  <2>1. Served(r) = Served(r)' + (IF m.type = "Piece" /\ m.block = r THEN 1 ELSE 0)
    BY <1>1, ServedRead DEF ReadsBlock
  <2>2. Served(r)' \in Nat
    BY CopiesThen DEF CopiesAre
  <2> QED BY <2>1, <2>2 DEF ReadsBlock
<1>5. r \in m_active_requests /\ Served(r)' = 0
  BY <1>1, <1>4 DEF AnswersWanted
<1>6. InSequence(m_pending_requests, r) = 0 /\ InHand(r) = 1
  BY <1>2, <1>5 DEF InHand
<1>7. r \notin ActiveAfter(m)
  BY <1>1, <1>6 DEF ActiveAfter, OneOfEach
<1>8. InHand(r)' = 0
  BY <1>2, <1>3, <1>6, <1>7, TurnOnce
<1> QED BY <1>5, <1>6, <1>8

(* What happens to the one request for a block. *)
Enters(r) ==
  /\ InHand(r) = 0 /\ InHand(r)' = 1
  /\ \/ \E c \in Clients : GetsInLine(c, r.piece_index)
     \/ \E c \in Clients : Downloads(c, r.piece_index) /\ ~status.self_choked

Arrives(r) == InHand(r)' = 0 /\ \E m \in Incoming : ReadsBlock(m) /\ m.block = r

LEMMA InHandStep ==
  ASSUME ~SecondCopies, OrderlyInv, DownloaderInv', BlockStep, NEW r \in Requests
  PROVE  InHand(r)' = InHand(r) \/ Enters(r) \/ Arrives(r)
<1>1. DownloaderInv /\ BlockTypes /\ OneOfEach /\ AsksOnce /\ AnswersWanted
  BY DEF OrderlyInv, BlockInv, Order
<1>2. /\ InHand(r) \in Nat /\ InHand(r) <= 1
      /\ InSequence(m_pending_requests, r) \in Nat
      /\ m_pending_requests \in Seq(Requests)
      /\ r.piece_index \in Pieces
  BY <1>1, InHandType, RequestFacts DEF OneOfEach, DownloaderInv, OwnInv, Containers
<1>3. ASSUME UNCHANGED <<m_pending_requests, m_active_requests>>
      PROVE  InHand(r)' = InHand(r)
  BY <1>3 DEF InHand
<1>4. ASSUME NEW choked, Turn(m_pending_requests, m_active_requests, choked)
      PROVE  InHand(r)' = InHand(r)
  BY <1>2, <1>4, TurnOnce DEF InHand
<1>5. ASSUME NEW p \in Pieces, NEW choked,
             Turn(m_pending_requests \o BlockRequests(p), m_active_requests, choked),
             r.piece_index = p => InHand(r) = 0
      PROVE  InHand(r)' = InHand(r) + (IF r.piece_index = p THEN 1 ELSE 0)
  <2>1. m_pending_requests \o BlockRequests(p) \in Seq(Requests)
    BY <1>2, BlockRequestsType
  <2>2. InSequence(m_pending_requests \o BlockRequests(p), r)
          = InSequence(m_pending_requests, r) + (IF r.piece_index = p THEN 1 ELSE 0)
    BY <1>1, Lengthened
  <2>3. InSequence(m_pending_requests \o BlockRequests(p), r)
          + (IF r \in m_active_requests THEN 1 ELSE 0)
            = InHand(r) + (IF r.piece_index = p THEN 1 ELSE 0)
    BY <1>2, <2>2 DEF InHand
  <2>4. InHand(r) + (IF r.piece_index = p THEN 1 ELSE 0) <= 1
    BY <1>2, <1>5
  <2> QED BY <1>5, <2>1, <2>3, <2>4, TurnOnce
<1>6. CASE Quiet \/ RemoteMoves \/ \E m \in Incoming : Opens(m)
  BY <1>3, <1>6
     DEF Quiet, Opens, RemoteMoves, TookOne, Answered, Choked, Unchoked, Announced, SaidOne,
         OursUntouched
<1>7. CASE OwnStep
  <2>1. CASE GoesOn
    BY <1>4, <2>1 DEF GoesOn
  <2>2. ASSUME NEW c \in Clients, NEW p \in Pieces, GetsInLine(c, p)
        PROVE  InHand(r)' = InHand(r) \/ Enters(r)
    <3>1. r.piece_index = p => InHand(r) = 0
      <4>1. Asks(c, p)
        BY <2>2 DEF GetsInLine
      <4> QED BY <1>1, <1>2, <4>1 DEF OneOfEach
    <3>2. InHand(r)' = InHand(r) + (IF r.piece_index = p THEN 1 ELSE 0)
      BY <1>5, <2>2, <3>1 DEF GetsInLine
    <3>3. CASE r.piece_index # p
      BY <1>2, <3>2, <3>3
    <3>4. CASE r.piece_index = p
      <4>1. InHand(r) = 0 /\ InHand(r)' = 1
        BY <3>1, <3>2, <3>4
      <4> QED BY <2>2, <3>4, <4>1 DEF Enters
    <3> QED BY <3>3, <3>4
  <2>3. ASSUME NEW c \in Clients, NEW p \in Pieces, Downloads(c, p)
        PROVE  InHand(r)' = InHand(r) \/ Enters(r)
    <3>1. CASE UNCHANGED <<m_pending_requests, m_active_requests>>
      BY <1>3, <3>1
    <3>2. CASE /\ ~status.self_choked
               /\ Turn(m_pending_requests \o BlockRequests(p), m_active_requests, FALSE)
      <4>1. r.piece_index = p => InHand(r) = 0
        BY <2>3, FreshIsFree
      <4>2. InHand(r)' = InHand(r) + (IF r.piece_index = p THEN 1 ELSE 0)
        BY <1>5, <3>2, <4>1
      <4>3. CASE r.piece_index # p
        BY <1>2, <4>2, <4>3
      <4>4. CASE r.piece_index = p
        <5>1. InHand(r) = 0 /\ InHand(r)' = 1
          BY <4>1, <4>2, <4>4
        <5> QED BY <2>3, <3>2, <4>4, <5>1 DEF Enters
      <4> QED BY <4>3, <4>4
    <3> QED BY <2>3, <3>1, <3>2 DEF Downloads
  <2>4. CASE (\E c \in Clients : GivesUp(c)) \/ \E p \in Pieces : Takes(p)
    BY <1>3, <2>4 DEF GivesUp, Takes
  <2> QED BY <1>7, <2>1, <2>2, <2>3, <2>4 DEF OwnStep
<1>8. CASE ReadStep
  <2>1. ASSUME NEW m \in Incoming, ReadsBlock(m)
        PROVE  InHand(r)' = InHand(r) \/ Arrives(r)
    <3>1. Turn(m_pending_requests, ActiveAfter(m), status.self_choked)
      BY <2>1 DEF ReadsBlock
    <3>2. CASE m.block # r
      <4>1. r \in ActiveAfter(m) <=> r \in m_active_requests
        BY <3>2 DEF ActiveAfter
      <4> QED BY <1>2, <3>1, <4>1, TurnOnce DEF InHand
    <3>3. CASE m.block = r
      <4>1. InHand(r)' = 0
        BY <2>1, <3>3, BlockRead
      <4> QED BY <2>1, <3>3, <4>1 DEF Arrives
    <3> QED BY <3>2, <3>3
  <2>2. ASSUME NEW m \in Incoming, ReadsChoke(m)
        PROVE  InHand(r)' = InHand(r)
    <3>1. /\ m_active_requests' = {}
          /\ InSequence(m_pending_requests, r)' = InHand(r)
      BY <2>2 DEF ReadsChoke, InHand
    <3> QED BY <1>2, <3>1 DEF InHand
  <2>3. ASSUME NEW m \in Incoming, ReadsUnchoke(m)
        PROVE  InHand(r)' = InHand(r)
    BY <1>4, <2>3 DEF ReadsUnchoke
  <2>4. CASE \E m \in Incoming : ReadsNews(m)
    BY <1>3, <2>4 DEF ReadsNews
  <2> QED BY <1>8, <2>1, <2>2, <2>3, <2>4 DEF ReadStep
<1> QED BY <1>6, <1>7, <1>8 DEF BlockStep

(* The types of the copies, before and after a step. *)
LEMMA CopiesOf ==
  ASSUME DownloaderInv, DownloaderInv', NEW r \in Requests
  PROVE  /\ CopiesToRemote(r) \in Nat /\ Served(r) \in Nat
         /\ CopiesUnderway(r) = CopiesToRemote(r) + Served(r)
         /\ CopiesToRemote(r)' \in Nat /\ Served(r)' \in Nat
         /\ CopiesUnderway(r)' = CopiesToRemote(r)' + Served(r)'
<1>1. /\ CopiesToRemote(r) \in Nat /\ Served(r) \in Nat
      /\ CopiesUnderway(r) = CopiesToRemote(r) + Served(r)
  BY CopiesNow DEF CopiesAre
<1>2. /\ CopiesToRemote(r)' \in Nat /\ Served(r)' \in Nat
      /\ CopiesUnderway(r)' = CopiesToRemote(r)' + Served(r)'
  BY CopiesThen DEF CopiesAre
<1> QED BY <1>1, <1>2

(* Only the arrival of a block, or a fresh start, changes its data. *)
LEMMA DataStays ==
  ASSUME ~SecondCopies, OrderlyInv, BlockStep, NEW p \in DOMAIN m_pieces, NEW b \in Blocks(p),
         m_pieces[p].data[b] = "zero",
         \A m \in Incoming : ReadsBlock(m) => m.block # b
  PROVE  p \in DOMAIN m_pieces' /\ m_pieces'[p].data[b] = "zero"
<1>1. BlockTypes /\ p \in Pieces /\ m_pieces[p] \in FilePiece(p)
  BY DEF OrderlyInv, BlockInv, BlockTypes
<1>2. p \in DOMAIN m_pieces'
  <2>1. ASSUME NEW q \in Pieces, Takes(q)
        PROVE  p \in DOMAIN m_pieces'
    <3>1. q # p
      BY <2>1 DEF Takes, HashMatches
    <3> QED BY <2>1, <3>1 DEF Takes
  <2>2. CASE ~\E q \in Pieces : Takes(q)
    <3>2. CASE UNCHANGED m_pieces
      BY <3>2
    <3>3. ASSUME NEW m \in Incoming, ReadsBlock(m)
          PROVE  DOMAIN m_pieces' = DOMAIN m_pieces
      BY <1>1, <3>3, ArrivalLemma DEF ReadsBlock
    <3>4. ASSUME NEW c \in Clients, NEW q \in Pieces, Downloads(c, q)
          PROVE  DOMAIN m_pieces \subseteq DOMAIN m_pieces'
      BY <3>4 DEF Downloads
    <3> QED
      BY <2>2, <3>2, <3>3, <3>4
         DEF BlockStep, Quiet, Opens, OwnStep, GoesOn, GetsInLine, GivesUp,
             ReadStep, ReadsChoke, ReadsUnchoke, ReadsNews, Reads, RemoteMoves,
             TookOne, Answered, Choked, Unchoked, Announced, SaidOne, OursUntouched
  <2> QED BY <2>1, <2>2
<1>3. CASE Kept(p)
  BY <1>2, <1>3 DEF Kept
<1>4. CASE Fresh(p)
  BY <1>2, <1>4 DEF Fresh, FreshPiece
<1>5. ASSUME NEW m \in Incoming, Grown(p, m)
      PROVE  m_pieces'[p].data[b] = "zero"
  <2>1. m.block # b /\ Arrival(p, m_pieces[p], m_pieces'[p], m.block, m.content)
    BY <1>5 DEF Grown
  <2> QED BY <1>1, <2>1 DEF Arrival, FilePiece
<1> QED BY <1>1, <1>2, <1>3, <1>4, <1>5, PieceChanges

LEMMA OneOfEachStep ==
  ASSUME ~SecondCopies, OrderlyInv, DownloaderInv', BlockStep
  PROVE  OneOfEach'
<1>1. DownloaderInv /\ BlockTypes /\ OneOfEach /\ AsksOnce
  BY DEF OrderlyInv, BlockInv, Order
<1> SUFFICES ASSUME NEW r \in Requests
             PROVE  /\ InHand(r)' <= 1
                    /\ InHand(r)' = 1 =>
                         /\ r.piece_index \in DOMAIN m_pieces'
                         /\ m_pieces'[r.piece_index].data[r] = "zero"
                         /\ \A c \in Clients : ~Asks(c, r.piece_index)'
  BY DEF OneOfEach
<1>2. /\ InHand(r) \in Nat /\ InHand(r) <= 1
      /\ r.piece_index \in Pieces /\ r \in Blocks(r.piece_index)
  BY <1>1, InHandType, RequestFacts DEF OneOfEach
<1>3. InHand(r)' <= 1
  BY <1>2, InHandStep DEF Enters, Arrives
<1>4. ASSUME InHand(r) = 1, InHand(r)' = 1
      PROVE  /\ r.piece_index \in DOMAIN m_pieces'
             /\ m_pieces'[r.piece_index].data[r] = "zero"
             /\ \A c \in Clients : ~Asks(c, r.piece_index)'
  <2>1. /\ r.piece_index \in DOMAIN m_pieces
        /\ m_pieces[r.piece_index].data[r] = "zero"
        /\ \A c \in Clients : ~Asks(c, r.piece_index)
    BY <1>1, <1>4 DEF OneOfEach
  <2>2. \A m \in Incoming : ReadsBlock(m) => m.block # r
    BY <1>4, BlockRead
  <2>3. \A c \in Clients : ~Downloads(c, r.piece_index)
    BY <1>2, <1>4, FreshIsFree
  <2>4. r.piece_index \in DOMAIN m_pieces' /\ m_pieces'[r.piece_index].data[r] = "zero"
    BY <1>2, <2>1, <2>2, DataStays
  <2> QED BY <1>2, <2>1, <2>3, <2>4, AsksStep
<1>5. ASSUME Enters(r)
      PROVE  /\ r.piece_index \in DOMAIN m_pieces'
             /\ m_pieces'[r.piece_index].data[r] = "zero"
             /\ \A c \in Clients : ~Asks(c, r.piece_index)'
  <2>1. ASSUME NEW c \in Clients, GetsInLine(c, r.piece_index)
        PROVE  /\ r.piece_index \in DOMAIN m_pieces'
               /\ m_pieces'[r.piece_index].data[r] = "zero"
               /\ \A d \in Clients : ~Asks(d, r.piece_index)'
    <3>1. /\ Asks(c, r.piece_index) /\ UNCHANGED m_pieces
          /\ OthersAsk(c) /\ AsksNothing(c)'
      BY <2>1 DEF GetsInLine
    <3>2. /\ r.piece_index \in DOMAIN m_pieces /\ AllZero(r.piece_index)
          /\ \A d \in Clients : Asks(d, r.piece_index) => d = c
      BY <1>1, <1>2, <3>1 DEF AsksOnce
    <3>3. \A d \in Clients : ~Asks(d, r.piece_index)'
      BY <1>2, <3>1, <3>2 DEF OthersAsk, AsksNothing
    <3> QED BY <1>2, <3>1, <3>2, <3>3 DEF AllZero
  <2>2. ASSUME NEW c \in Clients, Downloads(c, r.piece_index), ~status.self_choked
        PROVE  /\ r.piece_index \in DOMAIN m_pieces'
               /\ m_pieces'[r.piece_index].data[r] = "zero"
               /\ \A d \in Clients : ~Asks(d, r.piece_index)'
    <3>1. /\ r.piece_index \in DOMAIN m_pieces'
          /\ m_pieces'[r.piece_index] = FreshPiece(r.piece_index)
          /\ SameAsks
      BY <2>2 DEF Downloads
    <3>2. \A d \in Clients : ~Asks(d, r.piece_index)
      BY <1>2, <2>2, FreshIsFree
    <3> QED BY <1>2, <3>1, <3>2 DEF SameAsks, FreshPiece
  <2> QED BY <1>5, <2>1, <2>2 DEF Enters
<1>6. InHand(r)' = 1 => InHand(r) = 1 \/ Enters(r)
  BY InHandStep DEF Arrives
<1> QED BY <1>3, <1>4, <1>5, <1>6

LEMMA AsksOnceStep ==
  ASSUME ~SecondCopies, OrderlyInv, DownloaderInv', BlockStep
  PROVE  AsksOnce'
<1>1. DownloaderInv /\ BlockTypes /\ OneOfEach /\ AsksOnce
  BY DEF OrderlyInv, BlockInv, Order
<1> SUFFICES ASSUME NEW c \in Clients, NEW p \in Pieces, Asks(c, p)'
             PROVE  /\ p \in DOMAIN m_pieces'
                    /\ AllZero(p)'
                    /\ \A d \in Clients : Asks(d, p)' => d = c
  BY DEF AsksOnce
<1>2. CASE Downloads(c, p)
  <2>1. p \in DOMAIN m_pieces' /\ m_pieces'[p] = FreshPiece(p)
    BY <1>2 DEF Downloads
  <2>2. AllZero(p)'
    BY <2>1 DEF AllZero, FreshPiece
  <2>3. \A d \in Clients : ~Asks(d, p)
    BY <1>2, FreshIsFree
  <2>4. OthersAsk(c)
    BY <1>2, <2>3 DEF Downloads, SameAsks
  <2> QED BY <2>1, <2>2, <2>3, <2>4 DEF OthersAsk
<1>3. CASE Asks(c, p)
  <2>1. p \in DOMAIN m_pieces /\ AllZero(p) /\ \A d \in Clients : Asks(d, p) => d = c
    BY <1>1, <1>3 DEF AsksOnce
  <2>2. ASSUME NEW b \in Blocks(p)
        PROVE  p \in DOMAIN m_pieces' /\ m_pieces'[p].data[b] = "zero"
    <3>1. b \in Requests
      BY DEF Requests
    <3>2. b.piece_index = p
      BY <3>1, RequestFacts
    <3>3. \A m \in Incoming : ReadsBlock(m) => m.block # b
      <4>1. InHand(b) # 1
        BY <1>1, <1>3, <3>1, <3>2 DEF OneOfEach
      <4> QED BY <3>1, <4>1, BlockRead
    <3> QED BY <2>1, <3>3, DataStays DEF AllZero
  <2>3. Block(p, 1) \in Blocks(p)
    BY BlocksHold, BlockFacts
  <2>4. \A d \in Clients : ~Downloads(d, p)
    BY <1>3, FreshIsFree
  <2>5. \A d \in Clients : Asks(d, p)' => d = c
    BY <2>1, <2>4, AsksStep
  <2> QED BY <2>2, <2>3, <2>5 DEF AllZero
<1> QED BY <1>2, <1>3, AsksStep

LEMMA ExactStep ==
  ASSUME OrderlyInv, DownloaderInv', BlockTypes', BlockStep
  PROVE  Exact'
<1>1. BlockTypes /\ OneOfEach /\ Exact
  BY DEF OrderlyInv, BlockInv, Order
<1> SUFFICES ASSUME NEW p \in DOMAIN m_pieces'
             PROVE  Counts(p, m_pieces'[p], TRUE)
  BY DEF Exact
<1>2. CASE Kept(p)
  BY <1>1, <1>2 DEF Kept, Exact
<1>3. CASE p \in Pieces /\ Fresh(p)
  BY <1>3, FreshCounts DEF Fresh
<1>4. ASSUME NEW m \in Incoming, Grown(p, m)
      PROVE  Counts(p, m_pieces'[p], TRUE)
  <2>1. /\ p \in DOMAIN m_pieces /\ p \in Pieces
        /\ m_pieces[p] \in FilePiece(p) /\ m_pieces'[p] \in FilePiece(p)
    BY <1>1, <1>4 DEF Grown, BlockTypes
  <2>2. Counts(p, m_pieces[p], TRUE)
    BY <1>1, <2>1 DEF Exact
  <2>3. m.block \in Requests /\ m.block.piece_index = p /\ ReadsBlock(m)
    BY <1>4, IncomingFacts DEF Grown, ReadsBlock
  <2>4. m_pieces[p].data[m.block] = "zero"
    BY <1>1, <2>3, BlockRead DEF OneOfEach
  <2>5. Arrival(p, m_pieces[p], m_pieces'[p], m.block, m.content)
    BY <1>4 DEF Grown
  <2>6. TRUE \in BOOLEAN /\ (TRUE => m_pieces[p].data[m.block] = "zero")
    BY <2>4
  <2> QED BY <2>1, <2>2, <2>5, <2>6, ArrivalCounts DEF Arrival
<1> QED BY <1>1, <1>2, <1>3, <1>4, PieceChanges

(* The signals in the line, once more: nothing but reading and the remote  *)
(* peer changes what comes.                                                *)
LEMMA ChokeBack ==
  ASSUME DownloaderInv, NEW m \in Incoming, ChokeUnderway',
         Reads(m) \/ (SaidOne(m) /\ m.type # "Choke")
  PROVE  ChokeUnderway
<1>1. inbound \in Seq(Incoming)
  BY DEF DownloaderInv, OwnInv, NetworkTyped
<1>2. PICK i \in DOMAIN inbound' : inbound'[i].type = "Choke"
  BY DEF ChokeUnderway
<1>3. CASE Reads(m)
  <2>1. inbound # <<>> /\ inbound' = Tail(inbound)
    BY <1>3 DEF Reads
  <2>2. /\ Len(inbound) \in Nat \ {0}
        /\ DOMAIN inbound = 1..Len(inbound)
        /\ DOMAIN Tail(inbound) = 1..(Len(inbound) - 1)
        /\ \A k \in DOMAIN Tail(inbound) : Tail(inbound)[k] = inbound[k + 1]
    BY <1>1, <2>1, TailAt
  <2>3. i + 1 \in DOMAIN inbound /\ inbound[i + 1].type = "Choke"
    BY <1>2, <2>1, <2>2
  <2> QED BY <2>3 DEF ChokeUnderway
<1>4. CASE SaidOne(m) /\ m.type # "Choke"
  <2>1. inbound' = Append(inbound, m)
    BY <1>4 DEF SaidOne
  <2>2. /\ Len(inbound) \in Nat
        /\ DOMAIN inbound = 1..Len(inbound)
        /\ DOMAIN Append(inbound, m) = 1..(Len(inbound) + 1)
        /\ Append(inbound, m)[Len(inbound) + 1] = m
        /\ \A k \in DOMAIN inbound : Append(inbound, m)[k] = inbound[k]
    BY <1>1, AppendAt
  <2>3. i # Len(inbound) + 1
    BY <1>2, <1>4, <2>1, <2>2
  <2>4. i \in DOMAIN inbound /\ inbound[i].type = "Choke"
    BY <1>2, <2>1, <2>2, <2>3
  <2> QED BY <2>4 DEF ChokeUnderway
<1> QED BY <1>3, <1>4

(* Behind a Choke there is nothing but news. *)
LEMMA ChokeReadIsLast ==
  ASSUME DownloaderInv, DownloaderInv', ChokeIsLast, NEW m \in Incoming, Reads(m)
  PROVE  /\ ChokeIsLast'
         /\ m.type = "Choke" => \A i \in DOMAIN inbound' : inbound'[i].type = "Have"
<1>1. inbound \in Seq(Incoming)
  BY DEF DownloaderInv, OwnInv, NetworkTyped
<1>2. inbound # <<>> /\ inbound' = Tail(inbound) /\ m = Head(inbound)
  BY DEF Reads
<1>3. /\ Len(inbound) \in Nat \ {0}
      /\ DOMAIN inbound = 1..Len(inbound)
      /\ DOMAIN Tail(inbound) = 1..(Len(inbound) - 1)
      /\ inbound[1] = Head(inbound)
      /\ \A k \in DOMAIN Tail(inbound) : Tail(inbound)[k] = inbound[k + 1]
  BY <1>1, <1>2, TailAt
<1>4. \A k \in DOMAIN inbound' : /\ k \in Int /\ k + 1 \in DOMAIN inbound /\ k + 1 > 1
                                 /\ inbound'[k] = inbound[k + 1]
  BY <1>2, <1>3
<1>5. ChokeIsLast'
  <2> SUFFICES ASSUME NEW i \in DOMAIN inbound', NEW j \in DOMAIN inbound',
                      inbound'[i].type = "Choke", j > i
               PROVE  inbound'[j].type = "Have"
    BY DEF ChokeIsLast
  <2>1. j + 1 > i + 1
    BY <1>4
  <2> QED BY <1>4, <2>1 DEF ChokeIsLast
<1>6. ASSUME m.type = "Choke", NEW i \in DOMAIN inbound'
      PROVE  inbound'[i].type = "Have"
  <2>1. 1 \in DOMAIN inbound /\ inbound[1].type = "Choke"
    BY <1>2, <1>3, <1>6
  <2> QED BY <1>4, <2>1 DEF ChokeIsLast
<1> QED BY <1>5, <1>6

LEMMA ChokeIsLastStep ==
  ASSUME ~SecondCopies, OrderlyInv, DownloaderInv', BlockStep
  PROVE  ChokeIsLast'
<1>1. DownloaderInv /\ ChokeIsLast /\ CopiesWanted /\ RemoteDrops /\ inbound \in Seq(Incoming)
  BY DEF OrderlyInv, BlockInv, Order, Chokes, DownloaderInv, OwnInv, NetworkTyped
<1>2. CASE UNCHANGED inbound
  BY <1>1, <1>2 DEF ChokeIsLast
<1>3. ASSUME NEW m \in Incoming, Opens(m)
      PROVE  ChokeIsLast'
  <2>1. PICK line : line = <<m>> /\ inbound' = line
    BY <1>3 DEF Opens
  <2>2. DOMAIN line = {1}
    BY <2>1
  <2> QED BY <2>1, <2>2 DEF ChokeIsLast
<1>4. ASSUME NEW m \in Incoming, Reads(m)
      PROVE  ChokeIsLast'
  BY <1>1, <1>4, ChokeReadIsLast
<1>5. ASSUME NEW m \in Incoming, SaidOne(m), ~ChokeUnderway \/ m.type = "Have"
      PROVE  ChokeIsLast'
  <2>1. inbound' = Append(inbound, m)
    BY <1>5 DEF SaidOne
  <2>2. /\ Len(inbound) \in Nat
        /\ DOMAIN inbound = 1..Len(inbound)
        /\ DOMAIN Append(inbound, m) = 1..(Len(inbound) + 1)
        /\ Append(inbound, m)[Len(inbound) + 1] = m
        /\ \A k \in DOMAIN inbound : Append(inbound, m)[k] = inbound[k]
    BY <1>1, AppendAt
  <2> SUFFICES ASSUME NEW i \in DOMAIN inbound', NEW j \in DOMAIN inbound',
                      inbound'[i].type = "Choke", j > i
               PROVE  inbound'[j].type = "Have"
    BY DEF ChokeIsLast
  <2>3. i \in DOMAIN inbound /\ inbound[i].type = "Choke"
    BY <2>1, <2>2
  <2>4. m.type = "Have"
    BY <1>5, <2>3 DEF ChokeUnderway
  <2>5. CASE j = Len(inbound) + 1
    BY <2>1, <2>2, <2>4, <2>5
  <2>6. CASE j # Len(inbound) + 1
    <3>1. j \in DOMAIN inbound /\ inbound'[j] = inbound[j]
      BY <2>1, <2>2, <2>6
    <3> QED BY <1>1, <2>3, <3>1 DEF ChokeIsLast
  <2> QED BY <2>5, <2>6
<1>6. CASE RemoteMoves
  <2>1. CASE TookOne
    BY <1>2, <2>1 DEF TookOne
  <2>2. ASSUME NEW m \in Incoming, Answered(m) \/ Choked(m) \/ Unchoked(m) \/ Announced(m)
        PROVE  ChokeIsLast'
    <3>1. SaidOne(m)
      BY <2>2 DEF Answered, Choked, Unchoked, Announced
    <3>2. ~ChokeUnderway \/ m.type = "Have"
      BY <1>1, <2>2 DEF Answered, Choked, Unchoked, Announced, CopiesWanted, RemoteDrops
    <3> QED BY <1>5, <3>1, <3>2
  <2> QED BY <1>6, <2>1, <2>2 DEF RemoteMoves
<1>7. CASE Quiet \/ OwnStep
  BY <1>2, <1>7, OwnStepKeeps
<1> QED
  BY <1>3, <1>4, <1>6, <1>7
     DEF BlockStep, ReadStep, ReadsBlock, ReadsChoke, ReadsUnchoke, ReadsNews

(* A turn of the loop keeps what was active. *)
LEMMA TurnKeeps ==
  ASSUME NEW pending, NEW active, NEW choked, Turn(pending, active, choked),
         NEW r \in Requests, r \in active
  PROVE  r \in m_active_requests'
BY DEF Turn, Moves, Stays

LEMMA OwnStepActive ==
  ASSUME Quiet \/ OwnStep
  PROVE  \A r \in Requests : r \in m_active_requests => r \in m_active_requests'
<1> SUFFICES ASSUME NEW r \in Requests, r \in m_active_requests
             PROVE  r \in m_active_requests'
  OBVIOUS
<1>1. CASE UNCHANGED m_active_requests
  BY <1>1
<1>2. CASE \E pending, choked : Turn(pending, m_active_requests, choked)
  BY <1>2, TurnKeeps
<1> QED BY <1>1, <1>2 DEF Quiet, OwnStep, GoesOn, GetsInLine, Downloads, GivesUp, Takes

LEMMA AnswersWantedStep ==
  ASSUME ~SecondCopies, OrderlyInv, DownloaderInv', BlockStep
  PROVE  AnswersWanted'
<1>1. /\ DownloaderInv /\ AnswersWanted /\ CopiesWanted /\ ChokeIsLast /\ RemoteDrops
      /\ BlockTypes
  BY DEF OrderlyInv, BlockInv, Order, Chokes
<1> SUFFICES ASSUME NEW r \in Requests
             PROVE  Served(r)' <= 1 /\ (Served(r)' > 0 => r \in m_active_requests')
  BY DEF AnswersWanted
<1>2. /\ CopiesToRemote(r) \in Nat /\ Served(r) \in Nat
      /\ CopiesUnderway(r) = CopiesToRemote(r) + Served(r)
      /\ CopiesToRemote(r)' \in Nat /\ Served(r)' \in Nat
      /\ CopiesUnderway(r)' = CopiesToRemote(r)' + Served(r)'
  BY <1>1, CopiesOf
<1>3. Served(r) <= 1 /\ (Served(r) > 0 => r \in m_active_requests)
  BY <1>1 DEF AnswersWanted
<1>4. ASSUME Served(r)' <= Served(r), r \in m_active_requests => r \in m_active_requests'
      PROVE  Served(r)' <= 1 /\ (Served(r)' > 0 => r \in m_active_requests')
  BY <1>2, <1>3, <1>4
<1>5. CASE Quiet \/ OwnStep
  <2>1. Served(r)' = Served(r)
    BY <1>5, OwnStepKeeps, ServedSame
  <2> QED BY <1>2, <1>4, <1>5, <2>1, OwnStepActive
<1>6. ASSUME NEW m \in Incoming, Opens(m)
      PROVE  Served(r)' <= 1 /\ (Served(r)' > 0 => r \in m_active_requests')
  BY <1>2, <1>4, <1>6 DEF Opens
<1>7. ASSUME NEW m \in Incoming, Reads(m), m.type # "Piece" \/ m.block # r
      PROVE  Served(r)' = Served(r)
  BY <1>1, <1>2, <1>7, ServedRead
<1>8. CASE ReadStep
  <2>1. ASSUME NEW m \in Incoming, ReadsBlock(m)
        PROVE  Served(r)' <= 1 /\ (Served(r)' > 0 => r \in m_active_requests')
    <3>1. CASE m.block = r
      BY <2>1, <3>1, BlockRead
    <3>2. CASE m.block # r
      <4>1. r \in m_active_requests => r \in ActiveAfter(m)
        BY <3>2 DEF ActiveAfter
      <4>2. r \in m_active_requests => r \in m_active_requests'
        BY <2>1, <4>1, TurnKeeps DEF ReadsBlock
      <4>3. Served(r)' = Served(r)
        BY <1>7, <2>1, <3>2 DEF ReadsBlock
      <4> QED BY <1>2, <1>4, <4>2, <4>3
    <3> QED BY <3>1, <3>2
  <2>2. ASSUME NEW m \in Incoming, ReadsChoke(m)
        PROVE  Served(r)' = 0
    <3>1. \A i \in DOMAIN inbound' : inbound'[i].type = "Have"
      BY <1>1, <2>2, ChokeReadIsLast DEF ReadsChoke
    <3>2. ChokeUnderway
      <4>1. inbound \in Seq(Incoming) /\ inbound # <<>> /\ m = Head(inbound)
        BY <1>1, <2>2 DEF ReadsChoke, Reads, DownloaderInv, OwnInv, NetworkTyped
      <4>2. 1 \in DOMAIN inbound /\ inbound[1].type = "Choke"
        BY <2>2, <4>1 DEF ReadsChoke
      <4> QED BY <4>2 DEF ChokeUnderway
    <3>3. remote'.requests = <<>>
      BY <1>1, <2>2, <3>2 DEF ReadsChoke, Reads, CopiesWanted, RemoteDrops
    <3>4. /\ Served(r)' = InSequence(remote.requests, r)' + ComingIn(inbound, r)'
      BY CopiesThen DEF CopiesAre
    <3>5. InSequence(remote.requests, r)' = 0
      <4>1. InSequence(<<>>, r) = 0
        BY InSequenceFacts, <<>> \in Seq(Requests)
      <4> QED BY <3>3, <4>1
    <3>6. ComingIn(inbound, r)' = 0
      <4>1. PICK line \in Seq(Incoming) : line = inbound'
        BY DEF DownloaderInv, OwnInv, NetworkTyped
      <4>2. /\ ComingIn(line, r) \in Nat
            /\ ComingIn(line, r) > 0 <=>
                 \E i \in DOMAIN line : line[i].type = "Piece" /\ line[i].block = r
        BY ComingType
      <4>3. ComingIn(line, r) = 0
        BY <3>1, <4>1, <4>2
      <4> QED BY <4>1, <4>3
    <3> QED BY <3>4, <3>5, <3>6
  <2>3. ASSUME NEW m \in Incoming, ReadsUnchoke(m)
        PROVE  Served(r)' <= 1 /\ (Served(r)' > 0 => r \in m_active_requests')
    <3>1. r \in m_active_requests => r \in m_active_requests'
      BY <2>3, TurnKeeps DEF ReadsUnchoke
    <3>2. Served(r)' = Served(r)
      BY <1>7, <2>3 DEF ReadsUnchoke
    <3> QED BY <1>2, <1>4, <3>1, <3>2
  <2>4. ASSUME NEW m \in Incoming, ReadsNews(m)
        PROVE  Served(r)' <= 1 /\ (Served(r)' > 0 => r \in m_active_requests')
    <3>1. Served(r)' = Served(r) /\ UNCHANGED m_active_requests
      BY <1>7, <2>4 DEF ReadsNews
    <3> QED BY <1>2, <1>4, <3>1
  <2> QED BY <1>8, <2>1, <2>2, <2>3, <2>4 DEF ReadStep
<1>9. CASE RemoteMoves
  <2>1. UNCHANGED m_active_requests
    BY <1>9 DEF RemoteMoves, TookOne, Answered, Choked, Unchoked, Announced, SaidOne,
                OursUntouched
  <2>2. CASE TookOne
    <3>1. CASE remote.choking
      BY <1>2, <1>4, <2>1, <2>2, <3>1 DEF TookOne
    <3>2. CASE ~remote.choking
      <4>1. CopiesUnderway(r)' = CopiesUnderway(r)
        BY <2>2, <3>2 DEF TookOne
      <4>2. CopiesUnderway(r) <= 1 /\ (CopiesUnderway(r) > 0 => r \in m_active_requests)
        BY <1>1, <3>2 DEF CopiesWanted
      <4> QED BY <1>2, <2>1, <4>1, <4>2
    <3> QED BY <3>1, <3>2
  <2>3. ASSUME NEW m \in Incoming, Answered(m) \/ Choked(m) \/ Unchoked(m) \/ Announced(m)
        PROVE  Served(r)' <= Served(r)
    BY <1>2, <2>3 DEF Answered, Choked, Unchoked, Announced
  <2> QED BY <1>4, <1>9, <2>1, <2>2, <2>3 DEF RemoteMoves
<1> QED BY <1>2, <1>5, <1>6, <1>8, <1>9 DEF BlockStep

(* A turn of the loop sends a request only when no copy of it is out. *)
WantedCopy(r) ==
  CopiesUnderway(r) <= 1 /\ (CopiesUnderway(r) > 0 => r \in m_active_requests)

LEMMA TurnWanted ==
  ASSUME DownloaderInv, DownloaderInv', NEW pending \in Seq(Requests), NEW active, NEW choked,
         Turn(pending, active, choked), NEW r \in Requests, Served(r)' = Served(r),
         InSequence(pending, r) + (IF r \in active THEN 1 ELSE 0) <= 1,
         CopiesUnderway(r) <= 1, CopiesUnderway(r) > 0 => r \in active
  PROVE  WantedCopy(r)'
<1>1. /\ CopiesToRemote(r) \in Nat /\ Served(r) \in Nat
      /\ CopiesUnderway(r) = CopiesToRemote(r) + Served(r)
      /\ CopiesToRemote(r)' \in Nat /\ Served(r)' \in Nat
      /\ CopiesUnderway(r)' = CopiesToRemote(r)' + Served(r)'
  BY CopiesOf
<1>2. InSequence(pending, r) \in Nat
  BY InSequenceFacts
<1>3. InSequence(m_pending_requests, r)' \in Nat
  BY CopiesThen DEF CopiesAre
<1>4. CASE Moves(r, pending, choked)
  <2>1. /\ r \in m_active_requests' /\ CopiesToRemote(r)' = CopiesToRemote(r) + 1
        /\ InSequence(pending, r) = InSequence(m_pending_requests, r)' + 1
    BY <1>4 DEF Moves
  <2>2. r \notin active
    BY <1>2, <1>3, <2>1
  <2>3. CopiesUnderway(r) = 0
    BY <1>1, <2>2
  <2>4. CopiesUnderway(r)' = 1
    BY <1>1, <2>1, <2>3
  <2> QED BY <2>1, <2>4 DEF WantedCopy
<1>5. CASE Stays(r, pending, active)
  <2>1. (r \in m_active_requests' <=> r \in active) /\ CopiesToRemote(r)' = CopiesToRemote(r)
    BY <1>5 DEF Stays
  <2>2. CopiesUnderway(r)' = CopiesUnderway(r)
    BY <1>1, <2>1
  <2> QED BY <2>1, <2>2 DEF WantedCopy
<1> QED BY <1>4, <1>5 DEF Turn

(* While the remote peer takes requests, a step of ours keeps it so. *)
LEMMA OwnStepWanted ==
  ASSUME ~SecondCopies, OrderlyInv, DownloaderInv', OwnStep, NEW r \in Requests, WantedCopy(r)
  PROVE  WantedCopy(r)'
<1>1. DownloaderInv /\ OneOfEach /\ AsksOnce
  BY DEF OrderlyInv, BlockInv, Order
<1>2. /\ InHand(r) \in Nat /\ InHand(r) <= 1
      /\ InSequence(m_pending_requests, r) \in Nat
      /\ InHand(r) = InSequence(m_pending_requests, r)
                       + (IF r \in m_active_requests THEN 1 ELSE 0)
      /\ m_pending_requests \in Seq(Requests)
  BY <1>1, InHandType DEF OneOfEach, InHand, DownloaderInv, OwnInv, Containers
<1>3. /\ Served(r)' = Served(r)
      /\ CopiesUnderway(r) <= 1 /\ (CopiesUnderway(r) > 0 => r \in m_active_requests)
  BY OwnStepKeeps, ServedSame DEF WantedCopy
<1>4. ASSUME SameCopies, UNCHANGED m_active_requests
      PROVE  WantedCopy(r)'
  <2>1. CopiesUnderway(r)' = CopiesUnderway(r)
    BY <1>1, <1>3, <1>4, CopiesOf DEF SameCopies
  <2> QED BY <1>3, <1>4, <2>1 DEF WantedCopy
<1>5. ASSUME NEW p \in Pieces, NEW choked,
             Turn(m_pending_requests \o BlockRequests(p), m_active_requests, choked),
             r.piece_index = p => InHand(r) = 0
      PROVE  WantedCopy(r)'
  <2>1. m_pending_requests \o BlockRequests(p) \in Seq(Requests)
    BY <1>2, BlockRequestsType
  <2>2. InSequence(m_pending_requests \o BlockRequests(p), r)
          = InSequence(m_pending_requests, r) + (IF r.piece_index = p THEN 1 ELSE 0)
    BY <1>1, Lengthened
  <2>3. InSequence(m_pending_requests \o BlockRequests(p), r)
          + (IF r \in m_active_requests THEN 1 ELSE 0) <= 1
    BY <1>2, <1>5, <2>2
  <2> QED BY <1>1, <1>3, <1>5, <2>1, <2>3, TurnWanted
<1>6. CASE GoesOn
  BY <1>1, <1>2, <1>3, <1>6, TurnWanted DEF GoesOn
<1>7. ASSUME NEW c \in Clients, NEW p \in Pieces, GetsInLine(c, p)
      PROVE  WantedCopy(r)'
  <2>1. r.piece_index = p => InHand(r) = 0
    <3>1. Asks(c, p)
      BY <1>7 DEF GetsInLine
    <3> QED BY <1>1, <1>2, <3>1 DEF OneOfEach
  <2> QED BY <1>5, <1>7, <2>1 DEF GetsInLine
<1>8. ASSUME NEW c \in Clients, NEW p \in Pieces, Downloads(c, p)
      PROVE  WantedCopy(r)'
  <2>1. r.piece_index = p => InHand(r) = 0
    BY <1>8, FreshIsFree
  <2> QED BY <1>4, <1>5, <1>8, <2>1 DEF Downloads
<1>9. CASE (\E c \in Clients : GivesUp(c)) \/ \E p \in Pieces : Takes(p)
  BY <1>4, <1>9 DEF GivesUp, Takes
<1> QED BY <1>6, <1>7, <1>8, <1>9 DEF OwnStep

LEMMA CopiesWantedStep ==
  ASSUME ~SecondCopies, OrderlyInv, DownloaderInv', BlockStep
  PROVE  CopiesWanted'
<1>1. DownloaderInv /\ OneOfEach /\ AnswersWanted /\ CopiesWanted /\ RemoteDrops
  BY DEF OrderlyInv, BlockInv, Order, Chokes
<1> SUFFICES ASSUME ~remote'.choking
             PROVE  ~ChokeUnderway' /\ \A r \in Requests : WantedCopy(r)'
  BY DEF CopiesWanted, WantedCopy
<1>2. ASSUME ~remote.choking
      PROVE  ~ChokeUnderway /\ \A r \in Requests : WantedCopy(r)
  BY <1>1, <1>2 DEF CopiesWanted, WantedCopy
<1>3. ASSUME UNCHANGED inbound PROVE ChokeUnderway' = ChokeUnderway
  BY <1>3 DEF ChokeUnderway
<1>4. ASSUME NEW r \in Requests, WantedCopy(r), CopiesUnderway(r)' <= CopiesUnderway(r),
             UNCHANGED m_active_requests
      PROVE  WantedCopy(r)'
  <2>1. CopiesUnderway(r) \in Nat /\ CopiesUnderway(r)' \in Nat
    <3>1. CopiesUnderway(r) \in Nat
      BY <1>1, CopiesNow DEF CopiesAre
    <3>2. CopiesUnderway(r)' \in Nat
      BY CopiesThen DEF CopiesAre
    <3> QED BY <3>1, <3>2
  <2> QED BY <1>4, <2>1 DEF WantedCopy
<1>5. ASSUME NEW r \in Requests, CopiesToRemote(r)' <= CopiesToRemote(r),
             Served(r)' <= Served(r)
      PROVE  CopiesUnderway(r)' <= CopiesUnderway(r)
  BY <1>1, <1>5, CopiesOf
<1>6. CASE Quiet
  <2>1. ~remote.choking /\ UNCHANGED <<inbound, m_active_requests>>
    BY <1>6 DEF Quiet
  <2>2. ASSUME NEW r \in Requests
        PROVE  CopiesUnderway(r)' <= CopiesUnderway(r)
    <3>1. CopiesToRemote(r)' <= CopiesToRemote(r)
      BY <1>6 DEF Quiet
    <3>2. Served(r)' = Served(r) /\ Served(r) \in Nat
      BY <1>1, <1>6, OwnStepKeeps, ServedSame, CopiesOf
    <3> QED BY <1>5, <3>1, <3>2
  <2> QED BY <1>2, <1>3, <1>4, <2>1, <2>2
<1>7. CASE \E m \in Incoming : Opens(m)
  BY <1>7 DEF Opens
<1>8. CASE OwnStep
  <2>1. ~remote.choking /\ UNCHANGED inbound
    BY <1>8, OwnStepKeeps
  <2> QED BY <1>2, <1>3, <1>8, <2>1, OwnStepWanted
<1>9. CASE ReadStep
  <2>1. PICK m \in Incoming : ReadsBlock(m) \/ ReadsChoke(m) \/ ReadsUnchoke(m) \/ ReadsNews(m)
    BY <1>9 DEF ReadStep
  <2>2. Reads(m)
    BY <2>1 DEF ReadsBlock, ReadsChoke, ReadsUnchoke, ReadsNews
  <2>3. ~remote.choking
    BY <2>2 DEF Reads
  <2>4. ~ChokeUnderway' /\ ~ChokeUnderway
    BY <1>1, <1>2, <2>2, <2>3, ChokeBack
  <2>5. ASSUME ReadsChoke(m) PROVE FALSE
    <3>1. inbound \in Seq(Incoming) /\ inbound # <<>> /\ m = Head(inbound)
      BY <1>1, <2>2 DEF Reads, DownloaderInv, OwnInv, NetworkTyped
    <3>2. 1 \in DOMAIN inbound /\ inbound[1].type = "Choke"
      BY <2>5, <3>1 DEF ReadsChoke
    <3> QED BY <2>4, <3>2 DEF ChokeUnderway
  <2> SUFFICES ASSUME NEW r \in Requests
               PROVE  WantedCopy(r)'
    BY <2>4
  <2>6. /\ InHand(r) \in Nat /\ InHand(r) <= 1
        /\ InSequence(m_pending_requests, r) \in Nat
        /\ InHand(r) = InSequence(m_pending_requests, r)
                         + (IF r \in m_active_requests THEN 1 ELSE 0)
        /\ m_pending_requests \in Seq(Requests)
    BY <1>1, InHandType DEF OneOfEach, InHand, DownloaderInv, OwnInv, Containers
  <2>7. CopiesUnderway(r) <= 1 /\ (CopiesUnderway(r) > 0 => r \in m_active_requests)
    BY <1>2, <2>3 DEF WantedCopy
  <2>8. /\ CopiesToRemote(r) \in Nat /\ Served(r) \in Nat
        /\ CopiesUnderway(r) = CopiesToRemote(r) + Served(r)
        /\ CopiesToRemote(r)' \in Nat /\ Served(r)' \in Nat
        /\ CopiesUnderway(r)' = CopiesToRemote(r)' + Served(r)'
    BY <1>1, CopiesOf
  <2>9. m.type # "Piece" \/ m.block # r => Served(r)' = Served(r)
    BY <1>1, <2>2, <2>8, ServedRead
  <2>10. CASE ReadsBlock(m) /\ m.block = r
    <3>1. Served(r) = Served(r)' + 1
      BY <1>1, <2>2, <2>10, ServedRead DEF ReadsBlock
    <3>2. InHand(r)' = 0 /\ Served(r)' = 0 /\ r \in m_active_requests /\ InHand(r) = 1
      BY <2>10, BlockRead
    <3>3. CopiesToRemote(r) = 0 /\ InSequence(m_pending_requests, r) = 0
      BY <2>6, <2>7, <2>8, <3>1, <3>2
    <3>4. ~Moves(r, m_pending_requests, status.self_choked)
      <4>1. InSequence(m_pending_requests, r)' \in Nat
        BY CopiesThen DEF CopiesAre
      <4> QED BY <3>3, <4>1 DEF Moves
    <3>5. CopiesToRemote(r)' = 0
      BY <2>10, <3>3, <3>4 DEF ReadsBlock, Turn, Stays
    <3> QED BY <2>8, <3>2, <3>5 DEF WantedCopy
  <2>11. CASE ReadsBlock(m) /\ m.block # r
    <3>1. r \in ActiveAfter(m) <=> r \in m_active_requests
      BY <2>11 DEF ActiveAfter
    <3>2. Turn(m_pending_requests, ActiveAfter(m), status.self_choked)
      BY <2>11 DEF ReadsBlock
    <3>3. Served(r)' = Served(r)
      BY <2>9, <2>11
    <3> QED BY <1>1, <2>6, <2>7, <3>1, <3>2, <3>3, TurnWanted
  <2>12. CASE ReadsUnchoke(m)
    <3>1. Turn(m_pending_requests, m_active_requests, FALSE) /\ Served(r)' = Served(r)
      BY <2>9, <2>12 DEF ReadsUnchoke
    <3> QED BY <1>1, <2>6, <2>7, <3>1, TurnWanted
  <2>13. CASE ReadsNews(m)
    <3>1. /\ Served(r)' = Served(r) /\ CopiesToRemote(r)' = CopiesToRemote(r)
          /\ UNCHANGED m_active_requests
      BY <2>9, <2>13 DEF ReadsNews, SameCopies
    <3> QED BY <2>7, <2>8, <3>1 DEF WantedCopy
  <2> QED BY <2>1, <2>5, <2>10, <2>11, <2>12, <2>13
<1>10. CASE RemoteMoves
  <2>1. UNCHANGED m_active_requests
    BY <1>10 DEF RemoteMoves, TookOne, Answered, Choked, Unchoked, Announced, SaidOne,
                 OursUntouched
  <2>2. CASE TookOne
    <3>1. ~remote.choking /\ UNCHANGED inbound
      BY <2>2 DEF TookOne
    <3>2. ASSUME NEW r \in Requests PROVE WantedCopy(r)'
      <4>1. CopiesUnderway(r)' = CopiesUnderway(r)
        BY <2>2, <3>1 DEF TookOne
      <4> QED BY <1>2, <2>1, <3>1, <4>1 DEF WantedCopy
    <3> QED BY <1>2, <1>3, <3>1, <3>2
  <2>3. ASSUME NEW m \in Incoming, Answered(m) \/ Announced(m)
        PROVE  ~ChokeUnderway' /\ \A r \in Requests : WantedCopy(r)'
    <3>1. ~remote.choking /\ SaidOne(m) /\ m.type # "Choke"
      BY <2>3 DEF Answered, Announced
    <3>2. ~ChokeUnderway'
      BY <1>1, <1>2, <3>1, ChokeBack
    <3>3. ASSUME NEW r \in Requests PROVE WantedCopy(r)'
      <4>1. CopiesToRemote(r)' = CopiesToRemote(r) /\ Served(r)' = Served(r)
        BY <2>3 DEF Answered, Announced, SaidOne, SameCopies
      <4>2. CopiesUnderway(r)' = CopiesUnderway(r)
        BY <1>1, <4>1, CopiesOf
      <4> QED BY <1>2, <2>1, <3>1, <4>2 DEF WantedCopy
    <3> QED BY <3>2, <3>3
  <2>4. ASSUME NEW m \in Incoming, Choked(m) PROVE FALSE
    BY <2>4 DEF Choked
  <2>5. ASSUME NEW m \in Incoming, Unchoked(m)
        PROVE  ~ChokeUnderway' /\ \A r \in Requests : WantedCopy(r)'
    <3>1. /\ SaidOne(m) /\ m.type # "Choke" /\ ~ChokeUnderway
          /\ \A r \in Requests : CopiesToRemote(r) = 0
      BY <2>5 DEF Unchoked
    <3>2. ~ChokeUnderway'
      BY <1>1, <3>1, ChokeBack
    <3>3. ASSUME NEW r \in Requests PROVE WantedCopy(r)'
      <4>1. CopiesToRemote(r)' = 0 /\ Served(r)' = Served(r)
        BY <2>5, <3>1 DEF Unchoked, SaidOne, SameCopies
      <4>2. CopiesUnderway(r)' = Served(r)
        BY <1>1, <4>1, CopiesOf
      <4>3. Served(r) <= 1 /\ (Served(r) > 0 => r \in m_active_requests)
        BY <1>1 DEF AnswersWanted
      <4> QED BY <2>1, <4>2, <4>3 DEF WantedCopy
    <3> QED BY <3>2, <3>3
  <2> QED BY <1>10, <2>2, <2>3, <2>4, <2>5 DEF RemoteMoves
<1> QED BY <1>6, <1>7, <1>8, <1>9, <1>10 DEF BlockStep

LEMMA OrderlyInit ==
  ASSUME Init
  PROVE  OrderlyInv
<1>1. BlockInv
  BY BlockInit
<1>2. /\ DOMAIN m_pieces = {} /\ stored = {} /\ remote.choking /\ DOMAIN inbound = {}
      /\ m_active_requests = {}
  <2>1. /\ m_pieces = [p \in {} |-> {}] /\ stored = {} /\ remote.choking /\ inbound = <<>>
        /\ m_active_requests = {}
    BY DEF Init
  <2> QED BY <2>1
<1>3. DownloaderInv /\ Known
  BY <1>1 DEF BlockInv
<1>4. ASSUME NEW r \in Requests
      PROVE  InHand(r) = 0 /\ Served(r) = 0
  <2>1. ~Present(r)
    BY <1>2, <1>3 DEF Known
  <2>2. /\ InSequence(m_pending_requests, r) \in Nat
        /\ CopiesToRemote(r) \in Nat /\ Served(r) \in Nat
        /\ CopiesUnderway(r) = CopiesToRemote(r) + Served(r)
    BY <1>3, CopiesNow DEF CopiesAre
  <2>3. InSequence(m_pending_requests, r) = 0 /\ CopiesUnderway(r) = 0
    BY <2>1, <2>2 DEF Present
  <2> QED BY <1>2, <2>2, <2>3 DEF InHand
<1>5. \A c \in Clients : \A p \in Pieces : ~Asks(c, p)
  BY <1>2, <1>3 DEF Known
<1>6. OneOfEach /\ AnswersWanted
  BY <1>4 DEF OneOfEach, AnswersWanted
<1>7. AsksOnce
  BY <1>5 DEF AsksOnce
<1>8. CopiesWanted /\ ChokeIsLast /\ Exact
  BY <1>2 DEF CopiesWanted, ChokeIsLast, Exact
<1> QED BY <1>1, <1>6, <1>7, <1>8 DEF OrderlyInv, Order

LEMMA OrderlyStep ==
  ASSUME ~SecondCopies, OrderlyInv, [Next]_vars
  PROVE  OrderlyInv'
<1>1. BlockInv' /\ BlockStep
  BY BlockInvStep DEF OrderlyInv
<1>2. DownloaderInv' /\ BlockTypes'
  BY <1>1 DEF BlockInv
<1>3. OneOfEach' /\ AsksOnce'
  BY <1>1, <1>2, OneOfEachStep, AsksOnceStep
<1>4. AnswersWanted' /\ CopiesWanted' /\ ChokeIsLast'
  BY <1>1, <1>2, AnswersWantedStep, CopiesWantedStep, ChokeIsLastStep
<1>5. Exact'
  BY <1>1, <1>2, ExactStep
<1> QED BY <1>1, <1>3, <1>4, <1>5 DEF OrderlyInv, Order

(* The order holds in every state of every behaviour in which the remote   *)
(* peer leaves no request of ours underway when it unchokes us.            *)
THEOREM OrderlyInvariant ==
  ASSUME ~SecondCopies
  PROVE  Spec => []OrderlyInv
<1>1. Init => OrderlyInv
  BY OrderlyInit
<1>2. OrderlyInv /\ [Next]_vars => OrderlyInv'
  BY OrderlyStep
<1> QED BY <1>1, <1>2, PTL DEF Spec

(* bytes_downloaded only counts, and still a piece is Complete only when   *)
(* every block of it arrived: no block is counted twice, because there is  *)
(* one request for it, and the missing blocks make up the missing bytes    *)
(* (downloader.cpp:87-93).                                                 *)
THEOREM CompletePiecesAreWhole ==
  ASSUME ~SecondCopies
  PROVE  Spec => []CompleteIsWhole
<1>1. OrderlyInv => CompleteIsWhole
  <2> SUFFICES ASSUME OrderlyInv, NEW p \in DOMAIN m_pieces, m_pieces[p].status = "Complete"
               PROVE  \A b \in Blocks(p) : m_pieces[p].data[b] # "zero"
    BY DEF CompleteIsWhole
  <2>1. p \in Pieces /\ m_pieces[p] \in FilePiece(p) /\ Counts(p, m_pieces[p], TRUE)
    BY DEF OrderlyInv, BlockInv, BlockTypes, Order, Exact
  <2> QED BY <2>1, WholeByCount
<1> QED BY <1>1, OrderlyInvariant, PTL

(* No slot of m_active_requests is ever lost: while the connection lasts,  *)
(* an active request is on its way to the remote peer, with it, or on its  *)
(* way back, or a Choke is coming that puts it back in line                *)
(* (downloader.cpp:76-79, 124-131, 147).                                   *)
THEOREM ActiveRequestsAreUnderway ==
  ASSUME ~SecondCopies
  PROVE  Spec => []ActiveIsUnderway
<1>1. OrderlyInv => ActiveIsUnderway
  <2> SUFFICES ASSUME OrderlyInv, Connected, NEW r \in m_active_requests
               PROVE  CopiesUnderway(r) > 0 \/ ChokeUnderway
    BY DEF ActiveIsUnderway
  <2>1. DownloaderInv /\ SlotsCome /\ OneOfEach
    BY DEF OrderlyInv, BlockInv, Order
  <2>2. r \in Requests
    BY <2>1 DEF DownloaderInv, OwnInv, Containers
  <2>3. /\ InSequence(m_pending_requests, r) \in Nat
        /\ InHand(r) = InSequence(m_pending_requests, r) + 1
    BY <2>1, <2>2, InHandType
  <2>4. InHand(r) <= 1
    BY <2>1, <2>2 DEF OneOfEach
  <2>5. InSequence(m_pending_requests, r) = 0 /\ InHand(r) = 1
    BY <2>3, <2>4
  <2>6. r.piece_index \in DOMAIN m_pieces
    BY <2>1, <2>2, <2>5 DEF OneOfEach
  <2>7. ~Leaked(r)
    BY <2>5, <2>6 DEF Leaked
  <2> QED BY <2>1, <2>7 DEF SlotsCome
<1> QED BY <1>1, OrderlyInvariant, PTL

-----------------------------------------------------------------------------
(***************************************************************************)
(* A Downloader is what the strategy takes it for                          *)
(*                                                                         *)
(* The abstract state of a piece changes when it is asked for, when its    *)
(* last byte is counted and when it is taken; a block that comes too late  *)
(* for a Complete piece would change it as well, and comes only if its     *)
(* request was answered twice.                                             *)
(***************************************************************************)
Got ==
  [p \in Pieces |->
     IF p \notin DOMAIN m_pieces THEN "none"
     ELSE IF m_pieces[p].status # "Complete" THEN "working"
     ELSE IF HashMatches(p) THEN "Complete" ELSE "Corrupt"]

WorkStep == [Work!Next]_Got

WorkInv == BlockInv /\ (~SecondCopies => Order)

LEMMA GotIs ==
  ASSUME NEW p \in Pieces
  PROVE  /\ p \notin DOMAIN m_pieces => Got[p] = "none"
         /\ p \in DOMAIN m_pieces =>
              /\ m_pieces[p].status # "Complete" => Got[p] = "working"
              /\ m_pieces[p].status = "Complete" =>
                   Got[p] = IF HashMatches(p) THEN "Complete" ELSE "Corrupt"
BY DEF Got

LEMMA GotBecomes ==
  ASSUME NEW p \in Pieces
  PROVE  /\ p \notin DOMAIN m_pieces' => Got'[p] = "none"
         /\ p \in DOMAIN m_pieces' =>
              /\ m_pieces'[p].status # "Complete" => Got'[p] = "working"
              /\ m_pieces'[p].status = "Complete" => Got'[p] \in {"Complete", "Corrupt"}
BY DEF Got

(* All but one piece are as they were. *)
LEMMA OneChanges ==
  ASSUME NEW q \in Pieces,
         \A p \in Pieces \ {q} : /\ p \in DOMAIN m_pieces' <=> p \in DOMAIN m_pieces
                                 /\ p \in DOMAIN m_pieces => m_pieces'[p] = m_pieces[p]
  PROVE  Got' = [Got EXCEPT ![q] = Got'[q]]
<1>1. ASSUME NEW p \in Pieces \ {q}
      PROVE  Got'[p] = Got[p]
  <2>1. CASE p \notin DOMAIN m_pieces
    BY <2>1 DEF Got
  <2>2. CASE p \in DOMAIN m_pieces
    <3>1. p \in DOMAIN m_pieces' /\ m_pieces'[p] = m_pieces[p]
      BY <2>2
    <3>2. HashMatches(p)' <=> HashMatches(p)
      BY <3>1 DEF HashMatches
    <3> QED BY <2>2, <3>1, <3>2 DEF Got
  <2> QED BY <2>1, <2>2
<1>2. Got = [p \in Pieces |-> Got[p]] /\ Got' = [p \in Pieces |-> Got'[p]]
  BY DEF Got
<1> HIDE DEF Got
<1> QED BY <1>1, <1>2

(* The three abstract steps. *)
LEMMA AbstractSteps ==
  ASSUME NEW q \in Pieces, NEW v, Got' = [Got EXCEPT ![q] = v],
         \/ v = "working" /\ (SecondCopies \/ Got[q] \in {"none", "Corrupt"})
         \/ v \in {"Complete", "Corrupt"} /\ Got[q] = "working"
         \/ v = "none" /\ Got[q] = "Complete"
  PROVE  WorkStep
<1>1. CASE v = "working" /\ (SecondCopies \/ Got[q] \in {"none", "Corrupt"})
  <2>1. Work!Ask(q)
    BY <1>1 DEF Work!Ask, Got
  <2> QED BY <2>1 DEF WorkStep, Work!Next
<1>2. CASE v \in {"Complete", "Corrupt"} /\ Got[q] = "working"
  <2>1. Work!Arrive(q)
    BY <1>2 DEF Work!Arrive, Got
  <2> QED BY <2>1 DEF WorkStep, Work!Next
<1>3. CASE v = "none" /\ Got[q] = "Complete"
  <2>1. Work!Take(q)
    BY <1>3 DEF Work!Take, Got
  <2> QED BY <2>1 DEF WorkStep, Work!Next
<1> QED BY <1>1, <1>2, <1>3

LEMMA NoPieceChanges ==
  ASSUME UNCHANGED m_pieces
  PROVE  WorkStep
<1>1. Got' = Got
  BY DEF Got, HashMatches
<1> QED BY <1>1 DEF WorkStep

(* The arrival of a block. *)
LEMMA ArrivalWork ==
  ASSUME WorkInv, DownloaderInv', NEW m \in Incoming, ReadsBlock(m)
  PROVE  WorkStep
<1>1. BlockTypes /\ Counted /\ DownloaderInv
  BY DEF WorkInv, BlockInv
<1>2. /\ DOMAIN m_pieces' = DOMAIN m_pieces
      /\ \A p \in DOMAIN m_pieces :
           IF p = m.block.piece_index
           THEN Arrival(p, m_pieces[p], m_pieces'[p], m.block, m.content)
           ELSE m_pieces'[p] = m_pieces[p]
  BY <1>1, ArrivalLemma DEF ReadsBlock
<1>3. PICK b \in Requests : b = m.block
  BY IncomingFacts DEF ReadsBlock
<1>4. PICK q \in Pieces : q = b.piece_index
  BY RequestFacts
<1>5. b \in Blocks(q) /\ b.length \in Nat \ {0}
  BY <1>4, RequestFacts
<1>6. Got' = [Got EXCEPT ![q] = Got'[q]]
  BY <1>2, <1>3, <1>4, OneChanges
<1>7. ASSUME Got'[q] = Got[q]
      PROVE  WorkStep
  <2>1. Got' = Got
    <3>1. Got = [p \in Pieces |-> Got[p]]
      BY DEF Got
    <3> HIDE DEF Got
    <3> QED BY <1>6, <1>7, <3>1
  <2> QED BY <2>1 DEF WorkStep
<1>8. CASE q \notin DOMAIN m_pieces
  <2>1. Got[q] = "none" /\ Got'[q] = "none"
    BY <1>2, <1>8, GotIs, GotBecomes
  <2> QED BY <1>7, <2>1
<1>9. CASE q \in DOMAIN m_pieces /\ m_pieces[q].status # "Complete"
  <2>1. Got[q] = "working" /\ Got'[q] \in {"working", "Complete", "Corrupt"}
    BY <1>2, <1>9, GotIs, GotBecomes
  <2> QED BY <1>6, <1>7, <2>1, AbstractSteps
<1>10. CASE q \in DOMAIN m_pieces /\ m_pieces[q].status = "Complete"
  <2>1. m_pieces[q] \in FilePiece(q) /\ Counts(q, m_pieces[q], FALSE)
    BY <1>1, <1>10 DEF BlockTypes, Counted
  <2>2. CASE ~SecondCopies
    <3>1. OrderlyInv
      BY <2>2 DEF WorkInv, OrderlyInv
    <3>2. b \in m_active_requests /\ InHand(b) = 1
      BY <1>3, <3>1, BlockRead
    <3>3. m_pieces[q].data[b] = "zero"
      BY <1>4, <3>1, <3>2 DEF OrderlyInv, Order, OneOfEach
    <3>4. Counts(q, m_pieces[q], TRUE)
      BY <1>10, <3>1 DEF OrderlyInv, Order, Exact
    <3> QED BY <1>5, <1>10, <2>1, <3>3, <3>4, WholeByCount
  <2>3. CASE SecondCopies
    <3>1. Arrival(q, m_pieces[q], m_pieces'[q], m.block, m.content)
      BY <1>2, <1>3, <1>4, <1>10
    <3>2. /\ m_pieces'[q].bytes_downloaded = m_pieces[q].bytes_downloaded + b.length
          /\ m_pieces'[q].status = "Complete" <=>
               m_pieces'[q].bytes_downloaded = get_piece_size(q)
      BY <1>3, <3>1 DEF Arrival
    <3>3. m_pieces[q].bytes_downloaded = get_piece_size(q) /\ get_piece_size(q) \in Nat
      BY <1>10, <2>1, PieceHasBytes DEF Counts
    <3>4. m_pieces'[q].status # "Complete"
      BY <1>5, <3>2, <3>3
    <3>5. Got'[q] = "working"
      BY <1>2, <1>10, <3>4, GotBecomes
    <3> QED BY <1>6, <2>3, <3>5, AbstractSteps
  <2> QED BY <2>2, <2>3
<1> QED BY <1>8, <1>9, <1>10

LEMMA WorkOfStep ==
  ASSUME WorkInv, DownloaderInv', BlockStep
  PROVE  WorkStep
<1>1. DOMAIN m_pieces \subseteq Pieces
  BY DEF WorkInv, BlockInv, BlockTypes
<1>2. ASSUME NEW c \in Clients, NEW q \in Pieces, Downloads(c, q)
      PROVE  WorkStep
  <2>1. /\ m_pieces' = [d \in DOMAIN m_pieces \cup {q} |->
                          IF d = q THEN FreshPiece(q) ELSE m_pieces[d]]
        /\ \/ SecondCopies
           \/ q \notin DOMAIN m_pieces
           \/ q \in DOMAIN m_pieces /\ m_pieces[q].status = "Complete" /\ ~HashMatches(q)
    BY <1>2 DEF Downloads
  <2>2. /\ q \in DOMAIN m_pieces' /\ m_pieces'[q].status # "Complete"
        /\ \A p \in Pieces \ {q} : /\ p \in DOMAIN m_pieces' <=> p \in DOMAIN m_pieces
                                   /\ p \in DOMAIN m_pieces => m_pieces'[p] = m_pieces[p]
    BY <2>1 DEF FreshPiece
  <2>3. Got' = [Got EXCEPT ![q] = Got'[q]] /\ Got'[q] = "working"
    BY <2>2, OneChanges, GotBecomes
  <2>4. SecondCopies \/ Got[q] \in {"none", "Corrupt"}
    BY <2>1, GotIs
  <2> QED BY <2>3, <2>4, AbstractSteps
<1>3. ASSUME NEW q \in Pieces, Takes(q)
      PROVE  WorkStep
  <2>1. /\ q \in DOMAIN m_pieces /\ m_pieces[q].status = "Complete" /\ HashMatches(q)
        /\ m_pieces' = [d \in DOMAIN m_pieces \ {q} |-> m_pieces[d]]
    BY <1>3 DEF Takes
  <2>2. /\ q \notin DOMAIN m_pieces'
        /\ \A p \in Pieces \ {q} : /\ p \in DOMAIN m_pieces' <=> p \in DOMAIN m_pieces
                                   /\ p \in DOMAIN m_pieces => m_pieces'[p] = m_pieces[p]
    BY <2>1
  <2>3. Got' = [Got EXCEPT ![q] = Got'[q]] /\ Got'[q] = "none"
    BY <2>2, OneChanges, GotBecomes
  <2>4. Got[q] = "Complete"
    BY <2>1, GotIs
  <2> QED BY <2>3, <2>4, AbstractSteps
<1>4. CASE UNCHANGED m_pieces
  BY <1>4, NoPieceChanges
<1> QED
  BY <1>2, <1>3, <1>4, ArrivalWork
     DEF BlockStep, Quiet, Opens, OwnStep, GoesOn, GetsInLine, GivesUp, ReadStep,
         ReadsChoke, ReadsUnchoke, ReadsNews, RemoteMoves, TookOne, Answered, Choked,
         Unchoked, Announced, SaidOne, OursUntouched

(* A Downloader implements PieceWork: blocks, chokes, requests sent again  *)
(* and the limit on them never show; a piece that is worked on becomes     *)
(* Complete or Corrupt, a Complete one stays until it is taken, once, and  *)
(* a Corrupt one until it is asked for again.  Only where requests can be  *)
(* answered twice may a piece be set back while it is worked on            *)
(* (downloader.cpp:34-64, 69-95, 154-183).                                 *)
THEOREM DownloaderImplementsPieceWork == Spec => ImplementsPieceWork
<1>1. Init => WorkInv
  BY BlockInit, OrderlyInit DEF WorkInv, OrderlyInv
<1>2. WorkInv /\ [Next]_vars => WorkInv' /\ WorkStep
  <2> SUFFICES ASSUME WorkInv, [Next]_vars
               PROVE  WorkInv' /\ WorkStep
    OBVIOUS
  <2>1. BlockInv' /\ BlockStep
    BY BlockInvStep DEF WorkInv
  <2>2. WorkInv'
    BY <2>1, OrderlyStep DEF WorkInv, OrderlyInv
  <2>3. WorkStep
    BY <2>1, WorkOfStep DEF BlockInv
  <2> QED BY <2>2, <2>3
<1>3. Init => Work!Init
  <2> SUFFICES ASSUME Init PROVE Work!Init
    OBVIOUS
  <2>1. DOMAIN m_pieces = {}
    BY DEF Init
  <2> QED BY <2>1 DEF Work!Init
<1>4. WorkStep =>
        [Work!Next]_[p \in Pieces |->
                       IF p \notin DOMAIN m_pieces THEN "none"
                       ELSE IF m_pieces[p].status # "Complete" THEN "working"
                       ELSE IF HashMatches(p) THEN "Complete" ELSE "Corrupt"]
  BY DEF WorkStep, Got
<1> QED BY <1>1, <1>2, <1>3, <1>4, PTL DEF Spec, ImplementsPieceWork, Work!Spec

=============================================================================
