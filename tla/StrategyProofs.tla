--------------------------- MODULE StrategyProofs ---------------------------
(***************************************************************************)
(* Theorems about Strategy, for any number of pieces, addresses,           *)
(* connections, losses, corrupt pieces, failed writes and crashes: its     *)
(* invariants, that it implements Download, the promise to the user, that  *)
(* it asks of its downloaders only what PieceWork promises, and that lost  *)
(* slots do not clog it while connections last.                            *)
(***************************************************************************)
EXTENDS Strategy, FiniteSetTheorems, TLAPS

Tasks == {"R", "T"}

(* is_done() is at an element of the vector of an entry. *)
Stopped == {"pushing", "pushed", "repeating"}

(* What revoke() or assign() did to the vector that a frame is at. *)
Disturbed(f) == MemberRevoked(f) \/ MemberAdded(f)

(* The causes of undefined behaviour. *)
Outlived ==
  /\ task["R"].pc = "failed"
  /\ task["T"].pc = "polling" /\ task["T"].index = PieceCount

Caught(x) ==
  /\ task[x].pc \in {"pushed", "repeating"}
  /\ task[x].index \in Pieces
  /\ EntryErased(task[x]) \/ (x = "T" /\ Disturbed(task[x]))

-----------------------------------------------------------------------------
(* The inductive invariant *)

(* The Peers made for an address are numbered in order, and those that     *)
(* were not made yet are as they were at first.                            *)
MadeInOrder ==
  \A a \in Addresses : \E k \in 0..MaxConnects :
    \A n \in 1..MaxConnects : peer[<<a, n>>].conn # "none" <=> n <= k

NotMadeYet ==
  \A d \in Downloaders :
    /\ peer[d].conn = "none" => peer[d] = NoPeer /\ d \notin DOMAIN m_peer_pool
    /\ d \notin DOMAIN m_peer_pool => peer[d].conn \in {"none", "ended"}

(* A downloader of a piece was made, and the piece is assigned to it or    *)
(* was taken from it.                                                      *)
AssignedTo(d, p) == d \in DOMAIN m_peer_pool /\ InSeq(m_peer_pool[d], p)

DownloaderOK(p, d) ==
  InSeq(m_piece_downloaders[p], d) =>
    peer[d].conn # "none" /\ (AssignedTo(d, p) \/ peer[d].got[p] = "none")

DownloadersOK == \A p \in Pieces, d \in Downloaders : DownloaderOK(p, d)

(* Where is_done() is, what it was doing is still there, or was taken away *)
(* in one of the ways that UndefinedHasACause lists.                       *)
PollOK(x) ==
  LET f == task[x] IN
  /\ f.completed \cap m_missing_pieces = {}
  /\ f.freed => f.pc \in Stopped /\ f.index \notin m_missing_pieces
  /\ f.moved # {} => f.pc \in Stopped
  /\ f.pc = "polling" /\ f.index \in Pieces =>
       /\ f.end <= Len(m_piece_downloaders[f.index])
       /\ f.pos >= 1 /\ (f.end > 0 => f.pos <= f.end)
  /\ f.pc \in Stopped =>
       /\ f.index \in Pieces /\ f.downloader \in Downloaders
       /\ f.pos >= 1 /\ f.pos <= f.end /\ f.end <= 2
       /\ peer[f.downloader].conn # "none"
       /\ f.freed \/ f.moved # {} \/ f.end <= Len(m_piece_downloaders[f.index])

(* Only T is ever at a vector that R's assign() or revoke() changes. *)
MovedOK(x) ==
  LET f == task[x] IN
  f.moved # {} => x = "T" /\ (f.freed \/ Disturbed(f))

(* A piece that is being stored is still assigned to the downloader it was *)
(* taken from, unless the entry was erased or the downloader revoked.      *)
Held(d, p) ==
  /\ AssignedTo(d, p)
  /\ InSeq(m_piece_downloaders[p], d)
  /\ peer[d].got[p] = "none"

Dropped(f) == f.downloader \notin DOMAIN m_peer_pool /\ f.downloader \in f.moved

StoringOK(x) ==
  LET f == task[x] IN
  f.pc \in {"pushing", "pushed"} =>
    /\ exists(files, f.index)
    /\ f.freed \/ Dropped(f) \/ Held(f.downloader, f.index)

(* What assign() found before it was suspended still holds. *)
AssigningOK(x) ==
  LET f == task[x] IN
  f.pc = "downloading" =>
    /\ x = "R" /\ f.todo # <<>>
    /\ f.downloader \in DOMAIN m_peer_pool
    /\ Len(m_peer_pool[f.downloader]) < 2
    /\ Len(m_piece_downloaders[Head(f.todo)]) < 2
    /\ ~InSeq(m_piece_downloaders[Head(f.todo)], f.downloader)

MergingOK(x) ==
  LET f == task[x] IN
  /\ f.pc \in {"merging", "finished"} => m_missing_pieces = {}
  /\ f.pc = "merging" => \A p \in Pieces : p < f.index => files[p] = "whole"

TaskOK(x) == PollOK(x) /\ MovedOK(x) /\ StoringOK(x) /\ AssigningOK(x) /\ MergingOK(x)

(* One coroutine has the thread, and two that store the same piece of one  *)
(* downloader cannot both still hold it.                                   *)
OneThread == task["R"].pc \notin Running \/ task["T"].pc \notin Running

Apart ==
  LET r == task["R"]
      t == task["T"]
  IN  /\ r.pc \in {"pushing", "pushed"} /\ t.pc \in {"pushing", "pushed"}
      /\ r.index = t.index /\ r.downloader = t.downloader
      => r.freed \/ t.freed \/ r.downloader \notin DOMAIN m_peer_pool

(* A file is half-written while it is being written, or it is torn. *)
PartialIsUnderway ==
  \A p \in Pieces : files[p] = "partial" =>
    p \in torn \/ \E x \in Tasks : task[x].pc = "pushing" /\ task[x].index = p

StrategyInv ==
  /\ TypeOK
  /\ MadeInOrder /\ NotMadeYet /\ PoolMatchesConnections
  /\ AtMostTwo /\ MapsAgreeOnMissing /\ DownloadersOK
  /\ \A x \in Tasks : TaskOK(x)
  /\ OneThread /\ Apart
  /\ MissingMatchesVault /\ PartialIsUnderway
  /\ UndefinedHasACause

-----------------------------------------------------------------------------
(* Vectors of at most two elements *)

LEMMA UpToTwo ==
  ASSUME NEW n \in Nat, n <= 2
  PROVE  n = 0 \/ n = 1 \/ n = 2
OBVIOUS

(* Vectors that are written out. *)
LEMMA ShortVector ==
  ASSUME NEW T, NEW s \in Seq(T)
  PROVE  /\ Len(s) = 1 => s = <<s[1]>>
         /\ Len(s) = 2 => s = <<s[1], s[2]>>
OBVIOUS

LEMMA AppendShort ==
  ASSUME NEW a, NEW b
  PROVE  Append(<<>>, a) = <<a>> /\ Append(<<a>>, b) = <<a, b>>
<1> DEFINE T == {a, b}
           s == Append(<<>>, a)
           t == Append(<<a>>, b)
<1>1. s \in Seq(T) /\ Len(s) = 1 /\ s[1] = a
  OBVIOUS
<1>2. t \in Seq(T) /\ Len(t) = 2 /\ t[1] = a /\ t[2] = b
  OBVIOUS
<1> HIDE DEF T, s, t
<1>3. s = <<s[1]>> /\ t = <<t[1], t[2]>>
  BY <1>1, <1>2, ShortVector
<1> QED
  BY <1>1, <1>2, <1>3 DEF s, t

LEMMA EmptyVector == DOMAIN <<>> = {} /\ \A e : ~InSeq(<<>>, e)
BY DEF InSeq

(* The loop of std::remove, unrolled. *)
LEMMA WithoutOne ==
  ASSUME NEW T, NEW s \in Seq(T), NEW S, Len(s) <= 1
  PROVE  /\ Len(s) = 0 => Without(s, S) = <<>>
         /\ Len(s) = 1 => Without(s, S) = IF s[1] \in S THEN <<>> ELSE <<s[1]>>
<1> DEFINE body(f) == [i \in 0..Len(s) |->
                         IF i = 0 THEN <<>>
                         ELSE IF s[i] \in S THEN f[i - 1] ELSE Append(f[i - 1], s[i])]
           kept == CHOOSE f : f = body(f)
<1>1. Without(s, S) = kept[Len(s)]
  BY DEF Without
<1>2. ASSUME Len(s) = 0 PROVE kept[0] = <<>>
  <2> DEFINE w == [i \in 0..0 |-> <<>>]
  <2>1. w = body(w)
    BY <1>2
  <2>2. kept = body(kept)
    BY <2>1
  <2> HIDE DEF kept
  <2> QED
    BY <1>2, <2>2
<1>3. ASSUME Len(s) = 1 PROVE kept[1] = IF s[1] \in S THEN <<>> ELSE <<s[1]>>
  <2> DEFINE w == [i \in 0..1 |-> IF i = 0 THEN <<>> ELSE IF s[1] \in S THEN <<>> ELSE <<s[1]>>]
  <2>1. w = body(w)
    BY <1>3
  <2>2. kept = body(kept)
    BY <2>1
  <2> HIDE DEF kept
  <2>3. \A i \in 0..1 :
          kept[i] = IF i = 0 THEN <<>>
                    ELSE IF s[i] \in S THEN kept[i - 1] ELSE Append(kept[i - 1], s[i])
    BY <1>3, <2>2
  <2>4. kept[0] = <<>> /\ kept[1] = IF s[1] \in S THEN kept[0] ELSE Append(kept[0], s[1])
    <3>1. 0 \in 0..1 /\ 1 \in 0..1 /\ 1 - 1 = 0 /\ 1 # 0
      OBVIOUS
    <3> QED
      BY <2>3, <3>1, Zenon
  <2> QED
    BY <2>3, <2>4
<1> QED
  BY <1>1, <1>2, <1>3

LEMMA WithoutTwo ==
  ASSUME NEW T, NEW s \in Seq(T), NEW S, Len(s) = 2
  PROVE  Without(s, S) = IF s[1] \in S THEN IF s[2] \in S THEN <<>> ELSE <<s[2]>>
                         ELSE IF s[2] \in S THEN <<s[1]>> ELSE <<s[1], s[2]>>
<1> DEFINE body(f) == [i \in 0..Len(s) |->
                         IF i = 0 THEN <<>>
                         ELSE IF s[i] \in S THEN f[i - 1] ELSE Append(f[i - 1], s[i])]
           kept == CHOOSE f : f = body(f)
           one == IF s[1] \in S THEN <<>> ELSE <<s[1]>>
           two == IF s[2] \in S THEN one ELSE Append(one, s[2])
           w == [i \in 0..2 |-> IF i = 0 THEN <<>> ELSE IF i = 1 THEN one ELSE two]
<1>1. w = body(w)
  OBVIOUS
<1>2. kept = body(kept)
  BY <1>1
<1>3. Without(s, S) = kept[2]
  BY DEF Without
<1> HIDE DEF kept
<1>4. \A i \in 0..2 :
        kept[i] = IF i = 0 THEN <<>>
                  ELSE IF s[i] \in S THEN kept[i - 1] ELSE Append(kept[i - 1], s[i])
  BY <1>2
<1>5. /\ 0 \in 0..2 /\ 1 \in 0..2 /\ 2 \in 0..2
      /\ 1 - 1 = 0 /\ 2 - 1 = 1 /\ 1 # 0 /\ 2 # 0
  OBVIOUS
<1>6. /\ kept[0] = <<>>
      /\ kept[1] = IF s[1] \in S THEN kept[0] ELSE Append(kept[0], s[1])
      /\ kept[2] = IF s[2] \in S THEN kept[1] ELSE Append(kept[1], s[2])
  BY <1>4, <1>5, Zenon
<1>7. kept[1] = one
  BY <1>6
<1>8. kept[2] = two
  BY <1>6, <1>7, Zenon
<1>9. Append(<<>>, s[2]) = <<s[2]>> /\ Append(<<s[1]>>, s[2]) = <<s[1], s[2]>>
  BY AppendShort
<1> QED
  BY <1>3, <1>8, <1>9, Zenon

(* What is kept are the elements that are not removed, each as often as    *)
(* before.                                                                 *)
LEMMA WithoutFacts ==
  ASSUME NEW T, NEW s \in Seq(T), NEW S, Len(s) <= 2
  PROVE  /\ Without(s, S) \in Seq(T)
         /\ Len(Without(s, S)) <= Len(s)
         /\ \A e : InSeq(Without(s, S), e) <=> InSeq(s, e) /\ e \notin S
         /\ (\A i, j \in DOMAIN s : i # j => s[i] # s[j]) =>
              \A i, j \in DOMAIN Without(s, S) :
                i # j => Without(s, S)[i] # Without(s, S)[j]
         /\ (\A e \in S : ~InSeq(s, e)) => Without(s, S) = s
<1> DEFINE w == Without(s, S)
<1>1. Len(s) \in Nat
  OBVIOUS
<1>2. CASE Len(s) = 0
  <2>1. s = <<>> /\ Len(s) <= 1
    BY <1>2
  <2>2. w = <<>>
    BY <1>2, <2>1, WithoutOne
  <2> QED
    <3>1. w = s /\ w \in Seq(T) /\ Len(w) <= Len(s)
      <4>1. w = s
        BY <2>1, <2>2
      <4> QED
        BY <1>1, <4>1
    <3>2. DOMAIN w = {} /\ \A e : ~InSeq(w, e)
      BY <2>2, EmptyVector, Zenon
    <3> QED
      BY <3>1, <3>2, Zenon
<1>3. CASE Len(s) = 1
  <2>1. w = (IF s[1] \in S THEN <<>> ELSE <<s[1]>>) 
    <3>1. Len(s) <= 1
      BY <1>3
    <3> QED
      BY <1>3, <3>1, WithoutOne
  <2>2. s[1] \in T /\ s = <<s[1]>>
    BY <1>3
  <2>3. CASE s[1] \in S
    BY <2>1, <2>2, <2>3, <1>3 DEF InSeq
  <2>4. CASE s[1] \notin S
    BY <2>1, <2>2, <2>4, <1>3 DEF InSeq
  <2> QED
    BY <2>3, <2>4
<1>4. CASE Len(s) = 2
  <2>1. w = IF s[1] \in S THEN IF s[2] \in S THEN <<>> ELSE <<s[2]>>
               ELSE IF s[2] \in S THEN <<s[1]>> ELSE <<s[1], s[2]>>
    BY <1>4, WithoutTwo
  <2>2. s[1] \in T /\ s[2] \in T /\ s = <<s[1], s[2]>>
    <3>1. 1 \in 1..Len(s) /\ 2 \in 1..Len(s)
      BY <1>4
    <3>2. s[1] \in T /\ s[2] \in T
      BY <3>1
    <3>3. s = <<s[1], s[2]>>
      BY <1>4
    <3> QED
      BY <3>2, <3>3
  <2>3. CASE s[1] \in S /\ s[2] \in S
    BY <2>1, <2>2, <2>3, <1>4 DEF InSeq
  <2>4. CASE s[1] \notin S /\ s[2] \in S
    BY <2>1, <2>2, <2>4, <1>4 DEF InSeq
  <2>5. CASE s[1] \in S /\ s[2] \notin S
    BY <2>1, <2>2, <2>5, <1>4 DEF InSeq
  <2>6. CASE s[1] \notin S /\ s[2] \notin S
    <3>1. w = s
      BY <2>1, <2>2, <2>6
    <3> QED
      BY <2>1, <2>2, <2>6, <3>1, <1>4 DEF InSeq
  <2> QED
    BY <2>3, <2>4, <2>5, <2>6
<1>5. Len(s) = 0 \/ Len(s) = 1 \/ Len(s) = 2
  BY <1>1, UpToTwo
<1> QED
  BY <1>2, <1>3, <1>4, <1>5

LEMMA OneLess ==
  ASSUME NEW T, NEW s \in Seq(T), Len(s) = 2, NEW p \in T, NEW r \in T,
         \/ s[1] = p /\ s[2] = r
         \/ s[1] = r /\ s[2] = p,
         NEW e \in Seq(T), Len(e) = 1, e[1] = r
  PROVE  Len(e) < Len(s) /\ \A q : q # p => (InSeq(e, q) <=> InSeq(s, q))
BY DEF InSeq

LEMMA KeptAndRest ==
  ASSUME NEW T, NEW s \in Seq(T), Len(s) = 2
  PROVE  /\ LET e == <<>> \o SubSeq(s, Len(<<>>) + 2, Len(s))
            IN  e \in Seq(T) /\ Len(e) = 1 /\ e[1] = s[2]
         /\ \A a \in T :
              LET e == <<a>> \o SubSeq(s, Len(<<a>>) + 2, Len(s))
              IN  e \in Seq(T) /\ Len(e) = 1 /\ e[1] = a
<1>1. SubSeq(s, 2, 2) \in Seq(T) /\ Len(SubSeq(s, 2, 2)) = 1 /\ SubSeq(s, 2, 2)[1] = s[2]
  OBVIOUS
<1>2. SubSeq(s, 3, 2) \in Seq(T) /\ Len(SubSeq(s, 3, 2)) = 0
  OBVIOUS
<1>3. Len(<<>>) + 2 = 2 /\ \A a : Len(<<a>>) + 2 = 3
  OBVIOUS
<1>4. ASSUME NEW u \in Seq(T), Len(u) = 1
      PROVE  <<>> \o u \in Seq(T) /\ Len(<<>> \o u) = 1 /\ (<<>> \o u)[1] = u[1]
  BY <1>4
<1>5. ASSUME NEW u \in Seq(T), Len(u) = 0, NEW a \in T
      PROVE  <<a>> \o u \in Seq(T) /\ Len(<<a>> \o u) = 1 /\ (<<a>> \o u)[1] = a
  BY <1>5
<1> QED
  BY <1>1, <1>2, <1>3, <1>4, <1>5

(* erase(remove(p)) takes one occurrence of p away, and nothing else. *)
LEMMA EraseOneFacts ==
  ASSUME NEW s \in Seq(Pieces), NEW d, NEW p \in Pieces, Len(s) <= 2, InSeq(s, p),
         s = m_peer_pool[d]
  PROVE  /\ EraseOne(d, p) \in Seq(Pieces)
         /\ Len(EraseOne(d, p)) < Len(s)
         /\ \A q : q # p => (InSeq(EraseOne(d, p), q) <=> InSeq(s, q))
<1>1. PICK w : w = Without(s, {p})
  OBVIOUS
<1>2. PICK e : e = w \o SubSeq(s, Len(w) + 2, Len(s))
  OBVIOUS
<1>3. EraseOne(d, p) = e
  BY <1>1, <1>2 DEF EraseOne, Kept
<1>4. Len(s) \in Nat /\ DOMAIN s = 1..Len(s)
  OBVIOUS
<1>5. Len(s) = 1 \/ Len(s) = 2
  <2>1. Len(s) # 0
    BY <1>4 DEF InSeq
  <2> QED
    BY <1>4, <2>1, UpToTwo
<1>6. CASE Len(s) = 1
  <2>1. s[1] = p
    BY <1>6 DEF InSeq
  <2>2. w = <<>>
    <3>1. Len(s) <= 1
      BY <1>6
    <3> QED
      BY <1>1, <1>6, <2>1, <3>1, WithoutOne
  <2>3. e = <<>>
    BY <1>2, <1>6, <2>2
  <2>4. \A q : q # p => ~InSeq(s, q) /\ ~InSeq(e, q)
    BY <1>6, <2>1, <2>3 DEF InSeq
  <2>5. e \in Seq(Pieces) /\ Len(e) = 0
    BY <2>3
  <2> QED
    BY <1>3, <1>6, <2>4, <2>5
<1>7. CASE Len(s) = 2
  <2>1. s[1] \in Pieces /\ s[2] \in Pieces /\ (s[1] = p \/ s[2] = p)
    BY <1>7 DEF InSeq
  <2>2. ASSUME NEW r \in Pieces, e \in Seq(Pieces), Len(e) = 1, e[1] = r,
               \/ s[1] = p /\ s[2] = r
               \/ s[1] = r /\ s[2] = p
        PROVE  /\ EraseOne(d, p) \in Seq(Pieces)
               /\ Len(EraseOne(d, p)) < Len(s)
               /\ \A q : q # p => (InSeq(EraseOne(d, p), q) <=> InSeq(s, q))
    BY <1>3, <1>7, <2>2, OneLess
  <2>3. CASE s[1] = p /\ s[2] = p
    <3>1. w = <<>>
      BY <1>1, <1>7, <2>3, WithoutTwo
    <3>2. e \in Seq(Pieces) /\ Len(e) = 1 /\ e[1] = p
      BY <1>2, <1>7, <2>3, <3>1, KeptAndRest
    <3> QED
      BY <2>2, <2>3, <3>2
  <2>4. CASE s[1] = p /\ s[2] # p
    <3>1. w = <<s[2]>>
      BY <1>1, <1>7, <2>4, WithoutTwo
    <3>2. e \in Seq(Pieces) /\ Len(e) = 1 /\ e[1] = s[2]
      BY <1>2, <1>7, <2>1, <3>1, KeptAndRest
    <3> QED
      BY <2>1, <2>2, <2>4, <3>2
  <2>5. CASE s[1] # p
    <3>1. w = <<s[1]>>
      BY <1>1, <1>7, <2>1, <2>5, WithoutTwo
    <3>2. e \in Seq(Pieces) /\ Len(e) = 1 /\ e[1] = s[1]
      BY <1>2, <1>7, <2>1, <3>1, KeptAndRest
    <3> QED
      BY <2>1, <2>2, <2>5, <3>2
  <2> QED
    BY <2>3, <2>4, <2>5
<1> QED
  BY <1>5, <1>6, <1>7

LEMMA AppendFacts ==
  ASSUME NEW T, NEW s \in Seq(T), NEW e \in T
  PROVE  /\ Append(s, e) \in Seq(T)
         /\ Len(Append(s, e)) = Len(s) + 1
         /\ \A q : InSeq(Append(s, e), q) <=> InSeq(s, q) \/ q = e
         /\ ~InSeq(s, e) /\ (\A i, j \in DOMAIN s : i # j => s[i] # s[j]) =>
              \A i, j \in DOMAIN Append(s, e) : i # j => Append(s, e)[i] # Append(s, e)[j]
<1>1. /\ Append(s, e) \in Seq(T) /\ Len(Append(s, e)) = Len(s) + 1
      /\ DOMAIN s = 1..Len(s) /\ DOMAIN Append(s, e) = 1..(Len(s) + 1) /\ Len(s) \in Nat
      /\ Append(s, e)[Len(s) + 1] = e
      /\ \A i \in 1..Len(s) : Append(s, e)[i] = s[i]
  OBVIOUS
<1>2. \A q : InSeq(Append(s, e), q) <=> InSeq(s, q) \/ q = e
  BY <1>1 DEF InSeq
<1>3. ASSUME ~InSeq(s, e), \A i, j \in DOMAIN s : i # j => s[i] # s[j],
             NEW i \in 1..(Len(s) + 1), NEW j \in 1..(Len(s) + 1), i # j
      PROVE  Append(s, e)[i] # Append(s, e)[j]
  BY <1>1, <1>3 DEF InSeq
<1> QED
  BY <1>1, <1>2, <1>3

-----------------------------------------------------------------------------
(* Frames and Peers *)

States == Running \cup Suspended \cup Ended

Frames ==
  [pc : States, first : BOOLEAN, todo : Seq(Pieces), index : 0..PieceCount, pos : Nat,
   end : Nat, completed : SUBSET Pieces, moved : SUBSET Downloaders, freed : BOOLEAN,
   downloader : Downloaders \cup {<<>>}]

PeerRecords ==
  [conn : {"none", "connecting", "connected", "lost", "ended", "zombie"},
   has : SUBSET Pieces, got : [Pieces -> {"none", "working", "Complete", "Corrupt"}]]

(* The rest of TypeOK. *)
StrategyTypeOK ==
  /\ m_missing_pieces \subseteq Pieces
  /\ m_piece_downloaders \in [Pieces -> Seq(Downloaders)]
  /\ DOMAIN m_peer_pool \subseteq Downloaders
  /\ \A d \in DOMAIN m_peer_pool : m_peer_pool[d] \in Seq(Pieces)
  /\ m_active_connections \subseteq Addresses

FilesTypeOK == files \in [Pieces -> {"absent", "partial", "whole"}]

TasksTypeOK == DOMAIN task = Tasks /\ \A x \in Tasks : task[x] \in Frames

PeersTypeOK == peer \in [Downloaders -> PeerRecords]

BudgetTypeOK ==
  /\ torn \subseteq Pieces
  /\ undefined \in BOOLEAN
  /\ budget \in [losses : 0..MaxLosses, corrupt : 0..MaxCorrupt, faults : 0..MaxFaults]

LEMMA TypeParts ==
  TypeOK <=> StrategyTypeOK /\ FilesTypeOK /\ TasksTypeOK /\ PeersTypeOK /\ BudgetTypeOK
BY DEF TypeOK, StrategyTypeOK, FilesTypeOK, TasksTypeOK, PeersTypeOK, BudgetTypeOK,
   Tasks, Frames, States, PeerRecords

LEMMA TypePartsNext ==
  TypeOK' <=> StrategyTypeOK' /\ FilesTypeOK' /\ TasksTypeOK' /\ PeersTypeOK' /\ BudgetTypeOK'
BY TypeParts, PTL

LEMMA PieceRange ==
  /\ PieceCount \in Nat /\ PieceCount # 0 /\ 0 \in Pieces
  /\ \A p : p \in Pieces <=> p \in 0..PieceCount /\ p < PieceCount
  /\ \A p \in Pieces : p + 1 \in 0..PieceCount
BY StrategyAssumption DEF StrategyAssumption, Pieces

LEMMA FrameFields ==
  ASSUME NEW pc \in States, NEW first \in BOOLEAN
  PROVE  /\ Frame(pc, first) \in Frames
         /\ Frame(pc, first).pc = pc
         /\ Frame(pc, first).index = 0
         /\ Frame(pc, first).completed = {}
         /\ ~Frame(pc, first).freed /\ Frame(pc, first).moved = {}
         /\ Frame(pc, first).end = 0 /\ Frame(pc, first).pos = 1
BY PieceRange DEF Frame, Frames

LEMMA StartPollingFields ==
  ASSUME NEW f \in Frames, StrategyTypeOK
  PROVE  LET g == StartPolling(f, m_piece_downloaders) IN
         /\ g \in Frames /\ g.pc = "polling" /\ g.index = 0 /\ g.pos = 1
         /\ g.end = Len(m_piece_downloaders[0]) /\ g.completed = {} /\ ~g.freed /\ g.moved = {}
<1>1. Len(m_piece_downloaders[0]) \in Nat
  BY PieceRange DEF StrategyTypeOK
<1>2. "polling" \in States /\ 0 \in 0..PieceCount /\ <<>> \in Seq(Pieces)
  BY PieceRange DEF States, Running
<1> QED
  BY <1>1, <1>2 DEF StartPolling, Frames

LEMMA SetPosition ==
  ASSUME NEW f \in Frames, NEW pc \in States, NEW i \in 0..PieceCount, NEW k \in Nat,
         NEW n \in Nat
  PROVE  [f EXCEPT !.pc = pc, !.index = i, !.pos = k, !.end = n, !.moved = {}] \in Frames
BY DEF Frames

(* The next position, or the next entry. *)
LEMMA AdvanceFields ==
  ASSUME NEW f \in Frames, f.index \in Pieces, StrategyTypeOK
  PROVE  LET g == Advance(f) IN
         /\ g \in Frames /\ g.pc = "polling"
         /\ g.completed = f.completed /\ g.freed = f.freed
         /\ \/ /\ f.pos < f.end /\ g.index = f.index /\ g.pos = f.pos + 1
               /\ g.end = f.end /\ g.moved = f.moved
            \/ /\ ~(f.pos < f.end) /\ g.index = f.index + 1 /\ g.pos = 1 /\ g.moved = {}
               /\ g.index \in Pieces => g.end = Len(m_piece_downloaders[g.index])
<1>1. "polling" \in States
  BY DEF States, Running
<1>2. CASE f.pos < f.end
  <2>1. Advance(f) = [f EXCEPT !.pc = "polling", !.pos = f.pos + 1]
    BY <1>2 DEF Advance
  <2>2. f.pos + 1 \in Nat
    BY DEF Frames
  <2> QED
    BY <1>1, <1>2, <2>1, <2>2 DEF Frames
<1>3. CASE ~(f.pos < f.end)
  <2>1. PICK n : n = IF f.index + 1 \in Pieces
                     THEN Len(m_piece_downloaders[f.index + 1]) ELSE 0
    OBVIOUS
  <2>2. Advance(f) = [f EXCEPT !.pc = "polling", !.index = f.index + 1, !.pos = 1,
                               !.end = n, !.moved = {}]
    BY <1>3, <2>1 DEF Advance
  <2>3. n \in Nat /\ f.index + 1 \in 0..PieceCount
    BY <2>1, PieceRange DEF StrategyTypeOK
  <2>4. f.index + 1 \in Pieces => n = Len(m_piece_downloaders[f.index + 1])
    BY <2>1
  <2>5. /\ Advance(f).pc = "polling"
        /\ Advance(f).completed = f.completed /\ Advance(f).freed = f.freed
        /\ Advance(f).index = f.index + 1 /\ Advance(f).pos = 1 /\ Advance(f).end = n
        /\ Advance(f).moved = {}
    BY <2>2 DEF Frames
  <2>6. Advance(f) \in Frames
    <3>1. 1 \in Nat
      OBVIOUS
    <3>2. [f EXCEPT !.pc = "polling", !.index = f.index + 1, !.pos = 1, !.end = n,
                    !.moved = {}] \in Frames
      BY <1>1, <2>3, <3>1, SetPosition, Zenon
    <3> QED
      BY <2>2, <3>2, Zenon
  <2> QED
    BY <1>3, <2>4, <2>5, <2>6
<1> QED
  BY <1>2, <1>3

-----------------------------------------------------------------------------
(* Steps that leave the strategy's own members alone *)

(* Peers are made by include() alone, an ended one stays ended, and a      *)
(* piece that was taken from one of its downloaders is not asked for again.*)
PeersKept ==
  \A d \in Downloaders :
    /\ peer[d].conn = "none" => peer'[d] = peer[d]
    /\ peer[d].conn # "none" => peer'[d].conn # "none"
    /\ peer[d].conn = "ended" => peer'[d].conn = "ended"
    /\ \A p \in Pieces :
         InSeq(m_piece_downloaders[p], d) /\ peer[d].got[p] = "none"
           => peer'[d].got[p] = "none"

FilesKept ==
  \A p \in Pieces : /\ files[p] # "absent" => files'[p] # "absent"
                    /\ files[p] = "whole" => files'[p] = "whole"

LEMMA TaskKept ==
  ASSUME StrategyInv, UNCHANGED strategyVars, PeersKept, FilesKept,
         NEW y \in Tasks, task'[y] = task[y]
  PROVE  TaskOK(y)'
<1>1. UNCHANGED <<m_missing_pieces, m_piece_downloaders, m_peer_pool>>
  BY DEF strategyVars
<1>2. TaskOK(y)
  BY DEF StrategyInv
<1>3. MovedOK(y)'
  <2>1. TasksTypeOK
    BY TypeParts DEF StrategyInv
  <2>2. \A d \in task[y].moved : peer[d].conn = "ended" => peer'[d].conn = "ended"
    BY <2>1 DEF TasksTypeOK, Frames, PeersKept
  <2> QED
    BY <1>1, <1>2, <2>2 DEF TaskOK, MovedOK, Disturbed, MemberRevoked, MemberAdded
<1>4. PollOK(y)'
  <2>1. task[y].downloader \in Downloaders /\ peer[task[y].downloader].conn # "none"
          => peer'[task[y].downloader].conn # "none"
    BY DEF PeersKept
  <2> QED
    BY <1>1, <1>2, <2>1 DEF TaskOK, PollOK
<1>5. StoringOK(y)'
  <2>1. SUFFICES ASSUME task[y].pc \in {"pushing", "pushed"}
                 PROVE  /\ exists(files', task[y].index)
                        /\ \/ task[y].freed
                           \/ Dropped(task[y])
                           \/ Held(task[y].downloader, task[y].index)'
    BY <1>1 DEF StoringOK, Dropped, exists
  <2>2. task[y].index \in Pieces /\ task[y].downloader \in Downloaders
    BY <1>2, <2>1 DEF TaskOK, PollOK, Stopped
  <2>3. exists(files', task[y].index)
    BY <1>2, <2>1, <2>2 DEF TaskOK, StoringOK, FilesKept, exists
  <2>4. ASSUME Held(task[y].downloader, task[y].index)
        PROVE  Held(task[y].downloader, task[y].index)'
    BY <1>1, <2>2, <2>4 DEF Held, AssignedTo, PeersKept
  <2> QED
    BY <1>2, <2>1, <2>3, <2>4 DEF TaskOK, StoringOK
<1>6. AssigningOK(y)'
  BY <1>1, <1>2 DEF TaskOK, AssigningOK
<1>7. MergingOK(y)'
  BY <1>1, <1>2 DEF TaskOK, MergingOK, FilesKept
<1> QED
  BY <1>3, <1>4, <1>5, <1>6, <1>7 DEF TaskOK

(* What such a step of coroutine x has to keep. *)
LEMMA QuietStep ==
  ASSUME StrategyInv, ~undefined, UNCHANGED <<strategyVars, undefined>>,
         PeersKept, FilesKept, NEW x \in Tasks,
         \A y \in Tasks : y # x => task'[y] = task[y],
         TasksTypeOK', PeersTypeOK', FilesTypeOK', BudgetTypeOK',
         TaskOK(x)', OneThread', Apart', MissingMatchesVault', PartialIsUnderway'
  PROVE  StrategyInv'
<1>1. UNCHANGED <<m_missing_pieces, m_piece_downloaders, m_peer_pool, m_active_connections>>
  BY DEF strategyVars
<1>2. TypeOK'
  <2>1. StrategyTypeOK
    BY TypeParts DEF StrategyInv
  <2>2. StrategyTypeOK'
    BY <1>1, <2>1 DEF StrategyTypeOK
  <2> QED
    BY <2>2, TypePartsNext
<1>3. (PoolMatchesConnections /\ AtMostTwo /\ MapsAgreeOnMissing)'
  BY <1>1 DEF StrategyInv, PoolMatchesConnections, AtMostTwo, MapsAgreeOnMissing
<1>4. MadeInOrder'
  <2>1. \A d \in Downloaders : peer[d].conn # "none" <=> peer'[d].conn # "none"
    BY DEF PeersKept
  <2>2. \A a \in Addresses, n \in 1..MaxConnects : <<a, n>> \in Downloaders
    BY DEF Downloaders
  <2> QED
    BY <2>1, <2>2 DEF StrategyInv, MadeInOrder
<1>5. NotMadeYet'
  <2>1. NotMadeYet
    BY DEF StrategyInv
  <2> QED
    BY <1>1, <2>1 DEF NotMadeYet, PeersKept
<1>6. DownloadersOK'
  <2>1. DownloadersOK
    BY DEF StrategyInv
  <2> QED
    BY <1>1, <2>1 DEF DownloadersOK, DownloaderOK, AssignedTo, PeersKept
<1>7. \A y \in Tasks : TaskOK(y)'
  BY TaskKept
<1>8. UndefinedHasACause'
  BY DEF UndefinedHasACause
<1> QED
  BY <1>2, <1>3, <1>4, <1>5, <1>6, <1>7, <1>8 DEF StrategyInv

LEMMA WrongStep ==
  ASSUME StrategyInv, GoWrong,
         Outlived \/ \E x \in Tasks : Caught(x)
  PROVE  StrategyInv'
<1>1. /\ UNCHANGED <<m_missing_pieces, m_piece_downloaders, m_peer_pool, m_active_connections,
                     peer, files, task, torn, budget>>
      /\ undefined'
  BY DEF GoWrong, strategyVars
<1>2. TypeOK'
  <2>1. StrategyTypeOK /\ FilesTypeOK /\ TasksTypeOK /\ PeersTypeOK /\ BudgetTypeOK
    BY TypeParts DEF StrategyInv
  <2>2. (StrategyTypeOK /\ FilesTypeOK /\ TasksTypeOK /\ PeersTypeOK)'
    BY <1>1, <2>1 DEF StrategyTypeOK, FilesTypeOK, TasksTypeOK, PeersTypeOK
  <2>3. BudgetTypeOK'
    <3>1. undefined' = TRUE
      BY DEF GoWrong
    <3> QED
      BY <1>1, <2>1, <3>1 DEF BudgetTypeOK
  <2> QED
    BY <2>2, <2>3, TypePartsNext
<1>3. (PoolMatchesConnections /\ AtMostTwo /\ MapsAgreeOnMissing)'
  BY <1>1 DEF StrategyInv, PoolMatchesConnections, AtMostTwo, MapsAgreeOnMissing
<1>4. (MadeInOrder /\ NotMadeYet /\ DownloadersOK)'
  BY <1>1 DEF StrategyInv, MadeInOrder, NotMadeYet, DownloadersOK, DownloaderOK,
     AssignedTo
<1>5. \A y \in Tasks : TaskOK(y)'
  <2> SUFFICES ASSUME NEW y \in Tasks PROVE TaskOK(y)'
    OBVIOUS
  <2>1. TaskOK(y)
    BY DEF StrategyInv
  <2> QED
    BY <1>1, <2>1 DEF TaskOK, PollOK, MovedOK, StoringOK, AssigningOK, MergingOK, Disturbed,
       MemberRevoked, MemberAdded, Dropped, Held, AssignedTo
<1>6. (OneThread /\ Apart /\ MissingMatchesVault /\ PartialIsUnderway)'
  BY <1>1 DEF StrategyInv, OneThread, Apart, MissingMatchesVault, PartialIsUnderway, Storing
<1>7. UndefinedHasACause'
  BY <1>1 DEF UndefinedHasACause, Outlived, Caught, Disturbed, EntryErased, MemberRevoked,
     MemberAdded, Tasks
<1> QED
  BY <1>2, <1>3, <1>4, <1>5, <1>6, <1>7 DEF StrategyInv

Gets(d, p, v) == peer' = [peer EXCEPT ![d].got[p] = v]

LEMMA SetGot ==
  ASSUME PeersTypeOK, NEW d \in Downloaders, NEW p \in Pieces,
         NEW v \in {"none", "working", "Complete", "Corrupt"}, Gets(d, p, v)
  PROVE  /\ PeersTypeOK'
         /\ \A e \in Downloaders : e # d => peer'[e] = peer[e]
         /\ \A e \in Downloaders : peer'[e].conn = peer[e].conn
         /\ peer'[d].got[p] = v
         /\ \A q \in Pieces : q # p => peer'[d].got[q] = peer[d].got[q]
<1>1. peer[d] \in PeerRecords /\ DOMAIN peer = Downloaders
  BY DEF PeersTypeOK
<1>2. peer' = [peer EXCEPT ![d].got[p] = v] /\ peer'[d] = [peer[d] EXCEPT !.got[p] = v]
  BY <1>1 DEF Gets
<1>3. /\ peer'[d].conn = peer[d].conn /\ peer'[d].got[p] = v
      /\ \A q \in Pieces : q # p => peer'[d].got[q] = peer[d].got[q]
  BY <1>1, <1>2 DEF PeerRecords
<1>4. peer'[d] \in PeerRecords
  BY <1>1, <1>2 DEF PeerRecords
<1>5. \A e \in Downloaders : e # d => peer'[e] = peer[e]
  BY <1>1, <1>2
<1>6. PeersTypeOK'
  BY <1>2, <1>4 DEF PeersTypeOK
<1> QED
  BY <1>3, <1>5, <1>6

LEMMA SetConn ==
  ASSUME PeersTypeOK, NEW d \in Downloaders,
         NEW v \in {"none", "connecting", "connected", "lost", "ended", "zombie"},
         peer' = [peer EXCEPT ![d].conn = v]
  PROVE  /\ PeersTypeOK'
         /\ \A e \in Downloaders : e # d => peer'[e] = peer[e]
         /\ peer'[d].conn = v /\ peer'[d].got = peer[d].got
<1>1. peer[d] \in PeerRecords /\ DOMAIN peer = Downloaders
  BY DEF PeersTypeOK
<1>2. peer'[d] = [peer[d] EXCEPT !.conn = v]
  BY <1>1
<1>3. peer'[d].conn = v /\ peer'[d].got = peer[d].got /\ peer'[d] \in PeerRecords
  BY <1>1, <1>2 DEF PeerRecords
<1>4. \A e \in Downloaders : e # d => peer'[e] = peer[e]
  BY <1>1
<1>5. PeersTypeOK'
  BY <1>3 DEF PeersTypeOK
<1> QED
  BY <1>3, <1>4, <1>5

LEMMA SetHas ==
  ASSUME PeersTypeOK, NEW d \in Downloaders, NEW S \in SUBSET Pieces,
         peer' = [peer EXCEPT ![d].has = S]
  PROVE  /\ PeersTypeOK'
         /\ \A e \in Downloaders : e # d => peer'[e] = peer[e]
         /\ peer'[d].conn = peer[d].conn /\ peer'[d].got = peer[d].got
<1>1. peer[d] \in PeerRecords /\ DOMAIN peer = Downloaders
  BY DEF PeersTypeOK
<1>2. peer'[d] = [peer[d] EXCEPT !.has = S]
  BY <1>1
<1>3. peer'[d].conn = peer[d].conn /\ peer'[d].got = peer[d].got /\ peer'[d] \in PeerRecords
  BY <1>1, <1>2 DEF PeerRecords
<1>4. \A e \in Downloaders : e # d => peer'[e] = peer[e]
  BY <1>1
<1>5. PeersTypeOK'
  BY <1>3 DEF PeersTypeOK
<1> QED
  BY <1>3, <1>4, <1>5

LEMMA SpendBudget ==
  ASSUME BudgetTypeOK, UNCHANGED <<torn, undefined>>,
         \/ budget' = budget
         \/ budget.losses > 0 /\ budget' = [budget EXCEPT !.losses = @ - 1]
         \/ budget.corrupt > 0 /\ budget' = [budget EXCEPT !.corrupt = @ - 1]
  PROVE  BudgetTypeOK'
<1>1. budget.losses \in 0..MaxLosses /\ budget.corrupt \in 0..MaxCorrupt
      /\ MaxLosses \in Nat /\ MaxCorrupt \in Nat
  BY StrategyAssumption DEF BudgetTypeOK, StrategyAssumption
<1>2. /\ budget.losses > 0 => budget.losses - 1 \in 0..MaxLosses
      /\ budget.corrupt > 0 => budget.corrupt - 1 \in 0..MaxCorrupt
  BY <1>1
<1> QED
  BY <1>2 DEF BudgetTypeOK

(* Steps of the Peers alone. *)
LEMMA PeerStep ==
  ASSUME StrategyInv, Free, UNCHANGED <<strategyVars, files, task, undefined, torn>>,
         PeersKept, PeersTypeOK', BudgetTypeOK'
  PROVE  StrategyInv'
<1>1. ~undefined /\ task' = task /\ files' = files /\ torn' = torn
  BY DEF Free
<1>2. FilesTypeOK /\ TasksTypeOK
  BY TypeParts DEF StrategyInv
<1>3. FilesTypeOK' /\ TasksTypeOK'
  BY <1>1, <1>2 DEF FilesTypeOK, TasksTypeOK
<1>4. FilesKept
  BY <1>1 DEF FilesKept
<1>5. "R" \in Tasks
  BY DEF Tasks
<1>6. TaskOK("R")'
  BY <1>1, <1>4, <1>5, TaskKept
<1>7. m_missing_pieces' = m_missing_pieces /\ m_peer_pool' = m_peer_pool
  BY DEF strategyVars
<1>8. OneThread' /\ Apart' /\ MissingMatchesVault' /\ PartialIsUnderway'
  BY <1>1, <1>7 DEF StrategyInv, OneThread, Apart, MissingMatchesVault, PartialIsUnderway,
     Storing
<1> QED
  BY <1>1, <1>3, <1>4, <1>5, <1>6, <1>8, QuietStep

LEMMA NetworkStep ==
  ASSUME StrategyInv, Network
  PROVE  StrategyInv'
<1>1. PeersTypeOK /\ BudgetTypeOK
  BY TypeParts DEF StrategyInv
<1>2. ASSUME NEW d \in Downloaders, Lose(d) \/ PeerEnds(d) PROVE StrategyInv'
  <2>1. BudgetTypeOK' /\ Free
    BY <1>1, <1>2, SpendBudget DEF Lose, PeerEnds
  <2>2. PICK v \in {"lost", "zombie", "ended"} : peer' = [peer EXCEPT ![d].conn = v]
    BY <1>2 DEF Lose, PeerEnds
  <2>3. PeersTypeOK' /\ PeersKept
    <3>1. /\ PeersTypeOK' /\ \A e \in Downloaders : e # d => peer'[e] = peer[e]
          /\ peer'[d].conn = v /\ peer'[d].got = peer[d].got
      BY <1>1, <2>2, SetConn
    <3>2. peer[d].conn \in {"connecting", "connected", "lost"}
      BY <1>2 DEF Lose, PeerEnds
    <3> QED
      BY <3>1, <3>2 DEF PeersKept
  <2> QED
    BY <1>2, <2>1, <2>3, PeerStep DEF Lose, PeerEnds
<1>3. ASSUME NEW d \in Downloaders, NEW S \in SUBSET Pieces, Connected(d) \/ Announced(d, S)
      PROVE  StrategyInv'
  <2>1. BudgetTypeOK' /\ Free
    BY <1>1, <1>3, SpendBudget DEF Connected, Announced
  <2>3. PeersTypeOK' /\ PeersKept
    <3>1. /\ PeersTypeOK' /\ \A e \in Downloaders : e # d => peer'[e] = peer[e]
          /\ peer'[d].conn = "connected" /\ peer'[d].got = peer[d].got
      <4>1. CASE Connected(d)
        BY <1>1, <4>1, SetConn DEF Connected
      <4>2. CASE Announced(d, S)
        BY <1>1, <4>2, SetHas DEF Announced
      <4> QED
        BY <1>3, <4>1, <4>2
    <3>2. peer[d].conn \in {"connecting", "connected"}
      BY <1>3 DEF Connected, Announced
    <3> QED
      BY <3>1, <3>2 DEF PeersKept
  <2> QED
    BY <1>3, <2>1, <2>3, PeerStep DEF Connected, Announced
<1>4. ASSUME NEW d \in Downloaders, NEW p \in Pieces, PieceArrives(d, p) PROVE StrategyInv'
  <2>1. BudgetTypeOK' /\ Free
    BY <1>1, <1>4, SpendBudget DEF PieceArrives
  <2>2. PICK v \in {"Complete", "Corrupt"} : Gets(d, p, v)
    BY <1>4 DEF PieceArrives, Gets
  <2>3. PeersTypeOK' /\ PeersKept
    <3>1. /\ PeersTypeOK' /\ \A e \in Downloaders : e # d => peer'[e] = peer[e]
          /\ \A e \in Downloaders : peer'[e].conn = peer[e].conn
          /\ \A q \in Pieces : q # p => peer'[d].got[q] = peer[d].got[q]
      BY <1>1, <2>2, SetGot
    <3>2. peer[d].conn = "connected" /\ peer[d].got[p] = "working"
      BY <1>4 DEF PieceArrives
    <3> QED
      BY <3>1, <3>2 DEF PeersKept
  <2> QED
    BY <1>4, <2>1, <2>3, PeerStep DEF PieceArrives
<1>5. \A S \in Bitfields : S \in SUBSET Pieces
  BY StrategyAssumption DEF StrategyAssumption
<1>6. {} \in SUBSET Pieces
  OBVIOUS
<1> QED
  BY <1>2, <1>3, <1>4, <1>5, <1>6 DEF Network

-----------------------------------------------------------------------------
(* Steps of one coroutine that move nothing but itself *)

Becomes(x, g) == task' = [task EXCEPT ![x] = g]

LEMMA SetTask ==
  ASSUME TasksTypeOK, NEW x \in Tasks, NEW g \in Frames, Becomes(x, g)
  PROVE  TasksTypeOK' /\ task'[x] = g /\ \A y \in Tasks : y # x => task'[y] = task[y]
BY DEF TasksTypeOK, Becomes

LEMMA OthersWait ==
  ASSUME NEW x \in Tasks
  PROVE  /\ Free => HasThread(x)
         /\ HasThread(x) => ~undefined /\ \A y \in Tasks : y # x => task[y].pc \notin Running
BY DEF Free, HasThread, Tasks

LEMMA PollingTask ==
  ASSUME NEW x \in Tasks, task'[x].pc = "polling",
         task'[x].completed \cap m_missing_pieces' = {}, ~task'[x].freed, task'[x].moved = {},
         task'[x].index \in Pieces =>
           /\ task'[x].end <= Len(m_piece_downloaders'[task'[x].index])
           /\ task'[x].pos >= 1 /\ (task'[x].end > 0 => task'[x].pos <= task'[x].end)
  PROVE  TaskOK(x)'
BY DEF TaskOK, PollOK, MovedOK, StoringOK, AssigningOK, MergingOK, Stopped

LEMMA RestingTask ==
  ASSUME NEW x \in Tasks, task'[x].pc \in {"waiting", "assigning", "failed"},
         task'[x].completed \cap m_missing_pieces' = {}, ~task'[x].freed, task'[x].moved = {}
  PROVE  TaskOK(x)'
BY DEF TaskOK, PollOK, MovedOK, StoringOK, AssigningOK, MergingOK, Stopped

(* The loops of is_done() go on inside the vectors. *)
LEMMA AdvancedTask ==
  ASSUME StrategyTypeOK, NEW x \in Tasks, NEW f \in Frames, f.index \in Pieces,
         ~f.freed, f.completed \cap m_missing_pieces' = {},
         f.pos >= 1,
         f.pos < f.end => f.moved = {} /\ f.end <= Len(m_piece_downloaders[f.index]),
         m_piece_downloaders' = m_piece_downloaders, task'[x] = Advance(f)
  PROVE  TaskOK(x)'
<1> DEFINE g == Advance(f)
<1>1. /\ g \in Frames /\ g.pc = "polling"
      /\ g.completed = f.completed /\ g.freed = f.freed
      /\ \/ /\ f.pos < f.end /\ g.index = f.index /\ g.pos = f.pos + 1
            /\ g.end = f.end /\ g.moved = f.moved
         \/ /\ ~(f.pos < f.end) /\ g.index = f.index + 1 /\ g.pos = 1 /\ g.moved = {}
            /\ g.index \in Pieces => g.end = Len(m_piece_downloaders[g.index])
  BY AdvanceFields
<1>2. f.pos \in Nat /\ f.end \in Nat
  BY DEF Frames
<1>3. \A p \in Pieces : Len(m_piece_downloaders[p]) \in Nat
  BY DEF StrategyTypeOK
<1> HIDE DEF g
<1>4. g.index \in Pieces =>
        /\ g.end <= Len(m_piece_downloaders[g.index])
        /\ g.pos >= 1 /\ (g.end > 0 => g.pos <= g.end)
  BY <1>1, <1>2, <1>3
<1>5. task'[x] = g
  BY DEF g
<1>6. g.moved = {}
  BY <1>1
<1> QED
  BY <1>1, <1>4, <1>5, <1>6, PollingTask

LEMMA MoveStep ==
  ASSUME StrategyInv, NEW x \in Tasks, HasThread(x),
         UNCHANGED <<strategyVars, files, torn, undefined, budget>>,
         PeersKept, PeersTypeOK', NEW g \in Frames, Becomes(x, g),
         task[x].pc \notin {"pushing", "pushed"}, g.pc \notin {"pushing", "pushed"},
         TaskOK(x)'
  PROVE  StrategyInv'
<1>1. FilesTypeOK /\ TasksTypeOK /\ BudgetTypeOK
  BY TypeParts DEF StrategyInv
<1>2. TasksTypeOK' /\ task'[x] = g /\ \A y \in Tasks : y # x => task'[y] = task[y]
  BY <1>1, SetTask
<1>3. files' = files /\ torn' = torn /\ undefined' = undefined /\ budget' = budget
  OBVIOUS
<1>4. FilesTypeOK' /\ BudgetTypeOK' /\ FilesKept
  BY <1>1, <1>3 DEF FilesTypeOK, BudgetTypeOK, FilesKept
<1>5. ~undefined /\ \A y \in Tasks : y # x => task[y].pc \notin Running
  BY OthersWait
<1>6. OneThread' /\ Apart'
  BY <1>2, <1>5 DEF OneThread, Apart, Tasks
<1>7. m_missing_pieces' = m_missing_pieces
  BY DEF strategyVars
<1>8. MissingMatchesVault'
  BY <1>2, <1>3, <1>7 DEF StrategyInv, MissingMatchesVault, Storing, Tasks
<1>9. PartialIsUnderway'
  BY <1>2, <1>3 DEF StrategyInv, PartialIsUnderway, Tasks
<1> QED
  BY <1>2, <1>3, <1>4, <1>5, <1>6, <1>8, <1>9, QuietStep

LEMMA SamePeers ==
  ASSUME peer' = peer, PeersTypeOK
  PROVE  PeersKept /\ PeersTypeOK'
BY DEF PeersKept, PeersTypeOK

LEMMA PcIsState ==
  {"assigning", "polling", "pushed", "waiting", "downloading", "pushing", "repeating",
   "merging", "finished", "failed"} = States
BY DEF States, Running, Suspended, Ended

(* assign() finds no candidate, or takes one that is in the pool, has a    *)
(* free slot and is not a downloader of the piece.                         *)
LEMMA AssignTurnStep ==
  ASSUME StrategyInv, AssignTurn
  PROVE  StrategyInv'
<1> DEFINE f == task["R"]
           p == Head(f.todo)
<1>1. StrategyTypeOK /\ TasksTypeOK /\ PeersTypeOK /\ "R" \in Tasks
  BY TypeParts DEF StrategyInv, Tasks
<1>2. f \in Frames /\ f.pc = "assigning" /\ f.todo # <<>> /\ HasThread("R")
  BY <1>1 DEF AssignTurn, TasksTypeOK
<1>3. f.todo \in Seq(Pieces)
  BY <1>2 DEF Frames
<1>4. p \in Pieces /\ Tail(f.todo) \in Seq(Pieces)
  BY <1>2, <1>3
<1>5. PollOK("R")
  BY <1>1 DEF StrategyInv, TaskOK
<1>6. f.completed \cap m_missing_pieces = {} /\ ~f.freed /\ f.moved = {}
  BY <1>2, <1>5 DEF PollOK, Stopped
<1>7. UNCHANGED <<m_missing_pieces, m_piece_downloaders, m_peer_pool>>
  BY DEF AssignTurn, strategyVars
<1>8. CASE UNCHANGED peer /\ task' = [task EXCEPT !["R"].todo = Tail(@)]
  <2> DEFINE g == [f EXCEPT !.todo = Tail(f.todo)]
  <2>1. Becomes("R", g)
    BY <1>8 DEF Becomes
  <2>2. g \in Frames /\ g.pc = "assigning" /\ g.completed = f.completed /\ g.freed = f.freed /\ g.moved = f.moved
    BY <1>2, <1>4 DEF Frames
  <2> HIDE DEF g
  <2>3. task'["R"] = g
    BY <1>1, <2>1, <2>2, SetTask
  <2>4. TaskOK("R")'
    BY <1>1, <1>6, <1>7, <2>2, <2>3, RestingTask
  <2> QED
    BY <1>1, <1>2, <1>8, <2>1, <2>2, <2>4, SamePeers, MoveStep DEF AssignTurn
<1>9. ASSUME NEW d \in Candidates(p), download_piece(d, p),
             task' = [task EXCEPT !["R"].pc = "downloading", !["R"].downloader = d]
      PROVE  StrategyInv'
  <2>1. /\ d \in DOMAIN m_peer_pool /\ ~InSeq(m_piece_downloaders[p], d)
        /\ Len(m_peer_pool[d]) < 2 /\ Len(m_piece_downloaders[p]) < 2
    BY DEF Candidates, MayHave
  <2>2. d \in Downloaders
    BY <1>1, <2>1 DEF StrategyTypeOK
  <2>3. PeersTypeOK' /\ PeersKept
    <3>1. Gets(d, p, "working")
      BY <1>9 DEF download_piece, Gets
    <3>2. /\ PeersTypeOK' /\ \A e \in Downloaders : e # d => peer'[e] = peer[e]
          /\ \A e \in Downloaders : peer'[e].conn = peer[e].conn
          /\ \A q \in Pieces : q # p => peer'[d].got[q] = peer[d].got[q]
      BY <1>1, <1>4, <2>2, <3>1, SetGot
    <3>3. peer[d].conn # "none"
      BY <2>1, <2>2 DEF StrategyInv, NotMadeYet
    <3> HIDE DEF p
    <3> QED
      BY <2>1, <3>2, <3>3 DEF PeersKept
  <2> DEFINE g == [f EXCEPT !.pc = "downloading", !.downloader = d]
  <2>4. Becomes("R", g)
    BY <1>9 DEF Becomes
  <2>5. /\ g \in Frames /\ g.pc = "downloading" /\ g.downloader = d /\ g.todo = f.todo
        /\ g.completed = f.completed /\ g.freed = f.freed /\ g.moved = f.moved
    <3>1. "downloading" \in States /\ d \in Downloaders \cup {<<>>}
      BY <2>2, PcIsState
    <3> HIDE DEF f
    <3> QED
      BY <1>2, <3>1 DEF Frames
  <2> HIDE DEF g
  <2>6. task'["R"] = g
    BY <1>1, <2>4, <2>5, SetTask
  <2>7. TaskOK("R")'
    <3>1. AssigningOK("R")'
      BY <1>2, <1>7, <2>1, <2>5, <2>6 DEF AssigningOK
    <3>2. PollOK("R")' /\ MovedOK("R")' /\ StoringOK("R")' /\ MergingOK("R")'
      BY <1>6, <1>7, <2>5, <2>6 DEF PollOK, MovedOK, StoringOK, MergingOK, Stopped
    <3> QED
      BY <3>1, <3>2 DEF TaskOK
  <2> QED
    BY <1>1, <1>2, <2>3, <2>4, <2>5, <2>7, MoveStep DEF AssignTurn
<1> QED
  BY <1>8, <1>9 DEF AssignTurn

LEMMA AssignReturnsStep ==
  ASSUME StrategyInv, AssignReturns
  PROVE  StrategyInv'
<1> DEFINE f == task["R"]
           g == IF f.first THEN Frame("waiting", FALSE)
                ELSE StartPolling(f, m_piece_downloaders)
<1>1. StrategyTypeOK /\ TasksTypeOK /\ PeersTypeOK /\ "R" \in Tasks
  BY TypeParts DEF StrategyInv, Tasks
<1>2. f \in Frames /\ f.pc = "assigning" /\ HasThread("R")
  BY <1>1 DEF AssignReturns, TasksTypeOK
<1>3. Becomes("R", g)
  BY DEF AssignReturns, Becomes
<1>4. UNCHANGED <<m_missing_pieces, m_piece_downloaders>>
  BY DEF AssignReturns, strategyVars
<1>5. /\ g \in Frames /\ g.completed = {} /\ ~g.freed /\ g.moved = {}
      /\ \/ g.pc = "waiting"
         \/ g.pc = "polling" /\ g.index = 0 /\ g.pos = 1 /\ g.end = Len(m_piece_downloaders[0])
  <2>1. CASE f.first
    BY <2>1, PcIsState, FrameFields
  <2>2. CASE ~f.first
    BY <1>1, <1>2, <2>2, StartPollingFields
  <2> QED
    BY <2>1, <2>2
<1> HIDE DEF g
<1>6. task'["R"] = g
  BY <1>1, <1>3, <1>5, SetTask
<1>7. TaskOK("R")'
  <2>1. CASE g.pc = "waiting"
    BY <1>1, <1>5, <1>6, <2>1, RestingTask
  <2>2. CASE g.pc = "polling"
    <3>1. Len(m_piece_downloaders[0]) \in Nat
      BY <1>1, PieceRange DEF StrategyTypeOK
    <3> QED
      BY <1>1, <1>4, <1>5, <1>6, <2>2, <3>1, PollingTask
  <2> QED
    BY <1>5, <2>1, <2>2
<1> QED
  BY <1>1, <1>2, <1>3, <1>5, <1>7, SamePeers, MoveStep DEF AssignReturns

LEMMA DownloadThrowsStep ==
  ASSUME StrategyInv, NEW x \in Tasks, DownloadThrows(x)
  PROVE  StrategyInv'
<1>1. PeersTypeOK /\ TasksTypeOK
  BY TypeParts DEF StrategyInv
<1>2. PICK g : g = Frame("failed", FALSE)
  OBVIOUS
<1>3. g \in Frames /\ g.pc = "failed" /\ g.completed = {} /\ ~g.freed /\ g.moved = {}
  BY <1>2, PcIsState, FrameFields
<1>4. Becomes(x, g)
  BY <1>2 DEF DownloadThrows, Becomes
<1>5. task'[x] = g
  BY <1>1, <1>3, <1>4, SetTask
<1>6. TaskOK(x)'
  BY <1>3, <1>5, RestingTask
<1> QED
  BY <1>1, <1>3, <1>4, <1>6, OthersWait, SamePeers, MoveStep DEF DownloadThrows

(* The vector that is_done() is at has an element at its position. *)
LEMMA PolledDownloader ==
  ASSUME StrategyInv, NEW x \in Tasks, task[x].pc = "polling", task[x].index < PieceCount
  PROVE  /\ task[x] \in Frames /\ task[x].index \in Pieces /\ ~task[x].freed
         /\ task[x].moved = {}
         /\ task[x].completed \cap m_missing_pieces = {}
         /\ task[x].pos >= 1 /\ task[x].end <= Len(m_piece_downloaders[task[x].index])
         /\ task[x].end <= 2
         /\ task[x].end > 0 =>
              LET d == m_piece_downloaders[task[x].index][task[x].pos] IN
              /\ task[x].pos <= task[x].end
              /\ d \in Downloaders /\ InSeq(m_piece_downloaders[task[x].index], d)
              /\ peer[d].conn # "none"
<1> DEFINE f == task[x]
           s == m_piece_downloaders[f.index]
<1>1. StrategyTypeOK /\ TasksTypeOK
  BY TypeParts DEF StrategyInv
<1>2. f \in Frames
  BY <1>1 DEF TasksTypeOK
<1>3. f.index \in 0..PieceCount /\ f.pos \in Nat /\ f.end \in Nat
  BY <1>2 DEF Frames
<1>4. f.index \in Pieces
  BY <1>3, PieceRange
<1>5. s \in Seq(Downloaders) /\ Len(s) \in Nat
  BY <1>1, <1>4 DEF StrategyTypeOK
<1>6. PollOK(x)
  BY DEF StrategyInv, TaskOK
<1>7. /\ f.completed \cap m_missing_pieces = {} /\ ~f.freed /\ f.moved = {}
      /\ f.end <= Len(s) /\ f.pos >= 1 /\ (f.end > 0 => f.pos <= f.end)
  BY <1>4, <1>6 DEF PollOK, Stopped
<1>8. Len(s) <= 2
  BY <1>4 DEF StrategyInv, AtMostTwo
<1>9. ASSUME f.end > 0
      PROVE  /\ s[f.pos] \in Downloaders /\ InSeq(s, s[f.pos])
             /\ peer[s[f.pos]].conn # "none"
  <2>1. f.pos \in DOMAIN s
    BY <1>3, <1>5, <1>7, <1>9
  <2>2. s[f.pos] \in Downloaders /\ InSeq(s, s[f.pos])
    BY <1>5, <2>1 DEF InSeq
  <2>3. DownloaderOK(f.index, s[f.pos])
    BY <1>4, <2>2 DEF StrategyInv, DownloadersOK
  <2> QED
    BY <2>2, <2>3 DEF DownloaderOK
<1>10. f.end <= 2
  BY <1>3, <1>5, <1>7, <1>8
<1> QED
  BY <1>2, <1>4, <1>7, <1>9, <1>10

LEMMA PollNothingStep ==
  ASSUME StrategyInv, NEW x \in Tasks, PollNothing(x)
  PROVE  StrategyInv'
<1> DEFINE f == task[x]
<1>1. StrategyTypeOK /\ TasksTypeOK /\ PeersTypeOK
  BY TypeParts DEF StrategyInv
<1>2. /\ f.pc = "polling" /\ f.index < PieceCount /\ HasThread(x)
      /\ UNCHANGED <<strategyVars, peer, files, torn, undefined, budget>>
      /\ Becomes(x, Advance(f))
  BY DEF PollNothing, Becomes
<1>3. /\ f \in Frames /\ f.index \in Pieces /\ ~f.freed /\ f.moved = {} /\ f.pos >= 1
      /\ f.completed \cap m_missing_pieces = {}
      /\ f.end <= Len(m_piece_downloaders[f.index])
  BY <1>2, PolledDownloader
<1>4. Advance(f) \in Frames /\ Advance(f).pc = "polling"
  BY <1>1, <1>3, AdvanceFields
<1>5. task'[x] = Advance(f)
  BY <1>1, <1>2, <1>4, SetTask
<1>6. TaskOK(x)'
  <2>1. m_missing_pieces' = m_missing_pieces /\ m_piece_downloaders' = m_piece_downloaders
    BY <1>2 DEF strategyVars
  <2> QED
    BY <1>1, <1>3, <1>5, <2>1, AdvancedTask
<1> QED
  BY <1>1, <1>2, <1>4, <1>6, SamePeers, MoveStep

(* A Corrupt piece was not taken from its downloader, so it may be asked   *)
(* for again.                                                              *)
LEMMA PollCorruptStep ==
  ASSUME StrategyInv, NEW x \in Tasks, PollCorrupt(x)
  PROVE  StrategyInv'
<1> DEFINE f == task[x]
           p == f.index
           d == m_piece_downloaders[p][f.pos]
           g == [f EXCEPT !.pc = "repeating", !.downloader = d]
<1>1. StrategyTypeOK /\ TasksTypeOK /\ PeersTypeOK
  BY TypeParts DEF StrategyInv
<1>2. /\ f.pc = "polling" /\ f.index < PieceCount /\ f.end > 0 /\ HasThread(x)
      /\ UNCHANGED <<strategyVars, files, torn, undefined, budget>>
      /\ peer[d].got[p] = "Corrupt" /\ download_piece(d, p) /\ Becomes(x, g)
  BY DEF PollCorrupt, Becomes
<1>3. /\ f \in Frames /\ p \in Pieces /\ ~f.freed /\ f.moved = {} /\ f.pos >= 1 /\ f.pos <= f.end /\ f.end <= 2
      /\ f.completed \cap m_missing_pieces = {}
      /\ f.end <= Len(m_piece_downloaders[p])
      /\ d \in Downloaders /\ peer[d].conn # "none"
  BY <1>2, PolledDownloader
<1>4. PeersTypeOK' /\ PeersKept
  <2>1. Gets(d, p, "working")
    BY <1>2 DEF download_piece, Gets
  <2>2. /\ PeersTypeOK' /\ \A e \in Downloaders : e # d => peer'[e] = peer[e]
        /\ \A e \in Downloaders : peer'[e].conn = peer[e].conn
        /\ \A q \in Pieces : q # p => peer'[d].got[q] = peer[d].got[q]
    BY <1>1, <1>3, <2>1, SetGot
  <2> HIDE DEF p, d
  <2> QED
    BY <1>2, <1>3, <2>2 DEF PeersKept
<1>5. /\ g \in Frames /\ g.pc = "repeating" /\ g.downloader = d /\ g.index = p
      /\ g.pos = f.pos /\ g.end = f.end /\ g.completed = f.completed /\ g.freed = f.freed /\ g.moved = f.moved
  <2>1. "repeating" \in States
    BY PcIsState
  <2> HIDE DEF f, d
  <2> QED
    BY <1>3, <2>1 DEF Frames
<1> HIDE DEF g
<1>6. task'[x] = g
  BY <1>1, <1>2, <1>5, SetTask
<1>7. TaskOK(x)'
  <2>1. m_missing_pieces' = m_missing_pieces /\ m_piece_downloaders' = m_piece_downloaders
    BY <1>2 DEF strategyVars
  <2>2. peer'[d].conn # "none"
    BY <1>3, <1>4 DEF PeersKept
  <2> HIDE DEF d, p, f
  <2>3. PollOK(x)'
    BY <1>3, <1>5, <1>6, <2>1, <2>2 DEF PollOK, Stopped
  <2> QED
    BY <1>3, <1>5, <1>6, <2>3 DEF TaskOK, MovedOK, StoringOK, AssigningOK, MergingOK
<1> QED
  BY <1>2, <1>4, <1>5, <1>7, MoveStep

(* is_done() comes back from asking again, to its vector or to a cause of  *)
(* undefined behaviour.                                                    *)
LEMMA MovedHasACause ==
  ASSUME StrategyInv, NEW x \in Tasks, task[x].pc \in {"pushed", "repeating"}, Moved(task[x])
  PROVE  Caught(x)
<1>1. PollOK(x) /\ MovedOK(x)
  BY DEF StrategyInv, TaskOK
<1>2. task[x].index \in Pieces
  BY <1>1 DEF PollOK, Stopped
<1>3. CASE task[x].freed
  BY <1>1, <1>2, <1>3 DEF PollOK, Caught, EntryErased
<1>4. CASE ~task[x].freed
  BY <1>1, <1>2, <1>4 DEF Moved, MovedOK, Caught
<1> QED
  BY <1>3, <1>4

LEMMA NotAstray ==
  ASSUME StrategyInv, NEW x \in Tasks, task[x].pc \in Stopped, ~Astray(task[x])
  PROVE  /\ ~task[x].freed
         /\ task[x].pos < task[x].end =>
              /\ task[x].moved = {}
              /\ task[x].end <= Len(m_piece_downloaders[task[x].index])
<1>1. PollOK(x)
  BY DEF StrategyInv, TaskOK
<1> QED
  BY <1>1 DEF Astray, Moved, PollOK

LEMMA RepeatedStep ==
  ASSUME StrategyInv, NEW x \in Tasks, Repeated(x)
  PROVE  StrategyInv'
<1> DEFINE f == task[x]
           h == [f EXCEPT !.downloader = <<>>]
<1>1. StrategyTypeOK /\ TasksTypeOK /\ PeersTypeOK
  BY TypeParts DEF StrategyInv
<1>2. f \in Frames /\ f.pc = "repeating" /\ HasThread(x)
  BY <1>1, OthersWait DEF Repeated, TasksTypeOK
<1>3. CASE Moved(f) /\ GoWrong
  <2>1. Caught(x)
    BY <1>2, <1>3, MovedHasACause
  <2> QED
    BY <1>3, <2>1, WrongStep
<1>4. CASE ~Astray(f) /\ Becomes(x, Advance(h))
           /\ UNCHANGED <<strategyVars, peer, files, torn, undefined, budget>>
  <2>1. /\ h \in Frames /\ h.index = f.index /\ h.pos = f.pos /\ h.end = f.end
        /\ h.completed = f.completed /\ h.freed = f.freed /\ h.moved = f.moved
    <3> HIDE DEF f
    <3> QED
      BY <1>2 DEF Frames
  <2>2. PollOK(x)
    BY DEF StrategyInv, TaskOK
  <2>3. f.index \in Pieces /\ f.completed \cap m_missing_pieces = {} /\ f.pos >= 1
    BY <1>2, <2>2 DEF PollOK, Stopped
  <2>4. /\ ~f.freed
        /\ f.pos < f.end => f.moved = {} /\ f.end <= Len(m_piece_downloaders[f.index])
    BY <1>2, <1>4, NotAstray DEF Stopped
  <2> HIDE DEF h
  <2>5. Advance(h) \in Frames /\ Advance(h).pc = "polling"
    BY <1>1, <2>1, <2>3, AdvanceFields
  <2>6. task'[x] = Advance(h)
    BY <1>1, <1>4, <2>5, SetTask
  <2>7. TaskOK(x)'
    <3>1. m_missing_pieces' = m_missing_pieces /\ m_piece_downloaders' = m_piece_downloaders
      BY <1>4 DEF strategyVars
    <3> QED
      BY <1>1, <2>1, <2>3, <2>4, <2>6, <3>1, AdvancedTask
  <2> QED
    BY <1>1, <1>2, <1>4, <2>5, <2>7, SamePeers, MoveStep
<1> QED
  BY <1>3, <1>4 DEF Repeated, Becomes

(* A Complete piece is still assigned to the downloader it is taken from,  *)
(* and the other is_done() does not hold it.                               *)
LEMMA PollCompleteStep ==
  ASSUME StrategyInv, NEW x \in Tasks, PollComplete(x)
  PROVE  StrategyInv'
<1>0. PICK f, p, d : f = task[x] /\ p = f.index /\ d = m_piece_downloaders[p][f.pos]
  OBVIOUS
<1>1. StrategyTypeOK /\ TasksTypeOK /\ PeersTypeOK /\ FilesTypeOK /\ BudgetTypeOK
  BY TypeParts DEF StrategyInv
<1>2. /\ f.pc = "polling" /\ f.index < PieceCount /\ f.end > 0 /\ HasThread(x)
      /\ UNCHANGED <<strategyVars, torn, undefined, budget>>
      /\ peer[d].got[p] = "Complete" /\ Gets(d, p, "none")
  BY <1>0 DEF PollComplete, Gets
<1>3. PICK pc \in {"pushing", "pushed"} :
        /\ task' = [task EXCEPT ![x].pc = pc, ![x].downloader = d]
        /\ \/ pc = "pushing" /\ files[p] = "absent" /\ files' = [files EXCEPT ![p] = "partial"]
           \/ pc = "pushed" /\ files[p] # "absent" /\ files' = files
  BY <1>0 DEF PollComplete
<1>4. /\ f \in Frames /\ p \in Pieces /\ ~f.freed /\ f.moved = {} /\ f.pos >= 1 /\ f.pos <= f.end /\ f.end <= 2
      /\ f.completed \cap m_missing_pieces = {}
      /\ f.end <= Len(m_piece_downloaders[p])
      /\ d \in Downloaders /\ peer[d].conn # "none" /\ InSeq(m_piece_downloaders[p], d)
  BY <1>0, <1>2, PolledDownloader
<1> DEFINE g == [f EXCEPT !.pc = pc, !.downloader = d]
<1>5. Becomes(x, g)
  BY <1>0, <1>3 DEF Becomes
<1>6. /\ g \in Frames /\ g.pc = pc /\ g.downloader = d /\ g.index = p
      /\ g.pos = f.pos /\ g.end = f.end /\ g.completed = f.completed /\ g.freed = f.freed /\ g.moved = f.moved
  <2>1. pc \in States
    BY PcIsState
  <2> QED
    BY <1>0, <1>4, <2>1 DEF Frames
<1> HIDE DEF g
<1>7. TasksTypeOK' /\ task'[x] = g /\ \A y \in Tasks : y # x => task'[y] = task[y]
  BY <1>1, <1>5, <1>6, SetTask
<1>8. UNCHANGED <<m_missing_pieces, m_piece_downloaders, m_peer_pool>>
  BY <1>2 DEF strategyVars
<1>9. /\ PeersTypeOK' /\ \A e \in Downloaders : e # d => peer'[e] = peer[e]
      /\ \A e \in Downloaders : peer'[e].conn = peer[e].conn
      /\ peer'[d].got[p] = "none"
      /\ \A q \in Pieces : q # p => peer'[d].got[q] = peer[d].got[q]
  BY <1>1, <1>2, <1>4, SetGot
<1>10. PeersKept
  BY <1>2, <1>4, <1>9 DEF PeersKept
<1>11. files'[p] # "absent" /\ \A q \in Pieces : q # p => files'[q] = files[q]
  BY <1>1, <1>3, <1>4 DEF FilesTypeOK
<1>12. FilesTypeOK' /\ FilesKept
  BY <1>1, <1>3, <1>4 DEF FilesTypeOK, FilesKept
<1>13. AssignedTo(d, p)
  <2>1. DownloaderOK(p, d)
    BY <1>4 DEF StrategyInv, DownloadersOK
  <2> QED
    BY <1>2, <1>4, <2>1 DEF DownloaderOK
<1>14. TaskOK(x)'
  <2>1. PollOK(x)'
    BY <1>4, <1>6, <1>7, <1>8, <1>9 DEF PollOK, Stopped
  <2>2. Held(d, p)'
    BY <1>4, <1>8, <1>9, <1>13 DEF Held, AssignedTo
  <2>3. StoringOK(x)'
    BY <1>6, <1>7, <1>8, <1>11, <2>2 DEF StoringOK, exists
  <2> QED
    BY <1>4, <1>6, <1>7, <2>1, <2>3 DEF TaskOK, MovedOK, AssigningOK, MergingOK
<1>15. ~undefined /\ \A y \in Tasks : y # x => task[y].pc \notin Running
  BY <1>2, OthersWait
<1>16. OneThread'
  BY <1>7, <1>15 DEF OneThread, Tasks
<1>17. Apart'
  <2>1. ASSUME NEW y \in Tasks, task[y].pc \in {"pushing", "pushed"},
               task[y].index = p, task[y].downloader = d
        PROVE  task[y].freed \/ d \notin DOMAIN m_peer_pool
    BY <1>2, <2>1 DEF StrategyInv, TaskOK, StoringOK, Dropped, Held
  <2> QED
    BY <1>6, <1>7, <1>8, <2>1 DEF Apart, Tasks
<1>18. MissingMatchesVault'
  <2>1. Storing(x, p)'
    BY <1>6, <1>7 DEF Storing
  <2>2. \A y \in Tasks, q \in Pieces : Storing(y, q) => Storing(y, q)'
    BY <1>0, <1>2, <1>7 DEF Storing
  <2>3. \A q \in Pieces :
          q \in m_missing_pieces /\ files[q] # "absent" =>
            q \in torn \/ \E y \in Tasks : Storing(y, q)
    BY DEF StrategyInv, MissingMatchesVault, Tasks
  <2>4. \A q \in Pieces :
          q \in m_missing_pieces' /\ files'[q] # "absent" =>
            q \in torn' \/ \E y \in Tasks : Storing(y, q)'
    BY <1>2, <1>8, <1>11, <2>1, <2>2, <2>3
  <2>5. \A q \in Pieces : q \notin m_missing_pieces' => files'[q] # "absent"
    BY <1>8, <1>11 DEF StrategyInv, MissingMatchesVault
  <2> QED
    BY <2>4, <2>5 DEF MissingMatchesVault, Tasks
<1>19. PartialIsUnderway'
  <2>1. PartialIsUnderway /\ torn' = torn
    BY <1>2 DEF StrategyInv
  <2>2. files'[p] = "partial" => pc = "pushing" \/ files[p] = "partial"
    BY <1>3
  <2> QED
    BY <1>0, <1>2, <1>6, <1>7, <1>11, <2>1, <2>2 DEF PartialIsUnderway
<1>20. BudgetTypeOK' /\ undefined' = undefined
  BY <1>1, <1>2 DEF BudgetTypeOK
<1> QED
  BY <1>2, <1>7, <1>9, <1>10, <1>12, <1>14, <1>15, <1>16, <1>17, <1>18, <1>19, <1>20,
     QuietStep

LEMMA WriteStep ==
  ASSUME StrategyInv, NEW x \in Tasks, WriteDone(x) \/ WriteThrows(x)
  PROVE  StrategyInv'
<1> DEFINE f == task[x]
           p == f.index
<1>1. StrategyTypeOK /\ TasksTypeOK /\ PeersTypeOK /\ FilesTypeOK /\ BudgetTypeOK
  BY TypeParts DEF StrategyInv
<1>2. /\ f \in Frames /\ f.pc = "pushing" /\ Free /\ ~undefined /\ HasThread(x)
      /\ UNCHANGED <<strategyVars, peer, undefined>>
  BY <1>1, OthersWait DEF WriteDone, WriteThrows, TasksTypeOK, Free
<1>3. TaskOK(x)
  BY DEF StrategyInv
<1>4. p \in Pieces
  BY <1>2, <1>3 DEF TaskOK, PollOK, Stopped
<1>5. PeersTypeOK' /\ PeersKept
  BY <1>1, <1>2, SamePeers
<1>6. UNCHANGED <<m_missing_pieces, m_piece_downloaders, m_peer_pool>>
  BY <1>2 DEF strategyVars
<1>7. \A y \in Tasks : y # x => task[y].pc \notin Running
  BY <1>2, OthersWait
<1>8. CASE WriteDone(x)
  <2> DEFINE g == [f EXCEPT !.pc = "pushed"]
  <2>1. /\ files' = [files EXCEPT ![p] = "whole"] /\ Becomes(x, g)
        /\ UNCHANGED <<torn, undefined, budget>>
    BY <1>8 DEF WriteDone, Becomes
  <2>2. /\ g \in Frames /\ g.pc = "pushed" /\ g.downloader = f.downloader /\ g.index = p
        /\ g.pos = f.pos /\ g.end = f.end /\ g.completed = f.completed /\ g.freed = f.freed /\ g.moved = f.moved
    <3>1. "pushed" \in States
      BY PcIsState
    <3> HIDE DEF f
    <3> QED
      BY <1>2, <3>1 DEF Frames
  <2> HIDE DEF f, p, g
  <2>3. TasksTypeOK' /\ task'[x] = g /\ \A y \in Tasks : y # x => task'[y] = task[y]
    BY <1>1, <2>1, <2>2, SetTask
  <2>4. FilesTypeOK' /\ FilesKept /\ files'[p] = "whole"
        /\ \A q \in Pieces : q # p => files'[q] = files[q]
    BY <1>1, <1>4, <2>1 DEF FilesTypeOK, FilesKept
  <2>5. BudgetTypeOK' /\ undefined' = undefined
    BY <1>1, <2>1 DEF BudgetTypeOK
  <2>6. TaskOK(x)'
    <3>1. PollOK(x) /\ MovedOK(x) /\ StoringOK(x)
      BY <1>3 DEF TaskOK
    <3>2. peer' = peer
      BY <1>2
    <3>3. PollOK(x)'
      BY <1>2, <1>6, <2>2, <2>3, <3>1, <3>2 DEF PollOK, Stopped, f, p
    <3>4. StoringOK(x)'
      BY <1>2, <1>6, <2>2, <2>3, <2>4, <3>1, <3>2 DEF StoringOK, exists, Dropped, Held,
         AssignedTo, f, p
    <3>5. MovedOK(x)'
      BY <1>6, <2>2, <2>3, <3>1, <3>2
         DEF MovedOK, Disturbed, MemberRevoked, MemberAdded, f, p
    <3> QED
      BY <2>2, <2>3, <3>3, <3>4, <3>5 DEF TaskOK, AssigningOK, MergingOK
  <2>7. OneThread'
    BY <1>7, <2>3 DEF OneThread, Tasks
  <2>8. Apart'
    <3>1. Apart
      BY DEF StrategyInv
    <3> QED
      BY <1>2, <1>6, <2>2, <2>3, <3>1 DEF Apart, Tasks, f, p
  <2>9. MissingMatchesVault'
    <3>1. \A y \in Tasks, q \in Pieces : Storing(y, q) => Storing(y, q)'
      BY <1>2, <2>2, <2>3 DEF Storing, f, p
    <3>2. Storing(x, p)
      BY <1>2 DEF Storing, f, p
    <3>3. MissingMatchesVault /\ torn' = torn
      BY <2>1 DEF StrategyInv
    <3> QED
      BY <1>6, <2>4, <3>1, <3>2, <3>3 DEF MissingMatchesVault, Tasks
  <2>10. PartialIsUnderway'
    <3>1. PartialIsUnderway /\ torn' = torn
      BY <2>1 DEF StrategyInv
    <3> QED
      BY <2>3, <2>4, <3>1 DEF PartialIsUnderway, f, p
  <2> QED
    BY <1>2, <1>5, <2>3, <2>4, <2>5, <2>6, <2>7, <2>8, <2>9, <2>10, QuietStep
<1>9. CASE WriteThrows(x)
  <2>1. PICK g : g = Frame("failed", FALSE)
    OBVIOUS
  <2>2. g \in Frames /\ g.pc = "failed" /\ g.completed = {} /\ ~g.freed /\ g.moved = {}
    BY <2>1, PcIsState, FrameFields
  <2>3. Becomes(x, g) /\ torn' = torn \cup {p} /\ UNCHANGED <<files, undefined>>
    BY <1>9, <2>1 DEF WriteThrows, Becomes
  <2>4. TasksTypeOK' /\ task'[x] = g /\ \A y \in Tasks : y # x => task'[y] = task[y]
    BY <1>1, <2>2, <2>3, SetTask
  <2>5. FilesTypeOK' /\ FilesKept
    BY <1>1, <2>3 DEF FilesTypeOK, FilesKept
  <2>6. BudgetTypeOK'
    <3>1. budget.faults \in 0..MaxFaults /\ budget.faults > 0 /\ MaxFaults \in Nat
      BY <1>1, <1>9, StrategyAssumption DEF WriteThrows, BudgetTypeOK, StrategyAssumption
    <3>2. budget.faults - 1 \in 0..MaxFaults
      BY <3>1
    <3>3. budget' = [budget EXCEPT !.faults = budget.faults - 1]
      BY <1>9 DEF WriteThrows
    <3> QED
      BY <1>1, <1>4, <2>3, <3>2, <3>3 DEF BudgetTypeOK
  <2>7. TaskOK(x)'
    BY <2>2, <2>4, RestingTask
  <2>8. OneThread' /\ Apart'
    BY <1>7, <2>2, <2>4 DEF OneThread, Apart, Tasks
  <2>9. MissingMatchesVault'
    <3>1. \A y \in Tasks, q \in Pieces : Storing(y, q) /\ q # p => Storing(y, q)'
      BY <2>4 DEF Storing
    <3>2. MissingMatchesVault
      BY DEF StrategyInv
    <3> HIDE DEF f, p
    <3> QED
      BY <1>6, <2>3, <3>1, <3>2 DEF MissingMatchesVault, Tasks
  <2>10. PartialIsUnderway'
    <3>1. PartialIsUnderway
      BY DEF StrategyInv
    <3> QED
      BY <2>3, <2>4, <3>1 DEF PartialIsUnderway
  <2> QED
    BY <1>2, <1>5, <2>3, <2>4, <2>5, <2>6, <2>7, <2>8, <2>9, <2>10, QuietStep
<1> QED
  BY <1>8, <1>9

(* The merge goes on over whole files. *)
LEMMA MergeStep ==
  ASSUME StrategyInv, MergePiece
  PROVE  StrategyInv'
<1>0. PICK f : f = task["R"]
  OBVIOUS
<1>1. StrategyTypeOK /\ TasksTypeOK /\ PeersTypeOK /\ "R" \in Tasks
  BY TypeParts DEF StrategyInv, Tasks
<1>2. /\ f \in Frames /\ f.pc = "merging" /\ HasThread("R")
      /\ UNCHANGED <<strategyVars, peer, files, torn, undefined, budget>>
  BY <1>0, <1>1, OthersWait DEF MergePiece, TasksTypeOK
<1>3. TaskOK("R")
  BY <1>1 DEF StrategyInv
<1>4. /\ f.completed \cap m_missing_pieces = {} /\ ~f.freed /\ f.moved = {} /\ m_missing_pieces = {}
      /\ \A p \in Pieces : p < f.index => files[p] = "whole"
  BY <1>0, <1>2, <1>3 DEF TaskOK, PollOK, MergingOK, Stopped
<1>5. UNCHANGED <<m_missing_pieces, m_piece_downloaders, m_peer_pool, files, peer>>
  BY <1>2 DEF strategyVars
<1>6. f.index \in 0..PieceCount
  BY <1>2 DEF Frames
<1>7. ASSUME NEW g \in Frames, Becomes("R", g), g.completed = f.completed, g.freed = f.freed,
             g.moved = f.moved,
             \/ /\ g.pc = "merging" /\ g.index = f.index + 1
                /\ f.index \in Pieces /\ files[f.index] = "whole"
             \/ g.pc \in {"failed", "finished"}
      PROVE  StrategyInv'
  <2>1. task'["R"] = g
    BY <1>1, <1>7, SetTask
  <2>2. PollOK("R")' /\ MovedOK("R")' /\ StoringOK("R")' /\ AssigningOK("R")'
    BY <1>4, <1>5, <1>7, <2>1 DEF PollOK, MovedOK, StoringOK, AssigningOK, Stopped
  <2>3. \A p \in Pieces : p < f.index + 1 => p < f.index \/ p = f.index
    BY <1>6 DEF Pieces
  <2>4. MergingOK("R")'
    BY <1>4, <1>5, <1>7, <2>1, <2>3 DEF MergingOK
  <2>5. TaskOK("R")'
    BY <2>2, <2>4 DEF TaskOK
  <2> QED
    BY <1>0, <1>1, <1>2, <1>7, <2>5, SamePeers, MoveStep
<1>8. CASE /\ f.index < PieceCount /\ files[f.index] = "whole"
           /\ task' = [task EXCEPT !["R"].index = @ + 1]
  <2> DEFINE g == [f EXCEPT !.index = f.index + 1]
  <2>1. f.index \in Pieces /\ f.index + 1 \in 0..PieceCount
    BY <1>6, <1>8, PieceRange
  <2>2. g \in Frames /\ g.index = f.index + 1
        /\ g.pc = "merging" /\ g.completed = f.completed /\ g.freed = f.freed /\ g.moved = f.moved
    <3>1. PICK i \in 0..PieceCount : i = f.index + 1
      BY <2>1
    <3>2. g = [f EXCEPT !.index = i]
      BY <3>1
    <3> QED
      BY <1>2, <3>1, <3>2 DEF Frames
  <2>3. Becomes("R", g)
    BY <1>0, <1>8 DEF Becomes
  <2> HIDE DEF g
  <2> QED
    BY <1>7, <1>8, <2>1, <2>2, <2>3
<1>9. ASSUME NEW pc \in {"failed", "finished"}, task' = [task EXCEPT !["R"].pc = pc]
      PROVE  StrategyInv'
  <2> DEFINE g == [f EXCEPT !.pc = pc]
  <2>1. pc \in States
    BY PcIsState
  <2>2. g \in Frames /\ g.pc = pc /\ g.completed = f.completed /\ g.freed = f.freed /\ g.moved = f.moved
    BY <1>2, <2>1 DEF Frames
  <2>3. Becomes("R", g)
    BY <1>0, <1>9 DEF Becomes
  <2> HIDE DEF g
  <2> QED
    BY <1>7, <2>2, <2>3
<1> QED
  BY <1>0, <1>8, <1>9 DEF MergePiece, pull_piece

-----------------------------------------------------------------------------
(* Steps that change the maps *)

(* What such a step has to keep for a coroutine that is suspended. *)
SamePlace(f, g) ==
  /\ f.pc = g.pc /\ f.todo = g.todo /\ f.index = g.index /\ f.pos = g.pos /\ f.end = g.end
  /\ f.completed = g.completed /\ f.freed = g.freed /\ f.downloader = g.downloader

LEMMA TaskStays ==
  ASSUME StrategyInv, NEW y \in Tasks, task[y].pc \notin Running,
         SamePlace(task'[y], task[y]), task[y].moved \subseteq task'[y].moved,
         m_missing_pieces' \subseteq m_missing_pieces, FilesKept,
         \A d \in Downloaders : peer[d].conn # "none" => peer'[d].conn # "none",
         task'[y].moved # {} => task[y].pc \in Stopped,
         task[y].pc \in Stopped =>
           \/ task[y].freed
           \/ task'[y].moved # {}
           \/ task[y].end <= Len(m_piece_downloaders'[task[y].index]),
         task[y].pc = "pushing" =>
           \/ task[y].freed
           \/ Dropped(task[y])'
           \/ Held(task[y].downloader, task[y].index)',
         MovedOK(y)', AssigningOK(y)'
  PROVE  TaskOK(y)'
<1>1. TaskOK(y)
  BY DEF StrategyInv
<1>2. PollOK(y)'
  BY <1>1 DEF TaskOK, PollOK, SamePlace, Running, Stopped
<1>3. StoringOK(y)'
  BY <1>1 DEF TaskOK, PollOK, StoringOK, SamePlace, FilesKept, exists, Running, Stopped
<1>4. MergingOK(y)'
  BY <1>1 DEF TaskOK, MergingOK, SamePlace, FilesKept
<1> QED
  BY <1>2, <1>3, <1>4 DEF TaskOK

(* R becomes g, and the vector that T may be at is changed. *)
Leaves(g, M) == task' = [task EXCEPT !["R"] = g, !["T"].moved = @ \cup M]

LEMMA SetBoth ==
  ASSUME TasksTypeOK, NEW g \in Frames, NEW M \in SUBSET Downloaders, Leaves(g, M)
  PROVE  /\ TasksTypeOK' /\ task'["R"] = g /\ SamePlace(task'["T"], task["T"])
         /\ task'["T"].moved = task["T"].moved \cup M
<1>1. "R" \in Tasks /\ "T" \in Tasks /\ "T" # "R" /\ DOMAIN task = Tasks
  BY DEF Tasks, TasksTypeOK
<1>2. PICK f \in Frames : f = task["T"]
  BY <1>1 DEF TasksTypeOK
<1>3. PICK N \in SUBSET Downloaders : N = f.moved \cup M
  BY <1>2 DEF Frames
<1>4. task'["R"] = g /\ task'["T"] = [f EXCEPT !.moved = N] /\ DOMAIN task' = Tasks
  BY <1>1, <1>2, <1>3 DEF Leaves
<1>5. /\ task'["T"] \in Frames /\ task'["T"].moved = N
      /\ task'["T"].pc = f.pc /\ task'["T"].todo = f.todo /\ task'["T"].index = f.index
      /\ task'["T"].pos = f.pos /\ task'["T"].end = f.end
      /\ task'["T"].completed = f.completed /\ task'["T"].freed = f.freed
      /\ task'["T"].downloader = f.downloader
  BY <1>2, <1>3, <1>4 DEF Frames
<1>6. TasksTypeOK'
  BY <1>4, <1>5 DEF TasksTypeOK, Tasks
<1> QED
  BY <1>2, <1>3, <1>4, <1>5, <1>6 DEF SamePlace

LEMMA VaultKept ==
  ASSUME StrategyInv, files' = files, torn' = torn, m_missing_pieces' = m_missing_pieces,
         \A x \in Tasks : task[x].pc \in {"pushing", "pushed"} =>
           task'[x].pc = task[x].pc /\ task'[x].index = task[x].index
  PROVE  MissingMatchesVault' /\ PartialIsUnderway'
<1>1. MissingMatchesVault /\ PartialIsUnderway
  BY DEF StrategyInv
<1>2. PartialIsUnderway'
  BY <1>1 DEF PartialIsUnderway
<1> QED
  BY <1>1, <1>2 DEF MissingMatchesVault, Storing, Tasks

(* The pair that assign() chose enters both maps. *)
LEMMA AssignedStep ==
  ASSUME StrategyInv, Assigned
  PROVE  StrategyInv'
<1>0. PICK f, p, d : f = task["R"] /\ p = Head(f.todo) /\ d = f.downloader
  OBVIOUS
<1>1. /\ StrategyTypeOK /\ TasksTypeOK /\ PeersTypeOK /\ FilesTypeOK /\ BudgetTypeOK
      /\ "R" \in Tasks
  BY TypeParts DEF StrategyInv, Tasks
<1>2. /\ f \in Frames /\ f.pc = "downloading" /\ Free
      /\ m_peer_pool' = [m_peer_pool EXCEPT ![d] = Append(@, p)]
      /\ m_piece_downloaders' = [m_piece_downloaders EXCEPT ![p] = Append(@, d)]
      /\ task' = [task EXCEPT !["R"].pc = "assigning", !["R"].todo = Tail(@),
                              !["R"].downloader = <<>>,
                              !["T"].moved = @ \cup {e \in {d} : UnderFoot(task["T"], {p})}]
      /\ UNCHANGED <<m_missing_pieces, m_active_connections, peer, files, torn,
                     undefined, budget>>
  BY <1>0, <1>1 DEF Assigned, TasksTypeOK
<1>3. TaskOK("R")
  BY <1>1 DEF StrategyInv
<1>4. /\ f.todo # <<>> /\ d \in DOMAIN m_peer_pool /\ Len(m_peer_pool[d]) < 2
      /\ Len(m_piece_downloaders[p]) < 2 /\ ~InSeq(m_piece_downloaders[p], d)
      /\ f.completed \cap m_missing_pieces = {} /\ ~f.freed /\ f.moved = {}
  BY <1>0, <1>2, <1>3 DEF TaskOK, PollOK, AssigningOK, Stopped
<1>5. /\ p \in Pieces /\ Tail(f.todo) \in Seq(Pieces) /\ d \in Downloaders
      /\ m_peer_pool[d] \in Seq(Pieces) /\ m_piece_downloaders[p] \in Seq(Downloaders)
  <2>1. f.todo \in Seq(Pieces)
    BY <1>2 DEF Frames
  <2>2. p \in Pieces /\ Tail(f.todo) \in Seq(Pieces)
    BY <1>0, <1>4, <2>1
  <2> QED
    BY <1>1, <1>4, <2>2 DEF StrategyTypeOK
<1>6. /\ DOMAIN m_peer_pool' = DOMAIN m_peer_pool
      /\ m_peer_pool'[d] = Append(m_peer_pool[d], p)
      /\ \A e \in DOMAIN m_peer_pool : e # d => m_peer_pool'[e] = m_peer_pool[e]
  BY <1>2, <1>4
<1>7. /\ m_piece_downloaders'[p] = Append(m_piece_downloaders[p], d)
      /\ \A q \in Pieces : q # p => m_piece_downloaders'[q] = m_piece_downloaders[q]
      /\ DOMAIN m_piece_downloaders' = Pieces
  BY <1>1, <1>2, <1>5 DEF StrategyTypeOK
<1>8. /\ Append(m_peer_pool[d], p) \in Seq(Pieces)
      /\ Len(Append(m_peer_pool[d], p)) = Len(m_peer_pool[d]) + 1
      /\ \A q : InSeq(Append(m_peer_pool[d], p), q) <=> InSeq(m_peer_pool[d], q) \/ q = p
  BY <1>5, AppendFacts
<1>9. /\ Append(m_piece_downloaders[p], d) \in Seq(Downloaders)
      /\ Len(Append(m_piece_downloaders[p], d)) = Len(m_piece_downloaders[p]) + 1
      /\ \A e : InSeq(Append(m_piece_downloaders[p], d), e)
                  <=> InSeq(m_piece_downloaders[p], e) \/ e = d
  BY <1>5, AppendFacts
<1>10. PICK g : g = [f EXCEPT !.pc = "assigning", !.todo = Tail(f.todo), !.downloader = <<>>]
  OBVIOUS
<1>11. /\ g \in Frames /\ g.pc = "assigning" /\ g.completed = f.completed
       /\ g.freed = f.freed /\ g.moved = f.moved
  <2>1. "assigning" \in States
    BY PcIsState
  <2>2. PICK s \in Seq(Pieces) : s = Tail(f.todo)
    BY <1>5
  <2>3. g = [f EXCEPT !.pc = "assigning", !.todo = s, !.downloader = <<>>]
    BY <1>10, <2>2
  <2> QED
    BY <1>2, <2>1, <2>3 DEF Frames
<1>26. PICK M \in SUBSET Downloaders :
         /\ M = {e \in {d} : UnderFoot(task["T"], {p})}
         /\ Leaves(g, M)
  <2>1. PICK M : M = {e \in {d} : UnderFoot(task["T"], {p})}
    OBVIOUS
  <2>2. M \in SUBSET Downloaders
    BY <1>5, <2>1
  <2>3. task' = [task EXCEPT !["R"].pc = "assigning", !["R"].todo = Tail(@),
                             !["R"].downloader = <<>>, !["T"].moved = @ \cup M]
    BY <1>2, <2>1
  <2>4. Leaves(g, M)
    BY <1>0, <1>1, <1>10, <2>3 DEF Leaves, TasksTypeOK, Tasks
  <2> QED
    BY <2>1, <2>2, <2>4
<1>12. /\ TasksTypeOK' /\ task'["R"] = g /\ SamePlace(task'["T"], task["T"])
       /\ task'["T"].moved = task["T"].moved \cup M
  BY <1>1, <1>11, <1>26, SetBoth
<1>13. InSeq(m_piece_downloaders'[p], d) /\ InSeq(m_peer_pool'[d], p)
  BY <1>6, <1>7, <1>8, <1>9
<1>14. \A q \in Pieces, e \in Downloaders :
         /\ InSeq(m_piece_downloaders[q], e) => InSeq(m_piece_downloaders'[q], e)
         /\ InSeq(m_piece_downloaders'[q], e) =>
              InSeq(m_piece_downloaders[q], e) \/ (q = p /\ e = d)
  BY <1>7, <1>9
<1>15. \A q \in Pieces, e \in DOMAIN m_peer_pool :
         /\ InSeq(m_peer_pool[e], q) => InSeq(m_peer_pool'[e], q)
         /\ InSeq(m_peer_pool'[e], q) => InSeq(m_peer_pool[e], q) \/ (q = p /\ e = d)
  BY <1>6, <1>8
<1>16. TypeOK'
  <2>1. m_piece_downloaders' \in [Pieces -> Seq(Downloaders)]
    BY <1>1, <1>2, <1>9 DEF StrategyTypeOK
  <2>2. \A e \in DOMAIN m_peer_pool : m_peer_pool'[e] \in Seq(Pieces)
    BY <1>1, <1>6, <1>8 DEF StrategyTypeOK
  <2>3. StrategyTypeOK'
    BY <1>1, <1>2, <1>6, <2>1, <2>2 DEF StrategyTypeOK
  <2>4. (FilesTypeOK /\ PeersTypeOK /\ BudgetTypeOK)'
    BY <1>1, <1>2 DEF FilesTypeOK, PeersTypeOK, BudgetTypeOK
  <2> QED
    BY <1>12, <2>3, <2>4, TypePartsNext
<1>17. (MadeInOrder /\ NotMadeYet /\ PoolMatchesConnections)'
  <2>1. peer' = peer /\ m_active_connections' = m_active_connections
    BY <1>2
  <2> QED
    BY <1>6, <2>1 DEF StrategyInv, MadeInOrder, NotMadeYet, PoolMatchesConnections
<1>18. AtMostTwo'
  <2>1. AtMostTwo
    BY DEF StrategyInv
  <2>2. Len(m_peer_pool[d]) \in Nat /\ Len(m_piece_downloaders[p]) \in Nat
    BY <1>5
  <2>3. /\ Len(m_piece_downloaders'[p]) <= 2
        /\ \A i, j \in DOMAIN m_piece_downloaders'[p] :
             i # j => m_piece_downloaders'[p][i] # m_piece_downloaders'[p][j]
    <3>1. Len(m_piece_downloaders'[p]) <= 2
      BY <1>4, <1>7, <1>9, <2>2
    <3>2. \A i, j \in DOMAIN m_piece_downloaders[p] :
            i # j => m_piece_downloaders[p][i] # m_piece_downloaders[p][j]
      BY <1>5, <2>1 DEF AtMostTwo
    <3> QED
      BY <1>4, <1>5, <1>7, <3>1, <3>2, AppendFacts
  <2>4. \A e \in DOMAIN m_peer_pool' : Len(m_peer_pool'[e]) <= 2
    BY <1>4, <1>6, <1>8, <2>1, <2>2 DEF AtMostTwo
  <2> QED
    BY <1>7, <2>1, <2>3, <2>4 DEF AtMostTwo
<1>19. MapsAgreeOnMissing'
  <2>1. MapsAgreeOnMissing /\ m_missing_pieces \subseteq Pieces
    BY <1>1 DEF StrategyInv, StrategyTypeOK
  <2> QED
    BY <1>2, <1>4, <1>6, <1>13, <1>14, <1>15, <2>1 DEF MapsAgreeOnMissing
<1>20. DownloadersOK'
  <2>1. DownloadersOK /\ peer' = peer
    BY <1>2 DEF StrategyInv
  <2>2. peer[d].conn # "none"
    BY <1>4, <1>5 DEF StrategyInv, NotMadeYet
  <2> QED
    <3> SUFFICES ASSUME NEW q \in Pieces, NEW e \in Downloaders,
                        InSeq(m_piece_downloaders'[q], e)
                 PROVE  /\ peer[e].conn # "none"
                        /\ \/ e \in DOMAIN m_peer_pool /\ InSeq(m_peer_pool'[e], q)
                           \/ peer[e].got[q] = "none"
      BY <1>6, <2>1 DEF DownloadersOK, DownloaderOK, AssignedTo
    <3>1. CASE InSeq(m_piece_downloaders[q], e)
      <4>1. DownloaderOK(q, e)
        BY <2>1 DEF DownloadersOK
      <4>2. CASE AssignedTo(e, q)
        BY <1>15, <3>1, <4>1, <4>2 DEF DownloaderOK, AssignedTo
      <4>3. CASE ~AssignedTo(e, q)
        BY <3>1, <4>1, <4>3 DEF DownloaderOK
      <4> QED
        BY <4>2, <4>3
    <3>2. CASE q = p /\ e = d
      BY <1>4, <1>13, <2>2, <3>2
    <3> QED
      BY <1>14, <3>1, <3>2
<1>21. TaskOK("R")'
  BY <1>1, <1>2, <1>4, <1>11, <1>12, RestingTask
<1>22. TaskOK("T")'
  <2>1. TaskOK("T") /\ "T" \in Tasks /\ task["T"].pc \notin Running
    BY <1>2 DEF StrategyInv, Tasks, Free
  <2>2. task["T"].end \in Nat
    BY <1>1, <2>1 DEF TasksTypeOK, Frames
  <2>3. \A q \in Pieces : /\ Len(m_piece_downloaders[q]) \in Nat
                          /\ Len(m_piece_downloaders'[q]) \in Nat
                          /\ Len(m_piece_downloaders'[q]) >= Len(m_piece_downloaders[q])
    <3>1. \A q \in Pieces : Len(m_piece_downloaders[q]) \in Nat
      BY <1>1 DEF StrategyTypeOK
    <3> QED
      BY <1>5, <1>7, <1>9, <3>1
  <2>4. PollOK("T") /\ MovedOK("T") /\ StoringOK("T") /\ AssigningOK("T")
    BY <2>1 DEF TaskOK
  <2>5. task["T"].pc \in Stopped =>
          \/ task["T"].freed
          \/ task'["T"].moved # {}
          \/ task["T"].end <= Len(m_piece_downloaders'[task["T"].index])
    BY <1>12, <2>2, <2>3, <2>4 DEF PollOK
  <2>6. task'["T"].moved # {} => task["T"].pc \in Stopped
    BY <1>12, <1>26, <2>4 DEF PollOK, UnderFoot, Stopped
  <2>7. MovedOK("T")'
    <3>1. CASE M # {}
      <4>1. d \in M /\ UnderFoot(task["T"], {p})
        BY <1>26, <3>1
      <4>2. task'["T"].index = p /\ d \in task'["T"].moved
        BY <1>12, <4>1 DEF UnderFoot, SamePlace
      <4>3. MemberAdded(task["T"])'
        BY <1>4, <1>6, <1>13, <4>2 DEF MemberAdded
      <4> QED
        BY <4>3 DEF MovedOK, Disturbed
    <3>2. CASE M = {}
      <4>1. task'["T"].moved = task["T"].moved /\ task'["T"].index = task["T"].index
            /\ task'["T"].freed = task["T"].freed
        BY <1>12, <3>2 DEF SamePlace
      <4>2. task["T"].moved # {} => task["T"].index \in Pieces
        BY <2>4 DEF PollOK
      <4>3. task["T"].moved \subseteq Downloaders
        BY <1>1, <2>1 DEF TasksTypeOK, Frames
      <4>4. MemberRevoked(task["T"]) => MemberRevoked(task["T"])'
        BY <1>2, <1>6, <4>1 DEF MemberRevoked
      <4>5. MemberAdded(task["T"]) => MemberAdded(task["T"])'
        BY <1>6, <1>14, <4>1, <4>2, <4>3 DEF MemberAdded
      <4> QED
        BY <2>4, <4>1, <4>4, <4>5 DEF MovedOK, Disturbed
    <3> QED
      BY <3>1, <3>2
  <2>8. \A q \in Pieces, e \in Downloaders : Held(e, q) => Held(e, q)'
    BY <1>2, <1>6, <1>14, <1>15 DEF Held, AssignedTo
  <2>9. task["T"].pc = "pushing" =>
          \/ task["T"].freed
          \/ Dropped(task["T"])'
          \/ Held(task["T"].downloader, task["T"].index)'
    <3>1. task["T"].pc = "pushing" =>
            task["T"].index \in Pieces /\ task["T"].downloader \in Downloaders
      BY <2>4 DEF PollOK, Stopped
    <3>2. Dropped(task["T"]) => Dropped(task["T"])'
      BY <1>6, <1>12 DEF Dropped, SamePlace
    <3>3. /\ task'["T"].downloader = task["T"].downloader
          /\ task'["T"].index = task["T"].index
      BY <1>12 DEF SamePlace
    <3> QED
      BY <2>4, <2>8, <3>1, <3>2, <3>3 DEF StoringOK
  <2>10. AssigningOK("T")'
    BY <1>12, <2>4 DEF AssigningOK, SamePlace
  <2>11. FilesKept /\ m_missing_pieces' \subseteq m_missing_pieces /\ peer' = peer
    BY <1>2 DEF FilesKept
  <2>12. task["T"].moved \subseteq task'["T"].moved
    BY <1>12
  <2> QED
    BY <1>12, <2>1, <2>5, <2>6, <2>7, <2>9, <2>10, <2>11, <2>12, TaskStays
<1>23. OneThread' /\ Apart'
  <2>1. task["T"].pc \notin Running
    BY <1>2 DEF Free
  <2> QED
    BY <1>11, <1>12, <2>1 DEF OneThread, Apart, SamePlace
<1>24. MissingMatchesVault' /\ PartialIsUnderway'
  <2>1. \A x \in Tasks : task[x].pc \in {"pushing", "pushed"} =>
          task'[x].pc = task[x].pc /\ task'[x].index = task[x].index
    BY <1>0, <1>2, <1>12 DEF Tasks, SamePlace
  <2>2. files' = files /\ torn' = torn /\ m_missing_pieces' = m_missing_pieces
    BY <1>2
  <2> QED
    BY <2>1, <2>2, VaultKept
<1>25. UndefinedHasACause'
  BY <1>2 DEF Free, UndefinedHasACause
<1> QED
  BY <1>16, <1>17, <1>18, <1>19, <1>20, <1>21, <1>22, <1>23, <1>24, <1>25
     DEF StrategyInv, Tasks

(* A stored piece leaves the vector of the downloader it was taken from,   *)
(* once, or that vector and the entry are gone for one of the reasons      *)
(* known.                                                                  *)
LEMMA PieceStoredStep ==
  ASSUME StrategyInv, NEW x \in Tasks, PieceStored(x)
  PROVE  StrategyInv'
<1>0. PICK r, p, d, f : /\ r = task[x] /\ p = r.index /\ d = r.downloader
                        /\ f = [r EXCEPT !.completed = r.completed \cup {p}, !.downloader = <<>>]
  OBVIOUS
<1>1. StrategyTypeOK /\ TasksTypeOK /\ PeersTypeOK /\ FilesTypeOK /\ BudgetTypeOK
  BY TypeParts DEF StrategyInv
<1>2. r \in Frames /\ r.pc = "pushed" /\ HasThread(x)
  BY <1>0, <1>1 DEF PieceStored, TasksTypeOK
<1>3. PollOK(x) /\ StoringOK(x)
  BY DEF StrategyInv, TaskOK
<1>4. /\ p \in Pieces /\ d \in Downloaders /\ peer[d].conn # "none" /\ r.pos >= 1
      /\ r.completed \cap m_missing_pieces = {} /\ files[p] # "absent"
      /\ r.freed => p \notin m_missing_pieces
      /\ r.freed \/ Dropped(r) \/ Held(d, p)
  BY <1>0, <1>2, <1>3 DEF PollOK, StoringOK, Stopped, exists
<1>5. /\ f \in Frames /\ f.index = p /\ f.pos = r.pos /\ f.end = r.end /\ f.freed = r.freed
      /\ f.moved = r.moved
      /\ f.completed = r.completed \cup {p}
  <2>1. PICK c \in SUBSET Pieces : c = r.completed \cup {p}
    BY <1>2, <1>4 DEF Frames
  <2>2. f = [r EXCEPT !.completed = c, !.downloader = <<>>]
    BY <1>0, <2>1
  <2> QED
    BY <1>0, <1>2, <2>1, <2>2 DEF Frames
<1>6. (Moved(f) <=> Moved(task[x])) /\ (Astray(f) <=> Astray(task[x]))
  BY <1>0, <1>5 DEF Moved, Astray
<1>7. CASE (ErasesEnd(d, p) \/ Moved(f)) /\ GoWrong
  <2>1. Moved(task[x])
    <3>1. CASE Moved(f)
      BY <1>6, <3>1
    <3>2. CASE ErasesEnd(d, p)
      <4>1. ~Held(d, p)
        BY <3>2 DEF ErasesEnd, Held, AssignedTo
      <4> QED
        BY <1>0, <1>4, <4>1 DEF Dropped, Moved
    <3> QED
      BY <1>7, <3>1, <3>2
  <2>2. Caught(x)
    BY <1>0, <1>2, <2>1, MovedHasACause
  <2> QED
    BY <1>7, <2>2, WrongStep
<1>8. CASE /\ ~(ErasesEnd(d, p) \/ Astray(f))
           /\ m_peer_pool' = [m_peer_pool EXCEPT ![d] = EraseOne(d, p)]
           /\ m_missing_pieces' = m_missing_pieces \ {p}
           /\ Becomes(x, Advance(f))
           /\ UNCHANGED <<m_piece_downloaders, m_active_connections, peer, files,
                          torn, undefined, budget>>
  <2>1. d \in DOMAIN m_peer_pool /\ InSeq(m_peer_pool[d], p)
    BY <1>8 DEF ErasesEnd
  <2>2. /\ ~r.freed
        /\ r.pos < r.end => r.moved = {} /\ r.end <= Len(m_piece_downloaders[p])
    BY <1>0, <1>2, <1>6, <1>8, NotAstray DEF Stopped
  <2>3. peer[d].got[p] = "none"
    BY <1>0, <1>4, <2>1, <2>2 DEF Dropped, Held
  <2>4. PICK e : e = EraseOne(d, p)
    OBVIOUS
  <2>5. /\ m_peer_pool[d] \in Seq(Pieces) /\ Len(m_peer_pool[d]) <= 2
        /\ Len(m_peer_pool[d]) \in Nat
    <3>1. m_peer_pool[d] \in Seq(Pieces) /\ Len(m_peer_pool[d]) <= 2
      BY <1>1, <2>1 DEF StrategyTypeOK, StrategyInv, AtMostTwo
    <3> QED
      BY <3>1
  <2>6. /\ e \in Seq(Pieces) /\ Len(e) < Len(m_peer_pool[d])
        /\ \A q : q # p => (InSeq(e, q) <=> InSeq(m_peer_pool[d], q))
    BY <1>4, <2>1, <2>4, <2>5, EraseOneFacts
  <2>7. /\ DOMAIN m_peer_pool' = DOMAIN m_peer_pool /\ m_peer_pool'[d] = e
        /\ \A c \in DOMAIN m_peer_pool : c # d => m_peer_pool'[c] = m_peer_pool[c]
    BY <1>8, <2>1, <2>4
  <2>8. \A c \in DOMAIN m_peer_pool, q \in Pieces :
          c # d \/ q # p => (InSeq(m_peer_pool'[c], q) <=> InSeq(m_peer_pool[c], q))
    BY <2>6, <2>7
  <2>9. Advance(f) \in Frames /\ Advance(f).pc = "polling"
    BY <1>1, <1>4, <1>5, AdvanceFields
  <2>10. TasksTypeOK' /\ task'[x] = Advance(f) /\ \A y \in Tasks : y # x => task'[y] = task[y]
    BY <1>1, <1>8, <2>9, SetTask
  <2>11. ~undefined /\ \A y \in Tasks : y # x => task[y].pc \notin Running
    BY <1>2, OthersWait
  <2>12. TypeOK'
    <3>1. \A c \in DOMAIN m_peer_pool : m_peer_pool'[c] \in Seq(Pieces)
      BY <1>1, <2>6, <2>7 DEF StrategyTypeOK
    <3>2. StrategyTypeOK'
      BY <1>1, <1>8, <2>7, <3>1 DEF StrategyTypeOK
    <3>3. (FilesTypeOK /\ PeersTypeOK /\ BudgetTypeOK)'
      BY <1>1, <1>8 DEF FilesTypeOK, PeersTypeOK, BudgetTypeOK
    <3> QED
      BY <2>10, <3>2, <3>3, TypePartsNext
  <2>13. (MadeInOrder /\ NotMadeYet /\ PoolMatchesConnections)'
    <3>1. peer' = peer /\ m_active_connections' = m_active_connections
      BY <1>8
    <3> QED
      BY <2>7, <3>1 DEF StrategyInv, MadeInOrder, NotMadeYet, PoolMatchesConnections
  <2>14. AtMostTwo'
    <3>1. AtMostTwo /\ m_piece_downloaders' = m_piece_downloaders
      BY <1>8 DEF StrategyInv
    <3>2. Len(e) <= 2
      BY <2>5, <2>6
    <3> QED
      BY <2>7, <3>1, <3>2 DEF AtMostTwo
  <2>15. MapsAgreeOnMissing'
    <3>1. MapsAgreeOnMissing /\ m_missing_pieces \subseteq Pieces
      BY <1>1 DEF StrategyInv, StrategyTypeOK
    <3> QED
      BY <1>8, <2>7, <2>8, <3>1 DEF MapsAgreeOnMissing
  <2>16. DownloadersOK'
    <3>1. DownloadersOK /\ peer' = peer /\ m_piece_downloaders' = m_piece_downloaders
      BY <1>8 DEF StrategyInv
    <3> QED
      BY <2>3, <2>7, <2>8, <3>1 DEF DownloadersOK, DownloaderOK, AssignedTo
  <2>17. TaskOK(x)'
    <3>1. f.completed \cap m_missing_pieces' = {}
      BY <1>4, <1>5, <1>8
    <3> QED
      BY <1>1, <1>4, <1>5, <1>8, <2>2, <2>10, <3>1, AdvancedTask
  <2>18. ASSUME NEW y \in Tasks, y # x PROVE TaskOK(y)'
    <3>1. /\ PollOK(y) /\ MovedOK(y) /\ StoringOK(y) /\ AssigningOK(y)
          /\ task'[y] = task[y] /\ task[y].pc \notin Running
      BY <2>10, <2>11, <2>18 DEF StrategyInv, TaskOK
    <3>2. MovedOK(y)'
      BY <1>8, <2>7, <3>1 DEF MovedOK, Disturbed, MemberRevoked, MemberAdded
    <3>3. task[y].pc \in Stopped =>
            \/ task[y].freed
            \/ task'[y].moved # {}
            \/ task[y].end <= Len(m_piece_downloaders'[task[y].index])
      BY <1>8, <3>1 DEF PollOK
    <3>4. task[y].pc = "pushing" =>
            task[y].index \in Pieces /\ task[y].downloader \in Downloaders
      BY <3>1 DEF PollOK, Stopped
    <3>5. task[y].pc = "pushing" /\ task[y].index = p /\ task[y].downloader = d =>
            task[y].freed
      <4>1. Apart
        BY DEF StrategyInv
      <4> QED
        BY <1>0, <1>2, <2>1, <2>2, <2>18, <4>1 DEF Apart, Tasks
    <3>6. \A c \in Downloaders, q \in Pieces :
            Held(c, q) /\ (c # d \/ q # p) => Held(c, q)'
      BY <1>8, <2>7, <2>8 DEF Held, AssignedTo
    <3>7. task[y].pc = "pushing" =>
            \/ task[y].freed
            \/ Dropped(task[y])'
            \/ Held(task[y].downloader, task[y].index)'
      <4>1. Dropped(task[y]) => Dropped(task[y])'
        BY <2>7, <3>1 DEF Dropped
      <4> QED
        BY <3>1, <3>4, <3>5, <3>6, <4>1 DEF StoringOK
    <3>8. AssigningOK(y)'
      <4>1. Len(e) < 2
        BY <2>5, <2>6
      <4> QED
        BY <1>8, <2>7, <3>1, <4>1 DEF AssigningOK
    <3>9. FilesKept /\ m_missing_pieces' \subseteq m_missing_pieces /\ peer' = peer
      BY <1>8 DEF FilesKept
    <3>10. SamePlace(task'[y], task[y]) /\ task[y].moved \subseteq task'[y].moved
           /\ (task'[y].moved # {} => task[y].pc \in Stopped)
      BY <3>1 DEF SamePlace, PollOK
    <3> QED
      BY <3>1, <3>2, <3>3, <3>7, <3>8, <3>9, <3>10, TaskStays
  <2>19. OneThread' /\ Apart'
    BY <2>9, <2>10, <2>11 DEF OneThread, Apart, Tasks
  <2>20. MissingMatchesVault'
    <3>1. MissingMatchesVault /\ files' = files /\ torn' = torn
      BY <1>8 DEF StrategyInv
    <3>2. \A y \in Tasks, q \in Pieces : Storing(y, q) /\ q # p => Storing(y, q)'
      BY <1>0, <2>10 DEF Storing
    <3> QED
      BY <1>4, <1>8, <3>1, <3>2 DEF MissingMatchesVault, Tasks
  <2>21. PartialIsUnderway'
    <3>1. PartialIsUnderway /\ files' = files /\ torn' = torn
      BY <1>8 DEF StrategyInv
    <3> QED
      BY <1>0, <1>2, <2>10, <3>1 DEF PartialIsUnderway
  <2>22. UndefinedHasACause'
    BY <1>8, <2>11 DEF UndefinedHasACause
  <2> QED
    BY <2>12, <2>13, <2>14, <2>15, <2>16, <2>17, <2>18, <2>19, <2>20, <2>21, <2>22
       DEF StrategyInv
<1> QED
  BY <1>0, <1>7, <1>8 DEF PieceStored, Becomes

(* is_done() ends: it erases only entries of pieces that are not missing,  *)
(* and marks the other one if that is at such an entry.                    *)
LEMMA PollingReturnsStep ==
  ASSUME StrategyInv, NEW x \in Tasks, PollingReturns(x)
  PROVE  StrategyInv'
<1>1. StrategyTypeOK /\ TasksTypeOK /\ PeersTypeOK /\ FilesTypeOK /\ BudgetTypeOK
  BY TypeParts DEF StrategyInv
<1>2. HasThread(x) /\ task[x].pc = "polling"
  BY DEF PollingReturns
<1>3. CASE x = "T" /\ m_missing_pieces # {} /\ task["R"].pc \in Ended /\ GoWrong
  <2>1. MergingOK("R")
    BY DEF StrategyInv, TaskOK, Tasks
  <2>2. task["R"].pc = "failed"
    BY <1>3, <2>1 DEF MergingOK, Ended
  <2>3. Outlived
    BY <1>2, <1>3, <2>2 DEF PollingReturns, Outlived
  <2> QED
    BY <1>3, <2>3, WrongStep
<1>4. CASE /\ m_piece_downloaders' =
                [p \in Pieces |-> IF p \in task[x].completed THEN <<>>
                                  ELSE m_piece_downloaders[p]]
           /\ task' = [y \in Tasks |->
                         IF y = x THEN AfterPolling(x)
                         ELSE [task[y] EXCEPT !.freed =
                                 @ \/ UnderFoot(task[y], task[x].completed)]]
           /\ UNCHANGED <<m_missing_pieces, m_peer_pool, m_active_connections, peer,
                          files, torn, undefined, budget>>
  <2>1. PICK erased : erased = task[x].completed
    OBVIOUS
  <2>2. erased \cap m_missing_pieces = {}
    BY <2>1 DEF StrategyInv, TaskOK, PollOK
  <2>3. ~undefined /\ \A y \in Tasks : y # x => task[y].pc \notin Running
    BY <1>2, OthersWait
  <2>4. \A q \in Pieces : m_piece_downloaders'[q] =
          IF q \in erased THEN <<>> ELSE m_piece_downloaders[q]
    BY <1>4, <2>1
  <2>5. \A q \in Pieces, e \in Downloaders : InSeq(m_piece_downloaders'[q], e) <=>
          q \notin erased /\ InSeq(m_piece_downloaders[q], e)
    BY <2>4, EmptyVector
  <2>6. UNCHANGED <<m_missing_pieces, m_peer_pool, m_active_connections, peer,
                    files, torn, undefined, budget>>
    BY <1>4
  <2>7. PICK g : g = AfterPolling(x)
    OBVIOUS
  <2>8. /\ g \in Frames /\ g.completed = {} /\ ~g.freed /\ g.moved = {} /\ g.index = 0
        /\ \/ g.pc = "waiting"
           \/ g.pc \in {"merging", "finished"} /\ m_missing_pieces = {}
    <3>1. CASE m_missing_pieces = {}
      BY <2>7, <3>1, PcIsState, FrameFields DEF AfterPolling
    <3>2. CASE m_missing_pieces # {}
      BY <2>7, <3>2, PcIsState, FrameFields DEF AfterPolling
    <3> QED
      BY <3>1, <3>2
  <2>9. task'[x] = g
    BY <1>4, <2>7
  <2>10. ASSUME NEW y \in Tasks, y # x
         PROVE  /\ task'[y] \in Frames /\ task'[y].pc = task[y].pc
                /\ task'[y].todo = task[y].todo /\ task'[y].index = task[y].index
                /\ task'[y].pos = task[y].pos /\ task'[y].end = task[y].end
                /\ task'[y].completed = task[y].completed
                /\ task'[y].downloader = task[y].downloader /\ task'[y].moved = task[y].moved
                /\ task'[y].freed <=>
                     \/ task[y].freed
                     \/ task[y].pc \in {"pushing", "repeating"} /\ task[y].index \in erased
    <3>1. PICK b \in BOOLEAN : b = (task[y].freed \/ UnderFoot(task[y], erased))
      OBVIOUS
    <3>2. task'[y] = [task[y] EXCEPT !.freed = task[y].freed \/ UnderFoot(task[y], erased)]
      BY <1>4, <2>1, <2>10
    <3>3. task'[y] = [task[y] EXCEPT !.freed = b]
      BY <3>1, <3>2, Zenon
    <3>4. task[y] \in Frames
      BY <1>1 DEF TasksTypeOK
    <3>5. /\ task'[y] \in Frames /\ task'[y].pc = task[y].pc
          /\ task'[y].todo = task[y].todo /\ task'[y].index = task[y].index
          /\ task'[y].pos = task[y].pos /\ task'[y].end = task[y].end
          /\ task'[y].completed = task[y].completed
          /\ task'[y].downloader = task[y].downloader /\ task'[y].moved = task[y].moved
          /\ task'[y].freed = b
      BY <3>3, <3>4 DEF Frames
    <3> QED
      BY <3>1, <3>5 DEF UnderFoot
  <2>11. TypeOK'
    <3>1. TasksTypeOK'
      <4>1. \A y \in Tasks : task'[y] \in Frames
        BY <2>8, <2>9, <2>10
      <4>2. DOMAIN task' = Tasks
        BY <1>4
      <4> QED
        BY <4>1, <4>2 DEF TasksTypeOK
    <3>2. m_piece_downloaders' \in [Pieces -> Seq(Downloaders)]
      <4>1. ASSUME NEW q \in Pieces PROVE m_piece_downloaders'[q] \in Seq(Downloaders)
        <5>1. m_piece_downloaders[q] \in Seq(Downloaders) /\ <<>> \in Seq(Downloaders)
          BY <1>1 DEF StrategyTypeOK
        <5> QED
          BY <2>4, <5>1, Zenon
      <4>2. DOMAIN m_piece_downloaders' = Pieces
            /\ m_piece_downloaders' = [q \in Pieces |-> m_piece_downloaders'[q]]
        BY <1>4
      <4> QED
        BY <4>1, <4>2
    <3>3. StrategyTypeOK'
      BY <1>1, <2>6, <3>2 DEF StrategyTypeOK
    <3>4. (FilesTypeOK /\ PeersTypeOK /\ BudgetTypeOK)'
      BY <1>1, <2>6 DEF FilesTypeOK, PeersTypeOK, BudgetTypeOK
    <3> QED
      BY <3>1, <3>3, <3>4, TypePartsNext
  <2>12. (MadeInOrder /\ NotMadeYet /\ PoolMatchesConnections)'
    BY <2>6 DEF StrategyInv, MadeInOrder, NotMadeYet, PoolMatchesConnections
  <2>13. AtMostTwo'
    <3>1. AtMostTwo
      BY DEF StrategyInv
    <3>2. Len(<<>>) <= 2 /\ DOMAIN <<>> = {}
      BY EmptyVector
    <3> QED
      BY <2>4, <2>6, <3>1, <3>2 DEF AtMostTwo
  <2>14. MapsAgreeOnMissing'
    <3>1. MapsAgreeOnMissing /\ m_missing_pieces \subseteq Pieces
      BY <1>1 DEF StrategyInv, StrategyTypeOK
    <3> QED
      BY <2>2, <2>5, <2>6, <3>1 DEF MapsAgreeOnMissing
  <2>15. DownloadersOK'
    <3>1. DownloadersOK
      BY DEF StrategyInv
    <3> QED
      BY <2>5, <2>6, <3>1 DEF DownloadersOK, DownloaderOK, AssignedTo
  <2>16. TaskOK(x)'
    <3>1. CASE g.pc = "waiting"
      BY <2>8, <2>9, <3>1, RestingTask
    <3>2. CASE g.pc \in {"merging", "finished"} /\ m_missing_pieces = {}
      <4>1. \A p \in Pieces : ~(p < 0)
        BY DEF Pieces
      <4> QED
        BY <2>6, <2>8, <2>9, <3>2, <4>1
           DEF TaskOK, PollOK, MovedOK, StoringOK, AssigningOK, MergingOK, Stopped
    <3> QED
      BY <2>8, <3>1, <3>2
  <2>17. ASSUME NEW y \in Tasks, y # x PROVE TaskOK(y)'
    <3>1. /\ PollOK(y) /\ MovedOK(y) /\ StoringOK(y) /\ AssigningOK(y) /\ MergingOK(y)
          /\ task[y].pc \notin Running
      BY <2>3, <2>17 DEF StrategyInv, TaskOK
    <3>2. task[y].pc # "polling" /\ task[y].pc # "pushed"
      BY <3>1 DEF Running
    <3>3. MovedOK(y)'
      <4>1. task[y].moved # {} =>
              task[y].index \in Pieces /\ task[y].pc \in {"pushing", "repeating"}
        BY <3>1, <3>2 DEF PollOK, Stopped
      <4>2. task[y].moved \subseteq Downloaders
        BY <1>1 DEF TasksTypeOK, Frames
      <4>3. MemberRevoked(task[y]) => MemberRevoked(task[y])'
        BY <2>6, <2>10, <2>17 DEF MemberRevoked
      <4>4. task[y].index \in Pieces /\ task[y].index \notin erased /\ MemberAdded(task[y])
              => MemberAdded(task[y])'
        BY <2>5, <2>6, <2>10, <2>17, <4>2 DEF MemberAdded
      <4> QED
        BY <2>10, <2>17, <3>1, <4>1, <4>3, <4>4 DEF MovedOK, Disturbed
    <3>4. PollOK(y)'
      BY <2>2, <2>4, <2>6, <2>10, <2>17, <3>1, <3>2 DEF PollOK, Stopped
    <3>5. StoringOK(y)'
      <4>1. task[y].pc = "pushing" =>
              task[y].index \in Pieces /\ task[y].downloader \in Downloaders
        BY <3>1 DEF PollOK, Stopped
      <4>2. \A c \in Downloaders, q \in Pieces : Held(c, q) /\ q \notin erased => Held(c, q)'
        BY <2>5, <2>6 DEF Held, AssignedTo
      <4>3. Dropped(task[y]) => Dropped(task[y])'
        BY <2>6, <2>10, <2>17 DEF Dropped
      <4> QED
        BY <2>6, <2>10, <2>17, <3>1, <3>2, <4>1, <4>2, <4>3 DEF StoringOK, exists
    <3>6. AssigningOK(y)'
      <4>1. task[y].pc = "downloading" =>
              Head(task[y].todo) \in Pieces /\ task[y].downloader \in Downloaders
        <5>1. task[y].todo \in Seq(Pieces)
          BY <1>1 DEF TasksTypeOK, Frames
        <5>2. task[y].pc = "downloading" => task[y].todo # <<>>
                /\ task[y].downloader \in DOMAIN m_peer_pool
          BY <3>1 DEF AssigningOK
        <5> QED
          BY <1>1, <5>1, <5>2 DEF StrategyTypeOK
      <4>2. Len(<<>>) < 2
        OBVIOUS
      <4> QED
        BY <2>4, <2>5, <2>6, <2>10, <2>17, <3>1, <4>1, <4>2 DEF AssigningOK
    <3>7. MergingOK(y)'
      BY <2>6, <2>10, <2>17, <3>1 DEF MergingOK
    <3> QED
      BY <3>3, <3>4, <3>5, <3>6, <3>7 DEF TaskOK
  <2>18. OneThread' /\ Apart'
    <3>1. g.pc \notin Running /\ g.pc \notin {"pushing", "pushed"}
      BY <2>8 DEF Running
    <3> QED
      BY <2>9, <3>1 DEF OneThread, Apart, Tasks
  <2>19. MissingMatchesVault' /\ PartialIsUnderway'
    BY <1>2, <2>6, <2>10, VaultKept
  <2>20. UndefinedHasACause'
    BY <2>3, <2>6 DEF UndefinedHasACause
  <2> QED
    BY <2>11, <2>12, <2>13, <2>14, <2>15, <2>16, <2>17, <2>18, <2>19, <2>20
       DEF StrategyInv
<1> QED
  BY <1>3, <1>4 DEF PollingReturns, Tasks

-----------------------------------------------------------------------------
(* revoke() *)

(* What becomes of the maps when the downloaders in gone are revoked. *)
Revokes(gone) ==
  /\ gone = {d \in DOMAIN m_peer_pool : ~task["R"].first /\ Revocable(d)}
  /\ gone \subseteq DOMAIN m_peer_pool /\ \A d \in gone : peer[d].conn = "ended"
  /\ DOMAIN m_peer_pool' = DOMAIN m_peer_pool \ gone
  /\ \A d \in DOMAIN m_peer_pool' : m_peer_pool'[d] = m_peer_pool[d]
  /\ m_active_connections' = m_active_connections \ {d[1] : d \in gone}
  /\ m_piece_downloaders' \in [Pieces -> Seq(Downloaders)]

(* The vectors of the pieces, after it. *)
VectorsRevoked(gone) ==
  \A q \in Pieces :
    /\ Len(m_piece_downloaders'[q]) <= Len(m_piece_downloaders[q])
    /\ \A e : InSeq(m_piece_downloaders'[q], e) <=>
         InSeq(m_piece_downloaders[q], e) /\ ~(e \in gone /\ InSeq(m_peer_pool[e], q))
    /\ \A i, j \in DOMAIN m_piece_downloaders'[q] :
         i # j => m_piece_downloaders'[q][i] # m_piece_downloaders'[q][j]
    /\ (\A e \in gone : InSeq(m_peer_pool[e], q) => ~InSeq(m_piece_downloaders[q], e)) =>
         m_piece_downloaders'[q] = m_piece_downloaders[q]

LEMMA RevokeFacts ==
  ASSUME StrategyTypeOK, AtMostTwo,
         \/ /\ task["R"].first
            /\ UNCHANGED <<m_piece_downloaders, m_peer_pool, m_active_connections>>
         \/ ~task["R"].first /\ revoke
  PROVE  \E gone : Revokes(gone) /\ VectorsRevoked(gone)
<1>1. CASE /\ task["R"].first
           /\ UNCHANGED <<m_piece_downloaders, m_peer_pool, m_active_connections>>
  <2>1. \A q \in Pieces : Len(m_piece_downloaders[q]) \in Nat
    BY DEF StrategyTypeOK
  <2>2. Revokes({})
    BY <1>1 DEF Revokes, StrategyTypeOK
  <2>3. VectorsRevoked({})
    BY <1>1, <2>1 DEF VectorsRevoked, AtMostTwo
  <2> QED
    BY <2>2, <2>3
<1>2. CASE ~task["R"].first /\ revoke
  <2>1. PICK gone : gone = {d \in DOMAIN m_peer_pool : Revocable(d)}
    OBVIOUS
  <2>2. /\ m_piece_downloaders' =
             [p \in Pieces |-> Without(m_piece_downloaders[p],
                                     {d \in gone : InSeq(m_peer_pool[d], p)})]
        /\ m_peer_pool' = [d \in DOMAIN m_peer_pool \ gone |-> m_peer_pool[d]]
        /\ m_active_connections' = m_active_connections \ {d[1] : d \in gone}
    BY <1>2, <2>1 DEF revoke
  <2>3. ASSUME NEW q \in Pieces
        PROVE  /\ m_piece_downloaders'[q] \in Seq(Downloaders)
               /\ Len(m_piece_downloaders'[q]) <= Len(m_piece_downloaders[q])
               /\ \A e : InSeq(m_piece_downloaders'[q], e) <=>
                    InSeq(m_piece_downloaders[q], e) /\ ~(e \in gone /\ InSeq(m_peer_pool[e], q))
               /\ \A i, j \in DOMAIN m_piece_downloaders'[q] :
                    i # j => m_piece_downloaders'[q][i] # m_piece_downloaders'[q][j]
               /\ (\A e \in gone : InSeq(m_peer_pool[e], q) => ~InSeq(m_piece_downloaders[q], e))
                    => m_piece_downloaders'[q] = m_piece_downloaders[q]
    <3>1. PICK s, S : s = m_piece_downloaders[q] /\ S = {d \in gone : InSeq(m_peer_pool[d], q)}
      OBVIOUS
    <3>2. m_piece_downloaders'[q] = Without(s, S)
      BY <2>2, <3>1
    <3>3. s \in Seq(Downloaders) /\ Len(s) <= 2 /\ \A i, j \in DOMAIN s : i # j => s[i] # s[j]
      BY <3>1 DEF StrategyTypeOK, AtMostTwo
    <3>4. /\ Without(s, S) \in Seq(Downloaders)
          /\ Len(Without(s, S)) <= Len(s)
          /\ \A e : InSeq(Without(s, S), e) <=> InSeq(s, e) /\ e \notin S
          /\ \A i, j \in DOMAIN Without(s, S) : i # j => Without(s, S)[i] # Without(s, S)[j]
          /\ (\A e \in S : ~InSeq(s, e)) => Without(s, S) = s
      BY <3>3, WithoutFacts
    <3>5. \A e : e \in S <=> e \in gone /\ InSeq(m_peer_pool[e], q)
      BY <3>1
    <3>6. (\A e \in gone : InSeq(m_peer_pool[e], q) => ~InSeq(m_piece_downloaders[q], e))
            => \A e \in S : ~InSeq(s, e)
      BY <3>1, <3>5
    <3> QED
      BY <3>1, <3>2, <3>4, <3>5, <3>6, Zenon
  <2>4. m_piece_downloaders' \in [Pieces -> Seq(Downloaders)]
    <3>1. m_piece_downloaders' = [q \in Pieces |-> m_piece_downloaders'[q]]
      BY <2>2
    <3> QED
      BY <2>3, <3>1
  <2>6. Revokes(gone)
    BY <1>2, <2>1, <2>2, <2>4 DEF Revokes, Revocable
  <2>7. VectorsRevoked(gone)
    BY <2>3 DEF VectorsRevoked
  <2> QED
    BY <2>6, <2>7
<1> QED
  BY <1>1, <1>2

(* An order of the missing pieces, gone through twice. *)
LEMMA ShuffledFacts ==
  ASSUME StrategyTypeOK, NEW s \in Shuffled
  PROVE  s \o s \in Seq(Pieces)
<1>1. IsFiniteSet(0..(PieceCount - 1))
  <2>1. 0 \in Int /\ PieceCount - 1 \in Int
    BY PieceRange
  <2> QED
    BY <2>1, FS_Interval
<1>2. m_missing_pieces \subseteq 0..(PieceCount - 1)
  BY DEF StrategyTypeOK, Pieces
<1>3. Cardinality(m_missing_pieces) \in Nat
  BY <1>1, <1>2, FS_Subset, FS_CardinalityType
<1>4. PICK n \in Nat : n = Cardinality(m_missing_pieces)
  BY <1>3
<1>5. s \in [1..n -> m_missing_pieces]
  BY <1>4 DEF Shuffled
<1>6. s \in Seq(Pieces)
  BY <1>5 DEF StrategyTypeOK
<1> QED
  BY <1>6

(* A downloader leaves the pool only as an ended one, with its pieces and  *)
(* its address; a suspended is_done() that was using it may find that out. *)
LEMMA ReactorWakesStep ==
  ASSUME StrategyInv, ReactorWakes
  PROVE  StrategyInv'
<1>0. PICK f : f = task["R"]
  OBVIOUS
<1>1. /\ StrategyTypeOK /\ TasksTypeOK /\ PeersTypeOK /\ FilesTypeOK /\ BudgetTypeOK
      /\ "R" \in Tasks /\ "T" \in Tasks /\ "T" # "R"
  BY TypeParts DEF StrategyInv, Tasks
<1>2. /\ f \in Frames /\ f.pc = "waiting" /\ Free
      /\ UNCHANGED <<m_missing_pieces, peer, files, torn, undefined, budget>>
  BY <1>0, <1>1 DEF ReactorWakes, TasksTypeOK
<1>3. AtMostTwo
  BY DEF StrategyInv
<1>4. PICK gone : Revokes(gone) /\ VectorsRevoked(gone)
  <2>1. \/ /\ task["R"].first
           /\ UNCHANGED <<m_piece_downloaders, m_peer_pool, m_active_connections>>
        \/ ~task["R"].first /\ revoke
    BY DEF ReactorWakes
  <2> QED
    BY <1>1, <1>3, <2>1, RevokeFacts
<1>22. PICK M \in SUBSET Downloaders : M = Withdrawn(task["T"])
  BY <1>1 DEF Withdrawn, StrategyTypeOK
<1>5. PICK s \in Shuffled :
        task' = [task EXCEPT !["R"].pc = "assigning", !["R"].todo = s \o s,
                             !["T"].moved = @ \cup M]
  BY <1>22 DEF ReactorWakes
<1>6. PICK g : g = [f EXCEPT !.pc = "assigning", !.todo = s \o s]
  OBVIOUS
<1>7. /\ g \in Frames /\ g.pc = "assigning" /\ g.completed = f.completed /\ g.freed = f.freed /\ g.moved = f.moved
  <2>1. PICK u \in Seq(Pieces) : u = s \o s
    BY <1>1, ShuffledFacts
  <2>2. "assigning" \in States /\ g = [f EXCEPT !.pc = "assigning", !.todo = u]
    BY <1>6, <2>1, PcIsState
  <2> QED
    BY <1>2, <2>2 DEF Frames
<1>8. /\ TasksTypeOK' /\ task'["R"] = g /\ SamePlace(task'["T"], task["T"])
      /\ task'["T"].moved = task["T"].moved \cup M
  <2>1. Leaves(g, M)
    BY <1>0, <1>1, <1>5, <1>6 DEF Leaves, TasksTypeOK, Tasks
  <2> QED
    BY <1>1, <1>7, <2>1, SetBoth
<1>9. /\ gone \subseteq DOMAIN m_peer_pool /\ \A d \in gone : peer[d].conn = "ended"
      /\ DOMAIN m_peer_pool' = DOMAIN m_peer_pool \ gone
      /\ \A d \in DOMAIN m_peer_pool' : m_peer_pool'[d] = m_peer_pool[d]
  BY <1>4 DEF Revokes
<1>10. TypeOK'
  <2>1. StrategyTypeOK'
    <3>1. m_piece_downloaders' \in [Pieces -> Seq(Downloaders)]
      BY <1>4 DEF Revokes
    <3>2. m_active_connections' \subseteq m_active_connections
      BY <1>4 DEF Revokes
    <3> QED
      BY <1>1, <1>2, <1>9, <3>1, <3>2 DEF StrategyTypeOK
  <2>2. (FilesTypeOK /\ PeersTypeOK /\ BudgetTypeOK)'
    BY <1>1, <1>2 DEF FilesTypeOK, PeersTypeOK, BudgetTypeOK
  <2> QED
    BY <1>8, <2>1, <2>2, TypePartsNext
<1>11. MadeInOrder' /\ NotMadeYet'
  <2>1. MadeInOrder /\ NotMadeYet /\ peer' = peer
    BY <1>2 DEF StrategyInv
  <2> QED
    BY <1>9, <2>1 DEF MadeInOrder, NotMadeYet
<1>12. PoolMatchesConnections'
  <2>1. PoolMatchesConnections
    BY DEF StrategyInv
  <2>2. m_active_connections' = m_active_connections \ {d[1] : d \in gone}
    BY <1>4 DEF Revokes
  <2>3. \A a : a \in m_active_connections' <=> \E d \in DOMAIN m_peer_pool' : a = d[1]
    BY <1>9, <2>1, <2>2 DEF PoolMatchesConnections
  <2>4. m_active_connections' = {d[1] : d \in DOMAIN m_peer_pool'}
    BY <2>3
  <2> QED
    BY <1>9, <2>1, <2>4 DEF PoolMatchesConnections
<1>13. AtMostTwo'
  <2>1. \A q \in Pieces : Len(m_piece_downloaders[q]) \in Nat /\ Len(m_piece_downloaders'[q]) \in Nat
    BY <1>1, <1>4 DEF StrategyTypeOK, Revokes
  <2> QED
    BY <1>3, <1>4, <1>9, <2>1 DEF AtMostTwo, VectorsRevoked
<1>14. \A q \in Pieces, e \in Downloaders :
         /\ InSeq(m_piece_downloaders'[q], e) => InSeq(m_piece_downloaders[q], e)
         /\ e \in DOMAIN m_peer_pool' =>
              (InSeq(m_piece_downloaders[q], e) => InSeq(m_piece_downloaders'[q], e))
         /\ e \in gone /\ InSeq(m_peer_pool[e], q) => ~InSeq(m_piece_downloaders'[q], e)
  BY <1>4, <1>9 DEF VectorsRevoked
<1>15. MapsAgreeOnMissing'
  <2>1. MapsAgreeOnMissing /\ m_missing_pieces \subseteq Pieces
    BY <1>1 DEF StrategyInv, StrategyTypeOK
  <2> QED
    BY <1>2, <1>9, <1>14, <2>1 DEF MapsAgreeOnMissing
<1>16. DownloadersOK'
  <2>1. DownloadersOK /\ peer' = peer
    BY <1>2 DEF StrategyInv
  <2> QED
    BY <1>9, <1>14, <2>1 DEF DownloadersOK, DownloaderOK, AssignedTo
<1>17. TaskOK("R")'
  <2>1. PollOK("R")
    BY <1>1 DEF StrategyInv, TaskOK
  <2>2. f.completed \cap m_missing_pieces = {} /\ ~f.freed /\ f.moved = {}
    BY <1>0, <1>2, <2>1 DEF PollOK, Stopped
  <2> QED
    BY <1>1, <1>2, <1>7, <1>8, <2>2, RestingTask
<1>18. TaskOK("T")'
  <2>1. TaskOK("T") /\ task["T"].pc \notin Running
    BY <1>1, <1>2 DEF StrategyInv, Free
  <2>2. PollOK("T") /\ MovedOK("T") /\ StoringOK("T") /\ AssigningOK("T")
    BY <2>1 DEF TaskOK
  <2>3. \A e : e \in M <=> /\ e \in gone
                           /\ UnderFoot(task["T"], {q \in Pieces :
                                /\ InSeq(m_peer_pool[e], q)
                                /\ InSeq(m_piece_downloaders[q], e)})
    BY <1>4, <1>22 DEF Withdrawn, Revokes
  <2>4. task["T"].pc \in Stopped =>
          task["T"].pc \in {"pushing", "repeating"} /\ task["T"].index \in Pieces
    BY <2>1, <2>2 DEF PollOK, Stopped, Running
  <2>5. task["T"].pc \in Stopped =>
          \A e \in gone : InSeq(m_peer_pool[e], task["T"].index)
            /\ InSeq(m_piece_downloaders[task["T"].index], e) => e \in M
    BY <2>3, <2>4 DEF UnderFoot
  <2>6. task["T"].pc \in Stopped =>
          \/ task["T"].freed
          \/ task'["T"].moved # {}
          \/ task["T"].end <= Len(m_piece_downloaders'[task["T"].index])
    <3> SUFFICES ASSUME task["T"].pc \in Stopped, ~task["T"].freed, task'["T"].moved = {}
                 PROVE  task["T"].end <= Len(m_piece_downloaders'[task["T"].index])
      OBVIOUS
    <3>1. M = {} /\ task["T"].moved = {}
      BY <1>8
    <3>2. m_piece_downloaders'[task["T"].index] = m_piece_downloaders[task["T"].index]
      BY <1>4, <2>4, <2>5, <3>1 DEF VectorsRevoked
    <3> QED
      BY <2>2, <3>1, <3>2 DEF PollOK
  <2>7. task'["T"].moved # {} => task["T"].pc \in Stopped
    BY <1>8, <2>2, <2>3 DEF PollOK, UnderFoot, Stopped
  <2>12. task["T"].moved \subseteq task'["T"].moved /\ task["T"].moved \subseteq Downloaders
    BY <1>1, <1>8 DEF TasksTypeOK, Frames
  <2>13. \A e \in task'["T"].moved :
           e \in gone \/ (e \notin DOMAIN m_peer_pool /\ peer[e].conn = "ended")
             => MemberRevoked(task["T"])'
    BY <1>2, <1>9 DEF MemberRevoked
  <2>14. MovedOK("T")'
    <3>1. CASE M # {}
      BY <1>8, <2>3, <2>13, <3>1 DEF MovedOK, Disturbed
    <3>2. CASE M = {} /\ task["T"].moved # {} /\ ~task["T"].freed
      <4>1. task'["T"].moved = task["T"].moved /\ task'["T"].index = task["T"].index
        BY <1>8, <3>2 DEF SamePlace
      <4>2. CASE MemberRevoked(task["T"])
        BY <2>13, <4>1, <4>2 DEF MemberRevoked, MovedOK, Disturbed
      <4>3. CASE MemberAdded(task["T"])
        <5>1. PICK e \in task["T"].moved :
                e \in DOMAIN m_peer_pool /\ InSeq(m_piece_downloaders[task["T"].index], e)
          BY <4>3 DEF MemberAdded
        <5>2. CASE e \in gone
          BY <2>13, <4>1, <5>2 DEF MovedOK, Disturbed
        <5>3. CASE e \notin gone
          <6>1. e \in DOMAIN m_peer_pool'
            BY <1>9, <5>1, <5>3
          <6>2. task["T"].index \in Pieces /\ e \in Downloaders
            BY <2>2, <2>12, <3>2 DEF PollOK
          <6>3. InSeq(m_piece_downloaders'[task["T"].index], e)
            BY <1>14, <5>1, <6>1, <6>2
          <6>4. MemberAdded(task["T"])'
            BY <4>1, <6>1, <6>3 DEF MemberAdded
          <6> QED
            BY <6>4 DEF MovedOK, Disturbed
        <5> QED
          BY <5>2, <5>3
      <4> QED
        BY <2>2, <3>2, <4>2, <4>3 DEF MovedOK, Disturbed
    <3>3. CASE M = {} /\ task["T"].moved = {}
      BY <1>8, <3>3 DEF MovedOK
    <3>4. CASE task["T"].freed
      BY <1>8, <3>4 DEF MovedOK, SamePlace
    <3> QED
      BY <3>1, <3>2, <3>3, <3>4
  <2>8. \A q \in Pieces, e \in Downloaders : Held(e, q) /\ e \notin gone => Held(e, q)'
    BY <1>2, <1>9, <1>14 DEF Held, AssignedTo
  <2>9. task["T"].pc = "pushing" =>
          \/ task["T"].freed
          \/ Dropped(task["T"])'
          \/ Held(task["T"].downloader, task["T"].index)'
    <3> SUFFICES ASSUME task["T"].pc = "pushing", ~task["T"].freed
                 PROVE  \/ Dropped(task["T"])'
                        \/ Held(task["T"].downloader, task["T"].index)'
      OBVIOUS
    <3>1. /\ task'["T"].downloader = task["T"].downloader
          /\ task'["T"].index = task["T"].index
      BY <1>8 DEF SamePlace
    <3>2. task["T"].index \in Pieces /\ task["T"].downloader \in Downloaders
      BY <2>2 DEF PollOK, Stopped
    <3>3. CASE Dropped(task["T"])
      BY <1>9, <2>12, <3>1, <3>3 DEF Dropped
    <3>4. CASE Held(task["T"].downloader, task["T"].index) /\ task["T"].downloader \in gone
      <4>1. task["T"].downloader \in M
        BY <2>5, <3>4 DEF Held, AssignedTo, Stopped
      <4> QED
        BY <1>8, <1>9, <3>1, <3>4, <4>1 DEF Dropped
    <3>5. CASE Held(task["T"].downloader, task["T"].index) /\ task["T"].downloader \notin gone
      BY <2>8, <3>1, <3>2, <3>5
    <3> QED
      BY <2>2, <3>3, <3>4, <3>5 DEF StoringOK
  <2>10. AssigningOK("T")'
    BY <1>1, <1>8, <2>2 DEF AssigningOK, SamePlace
  <2>11. FilesKept /\ m_missing_pieces' \subseteq m_missing_pieces /\ peer' = peer
    BY <1>2 DEF FilesKept
  <2> QED
    BY <1>1, <1>8, <2>1, <2>6, <2>7, <2>9, <2>10, <2>11, <2>12, <2>14, TaskStays
<1>19. OneThread' /\ Apart'
  <2>1. task["T"].pc \notin Running
    BY <1>2 DEF Free
  <2> QED
    BY <1>7, <1>8, <2>1 DEF OneThread, Apart, SamePlace
<1>20. MissingMatchesVault' /\ PartialIsUnderway'
  <2>1. \A x \in Tasks : task[x].pc \in {"pushing", "pushed"} =>
          task'[x].pc = task[x].pc /\ task'[x].index = task[x].index
    BY <1>0, <1>2, <1>8 DEF Tasks, SamePlace
  <2>2. files' = files /\ torn' = torn /\ m_missing_pieces' = m_missing_pieces
    BY <1>2
  <2> QED
    BY <2>1, <2>2, VaultKept
<1>21. UndefinedHasACause'
  BY <1>2 DEF Free, UndefinedHasACause
<1> QED
  BY <1>10, <1>11, <1>12, <1>13, <1>15, <1>16, <1>17, <1>18, <1>19, <1>20, <1>21
     DEF StrategyInv, Tasks

-----------------------------------------------------------------------------
(* include() *)

LEMMA MadeForFacts ==
  ASSUME NEW a \in Addresses, NEW k \in 0..MaxConnects,
         \A n \in 1..MaxConnects : peer[<<a, n>>].conn # "none" <=> n <= k
  PROVE  Cardinality(MadeFor(a)) = k
<1>1. MaxConnects \in Nat
  BY StrategyAssumption DEF StrategyAssumption
<1>2. MadeFor(a) = 1..k
  BY <1>1 DEF MadeFor
<1>3. Cardinality(1..k) = IF 1 > k THEN 0 ELSE k - 1 + 1
  <2>1. 1 \in Int /\ k \in Int
    BY <1>1
  <2> QED
    BY <2>1, FS_Interval
<1> QED
  BY <1>1, <1>2, <1>3

(* The downloaders that include() makes are new ones, one for each address *)
(* that had none.                                                          *)
Makes(fresh, swarm) ==
  /\ \A d \in fresh :
       d \in Downloaders /\ d[1] \in swarm /\ d[1] \notin m_active_connections
         /\ peer[d].conn = "none"
  /\ \A a \in swarm : a \notin m_active_connections => \E d \in fresh : d[1] = a
  /\ \A d, e \in fresh : d[1] = e[1] => d = e
  /\ m_active_connections' = m_active_connections \cup swarm
  /\ DOMAIN m_peer_pool' = DOMAIN m_peer_pool \cup fresh
  /\ \A d \in fresh : m_peer_pool'[d] = <<>>
  /\ \A d \in DOMAIN m_peer_pool : d \notin fresh => m_peer_pool'[d] = m_peer_pool[d]
  /\ \A d \in Downloaders : d \notin fresh => peer'[d] = peer[d]
  /\ \A d \in fresh : peer'[d].conn = "connecting" /\ peer'[d].got = peer[d].got

LEMMA IncludeFacts ==
  ASSUME PeersTypeOK, MadeInOrder, NotMadeYet, NEW swarm \in SUBSET Addresses, include(swarm)
  PROVE  /\ \E fresh : Makes(fresh, swarm)
         /\ PeersTypeOK' /\ MadeInOrder'
<1>1. PICK fresh : fresh = {<<a, Cardinality(MadeFor(a)) + 1>> : a \in NewContacts(swarm)}
  OBVIOUS
<1>2. /\ \A a \in NewContacts(swarm) : Cardinality(MadeFor(a)) < MaxConnects
      /\ m_active_connections' = m_active_connections \cup swarm
      /\ m_peer_pool' = [d \in DOMAIN m_peer_pool \cup fresh |->
                           IF d \in fresh THEN <<>> ELSE m_peer_pool[d]]
      /\ peer' = [d \in Downloaders |->
                    IF d \in fresh THEN [NoPeer EXCEPT !.conn = "connecting"]
                                   ELSE peer[d]]
  BY <1>1 DEF include
<1>3. MaxConnects \in Nat
  BY StrategyAssumption DEF StrategyAssumption
<1>4. ASSUME NEW a \in NewContacts(swarm)
      PROVE  \E k \in 0..MaxConnects :
               /\ Cardinality(MadeFor(a)) = k /\ k + 1 \in 1..MaxConnects
               /\ \A n \in 1..MaxConnects : peer[<<a, n>>].conn # "none" <=> n <= k
  <2>1. a \in Addresses
    BY DEF NewContacts
  <2>2. PICK k \in 0..MaxConnects :
          \A n \in 1..MaxConnects : peer[<<a, n>>].conn # "none" <=> n <= k
    BY <2>1 DEF MadeInOrder
  <2>3. Cardinality(MadeFor(a)) = k
    BY <2>1, <2>2, MadeForFacts
  <2>4. k < MaxConnects
    BY <1>2, <2>3
  <2> QED
    BY <1>3, <2>2, <2>3, <2>4
<1>5. ASSUME NEW d \in fresh
      PROVE  /\ d \in Downloaders /\ d[1] \in NewContacts(swarm) /\ peer[d].conn = "none"
             /\ d = <<d[1], Cardinality(MadeFor(d[1])) + 1>>
  <2>1. PICK a \in NewContacts(swarm) : d = <<a, Cardinality(MadeFor(a)) + 1>>
    BY <1>1
  <2>2. PICK k \in 0..MaxConnects :
          /\ Cardinality(MadeFor(a)) = k /\ k + 1 \in 1..MaxConnects
          /\ \A n \in 1..MaxConnects : peer[<<a, n>>].conn # "none" <=> n <= k
    BY <1>4
  <2>3. d = <<a, k + 1>> /\ d[1] = a /\ a \in Addresses
    BY <2>1, <2>2 DEF NewContacts
  <2>4. d \in Downloaders
    BY <2>2, <2>3 DEF Downloaders
  <2>5. ~(k + 1 <= k)
    BY <2>2
  <2>6. peer[d].conn = "none"
    BY <2>2, <2>3, <2>5
  <2> QED
    BY <2>1, <2>3, <2>4, <2>6
<1>6. \A a \in NewContacts(swarm) : <<a, Cardinality(MadeFor(a)) + 1>> \in fresh
  BY <1>1
<1>7. \A d \in fresh : peer[d] = NoPeer
  BY <1>5 DEF NotMadeYet
<1>8. /\ [NoPeer EXCEPT !.conn = "connecting"] \in PeerRecords
      /\ [NoPeer EXCEPT !.conn = "connecting"].conn = "connecting"
      /\ [NoPeer EXCEPT !.conn = "connecting"].got = NoPeer.got
  BY DEF NoPeer, PeerRecords
<1>9. PICK new : new = [NoPeer EXCEPT !.conn = "connecting"]
  OBVIOUS
<1>10. /\ \A d \in fresh : peer'[d] = new
       /\ \A d \in Downloaders : d \notin fresh => peer'[d] = peer[d]
       /\ peer' = [d \in Downloaders |-> IF d \in fresh THEN new ELSE peer[d]]
  BY <1>2, <1>5, <1>9
<1>11. Makes(fresh, swarm)
  <2>1. /\ DOMAIN m_peer_pool' = DOMAIN m_peer_pool \cup fresh
        /\ \A d \in fresh : m_peer_pool'[d] = <<>>
        /\ \A d \in DOMAIN m_peer_pool : d \notin fresh => m_peer_pool'[d] = m_peer_pool[d]
    BY <1>2
  <2>2. \A d \in fresh : peer'[d].conn = "connecting" /\ peer'[d].got = peer[d].got
    BY <1>7, <1>8, <1>9, <1>10
  <2>3. \A d, e \in fresh : d[1] = e[1] => d = e
    BY <1>5, Zenon
  <2>4. \A d \in fresh :
          d \in Downloaders /\ d[1] \in swarm /\ d[1] \notin m_active_connections
            /\ peer[d].conn = "none"
    BY <1>5 DEF NewContacts
  <2>5. \A a \in swarm : a \notin m_active_connections => \E d \in fresh : d[1] = a
    <3>1. \A a, k : <<a, k>>[1] = a
      OBVIOUS
    <3> QED
      BY <1>6, <3>1 DEF NewContacts
  <2> QED
    BY <1>2, <1>10, <2>1, <2>2, <2>3, <2>4, <2>5 DEF Makes
<1>12. PeersTypeOK'
  <2>1. new \in PeerRecords
    BY <1>8, <1>9
  <2> QED
    BY <1>10, <2>1 DEF PeersTypeOK
<1>13. MadeInOrder'
  <2> SUFFICES ASSUME NEW a \in Addresses
               PROVE  \E k \in 0..MaxConnects : \A n \in 1..MaxConnects :
                        peer'[<<a, n>>].conn # "none" <=> n <= k
    BY DEF MadeInOrder
  <2>1. \A n \in 1..MaxConnects : <<a, n>> \in Downloaders
    BY DEF Downloaders
  <2>2. new.conn # "none"
    BY <1>8, <1>9
  <2>3. CASE a \in NewContacts(swarm)
    <3>1. PICK k \in 0..MaxConnects :
            /\ Cardinality(MadeFor(a)) = k /\ k + 1 \in 1..MaxConnects
            /\ \A n \in 1..MaxConnects : peer[<<a, n>>].conn # "none" <=> n <= k
      BY <1>4, <2>3
    <3>2. \A n \in 1..MaxConnects : <<a, n>> \in fresh <=> n = k + 1
      <4>1. <<a, k + 1>> \in fresh
        BY <1>6, <2>3, <3>1
      <4>2. ASSUME NEW n \in 1..MaxConnects, <<a, n>> \in fresh PROVE n = k + 1
        <5>1. <<a, n>> = <<a, Cardinality(MadeFor(a)) + 1>>
          <6>1. <<a, n>>[1] = a
            OBVIOUS
          <6> QED
            BY <1>5, <4>2, <6>1, Zenon
        <5> QED
          BY <3>1, <5>1
      <4> QED
        BY <4>1, <4>2
    <3>3. \A n \in 1..MaxConnects : peer'[<<a, n>>].conn # "none" <=> n <= k + 1
      <4> SUFFICES ASSUME NEW n \in 1..MaxConnects
                   PROVE  peer'[<<a, n>>].conn # "none" <=> n <= k + 1
        OBVIOUS
      <4>1. CASE n = k + 1
        <5>1. peer'[<<a, n>>] = new
          BY <1>10, <3>2, <4>1
        <5>2. n <= k + 1
          BY <1>3, <4>1
        <5> QED
          BY <2>2, <5>1, <5>2
      <4>2. CASE n # k + 1
        <5>1. peer'[<<a, n>>] = peer[<<a, n>>]
          BY <1>10, <2>1, <3>2, <4>2
        <5>2. n <= k <=> n <= k + 1
          BY <1>3, <4>2
        <5> QED
          BY <3>1, <5>1, <5>2
      <4> QED
        BY <4>1, <4>2
    <3>4. k + 1 \in 0..MaxConnects
      BY <1>3, <3>1
    <3> QED
      BY <3>3, <3>4
  <2>4. CASE a \notin NewContacts(swarm)
    <3>1. \A n \in 1..MaxConnects : <<a, n>> \notin fresh
      <4>1. \A n \in 1..MaxConnects : <<a, n>>[1] = a
        OBVIOUS
      <4> QED
        BY <1>5, <2>4, <4>1
    <3>2. \A n \in 1..MaxConnects : peer'[<<a, n>>] = peer[<<a, n>>]
      BY <1>10, <2>1, <3>1
    <3> QED
      BY <3>2 DEF MadeInOrder
  <2> QED
    BY <2>3, <2>4
<1> QED
  BY <1>11, <1>12, <1>13

(* New connections disturb neither the maps nor a suspended R. *)
LEMMA TrackerWakesStep ==
  ASSUME StrategyInv, NEW swarm \in SUBSET Addresses, TrackerWakes(swarm)
  PROVE  StrategyInv'
<1>1. /\ StrategyTypeOK /\ TasksTypeOK /\ PeersTypeOK /\ FilesTypeOK /\ BudgetTypeOK
      /\ "R" \in Tasks /\ "T" \in Tasks /\ "T" # "R"
  BY TypeParts DEF StrategyInv, Tasks
<1>2. PICK f, g : f = task["T"] /\ g = StartPolling(f, m_piece_downloaders)
  OBVIOUS
<1>3. /\ f \in Frames /\ f.pc = "waiting" /\ Free /\ include(swarm) /\ Becomes("T", g)
      /\ UNCHANGED <<m_missing_pieces, m_piece_downloaders, files, torn, undefined, budget>>
  BY <1>1, <1>2 DEF TrackerWakes, TasksTypeOK, Becomes
<1>4. MadeInOrder /\ NotMadeYet /\ DownloadersOK /\ AtMostTwo
  BY DEF StrategyInv
<1>5. /\ \E fresh : Makes(fresh, swarm)
      /\ PeersTypeOK' /\ MadeInOrder'
  BY <1>1, <1>3, <1>4, IncludeFacts
<1>6. PICK fresh : Makes(fresh, swarm)
  BY <1>5
<1>7. /\ \A d \in fresh : d \in Downloaders /\ peer[d].conn = "none"
      /\ DOMAIN m_peer_pool' = DOMAIN m_peer_pool \cup fresh
      /\ \A d \in fresh : m_peer_pool'[d] = <<>>
      /\ \A d \in Downloaders : d \notin fresh => peer'[d] = peer[d]
      /\ \A d \in fresh : peer'[d].conn = "connecting"
  BY <1>6 DEF Makes
<1>8. /\ \A d \in fresh : d \notin DOMAIN m_peer_pool
      /\ \A d \in DOMAIN m_peer_pool : m_peer_pool'[d] = m_peer_pool[d] /\ d \notin fresh
      /\ \A q \in Pieces, d \in fresh : ~InSeq(m_piece_downloaders[q], d)
  <2>1. \A d \in fresh : d \notin DOMAIN m_peer_pool
    BY <1>4, <1>7 DEF NotMadeYet
  <2>2. \A d \in DOMAIN m_peer_pool : m_peer_pool'[d] = m_peer_pool[d]
    BY <1>6, <2>1 DEF Makes
  <2>3. \A q \in Pieces, d \in fresh : ~InSeq(m_piece_downloaders[q], d)
    BY <1>4, <1>7 DEF DownloadersOK, DownloaderOK
  <2> QED
    BY <2>1, <2>2, <2>3
<1>9. /\ g \in Frames /\ g.pc = "polling" /\ g.index = 0 /\ g.pos = 1
      /\ g.end = Len(m_piece_downloaders[0]) /\ g.completed = {} /\ ~g.freed /\ g.moved = {}
  BY <1>1, <1>2, <1>3, StartPollingFields
<1>10. TasksTypeOK' /\ task'["T"] = g /\ task'["R"] = task["R"]
  BY <1>1, <1>3, <1>9, SetTask
<1>11. TypeOK'
  <2>1. StrategyTypeOK'
    <3>1. DOMAIN m_peer_pool' \subseteq Downloaders
      BY <1>1, <1>7 DEF StrategyTypeOK
    <3>2. ASSUME NEW d \in DOMAIN m_peer_pool' PROVE m_peer_pool'[d] \in Seq(Pieces)
      <4>1. CASE d \in fresh
        <5>1. <<>> \in Seq(Pieces)
          OBVIOUS
        <5> QED
          BY <1>7, <4>1, <5>1
      <4>2. CASE d \notin fresh
        BY <1>1, <1>7, <1>8, <4>2 DEF StrategyTypeOK
      <4> QED
        BY <4>1, <4>2
    <3>3. m_active_connections' \subseteq Addresses
      BY <1>1, <1>6 DEF Makes, StrategyTypeOK
    <3> QED
      BY <1>1, <1>3, <3>1, <3>2, <3>3 DEF StrategyTypeOK
  <2>2. FilesTypeOK' /\ BudgetTypeOK'
    BY <1>1, <1>3 DEF FilesTypeOK, BudgetTypeOK
  <2> QED
    BY <1>5, <1>10, <2>1, <2>2, TypePartsNext
<1>12. NotMadeYet'
  BY <1>4, <1>7 DEF NotMadeYet
<1>13. PoolMatchesConnections'
  <2>1. PoolMatchesConnections
    BY DEF StrategyInv
  <2>2. /\ \A d \in fresh : d[1] \in swarm /\ d[1] \notin m_active_connections
        /\ \A a \in swarm : a \notin m_active_connections => \E d \in fresh : d[1] = a
        /\ \A d, e \in fresh : d[1] = e[1] => d = e
        /\ m_active_connections' = m_active_connections \cup swarm
    BY <1>6 DEF Makes
  <2>3. \A a : a \in m_active_connections' <=> \E d \in DOMAIN m_peer_pool' : a = d[1]
    BY <1>7, <2>1, <2>2 DEF PoolMatchesConnections
  <2>4. m_active_connections' = {d[1] : d \in DOMAIN m_peer_pool'}
    BY <2>3
  <2>5. \A d \in DOMAIN m_peer_pool : d[1] \in m_active_connections
    BY <2>1 DEF PoolMatchesConnections
  <2>6. \A d, e \in DOMAIN m_peer_pool' : d[1] = e[1] => d = e
    BY <1>7, <2>1, <2>2, <2>5 DEF PoolMatchesConnections
  <2> QED
    BY <2>4, <2>6 DEF PoolMatchesConnections
<1>14. AtMostTwo'
  <2>1. Len(<<>>) <= 2
    OBVIOUS
  <2> QED
    BY <1>3, <1>4, <1>7, <1>8, <2>1 DEF AtMostTwo
<1>15. \A q \in Pieces, d \in Downloaders :
         /\ d \in DOMAIN m_peer_pool => (InSeq(m_peer_pool'[d], q) <=> InSeq(m_peer_pool[d], q))
         /\ d \in fresh => ~InSeq(m_peer_pool'[d], q)
  BY <1>7, <1>8, EmptyVector
<1>16. MapsAgreeOnMissing'
  <2>1. MapsAgreeOnMissing /\ m_missing_pieces \subseteq Pieces
    BY <1>1 DEF StrategyInv, StrategyTypeOK
  <2> QED
    BY <1>3, <1>7, <1>8, <1>15, <2>1 DEF MapsAgreeOnMissing
<1>17. DownloadersOK'
  BY <1>3, <1>4, <1>7, <1>8, <1>15 DEF DownloadersOK, DownloaderOK, AssignedTo
<1>18. TaskOK("T")'
  <2>1. Len(m_piece_downloaders[0]) \in Nat
    BY <1>1, PieceRange DEF StrategyTypeOK
  <2> QED
    BY <1>1, <1>3, <1>9, <1>10, <2>1, PollingTask
<1>19. TaskOK("R")'
  <2>1. TaskOK("R") /\ task["R"].pc \notin Running
    BY <1>1, <1>3 DEF StrategyInv, Free
  <2>2. PollOK("R") /\ MovedOK("R") /\ StoringOK("R") /\ AssigningOK("R")
    BY <2>1 DEF TaskOK
  <2>3. task["R"].moved = {} /\ MovedOK("R")'
    BY <1>1, <1>10, <2>2 DEF MovedOK
  <2>4. task["R"].pc \in Stopped =>
          \/ task["R"].freed
          \/ task'["R"].moved # {}
          \/ task["R"].end <= Len(m_piece_downloaders'[task["R"].index])
    BY <1>3, <2>2, <2>3 DEF PollOK
  <2>5. task["R"].pc = "pushing" =>
          task["R"].index \in Pieces /\ task["R"].downloader \in Downloaders
    BY <2>2 DEF PollOK, Stopped
  <2>6. \A q \in Pieces, e \in Downloaders : Held(e, q) => Held(e, q)'
    BY <1>3, <1>7, <1>8 DEF Held, AssignedTo
  <2>7. task["R"].pc = "pushing" =>
          \/ task["R"].freed
          \/ Dropped(task["R"])'
          \/ Held(task["R"].downloader, task["R"].index)'
    BY <1>10, <2>2, <2>3, <2>5, <2>6 DEF StoringOK, Dropped
  <2>8. AssigningOK("R")'
    BY <1>3, <1>7, <1>8, <1>10, <2>2 DEF AssigningOK
  <2>9. /\ FilesKept /\ m_missing_pieces' \subseteq m_missing_pieces
        /\ \A d \in Downloaders : peer[d].conn # "none" => peer'[d].conn # "none"
    BY <1>3, <1>7 DEF FilesKept
  <2>10. SamePlace(task'["R"], task["R"]) /\ task["R"].moved \subseteq task'["R"].moved
         /\ task'["R"].moved = {}
    BY <1>10, <2>3 DEF SamePlace
  <2> QED
    BY <1>1, <1>10, <2>1, <2>3, <2>4, <2>7, <2>8, <2>9, <2>10, TaskStays
<1>20. OneThread' /\ Apart'
  <2>1. task["R"].pc \notin Running
    BY <1>3 DEF Free
  <2> QED
    BY <1>9, <1>10, <2>1 DEF OneThread, Apart
<1>21. MissingMatchesVault' /\ PartialIsUnderway'
  <2>1. \A x \in Tasks : task[x].pc \in {"pushing", "pushed"} => task'[x] = task[x]
    BY <1>2, <1>3, <1>10 DEF Tasks
  <2>2. files' = files /\ torn' = torn /\ m_missing_pieces' = m_missing_pieces
    BY <1>3
  <2> QED
    BY <2>1, <2>2, VaultKept
<1>22. UndefinedHasACause'
  BY <1>3 DEF Free, UndefinedHasACause
<1> QED
  BY <1>5, <1>11, <1>12, <1>13, <1>14, <1>16, <1>17, <1>18, <1>19, <1>20, <1>21, <1>22
     DEF StrategyInv, Tasks

-----------------------------------------------------------------------------
(* The first start, and the start after a crash *)

Fresh ==
  /\ m_missing_pieces = {p \in Pieces : ~exists(files, p)}
  /\ m_piece_downloaders = [p \in Pieces |-> <<>>]
  /\ DOMAIN m_peer_pool = {}
  /\ m_active_connections = {}
  /\ peer = [d \in Downloaders |-> NoPeer]
  /\ task = [x \in Tasks |->
               IF x = "R" THEN Frame("waiting", TRUE) ELSE Frame("polling", FALSE)]
  /\ \A p \in Pieces : files[p] = "partial" => p \in torn
  /\ ~undefined
  /\ FilesTypeOK /\ BudgetTypeOK

LEMMA FreshIsOK ==
  ASSUME Fresh
  PROVE  StrategyInv
<1>1. /\ \A q \in Pieces : m_piece_downloaders[q] = <<>>
      /\ \A d \in Downloaders : peer[d] = NoPeer /\ peer[d].conn = "none"
      /\ DOMAIN m_peer_pool = {}
  BY DEF Fresh, NoPeer
<1>2. /\ task["R"] \in Frames /\ task["R"].pc = "waiting"
      /\ task["T"] \in Frames /\ task["T"].pc = "polling" /\ task["T"].pos = 1
      /\ task["T"].end = 0 /\ task["T"].index = 0
      /\ \A x \in Tasks : task[x].completed = {} /\ ~task[x].freed /\ task[x].moved = {}
      /\ DOMAIN task = Tasks
  <2>1. "waiting" \in States /\ "polling" \in States /\ TRUE \in BOOLEAN /\ FALSE \in BOOLEAN
    BY PcIsState
  <2>2. /\ task["R"] = Frame("waiting", TRUE) /\ task["T"] = Frame("polling", FALSE)
        /\ DOMAIN task = Tasks
    BY DEF Fresh, Tasks
  <2>3. /\ Frame("waiting", TRUE) \in Frames /\ Frame("waiting", TRUE).pc = "waiting"
        /\ Frame("waiting", TRUE).completed = {} /\ ~Frame("waiting", TRUE).freed
        /\ Frame("waiting", TRUE).moved = {}
    BY <2>1, FrameFields, Zenon
  <2>4. /\ Frame("polling", FALSE) \in Frames /\ Frame("polling", FALSE).pc = "polling"
        /\ Frame("polling", FALSE).completed = {} /\ ~Frame("polling", FALSE).freed
        /\ Frame("polling", FALSE).moved = {}
        /\ Frame("polling", FALSE).end = 0 /\ Frame("polling", FALSE).pos = 1
        /\ Frame("polling", FALSE).index = 0
    BY <2>1, FrameFields, Zenon
  <2> QED
    BY <2>2, <2>3, <2>4, Zenon DEF Tasks
<1>3. TypeOK
  <2>1. StrategyTypeOK
    <3>1. m_piece_downloaders \in [Pieces -> Seq(Downloaders)]
      BY DEF Fresh
    <3> QED
      BY <3>1 DEF Fresh, StrategyTypeOK
  <2>2. PeersTypeOK
    <3>1. NoPeer \in PeerRecords
      BY DEF NoPeer, PeerRecords
    <3> QED
      BY <3>1 DEF Fresh, PeersTypeOK
  <2>3. TasksTypeOK
    BY <1>2 DEF TasksTypeOK, Tasks
  <2> QED
    BY <2>1, <2>2, <2>3, TypeParts DEF Fresh
<1>4. MadeInOrder
  <2>1. MaxConnects \in Nat
    BY StrategyAssumption DEF StrategyAssumption
  <2>2. \A a \in Addresses, n \in 1..MaxConnects : <<a, n>> \in Downloaders
    BY DEF Downloaders
  <2>3. 0 \in 0..MaxConnects /\ \A n \in 1..MaxConnects : ~(n <= 0)
    BY <2>1
  <2> QED
    BY <1>1, <2>2, <2>3 DEF MadeInOrder
<1>5. NotMadeYet /\ PoolMatchesConnections
  BY <1>1 DEF Fresh, NotMadeYet, PoolMatchesConnections
<1>6. AtMostTwo /\ MapsAgreeOnMissing /\ DownloadersOK
  <2>1. Len(<<>>) <= 2
    OBVIOUS
  <2>2. m_missing_pieces \subseteq Pieces
    BY DEF Fresh
  <2>3. \A d : \A q \in Pieces : ~InSeq(m_piece_downloaders[q], d)
    BY <1>1, EmptyVector
  <2>4. \A q \in Pieces : Len(m_piece_downloaders[q]) <= 2 /\ DOMAIN m_piece_downloaders[q] = {}
    BY <1>1, <2>1, EmptyVector
  <2>5. AtMostTwo
    BY <1>1, <2>4 DEF AtMostTwo
  <2>6. MapsAgreeOnMissing /\ DownloadersOK
    BY <1>1, <2>2, <2>3 DEF MapsAgreeOnMissing, DownloadersOK, DownloaderOK
  <2> QED
    BY <2>5, <2>6
<1>7. TaskOK("R")
  BY <1>2 DEF TaskOK, PollOK, MovedOK, StoringOK, AssigningOK, MergingOK, Stopped, Tasks
<1>8. TaskOK("T")
  <2>1. task["T"].end <= Len(m_piece_downloaders[0])
    BY <1>1, <1>2, PieceRange
  <2> QED
    BY <1>2, <2>1 DEF TaskOK, PollOK, MovedOK, StoringOK, AssigningOK, MergingOK, Stopped, Tasks
<1>9. OneThread /\ Apart
  BY <1>2 DEF OneThread, Apart, Running
<1>10. MissingMatchesVault /\ PartialIsUnderway
  BY DEF Fresh, MissingMatchesVault, PartialIsUnderway, exists
<1>11. UndefinedHasACause
  BY DEF Fresh, UndefinedHasACause
<1> QED
  BY <1>3, <1>4, <1>5, <1>6, <1>7, <1>8, <1>9, <1>10, <1>11 DEF StrategyInv, Tasks

LEMMA FreshIsOKNext == Fresh' => StrategyInv'
<1>1. Fresh => StrategyInv
  BY FreshIsOK
<1> QED
  BY <1>1, PTL

LEMMA StrategyInit == Init => Fresh
<1> SUFFICES ASSUME Init PROVE Fresh
  OBVIOUS
<1>1. /\ MaxLosses \in 0..MaxLosses /\ MaxCorrupt \in 0..MaxCorrupt
      /\ MaxFaults \in 0..MaxFaults
  BY StrategyAssumption DEF StrategyAssumption
<1>2. FilesTypeOK /\ BudgetTypeOK
  BY <1>1 DEF Init, FilesTypeOK, BudgetTypeOK
<1>3. m_missing_pieces = {p \in Pieces : ~exists(files, p)} /\ DOMAIN m_peer_pool = {}
  BY DEF Init, exists
<1> QED
  BY <1>2, <1>3 DEF Init, Fresh, Tasks

LEMMA CrashStep ==
  ASSUME StrategyInv, Crash
  PROVE  StrategyInv'
<1>1. FilesTypeOK /\ BudgetTypeOK
  BY TypeParts DEF StrategyInv
<1>2. FilesTypeOK'
  BY <1>1 DEF Crash, FilesTypeOK
<1>3. BudgetTypeOK'
  <2>1. budget.faults \in 0..MaxFaults /\ MaxFaults \in Nat /\ budget.faults > 0
    BY <1>1, StrategyAssumption DEF BudgetTypeOK, StrategyAssumption, Crash
  <2>2. budget.faults - 1 \in 0..MaxFaults
    BY <2>1
  <2>3. PICK n \in 0..MaxFaults : n = budget.faults - 1
    BY <2>2
  <2>4. budget' = [budget EXCEPT !.faults = n]
    BY <2>3 DEF Crash
  <2>5. budget' \in [losses : 0..MaxLosses, corrupt : 0..MaxCorrupt, faults : 0..MaxFaults]
    BY <1>1, <2>4 DEF BudgetTypeOK
  <2> QED
    BY <1>1, <2>5 DEF BudgetTypeOK, Crash
<1>4. Fresh'
  <2>1. DOMAIN m_peer_pool' = {}
    BY DEF Crash, Start
  <2>2. m_missing_pieces' = {p \in Pieces : ~exists(files', p)}
    BY DEF Crash, Start
  <2>3. /\ \A p \in Pieces : files'[p] = "partial" => p \in torn'
        /\ ~undefined'
    BY DEF Crash, Free
  <2> QED
    BY <1>2, <1>3, <2>1, <2>2, <2>3 DEF Fresh, Crash, Start, Tasks
<1> QED
  BY <1>4, FreshIsOKNext

-----------------------------------------------------------------------------
(* The invariant holds *)

LEMMA StutterStep ==
  ASSUME StrategyInv, UNCHANGED vars
  PROVE  StrategyInv'
<1>1. UNCHANGED <<m_missing_pieces, m_piece_downloaders, m_peer_pool, m_active_connections,
                  peer, files, task, torn, undefined, budget>>
  BY DEF vars, strategyVars
<1>2. TypeOK'
  <2>1. StrategyTypeOK /\ FilesTypeOK /\ TasksTypeOK /\ PeersTypeOK /\ BudgetTypeOK
    BY TypeParts DEF StrategyInv
  <2>2. (StrategyTypeOK /\ FilesTypeOK /\ TasksTypeOK /\ PeersTypeOK /\ BudgetTypeOK)'
    BY <1>1, <2>1 DEF StrategyTypeOK, FilesTypeOK, TasksTypeOK, PeersTypeOK, BudgetTypeOK
  <2> QED
    BY <2>2, TypePartsNext
<1>3. (PoolMatchesConnections /\ AtMostTwo /\ MapsAgreeOnMissing)'
  BY <1>1 DEF StrategyInv, PoolMatchesConnections, AtMostTwo, MapsAgreeOnMissing
<1>4. (MadeInOrder /\ NotMadeYet /\ DownloadersOK)'
  BY <1>1 DEF StrategyInv, MadeInOrder, NotMadeYet, DownloadersOK, DownloaderOK,
     AssignedTo
<1>5. \A y \in Tasks : TaskOK(y)'
  <2>1. PeersKept /\ FilesKept /\ UNCHANGED strategyVars
    BY <1>1 DEF PeersKept, FilesKept, strategyVars
  <2> QED
    BY <1>1, <2>1, TaskKept
<1>6. (OneThread /\ Apart /\ MissingMatchesVault /\ PartialIsUnderway)'
  BY <1>1 DEF StrategyInv, OneThread, Apart, MissingMatchesVault, PartialIsUnderway, Storing
<1>7. UndefinedHasACause'
  BY <1>1 DEF StrategyInv, UndefinedHasACause, EntryErased, MemberRevoked, MemberAdded
<1> QED
  BY <1>2, <1>3, <1>4, <1>5, <1>6, <1>7 DEF StrategyInv

LEMMA StrategyNext ==
  ASSUME StrategyInv, Next
  PROVE  StrategyInv'
<1>1. ASSUME NEW x \in Tasks,
             Poll(x) \/ WriteDone(x) \/ WriteThrows(x) \/ Repeated(x) \/ DownloadThrows(x)
      PROVE  StrategyInv'
  BY <1>1, PollNothingStep, PollCompleteStep, PollCorruptStep, PieceStoredStep,
     PollingReturnsStep, WriteStep, RepeatedStep, DownloadThrowsStep DEF Poll
<1>2. ASSUME NEW swarm \in SUBSET Addresses, TrackerWakes(swarm) PROVE StrategyInv'
  BY <1>2, TrackerWakesStep
<1>3. CASE ReactorWakes \/ AssignTurn \/ Assigned \/ AssignReturns
  BY <1>3, ReactorWakesStep, AssignTurnStep, AssignedStep, AssignReturnsStep
<1>4. CASE MergePiece \/ Network \/ Crash
  BY <1>4, MergeStep, NetworkStep, CrashStep
<1> QED
  BY <1>1, <1>2, <1>3, <1>4 DEF Next, Tasks

(* Every state of the strategy, of the two loops of Reactor::download that *)
(* share it and of the vault, through losses, corrupt pieces, failed       *)
(* writes and crashes, satisfies the invariant (strategy.hpp, reactor.hpp, *)
(* storage.cpp).                                                           *)
THEOREM StrategyInvariant == Spec => []StrategyInv
<1>1. Init => StrategyInv
  BY StrategyInit, FreshIsOK
<1>2. StrategyInv /\ [Next]_vars => StrategyInv'
  BY StrategyNext, StutterStep
<1> QED
  BY <1>1, <1>2, PTL DEF Spec

(* The members of the strategy, the files, the frames and the Downloaders  *)
(* keep their types (strategy.hpp:33-41).                                  *)
THEOREM StrategyTypes == Spec => []TypeOK
<1>1. StrategyInv => TypeOK
  BY DEF StrategyInv
<1> QED
  BY <1>1, StrategyInvariant, PTL

(* The set of missing pieces and the vault never disagree, whichever of    *)
(* the two coroutines stores a piece and whenever the process dies         *)
(* (strategy.hpp:48-52, 143-152).                                          *)
THEOREM MissingPiecesMatchTheVault == Spec => []MissingMatchesVault
<1>1. StrategyInv => MissingMatchesVault
  BY DEF StrategyInv
<1> QED
  BY <1>1, StrategyInvariant, PTL

(* The merge meets a file that is not whole only where the tracker loop is *)
(* still writing it or a crash or a failed write tore it                   *)
(* (storage.cpp:24-26, reactor.hpp:111-115).                               *)
THEOREM TheMergeReadsWholeFiles == Spec => []MergeReadsWholeFiles
<1>1. StrategyInv => MergeReadsWholeFiles
  <2> SUFFICES ASSUME StrategyInv, task["R"].pc = "merging", NEW p \in Pieces,
                      files[p] # "whole", p \notin torn
               PROVE  task["T"].pc = "pushing" /\ task["T"].index = p
    BY DEF MergeReadsWholeFiles
  <2>1. m_missing_pieces = {}
    BY DEF StrategyInv, TaskOK, MergingOK, Tasks
  <2>2. files[p] \in {"absent", "partial", "whole"}
    BY TypeParts DEF StrategyInv, FilesTypeOK
  <2>3. files[p] # "absent"
    BY <2>1 DEF StrategyInv, MissingMatchesVault
  <2> QED
    BY <2>2, <2>3 DEF StrategyInv, PartialIsUnderway, Tasks
<1> QED
  BY <1>1, StrategyInvariant, PTL

(* m_piece_downloaders and m_peer_pool name the same pairs for every piece *)
(* that is missing, although assign() enters a pair only after its         *)
(* co_await (strategy.hpp:95-97, 113-121, 146-149, 166-168).               *)
THEOREM TheMapsAgree == Spec => []MapsAgreeOnMissing
<1>1. StrategyInv => MapsAgreeOnMissing
  BY DEF StrategyInv
<1> QED
  BY <1>1, StrategyInvariant, PTL

(* The limits that assign() checks before its co_await still hold after it *)
(* (strategy.hpp:84-97).                                                   *)
THEOREM LimitsHold == Spec => []AtMostTwo
<1>1. StrategyInv => AtMostTwo
  BY DEF StrategyInv
<1> QED
  BY <1>1, StrategyInvariant, PTL

(* There is one downloader in the pool for every active connection, and    *)
(* never two for an address (strategy.hpp:61-66, 126-129).                 *)
THEOREM OneDownloaderPerAddress == Spec => []PoolMatchesConnections
<1>1. StrategyInv => PoolMatchesConnections
  BY DEF StrategyInv
<1> QED
  BY <1>1, StrategyInvariant, PTL

(* The two loops run into undefined behaviour in four ways and no other:   *)
(* T outlives download(), or a loop comes back to an entry that was erased,*)
(* or T to a vector out of which revoke() took a connection that ended, or *)
(* into which assign() put one, each of them in the frame it happened to   *)
(* (strategy.hpp:97, 116-129, 138-149, 166-168, reactor.hpp:43-57, 123).   *)
THEOREM UndefinedOnlyForACause == Spec => []UndefinedHasACause
<1>1. StrategyInv => UndefinedHasACause
  BY DEF StrategyInv
<1> QED
  BY <1>1, StrategyInvariant, PTL

-----------------------------------------------------------------------------
(* What Download sees of a state *)

Stored == {p \in Pieces : files[p] = "whole"}

Outcome == IF task["R"].pc \in Ended THEN task["R"].pc ELSE "running"

DownloadStep == [Promise!Next]_<<Stored, Outcome>>

OutcomeKept ==
  \/ task'["R"].pc = task["R"].pc
  \/ task["R"].pc \notin Ended /\ task'["R"].pc \notin Ended

LEMMA NothingToSee ==
  ASSUME OutcomeKept, \A p \in Pieces : files'[p] = "whole" <=> files[p] = "whole"
  PROVE  DownloadStep
<1>1. Outcome' = Outcome
  BY DEF OutcomeKept, Outcome
<1>2. Stored' = Stored
  BY DEF Stored
<1> QED
  BY <1>1, <1>2 DEF DownloadStep

(* R fails. *)
LEMMA ReactorFails ==
  ASSUME files' = files, task["R"].pc \notin Ended, task'["R"].pc = "failed"
  PROVE  DownloadStep
<1>1. Outcome = "running" /\ Outcome' = "failed" /\ Stored' = Stored
  BY DEF Outcome, Stored, Ended
<1>2. Promise!Fail
  BY <1>1 DEF Promise!Fail, Outcome, Stored
<1> QED
  BY <1>2 DEF DownloadStep, Promise!Next

(* A coroutine becomes another frame. *)
LEMMA BecomesKept ==
  ASSUME TasksTypeOK, NEW x \in Tasks, NEW g, Becomes(x, g),
         x = "R" => task["R"].pc \notin Ended /\ g.pc \notin Ended
  PROVE  OutcomeKept
<1>1. x = "R" => task'["R"] = g
  BY DEF TasksTypeOK, Becomes
<1>2. x # "R" => task'["R"] = task["R"]
  BY DEF TasksTypeOK, Becomes, Tasks
<1> QED
  BY <1>1, <1>2 DEF OutcomeKept

LEMMA NotEnded ==
  \A pc \in Running \cup Suspended : pc \notin Ended
BY DEF Running, Suspended, Ended

(* The loops of is_done() go on. *)
LEMMA AdvancePc ==
  ASSUME NEW f \in Frames
  PROVE  Advance(f).pc = "polling"
<1>1. CASE f.pos < f.end
  BY <1>1 DEF Advance, Frames
<1>2. CASE ~(f.pos < f.end)
  <2>1. PICK i, n : Advance(f) = [f EXCEPT !.pc = "polling", !.index = i, !.pos = 1, !.end = n,
                                           !.moved = {}]
    BY <1>2 DEF Advance
  <2> QED
    BY <2>1 DEF Frames
<1> QED
  BY <1>1, <1>2

LEMMA AdvanceKept ==
  ASSUME TasksTypeOK, NEW x \in Tasks, NEW f \in Frames, Becomes(x, Advance(f)),
         task[x].pc \in Running \cup Suspended
  PROVE  OutcomeKept
<1>1. PICK g : g = Advance(f)
  OBVIOUS
<1>2. g.pc \notin Ended /\ task[x].pc \notin Ended
  BY <1>1, AdvancePc, NotEnded DEF Ended
<1> QED
  BY <1>1, <1>2, BecomesKept

-----------------------------------------------------------------------------
(* The steps of assign() and of the trackers *)

LEMMA AssignSteps ==
  ASSUME StrategyInv, NEW swarm \in SUBSET Addresses,
         TrackerWakes(swarm) \/ ReactorWakes \/ AssignTurn \/ Assigned \/ AssignReturns
  PROVE  DownloadStep
<1>1. /\ StrategyTypeOK /\ TasksTypeOK /\ "R" \in Tasks /\ "T" \in Tasks /\ "R" # "T"
      /\ task["R"] \in Frames
  BY TypeParts DEF StrategyInv, Tasks, TasksTypeOK
<1>2. files' = files
  BY DEF TrackerWakes, ReactorWakes, AssignTurn, Assigned, AssignReturns
<1>3. CASE TrackerWakes(swarm)
  <2>1. task'["R"] = task["R"]
    BY <1>1, <1>3 DEF TrackerWakes
  <2> QED
    BY <1>2, <2>1, NothingToSee DEF OutcomeKept
<1>4. CASE ReactorWakes
  <2>1. PICK s, M : task' = [task EXCEPT !["R"].pc = "assigning", !["R"].todo = s,
                                         !["T"].moved = @ \cup M]
    BY <1>4 DEF ReactorWakes
  <2>2. task["R"].pc = "waiting" /\ task'["R"].pc = "assigning"
    BY <1>1, <1>4, <2>1 DEF ReactorWakes, TasksTypeOK, Frames
  <2> QED
    BY <1>2, <2>2, NothingToSee DEF OutcomeKept, Ended
<1>5. CASE AssignTurn
  <2>1. task["R"].pc = "assigning"
    BY <1>5 DEF AssignTurn
  <2>2. \/ \E s : task' = [task EXCEPT !["R"].todo = s]
        \/ \E d : task' = [task EXCEPT !["R"].pc = "downloading", !["R"].downloader = d]
    BY <1>5 DEF AssignTurn
  <2>3. task'["R"].pc \in {"assigning", "downloading"}
    BY <1>1, <2>1, <2>2 DEF TasksTypeOK, Frames
  <2> QED
    BY <1>2, <2>1, <2>3, NothingToSee DEF OutcomeKept, Ended
<1>6. CASE Assigned
  <2>1. PICK s, M : task' = [task EXCEPT !["R"].pc = "assigning", !["R"].todo = s,
                                         !["R"].downloader = <<>>, !["T"].moved = @ \cup M]
    BY <1>6 DEF Assigned
  <2>2. task["R"].pc = "downloading" /\ task'["R"].pc = "assigning"
    BY <1>1, <1>6, <2>1 DEF Assigned, TasksTypeOK, Frames
  <2> QED
    BY <1>2, <2>2, NothingToSee DEF OutcomeKept, Ended
<1>7. CASE AssignReturns
  <2>1. PICK g : g = IF task["R"].first THEN Frame("waiting", FALSE)
                     ELSE StartPolling(task["R"], m_piece_downloaders)
    OBVIOUS
  <2>2. g.pc \in {"waiting", "polling"}
    <3>1. Frame("waiting", FALSE).pc = "waiting"
      BY DEF Frame
    <3>2. StartPolling(task["R"], m_piece_downloaders).pc = "polling"
      BY <1>1, StartPollingFields
    <3> QED
      BY <2>1, <3>1, <3>2
  <2>3. Becomes("R", g) /\ task["R"].pc = "assigning"
    BY <1>7, <2>1 DEF AssignReturns, Becomes
  <2>4. OutcomeKept
    BY <1>1, <2>2, <2>3, BecomesKept DEF Ended
  <2> QED
    BY <1>2, <2>4, NothingToSee
<1> QED
  BY <1>3, <1>4, <1>5, <1>6, <1>7

-----------------------------------------------------------------------------
(* The steps of is_done() *)

LEMMA PollSteps ==
  ASSUME StrategyInv, NEW x \in Tasks, Poll(x) \/ Repeated(x)
  PROVE  DownloadStep
<1>1. /\ StrategyTypeOK /\ TasksTypeOK /\ FilesTypeOK /\ task[x] \in Frames
      /\ "R" \in Tasks /\ DOMAIN task = Tasks
  BY TypeParts DEF StrategyInv, Tasks, TasksTypeOK
<1>2. CASE GoWrong
  <2>1. task' = task /\ files' = files
    BY <1>2 DEF GoWrong
  <2> QED
    BY <2>1, NothingToSee DEF OutcomeKept
<1>3. CASE PollNothing(x)
  <2>1. files' = files /\ task[x].pc = "polling" /\ Becomes(x, Advance(task[x]))
    BY <1>3 DEF PollNothing, Becomes
  <2>2. OutcomeKept
    BY <1>1, <2>1, AdvanceKept DEF Running
  <2> QED
    BY <2>1, <2>2, NothingToSee
<1>4. CASE PollComplete(x)
  <2>1. PICK p, d : /\ p = task[x].index /\ d = m_piece_downloaders[p][task[x].pos]
    OBVIOUS
  <2>2. /\ task[x].pc = "polling"
        /\ \/ /\ files[p] = "absent" /\ files' = [files EXCEPT ![p] = "partial"]
              /\ task' = [task EXCEPT ![x].pc = "pushing", ![x].downloader = d]
           \/ /\ task' = [task EXCEPT ![x].pc = "pushed", ![x].downloader = d]
              /\ UNCHANGED files
    BY <1>4, <2>1 DEF PollComplete
  <2>3. \A q \in Pieces : files'[q] = "whole" <=> files[q] = "whole"
    BY <1>1, <2>2 DEF FilesTypeOK
  <2>4. task'[x].pc \in {"pushing", "pushed"} /\ \A y \in Tasks : y # x => task'[y] = task[y]
    BY <1>1, <2>2 DEF Frames
  <2>5. OutcomeKept
    BY <1>1, <2>2, <2>4 DEF OutcomeKept, Ended
  <2> QED
    BY <2>3, <2>5, NothingToSee
<1>5. CASE PollCorrupt(x)
  <2>1. PICK d : task' = [task EXCEPT ![x].pc = "repeating", ![x].downloader = d]
    BY <1>5 DEF PollCorrupt
  <2>2. task[x].pc = "polling" /\ files' = files
    BY <1>5 DEF PollCorrupt
  <2>3. task'[x].pc = "repeating" /\ \A y \in Tasks : y # x => task'[y] = task[y]
    BY <1>1, <2>1 DEF Frames
  <2>4. OutcomeKept
    BY <1>1, <2>2, <2>3 DEF OutcomeKept, Ended
  <2> QED
    BY <2>2, <2>4, NothingToSee
<1>6. CASE PieceStored(x) /\ ~GoWrong
  <2>1. PICK f : f = [task[x] EXCEPT !.completed = task[x].completed \cup {task[x].index},
                                     !.downloader = <<>>]
    OBVIOUS
  <2>2. task[x].pc = "pushed" /\ files' = files /\ Becomes(x, Advance(f))
    BY <1>6, <2>1 DEF PieceStored, Becomes
  <2>3. f \in Frames
    <3>1. task[x].index \in Pieces
      BY <2>2 DEF StrategyInv, TaskOK, PollOK, Stopped
    <3>2. PICK S \in SUBSET Pieces : S = task[x].completed \cup {task[x].index}
      BY <1>1, <3>1 DEF Frames
    <3>3. f = [task[x] EXCEPT !.completed = S, !.downloader = <<>>]
      BY <2>1, <3>2
    <3> QED
      BY <1>1, <3>3 DEF Frames
  <2>4. OutcomeKept
    BY <1>1, <2>2, <2>3, AdvanceKept DEF Running
  <2> QED
    BY <2>2, <2>4, NothingToSee
<1>7. CASE Repeated(x) /\ ~GoWrong
  <2>1. PICK f : f = [task[x] EXCEPT !.downloader = <<>>]
    OBVIOUS
  <2>2. task[x].pc = "repeating" /\ files' = files /\ Becomes(x, Advance(f))
    BY <1>7, <2>1 DEF Repeated, Becomes
  <2>3. f \in Frames
    BY <1>1, <2>1 DEF Frames
  <2>4. OutcomeKept
    BY <1>1, <2>2, <2>3, AdvanceKept DEF Suspended
  <2> QED
    BY <2>2, <2>4, NothingToSee
<1>8. CASE PollingReturns(x) /\ ~GoWrong
  <2>1. /\ task[x].pc = "polling" /\ files' = files
        /\ task' = [y \in Tasks |->
                      IF y = x THEN AfterPolling(x)
                      ELSE [task[y] EXCEPT !.freed =
                              @ \/ UnderFoot(task[y], task[x].completed)]]
    BY <1>8 DEF PollingReturns, Tasks
  <2>2. CASE x = "R"
    <3>1. AfterPolling(x).pc \in {"waiting", "merging", "finished"} /\ AfterPolling(x).pc # "finished"
      BY <2>2 DEF AfterPolling, Frame
    <3>2. task'["R"] = AfterPolling(x)
      BY <1>1, <2>1, <2>2
    <3> QED
      BY <2>1, <2>2, <3>1, <3>2, NothingToSee DEF OutcomeKept, Ended
  <2>3. CASE x # "R"
    <3>1. PICK b : task'["R"] = [task["R"] EXCEPT !.freed = b]
      BY <1>1, <2>1, <2>3
    <3>2. task["R"] \in Frames
      BY <1>1 DEF TasksTypeOK
    <3>3. task'["R"].pc = task["R"].pc
      BY <3>1, <3>2 DEF Frames
    <3> QED
      BY <2>1, <3>3, NothingToSee DEF OutcomeKept
  <2> QED
    BY <2>2, <2>3
<1> QED
  BY <1>2, <1>3, <1>4, <1>5, <1>6, <1>7, <1>8 DEF Poll

-----------------------------------------------------------------------------
(* Writes, failures and the merge *)

(* A write that ends stores a piece, or one that is stored already. *)
LEMMA WriteDoneStores ==
  ASSUME StrategyInv, NEW x \in Tasks, WriteDone(x)
  PROVE  DownloadStep
<1>1. PICK p : p = task[x].index
  OBVIOUS
<1>2. TasksTypeOK /\ FilesTypeOK /\ task[x] \in Frames /\ "R" \in Tasks
  BY TypeParts DEF StrategyInv, TasksTypeOK, Tasks
<1>3. /\ task[x].pc = "pushing" /\ files' = [files EXCEPT ![p] = "whole"]
      /\ task' = [task EXCEPT ![x].pc = "pushed"]
  BY <1>1 DEF WriteDone
<1>4. p \in Pieces
  BY <1>1, <1>3 DEF StrategyInv, TaskOK, PollOK, Stopped
<1>5. OutcomeKept
  <2>1. task'[x].pc = "pushed" /\ \A y \in Tasks : y # x => task'[y] = task[y]
    BY <1>2, <1>3 DEF TasksTypeOK, Frames
  <2> QED
    BY <1>2, <1>3, <2>1 DEF OutcomeKept, Ended
<1>6. Outcome' = Outcome
  BY <1>5 DEF OutcomeKept, Outcome
<1>7. Stored' = Stored \cup {p}
  BY <1>2, <1>3, <1>4 DEF Stored, FilesTypeOK
<1>8. CASE p \in Stored
  BY <1>6, <1>7, <1>8 DEF DownloadStep
<1>9. CASE p \notin Stored
  <2>1. Promise!Store(p)
    BY <1>6, <1>7, <1>9 DEF Promise!Store, Stored, Outcome
  <2> QED
    BY <1>4, <2>1 DEF DownloadStep, Promise!Next
<1> QED
  BY <1>8, <1>9

LEMMA FailingSteps ==
  ASSUME StrategyInv, NEW x \in Tasks, WriteThrows(x) \/ DownloadThrows(x)
  PROVE  DownloadStep
<1>1. TasksTypeOK /\ "R" \in Tasks
  BY TypeParts DEF StrategyInv, Tasks
<1>2. /\ files' = files /\ task[x].pc \in {"pushing", "downloading", "repeating"}
      /\ Becomes(x, Frame("failed", FALSE))
  BY DEF WriteThrows, DownloadThrows, Becomes
<1>3. Frame("failed", FALSE).pc = "failed"
  BY DEF Frame
<1>4. CASE x = "R"
  <2>1. task'["R"].pc = "failed"
    BY <1>1, <1>2, <1>3, <1>4 DEF TasksTypeOK, Becomes
  <2> QED
    BY <1>2, <1>4, <2>1, ReactorFails DEF Ended
<1>5. CASE x # "R"
  <2>1. OutcomeKept
    BY <1>1, <1>2, <1>5, BecomesKept
  <2> QED
    BY <1>2, <2>1, NothingToSee
<1> QED
  BY <1>4, <1>5

(* The merge ends the download only after it read every piece. *)
LEMMA MergeSteps ==
  ASSUME StrategyInv, MergePiece
  PROVE  DownloadStep
<1>1. /\ TasksTypeOK /\ "R" \in Tasks /\ task["R"] \in Frames /\ MergingOK("R")
      /\ MissingMatchesVault
  BY TypeParts DEF StrategyInv, Tasks, TasksTypeOK, TaskOK
<1>2. files' = files /\ task["R"].pc = "merging"
  BY DEF MergePiece
<1>3. CASE task' = [task EXCEPT !["R"].index = task["R"].index + 1]
  <2>1. task'["R"].pc = "merging"
    BY <1>1, <1>2, <1>3 DEF TasksTypeOK, Frames
  <2> QED
    BY <1>2, <2>1, NothingToSee DEF OutcomeKept
<1>4. CASE task' = [task EXCEPT !["R"].pc = "failed"]
  <2>1. task'["R"].pc = "failed"
    BY <1>1, <1>4 DEF TasksTypeOK, Frames
  <2> QED
    BY <1>2, <2>1, ReactorFails DEF Ended
<1>5. CASE /\ task["R"].index < PieceCount => ~exists(files, task["R"].index)
           /\ task' = [task EXCEPT !["R"].pc = "finished"]
  <2>1. task["R"].index \in 0..PieceCount
    BY <1>1 DEF Frames
  <2>2. m_missing_pieces = {}
    BY <1>1, <1>2 DEF MergingOK
  <2>3. \A p \in Pieces : exists(files, p)
    BY <1>1, <2>2 DEF MissingMatchesVault, exists
  <2>4. task["R"].index = PieceCount
    <3>1. task["R"].index \notin Pieces
      BY <1>5, <2>1, <2>3, PieceRange, Zenon
    <3>2. PICK i \in 0..PieceCount : i = task["R"].index
      BY <2>1
    <3>3. PieceCount \in Nat /\ ~(i < PieceCount)
      BY <3>1, <3>2, PieceRange
    <3> QED
      BY <3>2, <3>3
  <2>5. \A p \in Pieces : p < PieceCount
    BY PieceRange
  <2>6. \A p \in Pieces : files[p] = "whole"
    BY <1>1, <1>2, <2>4, <2>5 DEF MergingOK
  <2>7. task'["R"].pc = "finished"
    BY <1>1, <1>5 DEF TasksTypeOK, Frames
  <2>8. Outcome = "running" /\ Outcome' = "finished" /\ Stored' = Stored /\ Stored = Pieces
    BY <1>2, <2>6, <2>7 DEF Outcome, Stored, Ended
  <2>9. Promise!Finish
    BY <2>8 DEF Promise!Finish, Outcome, Stored
  <2> QED
    BY <2>9 DEF DownloadStep, Promise!Next
<1> QED
  BY <1>3, <1>4, <1>5 DEF MergePiece

(* The network touches neither the vault nor R; a crash keeps what is      *)
(* stored.                                                                 *)
LEMMA OutsideSteps ==
  ASSUME Network \/ Crash \/ UNCHANGED vars
  PROVE  DownloadStep
<1>1. CASE Network \/ UNCHANGED vars
  <2>1. files' = files /\ task' = task
    BY <1>1 DEF Network, Lose, PeerEnds, Connected, Announced, PieceArrives, vars
  <2> QED
    BY <2>1, NothingToSee DEF OutcomeKept
<1>2. CASE Crash
  <2>1. files' = files /\ task'["R"] = Frame("waiting", TRUE)
    BY <1>2 DEF Crash, Start
  <2>2. task'["R"].pc = "waiting"
    BY <2>1 DEF Frame
  <2>3. Outcome' = "running" /\ Stored' = Stored
    BY <2>1, <2>2 DEF Outcome, Stored, Ended
  <2>4. CASE Outcome = "running"
    BY <2>3, <2>4 DEF DownloadStep
  <2>5. CASE Outcome # "running"
    <3>1. Promise!StartOver
      BY <2>3, <2>5 DEF Promise!StartOver, Outcome, Stored
    <3> QED
      BY <3>1 DEF DownloadStep, Promise!Next
  <2> QED
    BY <2>4, <2>5
<1> QED
  BY <1>1, <1>2

(* Strategy implements Download: whole pieces are only ever gained, and    *)
(* the download finishes only when none is left out of the output, through *)
(* losses, corrupt pieces, failed writes and crashes (storage.cpp:24-33,   *)
(* reactor.hpp:93-122).                                                    *)
THEOREM StrategyImplementsDownload == Spec => ImplementsDownload
<1>1. Init => Promise!Init
  <2> SUFFICES ASSUME Init PROVE Promise!Init
    OBVIOUS
  <2>1. files = [p \in Pieces |-> "absent"] /\ task["R"] = Frame("waiting", TRUE)
    BY DEF Init
  <2>2. Stored = {}
    BY <2>1 DEF Stored
  <2>3. Outcome = "running"
    BY <2>1 DEF Outcome, Frame, Ended
  <2> QED
    BY <2>2, <2>3 DEF Promise!Init, Stored, Outcome
<1>2. StrategyInv /\ [Next]_vars => DownloadStep
  <2> SUFFICES ASSUME StrategyInv, [Next]_vars PROVE DownloadStep
    OBVIOUS
  <2>1. ASSUME NEW x \in Tasks,
               Poll(x) \/ WriteDone(x) \/ WriteThrows(x) \/ Repeated(x) \/ DownloadThrows(x)
        PROVE  DownloadStep
    BY <2>1, PollSteps, WriteDoneStores, FailingSteps
  <2>2. ASSUME NEW swarm \in SUBSET Addresses, TrackerWakes(swarm) PROVE DownloadStep
    BY <2>2, AssignSteps
  <2>3. CASE ReactorWakes \/ AssignTurn \/ Assigned \/ AssignReturns
    <3>1. {} \in SUBSET Addresses
      OBVIOUS
    <3> QED
      BY <2>3, <3>1, AssignSteps
  <2>4. CASE MergePiece \/ Network \/ Crash \/ UNCHANGED vars
    BY <2>4, MergeSteps, OutsideSteps
  <2> QED
    BY <2>1, <2>2, <2>3, <2>4 DEF Next, Tasks
<1>3. DownloadStep =>
        [Promise!Next]_<<{p \in Pieces : files[p] = "whole"},
                         IF task["R"].pc \in Ended THEN task["R"].pc ELSE "running">>
  BY DEF DownloadStep, Stored, Outcome
<1> QED
  BY <1>1, <1>2, <1>3, StrategyInvariant, PTL DEF Spec, ImplementsDownload, Promise!Spec

-----------------------------------------------------------------------------
(* What PieceWork sees of a state *)

Items == Downloaders \X Pieces

Got == [i \in Items |-> peer[i[1]].got[i[2]]]

WorkStep == [Work!Next]_Got

LEMMA NoWork ==
  ASSUME \A d \in Downloaders : peer'[d].got = peer[d].got
  PROVE  WorkStep
<1>1. \A i \in Items : i[1] \in Downloaders
  BY DEF Items
<1>2. Got' = Got
  BY <1>1 DEF Got
<1> QED
  BY <1>2 DEF WorkStep

LEMMA OneGets ==
  ASSUME PeersTypeOK, NEW d \in Downloaders, NEW p \in Pieces,
         NEW v \in {"none", "working", "Complete", "Corrupt"}, Gets(d, p, v)
  PROVE  /\ <<d, p>> \in Items /\ Got[<<d, p>>] = peer[d].got[p]
         /\ Got' = [Got EXCEPT ![<<d, p>>] = v]
<1>1. /\ \A e \in Downloaders : e # d => peer'[e] = peer[e]
      /\ peer'[d].got[p] = v
      /\ \A q \in Pieces : q # p => peer'[d].got[q] = peer[d].got[q]
  BY SetGot
<1>2. /\ <<d, p>> \in Items /\ <<d, p>>[1] = d /\ <<d, p>>[2] = p
      /\ \A i \in Items : i[1] \in Downloaders /\ i[2] \in Pieces
      /\ \A i \in Items : i # <<d, p>> => i[1] # d \/ i[2] # p
  BY DEF Items
<1>3. \A i \in Items : peer'[i[1]].got[i[2]] = IF i = <<d, p>> THEN v ELSE Got[i]
  <2> SUFFICES ASSUME NEW i \in Items
               PROVE  peer'[i[1]].got[i[2]] = IF i = <<d, p>> THEN v ELSE Got[i]
    OBVIOUS
  <2>1. Got[i] = peer[i[1]].got[i[2]]
    BY DEF Got
  <2>2. CASE i = <<d, p>>
    BY <1>1, <1>2, <2>2
  <2>3. CASE i # <<d, p>>
    BY <1>1, <1>2, <2>1, <2>3
  <2> QED
    BY <2>2, <2>3
<1>4. DOMAIN Got = Items /\ Got[<<d, p>>] = peer[d].got[p]
  BY <1>2 DEF Got
<1>5. Got' = [i \in Items |-> peer'[i[1]].got[i[2]]]
  BY DEF Got
<1>6. Got' = [i \in Items |-> IF i = <<d, p>> THEN v ELSE Got[i]]
  BY <1>3, <1>5
<1> HIDE DEF Got
<1>7. [Got EXCEPT ![<<d, p>>] = v] = [i \in Items |-> IF i = <<d, p>> THEN v ELSE Got[i]]
  BY <1>4
<1> QED
  BY <1>2, <1>4, <1>6, <1>7

LEMMA Asked ==
  ASSUME PeersTypeOK, NEW d \in Downloaders, NEW p \in Pieces, download_piece(d, p)
  PROVE  WorkStep
<1>1. Gets(d, p, "working")
  BY DEF download_piece, Gets
<1>2. <<d, p>> \in Items /\ Got' = [Got EXCEPT ![<<d, p>>] = "working"]
  BY <1>1, OneGets
<1>3. Work!Ask(<<d, p>>)
  BY <1>2 DEF Work!Ask, Got, Items
<1> QED
  BY <1>2, <1>3 DEF WorkStep, Work!Next, Items

LEMMA WorkOfNext ==
  ASSUME StrategyInv, Next
  PROVE  WorkStep
<1>1. StrategyTypeOK /\ PeersTypeOK /\ TasksTypeOK /\ NotMadeYet /\ MadeInOrder
  BY TypeParts DEF StrategyInv
<1>2. CASE \/ ReactorWakes \/ Assigned \/ AssignReturns \/ MergePiece
           \/ \E x \in Tasks : \/ PollNothing(x) \/ PieceStored(x) \/ PollingReturns(x)
                               \/ WriteDone(x) \/ WriteThrows(x) \/ Repeated(x)
                               \/ DownloadThrows(x)
  <2>1. peer' = peer
    BY <1>2 DEF ReactorWakes, Assigned, AssignReturns, MergePiece, PollNothing, PieceStored,
       PollingReturns, WriteDone, WriteThrows, Repeated, DownloadThrows, GoWrong
  <2> QED
    BY <2>1, NoWork
<1>3. ASSUME NEW swarm \in SUBSET Addresses, TrackerWakes(swarm) PROVE WorkStep
  <2>1. include(swarm)
    BY <1>3 DEF TrackerWakes
  <2>2. PICK fresh : Makes(fresh, swarm)
    BY <1>1, <2>1, IncludeFacts
  <2>3. \A d \in Downloaders : peer'[d].got = peer[d].got
    BY <2>2 DEF Makes
  <2> QED
    BY <2>3, NoWork
<1>4. CASE AssignTurn
  <2>1. PICK p : p = Head(task["R"].todo)
    OBVIOUS
  <2>2. peer' = peer \/ \E d \in Candidates(p) : download_piece(d, p)
    BY <1>4, <2>1 DEF AssignTurn
  <2>3. p \in Pieces
    <3>1. task["R"].todo \in Seq(Pieces) /\ task["R"].todo # <<>>
      BY <1>1, <1>4 DEF TasksTypeOK, Frames, AssignTurn, Tasks
    <3> QED
      BY <2>1, <3>1
  <2>4. Candidates(p) \subseteq Downloaders
    BY <1>1 DEF Candidates, StrategyTypeOK
  <2> QED
    BY <1>1, <2>2, <2>3, <2>4, NoWork, Asked
<1>5. ASSUME NEW x \in Tasks, PollCorrupt(x) \/ PollComplete(x) PROVE WorkStep
  <2>1. PICK p, d : p = task[x].index /\ d = m_piece_downloaders[p][task[x].pos]
    OBVIOUS
  <2>2. p \in Pieces /\ d \in Downloaders
    BY <1>5, <2>1, PolledDownloader DEF PollCorrupt, PollComplete
  <2>3. CASE PollCorrupt(x)
    <3>1. download_piece(d, p)
      BY <2>1, <2>3 DEF PollCorrupt
    <3> QED
      BY <1>1, <2>2, <3>1, Asked
  <2>4. CASE PollComplete(x)
    <3>1. peer[d].got[p] = "Complete" /\ Gets(d, p, "none")
      BY <2>1, <2>4 DEF PollComplete, Gets
    <3>2. /\ <<d, p>> \in Items /\ Got[<<d, p>>] = "Complete"
          /\ Got' = [Got EXCEPT ![<<d, p>>] = "none"]
      BY <1>1, <2>2, <3>1, OneGets
    <3>3. Work!Take(<<d, p>>)
      BY <3>2 DEF Work!Take, Got, Items
    <3> QED
      BY <3>2, <3>3 DEF WorkStep, Work!Next, Items
  <2> QED
    BY <1>5, <2>3, <2>4
<1>6. CASE Network
  <2>1. ASSUME NEW d \in Downloaders, NEW p \in Pieces, PieceArrives(d, p) PROVE WorkStep
    <3>1. PICK v \in {"Complete", "Corrupt"} : Gets(d, p, v)
      BY <2>1 DEF PieceArrives, Gets
    <3>2. peer[d].got[p] = "working"
      BY <2>1 DEF PieceArrives
    <3>3. /\ <<d, p>> \in Items /\ Got[<<d, p>>] = "working"
          /\ Got' = [Got EXCEPT ![<<d, p>>] = v]
      BY <1>1, <3>1, <3>2, OneGets
    <3>4. Work!Arrive(<<d, p>>)
      BY <3>3 DEF Work!Arrive, Got, Items
    <3> QED
      BY <3>3, <3>4 DEF WorkStep, Work!Next, Items
  <2>2. ASSUME NEW d \in Downloaders, NEW S \in Bitfields, Announced(d, S) PROVE WorkStep
    <3>1. S \in SUBSET Pieces
      BY StrategyAssumption DEF StrategyAssumption
    <3>2. peer' = [peer EXCEPT ![d].has = S]
      BY <2>2 DEF Announced
    <3>3. \A e \in Downloaders : peer'[e].got = peer[e].got
      BY <1>1, <3>1, <3>2, SetHas
    <3> QED
      BY <3>3, NoWork
  <2>3. ASSUME NEW d \in Downloaders, Connected(d) \/ Lose(d) \/ PeerEnds(d) PROVE WorkStep
    <3>1. PICK v \in {"connected", "lost", "ended", "zombie"} : peer' = [peer EXCEPT ![d].conn = v]
      BY <2>3 DEF Connected, Lose, PeerEnds
    <3>3. \A e \in Downloaders : peer'[e].got = peer[e].got
      BY <1>1, <3>1, SetConn
    <3> QED
      BY <3>3, NoWork
  <2> QED
    BY <1>6, <2>1, <2>2, <2>3 DEF Network
<1>7. CASE Crash
  <2>1. \A i \in Items : peer'[i[1]].got[i[2]] = "none"
    BY <1>7 DEF Crash, NoPeer, Items
  <2>2. Got' = [i \in Items |-> "none"]
    BY <2>1 DEF Got
  <2>3. Work!Restart
    BY <2>2 DEF Work!Restart, Got, Items
  <2> QED
    BY <2>3 DEF WorkStep, Work!Next
<1> QED
  BY <1>2, <1>3, <1>4, <1>5, <1>6, <1>7 DEF Next, Poll, Tasks

(* The strategy asks no more of its downloaders than PieceWork promises:   *)
(* of its two loops, whichever comes first takes a Complete piece, once,   *)
(* and a Corrupt one is asked for again (strategy.hpp:84-98, 138-164).     *)
THEOREM StrategyUsesPieceWork == Spec => UsesPieceWork
<1>1. Init => Work!Init
  <2> SUFFICES ASSUME Init PROVE Work!Init
    OBVIOUS
  <2>1. \A i \in Items : peer[i[1]].got[i[2]] = "none"
    BY DEF Init, NoPeer, Items
  <2> QED
    BY <2>1 DEF Work!Init, Items
<1>2. StrategyInv /\ [Next]_vars => WorkStep
  <2>1. UNCHANGED vars => WorkStep
    BY NoWork DEF vars
  <2> QED
    BY <2>1, WorkOfNext
<1>3. WorkStep => [Work!Next]_[i \in Downloaders \X Pieces |-> peer[i[1]].got[i[2]]]
  BY DEF WorkStep, Got, Items
<1> QED
  BY <1>1, <1>2, <1>3, StrategyInvariant, PTL DEF Spec, UsesPieceWork, Work!Spec

-----------------------------------------------------------------------------
(* Slots lost to second copies *)

(* What NeverClogged is about: connections that last. *)
ConnectionsLast == MaxLosses = 0 /\ Bitfields \subseteq {{}, Pieces} /\ IsFiniteSet(Addresses)

PeersLast ==
  \A d \in Downloaders :
    peer[d].conn \in {"none", "connecting", "connected"} /\ peer[d].has \in {{}, Pieces}

Assigning == {"assigning", "downloading"}

FreeSlots == {s \in Downloaders \X {1, 2} : s[1] \in DOMAIN m_peer_pool /\ Len(m_peer_pool[s[1]]) < s[2]}

(* The first n pieces that assign() has yet to look at, those of them that *)
(* the tracker loop stored meanwhile, and the missing ones among the       *)
(* others that have a downloader.                                          *)
Ahead(n) == {task["R"].todo[i] : i \in 1..n}
Stale(n) == Ahead(n) \ m_missing_pieces
Begun(n) == {p \in m_missing_pieces \ Ahead(n) : m_piece_downloaders[p] # <<>>}

AllBegun(n) == \A p \in m_missing_pieces \ Ahead(n) : m_piece_downloaders[p] # <<>>

NoRoom == \A d \in DOMAIN m_peer_pool : Len(m_peer_pool[d]) < 2 => peer[d].has = {}

Fewer(S, A, F) == Cardinality(S) < Cardinality(A) + Cardinality(F)
NoMore(S, A) == Cardinality(S) <= Cardinality(A)

(* n is what is left of the first of the two times assign() goes through   *)
(* the missing pieces.  The missing pieces behind it are assigned, unless  *)
(* there was no room, and what is ahead of it for nothing is less than the *)
(* slots that are free or will be.                                         *)
Round(n) ==
  /\ n <= Len(task["R"].todo)
  /\ \A i, j \in 1..n : task["R"].todo[i] = task["R"].todo[j] => i = j
  /\ task["R"].pc = "downloading" => AllBegun(n) /\ Fewer(Stale(n), Begun(n), FreeSlots)
  /\ task["R"].pc = "assigning" =>
       /\ AllBegun(n) \/ NoRoom
       /\ Fewer(Stale(n), Begun(n), FreeSlots) \/ NoMore(Stale(n), Begun(n))

RoundGoesOn == task["R"].pc \in Assigning => \E n \in Nat : Round(n)

SlotsInv == PeersLast /\ RoundGoesOn /\ NeverClogged

LEMMA FiniteData ==
  ASSUME IsFiniteSet(Addresses)
  PROVE  IsFiniteSet(Pieces) /\ IsFiniteSet(Downloaders \X {1, 2})
<1>1. IsFiniteSet(Pieces)
  <2>1. 0 \in Int /\ PieceCount - 1 \in Int
    BY PieceRange
  <2> QED
    BY <2>1, FS_Interval DEF Pieces
<1>2. IsFiniteSet(1..MaxConnects)
  <2>1. 1 \in Int /\ MaxConnects \in Int
    BY StrategyAssumption DEF StrategyAssumption
  <2> QED
    BY <2>1, FS_Interval
<1>3. IsFiniteSet(Downloaders)
  BY <1>2, FS_Product DEF Downloaders
<1>4. IsFiniteSet({1, 2})
  <2>1. IsFiniteSet(1..2)
    <3>1. 1 \in Int /\ 2 \in Int
      OBVIOUS
    <3> QED
      BY <3>1, FS_Interval
  <2>2. 1..2 = {1, 2}
    OBVIOUS
  <2> QED
    BY <2>1, <2>2
<1> QED
  BY <1>1, <1>3, <1>4, FS_Product

LEMMA Counts ==
  ASSUME IsFiniteSet(Addresses), StrategyTypeOK, NEW n
  PROVE  IsFiniteSet(Begun(n)) /\ IsFiniteSet(FreeSlots)
<1>1. Begun(n) \subseteq Pieces
  BY DEF Begun, StrategyTypeOK
<1>2. FreeSlots \subseteq Downloaders \X {1, 2}
  BY DEF FreeSlots
<1> QED
  BY <1>1, <1>2, FiniteData, FS_Subset

LEMMA StaleCounts ==
  ASSUME IsFiniteSet(Addresses), TasksTypeOK, NEW n \in Nat, n <= Len(task["R"].todo)
  PROVE  IsFiniteSet(Stale(n)) /\ Ahead(n) \subseteq Pieces
<1>1. task["R"].todo \in Seq(Pieces)
  BY DEF TasksTypeOK, Tasks, Frames
<1>2. \A i \in 1..n : i \in 1..Len(task["R"].todo)
  BY <1>1
<1>3. Ahead(n) \subseteq Pieces
  BY <1>1, <1>2 DEF Ahead
<1>4. Stale(n) \subseteq Pieces
  BY <1>3 DEF Stale
<1> QED
  BY <1>3, <1>4, FiniteData, FS_Subset

(* Less that is stale, more that is begun, more slots. *)
LEMMA FewerKept ==
  ASSUME NEW S, NEW A, NEW F, NEW S1, NEW A1, NEW F1,
         IsFiniteSet(S), IsFiniteSet(A1), IsFiniteSet(F1),
         S1 \subseteq S, A \subseteq A1, F \subseteq F1
  PROVE  /\ Fewer(S, A, F) => Fewer(S1, A1, F1)
         /\ NoMore(S, A) => NoMore(S1, A1)
<1>1. /\ IsFiniteSet(S1) /\ Cardinality(S1) <= Cardinality(S)
      /\ IsFiniteSet(A) /\ Cardinality(A) <= Cardinality(A1)
      /\ IsFiniteSet(F) /\ Cardinality(F) <= Cardinality(F1)
  BY FS_Subset
<1>2. PICK s \in Nat, s1 \in Nat, a \in Nat, a1 \in Nat, f \in Nat, f1 \in Nat :
        /\ s = Cardinality(S) /\ s1 = Cardinality(S1) /\ a = Cardinality(A)
        /\ a1 = Cardinality(A1) /\ f = Cardinality(F) /\ f1 = Cardinality(F1)
  BY <1>1, FS_CardinalityType
<1>3. s1 <= s /\ a <= a1 /\ f <= f1
  BY <1>1, <1>2
<1>4. (s < a + f => s1 < a1 + f1) /\ (s <= a => s1 <= a1)
  BY <1>3
<1> QED
  BY <1>2, <1>4 DEF Fewer, NoMore

LEMMA OneMore ==
  ASSUME NEW S, IsFiniteSet(S), NEW x, NEW n \in Nat, n = Cardinality(S)
  PROVE  /\ IsFiniteSet(S \cup {x}) /\ Cardinality(S \cup {x}) \in Nat
         /\ Cardinality(S \cup {x}) <= n + 1
<1>1. /\ IsFiniteSet(S \cup {x})
      /\ Cardinality(S \cup {x}) = IF x \in S THEN Cardinality(S) ELSE Cardinality(S) + 1
  BY FS_AddElement
<1>2. CASE x \in S
  BY <1>1, <1>2
<1>3. CASE x \notin S
  BY <1>1, <1>3
<1> QED
  BY <1>2, <1>3

AllBut(F, F1, s) == F \subseteq F1 \cup {s}

Shifted(S, A, S1, A1, p) ==
  \/ S1 \subseteq S /\ A \cup {p} \subseteq A1 /\ p \notin A
  \/ S1 \subseteq S \ {p} /\ A \subseteq A1 /\ p \in S

(* A slot is taken, for a missing piece or for one that is stale. *)
LEMMA SlotTaken ==
  ASSUME NEW S, NEW A, NEW F, NEW S1, NEW A1, NEW F1, NEW p, NEW s,
         IsFiniteSet(S), IsFiniteSet(A1), IsFiniteSet(F1), AllBut(F, F1, s),
         Shifted(S, A, S1, A1, p), Fewer(S, A, F)
  PROVE  Fewer(S1, A1, F1)
<1>0. /\ F \subseteq F1 \cup {s}
      /\ \/ S1 \subseteq S /\ A \cup {p} \subseteq A1 /\ p \notin A
         \/ S1 \subseteq S \ {p} /\ A \subseteq A1 /\ p \in S
  BY Zenon DEF AllBut, Shifted
<1>1. IsFiniteSet(A) /\ IsFiniteSet(S1) /\ IsFiniteSet(F)
  <2>1. IsFiniteSet(F1 \cup {s})
    BY FS_AddElement
  <2> QED
    BY <1>0, <2>1, FS_Subset
<1>2. PICK c \in Nat, c1 \in Nat, a \in Nat, a1 \in Nat, f \in Nat, f1 \in Nat :
        /\ c = Cardinality(S) /\ c1 = Cardinality(S1) /\ a = Cardinality(A)
        /\ a1 = Cardinality(A1) /\ f = Cardinality(F) /\ f1 = Cardinality(F1)
  BY <1>1, FS_CardinalityType
<1>3. f <= f1 + 1
  <2>1. IsFiniteSet(F1 \cup {s}) /\ Cardinality(F1 \cup {s}) <= f1 + 1
    BY <1>2, OneMore
  <2>2. f <= Cardinality(F1 \cup {s}) /\ Cardinality(F1 \cup {s}) \in Nat
    BY <1>0, <1>2, <2>1, FS_Subset, FS_CardinalityType
  <2> QED
    BY <2>1, <2>2
<1>4. c < a + f
  BY <1>2 DEF Fewer
<1>5. CASE S1 \subseteq S /\ A \cup {p} \subseteq A1 /\ p \notin A
  <2>1. c1 <= c
    BY <1>2, <1>5, FS_Subset
  <2>2. Cardinality(A \cup {p}) = a + 1
    BY <1>1, <1>2, <1>5, FS_AddElement
  <2>3. a + 1 <= a1
    BY <1>2, <1>5, <2>2, FS_Subset
  <2> QED
    BY <1>2, <1>3, <1>4, <2>1, <2>3 DEF Fewer
<1>6. CASE S1 \subseteq S \ {p} /\ A \subseteq A1 /\ p \in S
  <2>1. a <= a1
    BY <1>2, <1>6, FS_Subset
  <2>2. IsFiniteSet(S \ {p}) /\ Cardinality(S \ {p}) = c - 1
    BY <1>2, <1>6, FS_RemoveElement
  <2>3. c1 <= c - 1
    BY <1>2, <1>6, <2>2, FS_Subset
  <2> QED
    BY <1>2, <1>3, <1>4, <2>1, <2>3 DEF Fewer
<1> QED
  BY <1>0, <1>5, <1>6

OneMoreSlot(F, F1, s) == F \cup {s} \subseteq F1 /\ s \notin F

Done(S, A, S1, A1, p) ==
  \/ S1 \subseteq S \cup {p} /\ A \subseteq A1
  \/ S1 \subseteq S /\ A \subseteq A1 \cup {p}

(* A slot is given back, for a piece that goes stale or that was begun. *)
LEMMA SlotGiven ==
  ASSUME NEW S, NEW A, NEW F, NEW S1, NEW A1, NEW F1, NEW p, NEW s,
         IsFiniteSet(S), IsFiniteSet(A1), IsFiniteSet(F1), OneMoreSlot(F, F1, s),
         Done(S, A, S1, A1, p), Fewer(S, A, F)
  PROVE  Fewer(S1, A1, F1)
<1>0. /\ F \cup {s} \subseteq F1 /\ s \notin F
      /\ \/ S1 \subseteq S \cup {p} /\ A \subseteq A1
         \/ S1 \subseteq S /\ A \subseteq A1 \cup {p}
  BY Zenon DEF OneMoreSlot, Done
<1>1. /\ IsFiniteSet(F) /\ IsFiniteSet(S \cup {p}) /\ IsFiniteSet(A1 \cup {p})
      /\ IsFiniteSet(A) /\ IsFiniteSet(S1) /\ IsFiniteSet(F \cup {s})
  <2>1. IsFiniteSet(S \cup {p}) /\ IsFiniteSet(A1 \cup {p})
    BY FS_AddElement
  <2>2. A \subseteq A1 \cup {p} /\ S1 \subseteq S \cup {p}
    BY <1>0
  <2> QED
    BY <1>0, <2>1, <2>2, FS_Subset
<1>2. PICK c \in Nat, c1 \in Nat, a \in Nat, a1 \in Nat, f \in Nat, f1 \in Nat :
        /\ c = Cardinality(S) /\ c1 = Cardinality(S1) /\ a = Cardinality(A)
        /\ a1 = Cardinality(A1) /\ f = Cardinality(F) /\ f1 = Cardinality(F1)
  BY <1>1, FS_CardinalityType
<1>3. f + 1 <= f1
  <2>1. Cardinality(F \cup {s}) = f + 1
    BY <1>0, <1>1, <1>2, FS_AddElement
  <2> QED
    BY <1>0, <1>2, <2>1, FS_Subset
<1>4. c < a + f
  BY <1>2 DEF Fewer
<1>5. CASE S1 \subseteq S \cup {p} /\ A \subseteq A1
  <2>1. a <= a1
    BY <1>2, <1>5, FS_Subset
  <2>2. Cardinality(S \cup {p}) <= c + 1 /\ Cardinality(S \cup {p}) \in Nat
    BY <1>1, <1>2, OneMore
  <2>3. c1 <= Cardinality(S \cup {p})
    BY <1>1, <1>2, <1>5, FS_Subset
  <2> QED
    BY <1>2, <1>3, <1>4, <2>1, <2>2, <2>3 DEF Fewer
<1>6. CASE S1 \subseteq S /\ A \subseteq A1 \cup {p}
  <2>1. c1 <= c
    BY <1>2, <1>6, FS_Subset
  <2>2. Cardinality(A1 \cup {p}) <= a1 + 1 /\ Cardinality(A1 \cup {p}) \in Nat
    BY <1>1, <1>2, OneMore
  <2>3. a <= Cardinality(A1 \cup {p})
    BY <1>1, <1>2, <1>6, FS_Subset
  <2> QED
    BY <1>2, <1>3, <1>4, <2>1, <2>2, <2>3 DEF Fewer
<1> QED
  BY <1>0, <1>5, <1>6

(* Steps in which R goes no further in assign(). *)
ReactorQuiet ==
  \/ task'["R"].pc \notin Assigning
  \/ /\ task["R"].pc = "downloading" /\ task'["R"].pc = "downloading"
     /\ task'["R"].todo = task["R"].todo

LEMMA RoundKept ==
  ASSUME IsFiniteSet(Addresses), TasksTypeOK, StrategyTypeOK', RoundGoesOn, ReactorQuiet,
         m_missing_pieces' = m_missing_pieces,
         \A p \in m_missing_pieces : m_piece_downloaders'[p] = m_piece_downloaders[p],
         FreeSlots \subseteq FreeSlots'
  PROVE  RoundGoesOn'
<1>1. CASE task'["R"].pc \notin Assigning
  BY <1>1 DEF RoundGoesOn
<1>2. CASE /\ task["R"].pc = "downloading" /\ task'["R"].pc = "downloading"
           /\ task'["R"].todo = task["R"].todo
  <2>1. PICK n \in Nat : Round(n)
    BY <1>2 DEF RoundGoesOn, Assigning
  <2>2. Ahead(n)' = Ahead(n)
    BY <1>2 DEF Ahead
  <2>3. Stale(n)' = Stale(n) /\ Begun(n)' = Begun(n)
    BY <2>2 DEF Stale, Begun
  <2>4. IsFiniteSet(Stale(n))
    BY <2>1, StaleCounts DEF Round
  <2>5. IsFiniteSet(Begun(n)) /\ IsFiniteSet(FreeSlots')
    <3>1. Begun(n) \subseteq Pieces
      BY DEF Begun, StrategyTypeOK
    <3>2. FreeSlots' \subseteq Downloaders \X {1, 2}
      BY DEF FreeSlots
    <3> QED
      BY <3>1, <3>2, FiniteData, FS_Subset
  <2>6. AllBegun(n) /\ Fewer(Stale(n), Begun(n), FreeSlots)
    BY <1>2, <2>1 DEF Round
  <2>7. Fewer(Stale(n), Begun(n), FreeSlots')
    BY <2>4, <2>5, <2>6, FewerKept
  <2>8. AllBegun(n)'
    BY <2>2, <2>6 DEF AllBegun
  <2>9. Round(n)'
    <3>1. Fewer(Stale(n)', Begun(n)', FreeSlots')
      BY <2>3, <2>7
    <3> QED
      BY <1>2, <2>1, <2>8, <3>1 DEF Round, Fewer
  <2> QED
    BY <2>9 DEF RoundGoesOn
<1> QED
  BY <1>1, <1>2 DEF ReactorQuiet

LEMMA CloggedKept ==
  ASSUME NeverClogged, m_missing_pieces' = m_missing_pieces,
         \A d \in DOMAIN m_peer_pool :
           /\ d \in DOMAIN m_peer_pool'
           /\ m_peer_pool'[d] = m_peer_pool[d] \/ Len(m_peer_pool'[d]) < 2,
         \A d \in DOMAIN m_peer_pool' : d \in DOMAIN m_peer_pool \/ Len(m_peer_pool'[d]) < 2
  PROVE  NeverClogged'
<1> SUFFICES ASSUME m_missing_pieces # {}, DOMAIN m_peer_pool' # {}
             PROVE  \E d \in DOMAIN m_peer_pool' :
                      \/ Len(m_peer_pool'[d]) < 2
                      \/ \E p \in m_missing_pieces : InSeq(m_peer_pool'[d], p)
  BY DEF NeverClogged
<1>1. CASE DOMAIN m_peer_pool = {}
  BY <1>1
<1>2. CASE DOMAIN m_peer_pool # {}
  <2>1. PICK d \in DOMAIN m_peer_pool :
          Len(m_peer_pool[d]) < 2 \/ \E p \in m_missing_pieces : InSeq(m_peer_pool[d], p)
    BY <1>2 DEF NeverClogged
  <2>2. CASE m_peer_pool'[d] = m_peer_pool[d]
    BY <2>1, <2>2
  <2>3. CASE Len(m_peer_pool'[d]) < 2
    BY <2>1, <2>3
  <2> QED
    BY <2>2, <2>3
<1> QED
  BY <1>1, <1>2

LEMMA LastKept ==
  ASSUME PeersLast,
         \A d \in Downloaders : peer'[d].conn = peer[d].conn /\ peer'[d].has = peer[d].has
  PROVE  PeersLast'
BY DEF PeersLast

LEMMA GotKeepsHas ==
  ASSUME PeersTypeOK, NEW d \in Downloaders, NEW p \in Pieces,
         NEW v \in {"none", "working", "Complete", "Corrupt"}, Gets(d, p, v)
  PROVE  \A e \in Downloaders : peer'[e].conn = peer[e].conn /\ peer'[e].has = peer[e].has
<1>1. peer[d] \in PeerRecords /\ DOMAIN peer = Downloaders
  BY DEF PeersTypeOK
<1>2. peer'[d] = [peer[d] EXCEPT !.got[p] = v]
  BY <1>1 DEF Gets
<1>3. peer'[d].conn = peer[d].conn /\ peer'[d].has = peer[d].has
  BY <1>1, <1>2 DEF PeerRecords
<1>4. \A e \in Downloaders : e # d => peer'[e] = peer[e]
  BY SetGot
<1> QED
  BY <1>3, <1>4

(* The pool, the missing pieces and their entries stay. *)
LEMMA SlotsQuiet ==
  ASSUME IsFiniteSet(Addresses), StrategyInv, StrategyInv', SlotsInv, ReactorQuiet,
         UNCHANGED <<m_missing_pieces, m_peer_pool>>,
         \A p \in m_missing_pieces : m_piece_downloaders'[p] = m_piece_downloaders[p],
         PeersLast'
  PROVE  SlotsInv'
<1>1. TasksTypeOK /\ StrategyTypeOK'
  BY TypeParts, TypePartsNext DEF StrategyInv
<1>2. m_peer_pool' = m_peer_pool /\ m_missing_pieces' = m_missing_pieces
  OBVIOUS
<1>3. FreeSlots' = FreeSlots
  BY <1>2 DEF FreeSlots
<1>4. RoundGoesOn'
  BY <1>1, <1>2, <1>3, RoundKept DEF SlotsInv
<1>5. NeverClogged'
  BY <1>2, CloggedKept DEF SlotsInv
<1> QED
  BY <1>4, <1>5 DEF SlotsInv

(* What R does next, and what others do, does not take it further. *)
LEMMA QuietReactor ==
  ASSUME TasksTypeOK
  PROVE  /\ (Free \/ HasThread("T")) /\ task'["R"].pc = task["R"].pc
              /\ task'["R"].todo = task["R"].todo => ReactorQuiet
         /\ task'["R"].pc \notin Assigning => ReactorQuiet
<1>1. ASSUME Free \/ HasThread("T"), task'["R"].pc = task["R"].pc,
             task'["R"].todo = task["R"].todo
      PROVE  ReactorQuiet
  <2>1. task["R"].pc # "assigning"
    BY <1>1 DEF Free, HasThread, Running
  <2> QED
    BY <1>1, <2>1 DEF ReactorQuiet, Assigning
<1> QED
  BY <1>1 DEF ReactorQuiet

(* Coroutine x, which is not in assign(), becomes another frame. *)
LEMMA QuietBecomes ==
  ASSUME TasksTypeOK, NEW x \in Tasks, NEW g, Becomes(x, g), Free \/ HasThread(x),
         g.pc \notin Assigning
  PROVE  ReactorQuiet
<1>1. DOMAIN task = Tasks /\ "R" \in Tasks
  BY DEF TasksTypeOK, Tasks
<1>2. CASE x = "R"
  <2>1. task'["R"] = g
    BY <1>1, <1>2 DEF Becomes
  <2> QED
    BY <2>1, QuietReactor
<1>3. CASE x = "T"
  <2>1. task'["R"] = task["R"]
    BY <1>1, <1>3 DEF Becomes
  <2> QED
    BY <1>3, <2>1, QuietReactor
<1> QED
  BY <1>2, <1>3 DEF Tasks

(* assign() goes on to the next piece, p: of the first n pieces of s, m of *)
(* t are left.                                                             *)
Goes(s, t, p, n, m) ==
  /\ m <= Len(t)
  /\ \A i, j \in 1..m : t[i] = t[j] => i = j
  /\ {t[i] : i \in 1..m} = {s[i] : i \in 1..n} \ {p}
  /\ p \in {s[i] : i \in 1..n} \/ {s[i] : i \in 1..n} = {}

LEMMA NextTurn ==
  ASSUME NEW s \in Seq(Pieces), s # <<>>, NEW n \in Nat, n <= Len(s),
         \A i, j \in 1..n : s[i] = s[j] => i = j
  PROVE  \E m \in Nat : Goes(s, Tail(s), Head(s), n, m)
<1>1. PICK l \in Nat : l = Len(s) /\ l > 0
  OBVIOUS
<1>2. PICK t, p : t = Tail(s) /\ p = Head(s)
  OBVIOUS
<1>3. /\ t \in Seq(Pieces) /\ Len(t) = l - 1 /\ p = s[1]
      /\ \A i \in 1..(l - 1) : t[i] = s[i + 1]
  BY <1>1, <1>2
<1>4. CASE n = 0
  <2>1. {s[i] : i \in 1..n} = {} /\ {t[i] : i \in 1..0} = {}
    BY <1>4
  <2>2. 0 \in Nat /\ 0 <= Len(t) /\ \A i, j \in 1..0 : t[i] = t[j] => i = j
    BY <1>1, <1>3
  <2>3. {t[i] : i \in 1..0} = {s[i] : i \in 1..n} \ {p}
    BY <2>1
  <2>4. Goes(s, t, p, n, 0)
    BY <2>1, <2>2, <2>3, Zenon DEF Goes
  <2> QED
    BY <1>2, <2>2, <2>4, Zenon
<1>5. CASE n # 0
  <2>1. PICK m \in Nat : n = m + 1 /\ m <= l - 1
    <3>1. n - 1 \in Nat /\ n = (n - 1) + 1 /\ n - 1 <= l - 1
      BY <1>1, <1>5
    <3> QED
      BY <3>1
  <2>2. \A i \in 1..m : i \in 1..(l - 1) /\ i + 1 \in 1..n /\ t[i] = s[i + 1]
    BY <1>1, <1>3, <2>1
  <2>3. \A i, j \in 1..m : t[i] = t[j] => i = j
    <3> TAKE i, j \in 1..m
    <3>1. t[i] = t[j] => i + 1 = j + 1
      BY <2>2
    <3> QED
      BY <3>1
  <2>4. {t[i] : i \in 1..m} = {s[i] : i \in 1..n} \ {p}
    <3>1. ASSUME NEW i \in 1..m
          PROVE  t[i] \in {s[j] : j \in 1..n} \ {p}
      <4>1. i + 1 \in 1..n /\ 1 \in 1..n /\ i + 1 # 1
        BY <2>1
      <4>2. s[i + 1] # s[1]
        BY <4>1
      <4> QED
        BY <1>3, <2>2, <4>1, <4>2
    <3>2. ASSUME NEW j \in 1..n, s[j] # p
          PROVE  s[j] \in {t[i] : i \in 1..m}
      <4>1. j # 1
        BY <1>3, <3>2
      <4>2. j - 1 \in 1..m /\ (j - 1) + 1 = j
        BY <2>1, <4>1
      <4>3. s[j] = t[j - 1]
        BY <2>2, <4>2
      <4> QED
        BY <4>2, <4>3
    <3> QED
      BY <3>1, <3>2
  <2>5. p \in {s[i] : i \in 1..n}
    BY <1>3, <2>1
  <2> QED
    <3>1. m <= Len(t)
      BY <1>3, <2>1
    <3>2. Goes(s, t, p, n, m)
      BY <2>3, <2>4, <2>5, <3>1, Zenon DEF Goes
    <3> QED
      BY <1>2, <2>1, <3>2, Zenon
<1> QED
  BY <1>4, <1>5

LEMMA TurnOfRound ==
  ASSUME TasksTypeOK, task["R"].todo # <<>>, NEW n \in Nat, Round(n),
         task'["R"].todo = Tail(task["R"].todo)
  PROVE  \E m \in Nat :
           /\ m <= Len(task'["R"].todo)
           /\ \A i, j \in 1..m : task'["R"].todo[i] = task'["R"].todo[j] => i = j
           /\ Ahead(m)' = Ahead(n) \ {Head(task["R"].todo)}
           /\ Head(task["R"].todo) \in Ahead(n) \/ Ahead(n) = {}
<1>1. PICK s \in Seq(Pieces) : s = task["R"].todo
  BY DEF TasksTypeOK, Tasks, Frames
<1>2. /\ s # <<>> /\ n <= Len(s) /\ \A i, j \in 1..n : s[i] = s[j] => i = j
  BY <1>1 DEF Round
<1>3. PICK m \in Nat : Goes(s, Tail(s), Head(s), n, m)
  BY <1>1, <1>2, NextTurn
<1>4. Ahead(n) = {s[i] : i \in 1..n} /\ Ahead(m)' = {Tail(s)[i] : i \in 1..m}
  BY <1>1 DEF Ahead
<1> QED
  BY <1>1, <1>3, <1>4 DEF Goes

(* There is no candidate for a piece. *)
LEMMA NobodySteps ==
  ASSUME IsFiniteSet(Addresses), StrategyInv, StrategyInv', SlotsInv, AssignTurn,
         Candidates(Head(task["R"].todo)) = {}, peer' = peer,
         task' = [task EXCEPT !["R"].todo = Tail(@)]
  PROVE  SlotsInv'
<1>1. PICK p, f : p = Head(task["R"].todo) /\ f = task["R"]
  OBVIOUS
<1>2. StrategyTypeOK /\ StrategyTypeOK' /\ TasksTypeOK
  BY TypeParts, TypePartsNext DEF StrategyInv
<1>3. f \in Frames /\ f.pc = "assigning" /\ f.todo # <<>> /\ f.todo \in Seq(Pieces)
  BY <1>1, <1>2 DEF AssignTurn, TasksTypeOK, Tasks, Frames
<1>4. p \in Pieces
  BY <1>1, <1>3
<1>5. /\ m_missing_pieces' = m_missing_pieces /\ m_peer_pool' = m_peer_pool
      /\ m_piece_downloaders' = m_piece_downloaders
  BY DEF AssignTurn, strategyVars
<1>6. task'["R"].pc = "assigning" /\ task'["R"].todo = Tail(f.todo)
  BY <1>1, <1>2, <1>3 DEF TasksTypeOK, Tasks, Frames
<1>7. PICK n \in Nat : Round(n)
  BY <1>1, <1>3 DEF SlotsInv, RoundGoesOn, Assigning
<1>8. PICK m \in Nat :
        /\ m <= Len(task'["R"].todo)
        /\ \A i, j \in 1..m : task'["R"].todo[i] = task'["R"].todo[j] => i = j
        /\ Ahead(m)' = Ahead(n) \ {p}
        /\ p \in Ahead(n) \/ Ahead(n) = {}
  BY <1>1, <1>2, <1>3, <1>6, <1>7, TurnOfRound
<1>9. AllBegun(m)' \/ NoRoom'
  <2>1. AllBegun(n) \/ NoRoom
    BY <1>1, <1>3, <1>7 DEF Round
  <2>2. CASE NoRoom
    BY <1>5, <2>2 DEF NoRoom
  <2>3. CASE AllBegun(n) /\ m_piece_downloaders[p] # <<>>
    BY <1>5, <1>8, <2>3 DEF AllBegun
  <2>4. CASE m_piece_downloaders[p] = <<>>
    <3>1. Len(m_piece_downloaders[p]) < 2 /\ \A d : ~InSeq(m_piece_downloaders[p], d)
      BY <2>4, EmptyVector
    <3>2. \A d \in DOMAIN m_peer_pool : Len(m_peer_pool[d]) < 2 => p \notin peer[d].has
      BY <1>1, <3>1 DEF Candidates, MayHave
    <3>3. DOMAIN m_peer_pool \subseteq Downloaders
      BY <1>2 DEF StrategyTypeOK
    <3>4. NoRoom
      BY <1>4, <3>2, <3>3 DEF NoRoom, SlotsInv, PeersLast
    <3> QED
      BY <1>5, <3>4 DEF NoRoom
  <2> QED
    BY <2>1, <2>2, <2>3, <2>4
<1>10. Stale(m)' \subseteq Stale(n) /\ Begun(n) \subseteq Begun(m)' /\ FreeSlots' = FreeSlots
  BY <1>5, <1>8 DEF Stale, Begun, FreeSlots
<1>11. IsFiniteSet(Stale(n)) /\ IsFiniteSet(Begun(m)') /\ IsFiniteSet(FreeSlots')
  <2>1. Begun(m)' \subseteq Pieces
    BY <1>2 DEF Begun, StrategyTypeOK
  <2> QED
    BY <1>2, <1>7, <1>10, <2>1, Counts, StaleCounts, FiniteData, FS_Subset DEF Round
<1>12. Fewer(Stale(m)', Begun(m)', FreeSlots') \/ NoMore(Stale(m)', Begun(m)')
  <2>1. Fewer(Stale(n), Begun(n), FreeSlots) \/ NoMore(Stale(n), Begun(n))
    BY <1>1, <1>3, <1>7 DEF Round
  <2> QED
    BY <1>10, <1>11, <2>1, FewerKept
<1>13. Round(m)'
  BY <1>6, <1>8, <1>9, <1>12 DEF Round, Fewer, NoMore
<1>14. NeverClogged'
  BY <1>5, CloggedKept DEF SlotsInv
<1>15. PeersLast'
  BY LastKept DEF SlotsInv
<1> QED
  BY <1>13, <1>14, <1>15 DEF SlotsInv, RoundGoesOn

(* A candidate has a free slot, and missing pieces that are behind are     *)
(* begun, for there was room for them.                                     *)
LEMMA CandidateSteps ==
  ASSUME IsFiniteSet(Addresses), StrategyInv, StrategyInv', SlotsInv, AssignTurn,
         NEW d \in Candidates(Head(task["R"].todo)),
         download_piece(d, Head(task["R"].todo)),
         task' = [task EXCEPT !["R"].pc = "downloading", !["R"].downloader = d]
  PROVE  SlotsInv'
<1>1. PICK p, f : p = Head(task["R"].todo) /\ f = task["R"]
  OBVIOUS
<1>2. StrategyTypeOK /\ StrategyTypeOK' /\ TasksTypeOK /\ PeersTypeOK
  BY TypeParts, TypePartsNext DEF StrategyInv
<1>3. f \in Frames /\ f.pc = "assigning" /\ f.todo # <<>> /\ f.todo \in Seq(Pieces)
  BY <1>1, <1>2 DEF AssignTurn, TasksTypeOK, Tasks, Frames
<1>4. p \in Pieces
  BY <1>1, <1>3
<1>5. /\ m_missing_pieces' = m_missing_pieces /\ m_peer_pool' = m_peer_pool
      /\ m_piece_downloaders' = m_piece_downloaders
  BY DEF AssignTurn, strategyVars
<1>6. task'["R"].pc = "downloading" /\ task'["R"].todo = f.todo
  BY <1>1, <1>2, <1>3 DEF TasksTypeOK, Tasks, Frames
<1>7. d \in DOMAIN m_peer_pool /\ Len(m_peer_pool[d]) < 2 /\ p \in peer[d].has
  BY <1>1 DEF Candidates, MayHave
<1>8. d \in Downloaders
  BY <1>2, <1>7 DEF StrategyTypeOK
<1>9. PICK n \in Nat : Round(n)
  BY <1>1, <1>3 DEF SlotsInv, RoundGoesOn, Assigning
<1>10. AllBegun(n)
  <2>1. ~NoRoom
    BY <1>7 DEF NoRoom
  <2> QED
    BY <1>1, <1>3, <1>9, <2>1 DEF Round
<1>11. Ahead(n)' = Ahead(n)
  BY <1>1, <1>6 DEF Ahead
<1>12. /\ Stale(n)' = Stale(n) /\ Begun(n)' = Begun(n) /\ FreeSlots' = FreeSlots
       /\ AllBegun(n)'
  BY <1>5, <1>10, <1>11 DEF Stale, Begun, FreeSlots, AllBegun
<1>13. Fewer(Stale(n), Begun(n), FreeSlots)
  <2>1. Fewer(Stale(n), Begun(n), FreeSlots) \/ NoMore(Stale(n), Begun(n))
    BY <1>1, <1>3, <1>9 DEF Round
  <2>2. <<d, 2>> \in FreeSlots
    BY <1>7, <1>8 DEF FreeSlots
  <2>3. /\ IsFiniteSet(Stale(n)) /\ IsFiniteSet(Begun(n)) /\ IsFiniteSet(FreeSlots)
    BY <1>2, <1>9, Counts, StaleCounts DEF Round
  <2>4. PICK a \in Nat, b \in Nat, c \in Nat :
          a = Cardinality(Stale(n)) /\ b = Cardinality(Begun(n)) /\ c = Cardinality(FreeSlots)
    BY <2>3, FS_CardinalityType
  <2>5. c # 0
    BY <2>2, <2>3, <2>4, FS_EmptySet
  <2> QED
    BY <2>1, <2>4, <2>5 DEF Fewer, NoMore
<1>14. Round(n)'
  <2>1. Fewer(Stale(n)', Begun(n)', FreeSlots')
    BY <1>12, <1>13
  <2> QED
    BY <1>1, <1>6, <1>9, <1>12, <2>1 DEF Round, Fewer
<1>15. NeverClogged'
  BY <1>5, CloggedKept DEF SlotsInv
<1>16. PeersLast'
  <2>1. Gets(d, p, "working")
    BY <1>1 DEF download_piece, Gets
  <2> QED
    BY <1>2, <1>4, <1>8, <2>1, GotKeepsHas, LastKept DEF SlotsInv
<1> QED
  BY <1>14, <1>15, <1>16 DEF SlotsInv, RoundGoesOn

(* An assigned piece takes a slot.  If it was stored meanwhile it was      *)
(* ahead, and then there was one more free slot or there is another        *)
(* missing piece that has its downloader.                                  *)
LEMMA AssignedSteps ==
  ASSUME IsFiniteSet(Addresses), StrategyInv, StrategyInv', SlotsInv, Assigned
  PROVE  SlotsInv'
<1>0. PICK f, p, d : f = task["R"] /\ p = Head(f.todo) /\ d = f.downloader
  OBVIOUS
<1>1. StrategyTypeOK /\ StrategyTypeOK' /\ TasksTypeOK /\ "R" \in Tasks
  BY TypeParts, TypePartsNext DEF StrategyInv, Tasks
<1>2. /\ f \in Frames /\ f.pc = "downloading" /\ f.todo \in Seq(Pieces)
      /\ m_peer_pool' = [m_peer_pool EXCEPT ![d] = Append(@, p)]
      /\ m_piece_downloaders' = [m_piece_downloaders EXCEPT ![p] = Append(@, d)]
      /\ task' = [task EXCEPT !["R"].pc = "assigning", !["R"].todo = Tail(@),
                              !["R"].downloader = <<>>,
                              !["T"].moved = @ \cup {e \in {d} : UnderFoot(task["T"], {p})}]
      /\ m_missing_pieces' = m_missing_pieces /\ peer' = peer
  BY <1>0, <1>1 DEF Assigned, TasksTypeOK, Frames
<1>3. f.todo # <<>> /\ d \in DOMAIN m_peer_pool /\ Len(m_peer_pool[d]) < 2
  BY <1>0, <1>1, <1>2 DEF StrategyInv, TaskOK, AssigningOK
<1>4. /\ p \in Pieces /\ d \in Downloaders /\ m_peer_pool[d] \in Seq(Pieces)
      /\ m_piece_downloaders[p] \in Seq(Downloaders)
  BY <1>0, <1>1, <1>2, <1>3 DEF StrategyTypeOK
<1>5. /\ DOMAIN m_peer_pool' = DOMAIN m_peer_pool
      /\ m_peer_pool'[d] = Append(m_peer_pool[d], p)
      /\ \A e \in DOMAIN m_peer_pool : e # d => m_peer_pool'[e] = m_peer_pool[e]
  BY <1>2, <1>3
<1>6. /\ m_piece_downloaders'[p] = Append(m_piece_downloaders[p], d)
      /\ \A q \in Pieces : q # p => m_piece_downloaders'[q] = m_piece_downloaders[q]
  BY <1>1, <1>2, <1>4 DEF StrategyTypeOK
<1>7. m_piece_downloaders'[p] # <<>>
  <2>1. Append(m_piece_downloaders[p], d) # <<>>
    BY <1>4
  <2> QED
    BY <1>6, <2>1
<1>8. task'["R"].pc = "assigning" /\ task'["R"].todo = Tail(f.todo)
  BY <1>0, <1>1, <1>2 DEF TasksTypeOK, Frames
<1>9. PICK n \in Nat : Round(n)
  BY <1>0, <1>2 DEF SlotsInv, RoundGoesOn, Assigning
<1>10. AllBegun(n) /\ Fewer(Stale(n), Begun(n), FreeSlots)
  BY <1>0, <1>2, <1>9 DEF Round
<1>11. PICK m \in Nat :
         /\ m <= Len(task'["R"].todo)
         /\ \A i, j \in 1..m : task'["R"].todo[i] = task'["R"].todo[j] => i = j
         /\ Ahead(m)' = Ahead(n) \ {p}
         /\ p \in Ahead(n) \/ Ahead(n) = {}
  BY <1>0, <1>1, <1>3, <1>8, <1>9, TurnOfRound
<1>12. m_missing_pieces \subseteq Pieces
  BY <1>1 DEF StrategyTypeOK
<1>13. AllBegun(m)'
  BY <1>2, <1>6, <1>7, <1>10, <1>11, <1>12 DEF AllBegun
<1>14. PICK l \in Nat : l = Len(m_peer_pool[d]) /\ l < 2 /\ Len(m_peer_pool'[d]) = l + 1
  BY <1>3, <1>4, <1>5
<1>slot. PICK taken : taken = <<d, l + 1>>
  OBVIOUS
<1>15. AllBut(FreeSlots, FreeSlots', taken)
  <2> SUFFICES ASSUME NEW s \in FreeSlots, s # taken
               PROVE  s \in FreeSlots'
    BY DEF AllBut
  <2>1. /\ s \in Downloaders \X {1, 2} /\ s[1] \in DOMAIN m_peer_pool
        /\ Len(m_peer_pool[s[1]]) < s[2] /\ s = <<s[1], s[2]>>
    BY DEF FreeSlots
  <2>2. CASE s[1] = d
    <3>1. s[2] # l + 1
      BY <1>slot, <2>1, <2>2
    <3>2. l < s[2] /\ s[2] \in {1, 2}
      BY <1>14, <2>1, <2>2
    <3>3. l + 1 < s[2]
      BY <3>1, <3>2
    <3> QED
      BY <1>5, <1>14, <2>1, <2>2, <3>3 DEF FreeSlots
  <2>3. CASE s[1] # d
    BY <1>5, <2>1, <2>3 DEF FreeSlots
  <2> QED
    BY <2>2, <2>3
<1>16. /\ IsFiniteSet(Stale(n)) /\ IsFiniteSet(Begun(n)) /\ IsFiniteSet(FreeSlots)
       /\ IsFiniteSet(Begun(m)') /\ IsFiniteSet(FreeSlots')
  <2>1. Begun(m)' \subseteq Pieces
    BY <1>2, <1>12 DEF Begun
  <2>2. FreeSlots' \subseteq Downloaders \X {1, 2}
    BY DEF FreeSlots
  <2> QED
    BY <1>1, <1>9, <2>1, <2>2, Counts, StaleCounts, FiniteData, FS_Subset DEF Round
<1>17. Fewer(Stale(m)', Begun(m)', FreeSlots') \/ NoMore(Stale(m)', Begun(m)')
  <2>1. CASE p \in Ahead(n) /\ p \in m_missing_pieces
    <3>1. Stale(m)' \subseteq Stale(n)
      BY <1>2, <1>11 DEF Stale
    <3>2. Begun(n) \cup {p} \subseteq Begun(m)' /\ p \notin Begun(n)
      BY <1>2, <1>4, <1>6, <1>7, <1>11, <1>12, <2>1 DEF Begun
    <3>3. Shifted(Stale(n), Begun(n), Stale(m)', Begun(m)', p)
      BY <3>1, <3>2, Zenon DEF Shifted
    <3> QED
      BY <1>10, <1>15, <1>16, <3>3, SlotTaken, Zenon
  <2>2. CASE p \in Ahead(n) /\ p \notin m_missing_pieces
    <3>1. Stale(m)' \subseteq Stale(n) \ {p} /\ p \in Stale(n)
      BY <1>2, <1>11, <2>2 DEF Stale
    <3>2. Begun(n) \subseteq Begun(m)'
      BY <1>2, <1>6, <1>11, <1>12, <2>2 DEF Begun
    <3>3. Shifted(Stale(n), Begun(n), Stale(m)', Begun(m)', p)
      BY <3>1, <3>2, Zenon DEF Shifted
    <3> QED
      BY <1>10, <1>15, <1>16, <3>3, SlotTaken, Zenon
  <2>3. CASE Ahead(n) = {}
    <3>1. Stale(m)' = {}
      BY <1>11, <2>3 DEF Stale
    <3>2. Cardinality(Begun(m)') \in Nat /\ Cardinality({}) = 0
      BY <1>16, FS_CardinalityType, FS_EmptySet
    <3> QED
      BY <3>1, <3>2 DEF NoMore
  <2> QED
    BY <1>11, <2>1, <2>2, <2>3
<1>18. Round(m)'
  BY <1>8, <1>11, <1>13, <1>17 DEF Round, Fewer, NoMore
<1>19. NeverClogged'
  <2> SUFFICES ASSUME m_missing_pieces # {}
               PROVE  \E e \in DOMAIN m_peer_pool' :
                        \/ Len(m_peer_pool'[e]) < 2
                        \/ \E q \in m_missing_pieces : InSeq(m_peer_pool'[e], q)
    BY <1>2 DEF NeverClogged
  <2>0. \A q : InSeq(Append(m_peer_pool[d], p), q) <=> InSeq(m_peer_pool[d], q) \/ q = p
    BY <1>4, AppendFacts
  <2>1. \A e \in DOMAIN m_peer_pool :
          \A q : InSeq(m_peer_pool[e], q) => InSeq(m_peer_pool'[e], q)
    BY <1>5, <2>0, Zenon
  <2>2. InSeq(m_peer_pool'[d], p)
    BY <1>5, <2>0, Zenon
  <2>3. CASE p \in m_missing_pieces
    BY <1>3, <1>5, <2>2, <2>3
  <2>4. CASE \E q \in m_missing_pieces : q \notin Ahead(n)
    <3>1. PICK q \in m_missing_pieces : q \notin Ahead(n)
      BY <2>4
    <3>2. m_piece_downloaders[q] # <<>> /\ m_piece_downloaders[q] \in Seq(Downloaders)
      BY <1>1, <1>10, <1>12, <3>1 DEF AllBegun, StrategyTypeOK
    <3>3. PICK e \in Downloaders : InSeq(m_piece_downloaders[q], e)
      <4>1. 1 \in DOMAIN m_piece_downloaders[q] /\ m_piece_downloaders[q][1] \in Downloaders
        BY <3>2
      <4> QED
        BY <4>1 DEF InSeq
    <3>4. e \in DOMAIN m_peer_pool /\ InSeq(m_peer_pool[e], q)
      BY <3>1, <3>3 DEF StrategyInv, MapsAgreeOnMissing
    <3> QED
      BY <1>5, <2>1, <3>1, <3>4
  <2>5. CASE p \notin m_missing_pieces /\ m_missing_pieces \subseteq Ahead(n)
    <3>1. p \in Stale(n)
      BY <1>11, <2>5 DEF Stale
    <3>2. Begun(n) = {}
      BY <2>5 DEF Begun
    <3>3. PICK a \in Nat, c \in Nat : a = Cardinality(Stale(n)) /\ c = Cardinality(FreeSlots)
      BY <1>16, FS_CardinalityType
    <3>4. a # 0 /\ a < 0 + c
      BY <1>10, <1>16, <3>1, <3>2, <3>3, FS_EmptySet DEF Fewer
    <3>5. FreeSlots' # {}
      <4>1. ASSUME FreeSlots' = {} PROVE FALSE
        <5>1. FreeSlots \subseteq {taken}
          BY <1>15, <4>1 DEF AllBut
        <5>2. c <= 1
          <6>1. IsFiniteSet({taken}) /\ Cardinality({taken}) = 1
            BY FS_Singleton, Zenon
          <6>2. Cardinality(FreeSlots) <= Cardinality({taken})
            BY <5>1, <6>1, FS_Subset
          <6> QED
            BY <3>3, <6>1, <6>2
        <5> QED
          BY <3>4, <5>2
      <4> QED
        BY <4>1
    <3>6. PICK s : s \in FreeSlots'
      BY <3>5
    <3>7. s[1] \in DOMAIN m_peer_pool' /\ Len(m_peer_pool'[s[1]]) < s[2] /\ s[2] \in {1, 2}
      BY <3>6 DEF FreeSlots
    <3>8. Len(m_peer_pool'[s[1]]) \in Nat
      BY <1>1, <3>7 DEF StrategyTypeOK
    <3>9. Len(m_peer_pool'[s[1]]) < 2
      BY <3>7, <3>8
    <3> QED
      BY <3>7, <3>9
  <2> QED
    BY <2>3, <2>4, <2>5
<1>20. PeersLast'
  BY <1>2, LastKept DEF SlotsInv
<1> QED
  BY <1>18, <1>19, <1>20 DEF SlotsInv, RoundGoesOn

(* A stored piece gives a slot back, and is stale or begun no more. *)
LEMMA StoredSteps ==
  ASSUME IsFiniteSet(Addresses), StrategyInv, StrategyInv', SlotsInv,
         NEW x \in Tasks, PieceStored(x), ~GoWrong
  PROVE  SlotsInv'
<1>0. PICK r, p, d, f : /\ r = task[x] /\ p = r.index /\ d = r.downloader
                        /\ f = [r EXCEPT !.completed = r.completed \cup {p}, !.downloader = <<>>]
  OBVIOUS
<1>1. StrategyTypeOK /\ StrategyTypeOK' /\ TasksTypeOK
  BY TypeParts, TypePartsNext DEF StrategyInv
<1>2. /\ r \in Frames /\ r.pc = "pushed" /\ HasThread(x) /\ d \in DOMAIN m_peer_pool
      /\ InSeq(m_peer_pool[d], p)
      /\ m_peer_pool' = [m_peer_pool EXCEPT ![d] = EraseOne(d, p)]
      /\ m_missing_pieces' = m_missing_pieces \ {p} /\ Becomes(x, Advance(f))
      /\ m_piece_downloaders' = m_piece_downloaders /\ peer' = peer
  BY <1>0, <1>1 DEF PieceStored, ErasesEnd, Becomes, TasksTypeOK
<1>3. p \in Pieces /\ d \in Downloaders
  BY <1>0, <1>2 DEF StrategyInv, TaskOK, PollOK, Stopped
<1>4. PICK l \in Nat, e \in Seq(Pieces) :
        /\ l = Len(m_peer_pool[d]) /\ l <= 2 /\ e = EraseOne(d, p) /\ Len(e) < l
  <2>1. m_peer_pool[d] \in Seq(Pieces) /\ Len(m_peer_pool[d]) <= 2
    BY <1>1, <1>2 DEF StrategyTypeOK, StrategyInv, AtMostTwo
  <2>2. EraseOne(d, p) \in Seq(Pieces) /\ Len(EraseOne(d, p)) < Len(m_peer_pool[d])
    BY <1>2, <1>3, <2>1, EraseOneFacts
  <2>3. Len(m_peer_pool[d]) \in Nat
    BY <2>1
  <2> QED
    BY <2>1, <2>2, <2>3
<1>5. /\ DOMAIN m_peer_pool' = DOMAIN m_peer_pool /\ m_peer_pool'[d] = e
      /\ \A c \in DOMAIN m_peer_pool : c # d => m_peer_pool'[c] = m_peer_pool[c]
  BY <1>2, <1>4
<1>6. PICK k \in Nat : k = Len(e) /\ k < l
  BY <1>4
<1>7. NeverClogged'
  <2>1. k < 2
    BY <1>4, <1>6
  <2> QED
    BY <1>2, <1>5, <1>6, <2>1 DEF NeverClogged
<1>8. PeersLast'
  BY <1>2, LastKept DEF SlotsInv
<1>9. CASE task'["R"].pc \notin Assigning
  BY <1>7, <1>8, <1>9 DEF SlotsInv, RoundGoesOn
<1>10. CASE task'["R"].pc \in Assigning
  <2>1. Advance(f).pc = "polling"
    <3>1. PICK c \in SUBSET Pieces : c = r.completed \cup {p}
      BY <1>2, <1>3 DEF Frames
    <3>2. f = [r EXCEPT !.completed = c, !.downloader = <<>>]
      BY <1>0, <3>1
    <3>3. f \in Frames
      BY <1>2, <3>2 DEF Frames
    <3> QED
      BY <3>3, AdvancePc
  <2>2. ReactorQuiet
    BY <1>1, <1>2, <2>1, QuietBecomes DEF Assigning
  <2>3. /\ task["R"].pc = "downloading" /\ task'["R"].pc = "downloading"
        /\ task'["R"].todo = task["R"].todo
    BY <1>10, <2>2 DEF ReactorQuiet
  <2>4. PICK n \in Nat : Round(n)
    BY <2>3 DEF SlotsInv, RoundGoesOn, Assigning
  <2>5. AllBegun(n) /\ Fewer(Stale(n), Begun(n), FreeSlots)
    BY <2>3, <2>4 DEF Round
  <2>6. Ahead(n)' = Ahead(n)
    BY <2>3 DEF Ahead
  <2>7. AllBegun(n)'
    BY <1>2, <2>5, <2>6 DEF AllBegun
  <2>8. Done(Stale(n), Begun(n), Stale(n)', Begun(n)', p)
    <3>1. CASE p \in Ahead(n)
      <4>1. Stale(n)' \subseteq Stale(n) \cup {p} /\ Begun(n) \subseteq Begun(n)'
        BY <1>2, <2>6, <3>1 DEF Stale, Begun
      <4> QED
        BY <4>1 DEF Done
    <3>2. CASE p \notin Ahead(n)
      <4>1. Stale(n)' \subseteq Stale(n) /\ Begun(n) \subseteq Begun(n)' \cup {p}
        BY <1>2, <2>6, <3>2 DEF Stale, Begun
      <4> QED
        BY <4>1 DEF Done
    <3> QED
      BY <3>1, <3>2
  <2>9. PICK s : s = <<d, l>>
    OBVIOUS
  <2>10. OneMoreSlot(FreeSlots, FreeSlots', s)
    <3>1. s \notin FreeSlots
      <4>1. s[1] = d /\ s[2] = l /\ ~(l < l)
        BY <2>9
      <4> QED
        BY <1>4, <4>1 DEF FreeSlots
    <3>2. s \in FreeSlots'
      <4>1. l \in {1, 2}
        <5>1. l = 0 \/ l = 1 \/ l = 2
          BY <1>4, UpToTwo
        <5>2. l # 0
          BY <1>6
        <5> QED
          BY <5>1, <5>2
      <4>2. s \in Downloaders \X {1, 2} /\ s[1] = d /\ s[2] = l
        BY <1>3, <2>9, <4>1
      <4> QED
        BY <1>2, <1>5, <1>6, <4>2 DEF FreeSlots
    <3>3. FreeSlots \subseteq FreeSlots'
      <4> SUFFICES ASSUME NEW t \in FreeSlots PROVE t \in FreeSlots'
        OBVIOUS
      <4>1. /\ t \in Downloaders \X {1, 2} /\ t[1] \in DOMAIN m_peer_pool
            /\ Len(m_peer_pool[t[1]]) < t[2] /\ t[2] \in {1, 2}
        BY DEF FreeSlots
      <4>2. CASE t[1] = d
        <5>1. l < t[2]
          BY <1>4, <4>1, <4>2
        <5>2. k < t[2]
          BY <1>6, <4>1, <5>1
        <5> QED
          BY <1>5, <1>6, <4>1, <4>2, <5>2 DEF FreeSlots
      <4>3. CASE t[1] # d
        BY <1>5, <4>1, <4>3 DEF FreeSlots
      <4> QED
        BY <4>2, <4>3
    <3> QED
      BY <3>1, <3>2, <3>3 DEF OneMoreSlot
  <2>11. IsFiniteSet(Stale(n)) /\ IsFiniteSet(Begun(n)') /\ IsFiniteSet(FreeSlots')
    <3>1. Begun(n)' \subseteq Pieces /\ FreeSlots' \subseteq Downloaders \X {1, 2}
      BY <1>1 DEF Begun, FreeSlots, StrategyTypeOK
    <3> QED
      BY <1>1, <2>4, <3>1, StaleCounts, FiniteData, FS_Subset DEF Round
  <2>12. Fewer(Stale(n)', Begun(n)', FreeSlots')
    BY <2>5, <2>8, <2>10, <2>11, SlotGiven, Zenon
  <2>13. Round(n)'
    BY <2>3, <2>4, <2>7, <2>12 DEF Round, Fewer
  <2> QED
    BY <1>7, <1>8, <2>13 DEF SlotsInv, RoundGoesOn
<1> QED
  BY <1>9, <1>10

(* A step of coroutine x, which is not in assign() afterwards. *)
LEMMA QuietFrame ==
  ASSUME TasksTypeOK, NEW x \in Tasks, Free \/ HasThread(x), task'[x].pc \notin Assigning,
         \A y \in Tasks : y # x => task'[y] = task[y]
  PROVE  ReactorQuiet
<1>1. CASE x = "R"
  BY <1>1, QuietReactor
<1>2. CASE x = "T"
  <2>1. task'["R"] = task["R"]
    BY <1>2 DEF Tasks
  <2> QED
    BY <1>2, <2>1, QuietReactor
<1> QED
  BY <1>1, <1>2 DEF Tasks

LEMMA QuietSteps ==
  ASSUME IsFiniteSet(Addresses), StrategyInv, StrategyInv', SlotsInv, ReactorQuiet,
         UNCHANGED strategyVars,
         \A d \in Downloaders : peer'[d].conn = peer[d].conn /\ peer'[d].has = peer[d].has
  PROVE  SlotsInv'
<1>1. PeersLast'
  BY LastKept DEF SlotsInv
<1>2. /\ UNCHANGED <<m_missing_pieces, m_peer_pool>>
      /\ \A p \in m_missing_pieces : m_piece_downloaders'[p] = m_piece_downloaders[p]
  BY DEF strategyVars
<1> QED
  BY <1>1, <1>2, SlotsQuiet

(* assign() returns, a write ends or throws, download_piece throws, and    *)
(* the merge goes on: no slot is touched.                                  *)
LEMMA RestSteps ==
  ASSUME IsFiniteSet(Addresses), StrategyInv, StrategyInv', SlotsInv, NEW x \in Tasks,
         \/ AssignReturns \/ WriteDone(x) \/ WriteThrows(x) \/ DownloadThrows(x)
         \/ MergePiece \/ GoWrong
  PROVE  SlotsInv'
<1>1. /\ StrategyTypeOK /\ TasksTypeOK /\ DOMAIN task = Tasks /\ "R" \in Tasks
      /\ task[x] \in Frames /\ task["R"] \in Frames
  BY TypeParts DEF StrategyInv, Tasks, TasksTypeOK
<1>2. UNCHANGED strategyVars /\ peer' = peer
  BY DEF AssignReturns, WriteDone, WriteThrows, DownloadThrows, MergePiece, GoWrong
<1>3. Frame("failed", FALSE).pc = "failed" /\ Frame("waiting", FALSE).pc = "waiting"
  BY DEF Frame
<1>4. ReactorQuiet \/ RoundGoesOn'
  <2>1. CASE AssignReturns
    <3>1. PICK g : g = IF task["R"].first THEN Frame("waiting", FALSE)
                       ELSE StartPolling(task["R"], m_piece_downloaders)
      OBVIOUS
    <3>2. task'["R"] = g
      BY <1>1, <2>1, <3>1 DEF AssignReturns
    <3>3. g.pc \in {"waiting", "polling"}
      BY <1>1, <1>3, <3>1, StartPollingFields
    <3> QED
      BY <3>2, <3>3 DEF ReactorQuiet, Assigning
  <2>2. CASE WriteDone(x)
    <3>1. Free /\ task'[x].pc = "pushed" /\ \A y \in Tasks : y # x => task'[y] = task[y]
      BY <1>1, <2>2 DEF WriteDone, Frames
    <3> QED
      BY <1>1, <3>1, QuietFrame DEF Assigning
  <2>3. CASE WriteThrows(x) \/ DownloadThrows(x)
    <3>1. Free /\ task'[x] = Frame("failed", FALSE) /\ \A y \in Tasks : y # x => task'[y] = task[y]
      BY <1>1, <2>3 DEF WriteThrows, DownloadThrows
    <3> QED
      BY <1>1, <1>3, <3>1, QuietFrame DEF Assigning
  <2>4. CASE MergePiece
    <3>1. task'["R"].pc \in {"merging", "failed", "finished"}
      BY <1>1, <2>4 DEF MergePiece, Frames
    <3> QED
      BY <3>1 DEF ReactorQuiet, Assigning
  <2>5. CASE GoWrong
    <3>1. task' = task /\ m_missing_pieces' = m_missing_pieces /\ m_peer_pool' = m_peer_pool
          /\ m_piece_downloaders' = m_piece_downloaders
      BY <2>5 DEF GoWrong, strategyVars
    <3>2. RoundGoesOn
      BY DEF SlotsInv
    <3> QED
      BY <1>2, <3>1, <3>2 DEF RoundGoesOn, Round, AllBegun, NoRoom, Ahead, Stale, Begun,
                              FreeSlots
  <2> QED
    BY <2>1, <2>2, <2>3, <2>4, <2>5
<1>5. CASE ReactorQuiet
  BY <1>2, <1>5, QuietSteps
<1>6. CASE RoundGoesOn'
  <2>1. PeersLast'
    BY <1>2, LastKept DEF SlotsInv
  <2>2. NeverClogged'
    BY <1>2, CloggedKept DEF SlotsInv, strategyVars
  <2> QED
    BY <1>6, <2>1, <2>2 DEF SlotsInv
<1> QED
  BY <1>4, <1>5, <1>6

(* is_done() goes on, takes a Complete piece out of its downloader or asks *)
(* for a Corrupt one again.                                                *)
LEMMA TakingSteps ==
  ASSUME IsFiniteSet(Addresses), StrategyInv, StrategyInv', SlotsInv, NEW x \in Tasks,
         PollNothing(x) \/ PollComplete(x) \/ PollCorrupt(x) \/ Repeated(x), ~GoWrong
  PROVE  SlotsInv'
<1>1. /\ StrategyTypeOK /\ TasksTypeOK /\ PeersTypeOK /\ DOMAIN task = Tasks
      /\ task[x] \in Frames
  BY TypeParts DEF StrategyInv, TasksTypeOK
<1>2. UNCHANGED strategyVars /\ (Free \/ HasThread(x))
  BY DEF PollNothing, PollComplete, PollCorrupt, Repeated
<1>3. /\ ReactorQuiet
      /\ \A d \in Downloaders : peer'[d].conn = peer[d].conn /\ peer'[d].has = peer[d].has
  <2>1. CASE PollNothing(x)
    <3>1. PICK g : g = Advance(task[x]) /\ g.pc = "polling"
      BY <1>1, AdvancePc
    <3>2. Becomes(x, g) /\ peer' = peer
      BY <2>1, <3>1 DEF PollNothing, Becomes
    <3> QED
      BY <1>1, <1>2, <3>1, <3>2, QuietBecomes DEF Assigning
  <2>2. CASE Repeated(x)
    <3>1. PICK f : f = [task[x] EXCEPT !.downloader = <<>>]
      OBVIOUS
    <3>2. f \in Frames
      BY <1>1, <3>1 DEF Frames
    <3>3. PICK g : g = Advance(f) /\ g.pc = "polling"
      BY <3>2, AdvancePc
    <3>4. Becomes(x, g) /\ peer' = peer
      BY <2>2, <3>1, <3>3 DEF Repeated, Becomes
    <3> QED
      BY <1>1, <1>2, <3>3, <3>4, QuietBecomes DEF Assigning
  <2>3. CASE PollComplete(x) \/ PollCorrupt(x)
    <3>1. PICK p, d : p = task[x].index /\ d = m_piece_downloaders[p][task[x].pos]
      OBVIOUS
    <3>2. /\ task[x].pc = "polling" /\ task[x].index < PieceCount /\ task[x].end > 0
          /\ \E v \in {"none", "working"} : Gets(d, p, v)
          /\ \E pc \in {"pushing", "pushed", "repeating"} :
               task' = [task EXCEPT ![x].pc = pc, ![x].downloader = d]
      BY <2>3, <3>1 DEF PollComplete, PollCorrupt, download_piece, Gets
    <3>3. p \in Pieces /\ d \in Downloaders
      BY <3>1, <3>2, PolledDownloader
    <3>4. task'[x].pc \in {"pushing", "pushed", "repeating"}
          /\ \A y \in Tasks : y # x => task'[y] = task[y]
      BY <1>1, <3>2 DEF Frames
    <3>5. ReactorQuiet
      BY <1>1, <1>2, <3>4, QuietFrame DEF Assigning
    <3> QED
      BY <1>1, <3>2, <3>3, <3>5, GotKeepsHas
  <2> QED
    BY <2>1, <2>2, <2>3
<1> QED
  BY <1>2, <1>3, QuietSteps

(* is_done() returns: the entries it erases are of stored pieces. *)
LEMMA ReturningSteps ==
  ASSUME IsFiniteSet(Addresses), StrategyInv, StrategyInv', SlotsInv, NEW x \in Tasks,
         PollingReturns(x), ~GoWrong
  PROVE  SlotsInv'
<1>1. /\ StrategyTypeOK /\ TasksTypeOK /\ task["R"] \in Frames /\ "R" \in Tasks
  BY TypeParts DEF StrategyInv, Tasks, TasksTypeOK
<1>2. /\ HasThread(x) /\ peer' = peer /\ UNCHANGED <<m_missing_pieces, m_peer_pool>>
      /\ m_piece_downloaders' =
           [p \in Pieces |-> IF p \in task[x].completed THEN <<>> ELSE m_piece_downloaders[p]]
      /\ task' = [y \in Tasks |->
                    IF y = x THEN AfterPolling(x)
                    ELSE [task[y] EXCEPT !.freed =
                            @ \/ UnderFoot(task[y], task[x].completed)]]
  BY DEF PollingReturns, Tasks
<1>3. \A p \in m_missing_pieces : m_piece_downloaders'[p] = m_piece_downloaders[p]
  <2>1. task[x].completed \cap m_missing_pieces = {} /\ m_missing_pieces \subseteq Pieces
    BY <1>1 DEF StrategyInv, TaskOK, PollOK, StrategyTypeOK
  <2> QED
    BY <1>2, <2>1
<1>4. ReactorQuiet
  <2>1. CASE x = "R"
    <3>1. task'["R"] = AfterPolling("R") /\ AfterPolling("R").pc \in {"merging", "finished", "waiting"}
      BY <1>1, <1>2, <2>1 DEF AfterPolling, Frame
    <3> QED
      BY <3>1 DEF ReactorQuiet, Assigning
  <2>2. CASE x = "T"
    <3>1. PICK b : task'["R"] = [task["R"] EXCEPT !.freed = b]
      BY <1>1, <1>2, <2>2
    <3>2. task'["R"].pc = task["R"].pc /\ task'["R"].todo = task["R"].todo
      BY <1>1, <3>1 DEF Frames
    <3> QED
      BY <1>1, <1>2, <2>2, <3>2, QuietReactor
  <2> QED
    BY <2>1, <2>2 DEF Tasks
<1>5. PeersLast'
  BY <1>2, LastKept DEF SlotsInv
<1> QED
  BY <1>2, <1>3, <1>4, <1>5, SlotsQuiet

(* Connections are made, by peers that have all pieces or none, and pieces *)
(* arrive.                                                                 *)
LEMMA NetworkSlots ==
  ASSUME ConnectionsLast, StrategyInv, StrategyInv', SlotsInv, Network
  PROVE  SlotsInv'
<1>0. IsFiniteSet(Addresses)
  BY DEF ConnectionsLast
<1>1. TasksTypeOK /\ PeersTypeOK /\ BudgetTypeOK
  BY TypeParts DEF StrategyInv
<1>2. Free /\ UNCHANGED strategyVars /\ task' = task
  BY DEF Network, Lose, PeerEnds, Connected, Announced, PieceArrives
<1>3. ReactorQuiet
  BY <1>1, <1>2, QuietReactor
<1>4. PeersLast'
  <2>1. PeersLast
    BY DEF SlotsInv
  <2>2. ASSUME NEW d \in Downloaders, Lose(d) \/ PeerEnds(d)
        PROVE  FALSE
    <3>1. peer[d].conn # "lost"
      BY <2>1 DEF PeersLast
    <3>2. ~(budget.losses > 0)
      <4>1. budget.losses \in 0..MaxLosses /\ MaxLosses = 0
        BY <1>1 DEF BudgetTypeOK, ConnectionsLast
      <4> QED
        BY <4>1
    <3> QED
      BY <2>2, <3>1, <3>2 DEF Lose, PeerEnds
  <2>3. ASSUME NEW d \in Downloaders, Connected(d)
        PROVE  PeersLast'
    <3>1. peer' = [peer EXCEPT ![d].conn = "connected"]
      BY <2>3 DEF Connected
    <3>2. peer[d] \in PeerRecords /\ DOMAIN peer = Downloaders
      BY <1>1 DEF PeersTypeOK
    <3>3. peer'[d] = [peer[d] EXCEPT !.conn = "connected"]
      BY <3>1, <3>2
    <3>4. peer'[d].conn = "connected" /\ peer'[d].has = peer[d].has
      BY <3>2, <3>3 DEF PeerRecords
    <3>5. \A e \in Downloaders : e # d => peer'[e] = peer[e]
      BY <3>1, <3>2
    <3> QED
      BY <2>1, <3>4, <3>5 DEF PeersLast
  <2>5. ASSUME NEW d \in Downloaders, NEW S \in Bitfields, Announced(d, S)
        PROVE  PeersLast'
    <3>1. peer' = [peer EXCEPT ![d].has = S]
      BY <2>5 DEF Announced
    <3>2. peer[d] \in PeerRecords /\ DOMAIN peer = Downloaders
      BY <1>1 DEF PeersTypeOK
    <3>3. peer'[d] = [peer[d] EXCEPT !.has = S]
      BY <3>1, <3>2
    <3>4. peer'[d].conn = peer[d].conn /\ peer'[d].has = S
      BY <3>2, <3>3 DEF PeerRecords
    <3>5. \A e \in Downloaders : e # d => peer'[e] = peer[e]
      BY <3>1, <3>2
    <3>6. S \in {{}, Pieces}
      BY DEF ConnectionsLast
    <3> QED
      BY <2>1, <3>4, <3>5, <3>6 DEF PeersLast
  <2>4. ASSUME NEW d \in Downloaders, NEW p \in Pieces, PieceArrives(d, p)
        PROVE  PeersLast'
    <3>1. \E v \in {"Complete", "Corrupt"} : Gets(d, p, v)
      BY <2>4 DEF PieceArrives, Gets
    <3> QED
      BY <1>1, <2>1, <3>1, GotKeepsHas, LastKept
  <2> QED
    BY <2>2, <2>3, <2>4, <2>5 DEF Network
<1> QED
  BY <1>0, <1>2, <1>3, <1>4, SlotsQuiet DEF strategyVars

(* At the start there is no downloader. *)
LEMMA NoSlots ==
  ASSUME DOMAIN m_peer_pool = {}, \A d \in Downloaders : peer[d] = NoPeer,
         task["R"].pc \notin Assigning
  PROVE  SlotsInv
<1>1. NoPeer.conn = "none" /\ NoPeer.has = {}
  BY DEF NoPeer
<1> QED
  BY <1>1 DEF SlotsInv, PeersLast, RoundGoesOn, NeverClogged

LEMMA NoSlotsNext ==
  ASSUME DOMAIN m_peer_pool' = {}, \A d \in Downloaders : peer'[d] = NoPeer,
         task'["R"].pc \notin Assigning
  PROVE  SlotsInv'
<1>1. NoPeer.conn = "none" /\ NoPeer.has = {}
  BY DEF NoPeer
<1> QED
  BY <1>1 DEF SlotsInv, PeersLast, RoundGoesOn, NeverClogged

LEMMA SlotsInit == Init => SlotsInv
<1> SUFFICES ASSUME Init PROVE SlotsInv
  OBVIOUS
<1>1. DOMAIN m_peer_pool = {} /\ peer = [d \in Downloaders |-> NoPeer]
  BY DEF Init
<1>2. task["R"] = Frame("waiting", TRUE)
  BY DEF Init
<1> QED
  BY <1>1, <1>2, NoSlots DEF Frame, Assigning

LEMMA CrashSlots == Crash => SlotsInv'
<1> SUFFICES ASSUME Crash PROVE SlotsInv'
  OBVIOUS
<1>1. DOMAIN m_peer_pool' = {} /\ peer' = [d \in Downloaders |-> NoPeer]
  BY DEF Crash, Start
<1>2. task'["R"] = Frame("waiting", TRUE)
  BY DEF Crash, Start
<1> QED
  BY <1>1, <1>2, NoSlotsNext DEF Frame, Assigning

(* A new downloader has two free slots. *)
LEMMA TrackerSlots ==
  ASSUME IsFiniteSet(Addresses), StrategyInv, StrategyInv', SlotsInv,
         NEW swarm \in SUBSET Addresses, TrackerWakes(swarm)
  PROVE  SlotsInv'
<1>1. /\ StrategyTypeOK /\ StrategyTypeOK' /\ TasksTypeOK /\ PeersTypeOK /\ "R" \in Tasks
      /\ MadeInOrder /\ NotMadeYet
  BY TypeParts, TypePartsNext DEF StrategyInv, Tasks
<1>2. /\ Free /\ include(swarm) /\ m_missing_pieces' = m_missing_pieces
      /\ m_piece_downloaders' = m_piece_downloaders
  BY DEF TrackerWakes
<1>3. task'["R"] = task["R"]
  BY <1>1 DEF TrackerWakes, TasksTypeOK
<1>4. ReactorQuiet
  BY <1>1, <1>2, <1>3, QuietReactor
<1>5. PICK fresh : Makes(fresh, swarm)
  BY <1>1, <1>2, IncludeFacts
<1>6. /\ DOMAIN m_peer_pool' = DOMAIN m_peer_pool \cup fresh
      /\ \A d \in fresh : m_peer_pool'[d] = <<>> /\ d \notin DOMAIN m_peer_pool
      /\ \A d \in DOMAIN m_peer_pool : m_peer_pool'[d] = m_peer_pool[d]
  <2>1. \A d \in fresh : d \notin DOMAIN m_peer_pool
    BY <1>1, <1>5 DEF Makes, NotMadeYet
  <2> QED
    BY <1>5, <2>1 DEF Makes
<1>7. FreeSlots \subseteq FreeSlots'
  BY <1>6 DEF FreeSlots
<1>8. RoundGoesOn'
  BY <1>1, <1>2, <1>4, <1>7, RoundKept DEF SlotsInv
<1>9. NeverClogged'
  <2>1. \A d \in fresh : Len(m_peer_pool'[d]) < 2
    BY <1>6
  <2> QED
    BY <1>2, <1>6, <2>1, CloggedKept DEF SlotsInv
<1>10. PeersLast'
  <2>1. PICK new : new = [NoPeer EXCEPT !.conn = "connecting"]
    OBVIOUS
  <2>2. new.conn = "connecting" /\ new.has = {}
    BY <2>1 DEF NoPeer
  <2>3. \A d \in Downloaders : peer'[d] = new \/ peer'[d] = peer[d]
    BY <1>2, <2>1 DEF include
  <2> QED
    BY <2>2, <2>3 DEF SlotsInv, PeersLast
<1> QED
  BY <1>8, <1>9, <1>10 DEF SlotsInv

(* An order of the missing pieces holds every one of them. *)
LEMMA ShuffledAll ==
  ASSUME NEW M, IsFiniteSet(M), NEW n \in Nat, n = Cardinality(M), NEW s \in [1..n -> M],
         \A i, j \in 1..n : i # j => s[i] # s[j]
  PROVE  {s[i] : i \in 1..n} = M
<1> SUFFICES ASSUME NEW q \in M, q \notin {s[i] : i \in 1..n}
             PROVE  FALSE
  OBVIOUS
<1>1. PICK N : N = M \ {q}
  OBVIOUS
<1>2. IsFiniteSet(N) /\ Cardinality(N) = n - 1
  BY <1>1, FS_RemoveElement
<1>3. IsFiniteSet(1..n) /\ Cardinality(1..n) = n
  <2>1. 1 \in Int /\ n \in Int
    OBVIOUS
  <2>2. IsFiniteSet(1..n) /\ Cardinality(1..n) = IF 1 > n THEN 0 ELSE n - 1 + 1
    BY <2>1, FS_Interval
  <2> QED
    BY <2>2
<1>4. s \in [1..n -> N]
  BY <1>1
<1>5. Cardinality(1..n) > Cardinality(N)
  BY <1>2, <1>3
<1>6. \E i, j \in 1..n : i # j /\ s[i] = s[j]
  BY <1>2, <1>3, <1>4, <1>5, FS_PigeonHole
<1> QED
  BY <1>6

(* No connection is over, so revoke() takes nobody away; assign() has all  *)
(* missing pieces ahead, and none that is stale.                           *)
LEMMA ReactorSlots ==
  ASSUME IsFiniteSet(Addresses), StrategyInv, StrategyInv', SlotsInv, ReactorWakes
  PROVE  SlotsInv'
<1>1. /\ StrategyTypeOK /\ StrategyTypeOK' /\ TasksTypeOK /\ "R" \in Tasks
      /\ task["R"] \in Frames /\ AtMostTwo
  BY TypeParts, TypePartsNext DEF StrategyInv, Tasks, TasksTypeOK
<1>2. /\ m_missing_pieces' = m_missing_pieces /\ peer' = peer
      /\ \/ /\ task["R"].first
            /\ UNCHANGED <<m_piece_downloaders, m_peer_pool, m_active_connections>>
         \/ ~task["R"].first /\ revoke
  BY DEF ReactorWakes
<1>3. PICK gone : Revokes(gone)
  BY <1>1, <1>2, RevokeFacts
<1>4. /\ DOMAIN m_peer_pool' = DOMAIN m_peer_pool
      /\ \A d \in DOMAIN m_peer_pool : m_peer_pool'[d] = m_peer_pool[d]
  <2>1. gone = {}
    <3>1. \A d \in gone : d \in Downloaders /\ peer[d].conn = "ended"
      BY <1>1, <1>3 DEF Revokes, StrategyTypeOK
    <3> QED
      BY <3>1 DEF SlotsInv, PeersLast
  <2> QED
    BY <1>3, <2>1 DEF Revokes
<1>5. NeverClogged'
  BY <1>2, <1>4, CloggedKept DEF SlotsInv
<1>6. PeersLast'
  BY <1>2, LastKept DEF SlotsInv
<1>7. IsFiniteSet(m_missing_pieces)
  BY <1>1, FiniteData, FS_Subset DEF StrategyTypeOK
<1>8. PICK n \in Nat : n = Cardinality(m_missing_pieces)
  BY <1>7, FS_CardinalityType
<1>9. PICK s \in Shuffled :
        task' = [task EXCEPT !["R"].pc = "assigning", !["R"].todo = s \o s,
                             !["T"].moved = @ \cup Withdrawn(task["T"])]
  BY DEF ReactorWakes
<1>10. s \in [1..n -> m_missing_pieces] /\ \A i, j \in 1..n : i # j => s[i] # s[j]
  BY <1>8, <1>9 DEF Shuffled
<1>11. PICK u : u = s \o s
  OBVIOUS
<1>12. n <= Len(u) /\ \A i \in 1..n : u[i] = s[i]
  <2>1. s \in Seq(m_missing_pieces) /\ Len(s) = n
    BY <1>10
  <2> QED
    BY <1>11, <2>1
<1>13. task'["R"].pc = "assigning" /\ task'["R"].todo = u
  BY <1>1, <1>9, <1>11 DEF TasksTypeOK, Frames
<1>14. Ahead(n)' = m_missing_pieces
  <2>1. {s[i] : i \in 1..n} = m_missing_pieces
    BY <1>7, <1>8, <1>10, ShuffledAll
  <2>2. Ahead(n)' = {u[i] : i \in 1..n}
    BY <1>13 DEF Ahead
  <2>3. {u[i] : i \in 1..n} = {s[i] : i \in 1..n}
    BY <1>12
  <2> QED
    BY <2>1, <2>2, <2>3
<1>15. AllBegun(n)'
  BY <1>2, <1>14 DEF AllBegun
<1>16. NoMore(Stale(n)', Begun(n)')
  <2>1. Stale(n)' = {} /\ Begun(n)' = {}
    BY <1>2, <1>14 DEF Stale, Begun
  <2>2. Cardinality({}) = 0
    BY FS_EmptySet
  <2> QED
    BY <2>1, <2>2 DEF NoMore
<1>17. Round(n)'
  BY <1>10, <1>12, <1>13, <1>15, <1>16 DEF Round, NoMore
<1> QED
  BY <1>5, <1>6, <1>17 DEF SlotsInv, RoundGoesOn

-----------------------------------------------------------------------------
LEMMA SlotsNext ==
  ASSUME ConnectionsLast, StrategyInv, StrategyInv', SlotsInv, [Next]_vars
  PROVE  SlotsInv'
<1>0. IsFiniteSet(Addresses)
  BY DEF ConnectionsLast
<1>1. CASE UNCHANGED vars
  <2>1. /\ m_missing_pieces' = m_missing_pieces /\ m_peer_pool' = m_peer_pool
        /\ m_piece_downloaders' = m_piece_downloaders /\ peer' = peer /\ task' = task
    BY <1>1 DEF vars, strategyVars
  <2>2. PeersLast' /\ NeverClogged'
    BY <2>1 DEF SlotsInv, PeersLast, NeverClogged
  <2>3. RoundGoesOn'
    BY <2>1 DEF SlotsInv, RoundGoesOn, Round, AllBegun, NoRoom, Ahead, Stale, Begun,
                FreeSlots
  <2> QED
    BY <2>2, <2>3 DEF SlotsInv
<1>2. ASSUME NEW swarm \in SUBSET Addresses, TrackerWakes(swarm) PROVE SlotsInv'
  BY <1>0, <1>2, TrackerSlots
<1>3. CASE ReactorWakes
  BY <1>0, <1>3, ReactorSlots
<1>4. CASE AssignTurn
  <2>1. CASE /\ Candidates(Head(task["R"].todo)) = {} /\ peer' = peer
             /\ task' = [task EXCEPT !["R"].todo = Tail(@)]
    BY <1>0, <1>4, <2>1, NobodySteps
  <2>2. ASSUME NEW d \in Candidates(Head(task["R"].todo)),
               download_piece(d, Head(task["R"].todo)),
               task' = [task EXCEPT !["R"].pc = "downloading", !["R"].downloader = d]
        PROVE  SlotsInv'
    BY <1>0, <1>4, <2>2, CandidateSteps
  <2> QED
    BY <1>4, <2>1, <2>2 DEF AssignTurn
<1>5. CASE Assigned
  BY <1>0, <1>5, AssignedSteps
<1>6. CASE GoWrong \/ AssignReturns \/ MergePiece
  <2>1. "R" \in Tasks
    BY DEF Tasks
  <2> QED
    BY <1>0, <1>6, <2>1, RestSteps
<1>7. ASSUME NEW x \in Tasks, ~GoWrong,
             Poll(x) \/ WriteDone(x) \/ WriteThrows(x) \/ Repeated(x) \/ DownloadThrows(x)
      PROVE  SlotsInv'
  <2>1. CASE PieceStored(x)
    BY <1>0, <1>7, <2>1, StoredSteps
  <2>2. CASE PollingReturns(x)
    BY <1>0, <1>7, <2>2, ReturningSteps
  <2>3. CASE PollNothing(x) \/ PollComplete(x) \/ PollCorrupt(x) \/ Repeated(x)
    BY <1>0, <1>7, <2>3, TakingSteps
  <2>4. CASE WriteDone(x) \/ WriteThrows(x) \/ DownloadThrows(x)
    BY <1>0, <2>4, RestSteps
  <2> QED
    BY <1>7, <2>1, <2>2, <2>3, <2>4 DEF Poll
<1>8. CASE Network
  BY <1>8, NetworkSlots
<1>9. CASE Crash
  BY <1>9, CrashSlots
<1> QED
  BY <1>1, <1>2, <1>3, <1>4, <1>5, <1>6, <1>7, <1>8, <1>9 DEF Next, Tasks

(* While connections last, and remote peers have all pieces or none, slots *)
(* lost to second copies never add up to a standstill: some downloader has *)
(* a free slot or is at work on a missing piece, though is_done() of the   *)
(* tracker loop may store a piece between the check in assign() and the    *)
(* push_backs after its co_await (strategy.hpp:84-97, 146-149).            *)
THEOREM SlotsNeverClog ==
  ASSUME MaxLosses = 0, Bitfields \subseteq {{}, Pieces}, IsFiniteSet(Addresses)
  PROVE  Spec => []NeverClogged
<1>0. ConnectionsLast
  BY DEF ConnectionsLast
<1>1. Init => SlotsInv
  BY SlotsInit
<1>2. StrategyInv /\ StrategyInv' /\ SlotsInv /\ [Next]_vars => SlotsInv'
  BY <1>0, SlotsNext
<1>3. SlotsInv => NeverClogged
  BY DEF SlotsInv
<1> QED
  BY <1>1, <1>2, <1>3, StrategyInvariant, PTL DEF Spec

=============================================================================
