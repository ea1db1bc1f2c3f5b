---------------------------- MODULE TorrentProofs ----------------------------
(***************************************************************************)
(* Theorems about TorrentFile, for any decoded files and any widths of the *)
(* integers: what a download that starts from the numbers of a torrent     *)
(* file comes to.                                                          *)
(***************************************************************************)
EXTENDS TorrentFile, TLAPS

-----------------------------------------------------------------------------
(* Division *)

LEMMA DivisionFacts ==
  ASSUME NEW a \in Nat, NEW b \in Nat \ {0}
  PROVE  /\ a \div b \in Nat
         /\ (a \div b) * b \in Nat
         /\ (a \div b) * b <= a
         /\ a < (a \div b) * b + b
OBVIOUS

LEMMA RemainderIsSame ==
  ASSUME NEW b \in Nat \ {0}, NEW a \in 0..(b - 1)
  PROVE  a % b = a
OBVIOUS

LEMMA Multiples ==
  ASSUME NEW i \in Nat, NEW j \in Nat, NEW b \in Nat \ {0}
  PROVE  /\ i * b \in Nat
         /\ (i + 1) * b = i * b + b
         /\ i <= j => i * b <= j * b
         /\ i < j => i * b < j * b
OBVIOUS

LEMMA MultipleHasNoRest ==
  ASSUME NEW q \in Nat, NEW b \in Nat \ {0}
  PROVE  (q * b) % b = 0
OBVIOUS

LEMMA NoRestIsMultiple ==
  ASSUME NEW a \in Nat, NEW b \in Nat \ {0}, a % b = 0
  PROVE  \E q \in Nat : a = q * b
<1>1. a \div b \in Nat /\ a = (a \div b) * b
  OBVIOUS
<1> QED BY <1>1

(* The offsets of the blocks of a piece come as far as the last multiple   *)
(* of the block size, and no further.                                      *)
LEMMA OffsetsReachTheLast ==
  ASSUME NEW size \in Nat
  PROVE  OffsetsEnd(size) <=> size <= Word32 - max_block_bytes
<1>1. PICK n \in 1..Word32 : Word32 = n * max_block_bytes
  BY BlockAssumption DEF BlockAssumption
<1>2. max_block_bytes \in Nat \ {0} /\ Word32 \in Nat \ {0} /\ n \in Nat \ {0}
  BY <1>1, BlockAssumption, WidthAssumption DEF BlockAssumption, WidthAssumption
<1>3. PICK m \in Nat : n = m + 1
  <2>1. n - 1 \in Nat /\ n = (n - 1) + 1
    BY <1>2
  <2> QED BY <2>1
<1>4. m * max_block_bytes \in Nat /\ Word32 = m * max_block_bytes + max_block_bytes
  BY <1>1, <1>2, <1>3, Multiples
<1>5. ASSUME size <= Word32 - max_block_bytes PROVE OffsetsEnd(size)
  <2>1. m * max_block_bytes \in 0..(Word32 - 1) /\ m * max_block_bytes >= size
    BY <1>2, <1>4, <1>5
  <2>2. (m * max_block_bytes) % max_block_bytes = 0
    BY <1>2, <1>3, MultipleHasNoRest
  <2> QED BY <2>1, <2>2 DEF OffsetsEnd, Offsets
<1>6. ASSUME OffsetsEnd(size) PROVE size <= Word32 - max_block_bytes
  <2>1. PICK offset \in 0..(Word32 - 1) : offset % max_block_bytes = 0 /\ offset >= size
    BY <1>6 DEF OffsetsEnd, Offsets
  <2>2. PICK q \in Nat : offset = q * max_block_bytes
    <3>1. offset \in Nat
      BY <2>1
    <3> QED BY <1>2, <2>1, <3>1, NoRestIsMultiple
  <2>3. ~(q >= n)
    <3>1. ASSUME q >= n PROVE n * max_block_bytes <= q * max_block_bytes
      BY <1>2, <3>1, Multiples
    <3> QED BY <1>1, <1>2, <2>1, <2>2, <3>1
  <2>4. q * max_block_bytes <= m * max_block_bytes
    BY <1>2, <1>3, <2>3, Multiples
  <2> QED BY <1>2, <1>4, <2>1, <2>2, <2>4
<1> QED BY <1>5, <1>6

-----------------------------------------------------------------------------
(* The inductive invariant *)

Count == uint32(Hashes)

WholePieces == Total \div PieceLength

(* The pieces before index are full ones, or all of the file, or more.     *)
MergedSoFar ==
  /\ index <= WholePieces => merged = index * PieceLength
  /\ index = WholePieces + 1 => merged = Total
  /\ index > WholePieces + 1 => merged > Total

TorrentInv ==
  /\ file \in TorrentFiles
  /\ index \in Nat /\ merged \in Int
  /\ pc \in {"decoded", "rejected"} => index = 0 /\ merged = 0
  /\ Accepted =>
       /\ LoadError(file) = "none"
       /\ torrent = load_torrent_file(file)
       /\ index <= Count
       /\ InRange => MergedSoFar
       /\ InRange /\ index # 0 => BlocksEnd
  /\ pc = "crashed" => PieceLength % Word32 = 0
  /\ pc \in {"stuck", "endless", "finished"} => PieceLength % Word32 # 0
  /\ pc = "stuck" => index < Count /\ get_piece_size(Context(torrent), index) = 0
  /\ pc = "endless" => ~OffsetsEnd(get_piece_size(Context(torrent), index))
  /\ pc = "finished" => index = Count

-----------------------------------------------------------------------------
(* What the context is made of *)

LEMMA ContextIs ==
  ASSUME torrent = load_torrent_file(file)
  PROVE  /\ Context(torrent).piece_size = PieceLength % Word32
         /\ Context(torrent).piece_count = Count
         /\ Context(torrent).file_size = Total % Word64
<1>1. /\ load_torrent_file(file).piece_length = PieceLength % Word32
      /\ load_torrent_file(file).piece_hashes = Hashes
      /\ load_torrent_file(file).file_length = Total % Word64
  BY DEF load_torrent_file, PieceLength, Hashes, Total, Info, uint32, uint64
<1> QED BY <1>1 DEF Context, Count, uint32

LEMMA CountIs ==
  ASSUME file \in TorrentFiles, LoadError(file) = "none"
  PROVE  /\ Hashes \in Nat /\ Count \in Nat
         /\ Hashes < Word32 => Count = Hashes
<1>1. Info["pieces"][2] \in Nat
  BY FilesAssumption DEF FilesAssumption, Info
<1>2. Hashes \in Nat
  BY <1>1, DivisionFacts, 20 \in Nat \ {0} DEF Hashes, SHA1_HASH_SIZE
<1>3. Count \in Nat /\ (Hashes < Word32 => Count = Hashes)
  BY <1>2, WidthAssumption DEF WidthAssumption, Count, uint32
<1> QED BY <1>2, <1>3

LEMMA Numbers ==
  ASSUME InRange
  PROVE  /\ PieceLength \in Nat \ {0} /\ Total \in Nat /\ WholePieces \in Nat
         /\ PieceLength % Word32 = PieceLength /\ PieceLength % Word32 # 0
         /\ Total % Word64 = Total
         /\ WholePieces * PieceLength \in Nat
         /\ WholePieces * PieceLength <= Total
         /\ Total < WholePieces * PieceLength + PieceLength
<1>1. /\ Word32 \in Nat \ {0} /\ Word64 \in Nat \ {0}
      /\ PieceLength \in 1..(Word32 - 1) /\ Total \in 0..(Word64 - 1)
  BY WidthAssumption DEF WidthAssumption, InRange
<1>2. PieceLength \in Nat \ {0} /\ Total \in Nat
  BY <1>1
<1>3. PieceLength % Word32 = PieceLength /\ Total % Word64 = Total
  BY <1>1, RemainderIsSame
<1> QED BY <1>2, <1>3, DivisionFacts DEF WholePieces

(* The sizes of the pieces: full ones, and what is left. *)
LEMMA SizeIs ==
  ASSUME InRange, torrent = load_torrent_file(file), NEW i \in Nat
  PROVE  get_piece_size(Context(torrent), i)
           = IF i < WholePieces THEN PieceLength ELSE Total - WholePieces * PieceLength
<1>1. /\ PieceLength \in Nat \ {0} /\ Total \in Nat /\ WholePieces \in Nat
      /\ WholePieces * PieceLength \in Nat
      /\ WholePieces * PieceLength <= Total
      /\ Total < WholePieces * PieceLength + PieceLength
      /\ PieceLength \in 1..(Word32 - 1) /\ Word32 \in Nat \ {0}
  BY Numbers, WidthAssumption DEF WidthAssumption, InRange
<1>2. /\ Context(torrent).piece_size = PieceLength
      /\ Context(torrent).file_size = Total
  BY ContextIs, Numbers
<1>3. Total - WholePieces * PieceLength \in 0..(Word32 - 1)
  BY <1>1
<1>4. (Total - WholePieces * PieceLength) % Word32 = Total - WholePieces * PieceLength
  BY <1>1, <1>3, RemainderIsSame
<1> QED BY <1>2, <1>4 DEF get_piece_size, WholePieces, uint32

-----------------------------------------------------------------------------
LEMMA TorrentInit == Init => TorrentInv
BY DEF Init, TorrentInv, Accepted

LEMMA LoadStep ==
  ASSUME TorrentInv, Load
  PROVE  TorrentInv'
<1>1. file' = file /\ index' = 0 /\ merged' = 0 /\ file \in TorrentFiles
  BY DEF Load, TorrentInv
<1>2. CASE pc' = "rejected"
  BY <1>1, <1>2 DEF TorrentInv, Accepted
<1>3. CASE /\ pc' = "loaded" /\ torrent' = load_torrent_file(file)
           /\ LoadError(file) = "none"
  <2>1. Count' = Count /\ Count \in Nat /\ (InRange' <=> InRange)
    BY <1>1, <1>3, CountIs DEF Count, Hashes, Info, InRange, Total, PieceLength
  <2>2. ASSUME InRange PROVE MergedSoFar'
    <3>1. WholePieces' = WholePieces /\ PieceLength' = PieceLength /\ Total' = Total
      BY <1>1 DEF WholePieces, PieceLength, Total, Info
    <3>2. WholePieces \in Nat /\ PieceLength \in Nat
      BY <2>2, Numbers
    <3>3. 0 <= WholePieces /\ 0 * PieceLength = 0 /\ 0 # WholePieces + 1
          /\ ~(0 > WholePieces + 1)
      BY <3>2
    <3> QED BY <1>1, <3>1, <3>3 DEF MergedSoFar
  <2>3. 0 <= Count /\ 0 \in Nat /\ 0 \in Int
    BY <2>1
  <2> QED BY <1>1, <1>3, <2>1, <2>2, <2>3 DEF TorrentInv, Accepted
<1> QED BY <1>2, <1>3 DEF Load

(* What a step that leaves the file alone keeps. *)
LEMMA SameFile ==
  ASSUME UNCHANGED file
  PROVE  /\ PieceLength' = PieceLength /\ Total' = Total /\ Count' = Count
         /\ WholePieces' = WholePieces /\ (InRange' <=> InRange)
         /\ (BlocksEnd' <=> BlocksEnd)
BY DEF PieceLength, Total, Count, Hashes, WholePieces, InRange, BlocksEnd, Info

LEMMA FetchStep ==
  ASSUME TorrentInv, FetchPiece
  PROVE  TorrentInv'
<1>1. /\ pc = "loaded" /\ UNCHANGED <<file, torrent>> /\ file \in TorrentFiles
      /\ LoadError(file) = "none" /\ torrent = load_torrent_file(file)
      /\ index \in Nat /\ merged \in Int
      /\ InRange => MergedSoFar
  BY DEF FetchPiece, TorrentInv, Accepted
<1>2. /\ Context(torrent).piece_size = PieceLength % Word32
      /\ Context(torrent).piece_count = Count
  BY <1>1, ContextIs
<1>3. Count \in Nat /\ index < Count
  BY <1>1, <1>2, CountIs DEF FetchPiece
<1>4. /\ PieceLength' = PieceLength /\ Total' = Total /\ Count' = Count
      /\ WholePieces' = WholePieces /\ (InRange' <=> InRange)
      /\ (BlocksEnd' <=> BlocksEnd)
  BY <1>1, SameFile
<1>5. ASSUME UNCHANGED <<index, merged>> PROVE MergedSoFar' <=> MergedSoFar
  BY <1>4, <1>5 DEF MergedSoFar
<1>6. CASE /\ PieceLength % Word32 = 0 /\ pc' = "crashed"
           /\ UNCHANGED <<index, merged>>
  BY <1>1, <1>3, <1>4, <1>5, <1>6 DEF TorrentInv, Accepted
<1>7. CASE /\ PieceLength % Word32 # 0 /\ get_piece_size(Context(torrent), index) = 0
           /\ pc' = "stuck" /\ UNCHANGED <<index, merged>>
  BY <1>1, <1>3, <1>4, <1>5, <1>7 DEF TorrentInv, Accepted
<1>8. CASE /\ PieceLength % Word32 # 0
           /\ ~OffsetsEnd(get_piece_size(Context(torrent), index))
           /\ pc' = "endless" /\ UNCHANGED <<index, merged>>
  BY <1>1, <1>3, <1>4, <1>5, <1>8 DEF TorrentInv, Accepted
<1>9. CASE /\ get_piece_size(Context(torrent), index) # 0
           /\ OffsetsEnd(get_piece_size(Context(torrent), index))
           /\ UNCHANGED pc
           /\ merged' = merged + get_piece_size(Context(torrent), index)
           /\ index' = index + 1
  <2>1. ASSUME InRange PROVE MergedSoFar'
    <3>1. /\ PieceLength \in Nat \ {0} /\ Total \in Nat /\ WholePieces \in Nat
          /\ WholePieces * PieceLength \in Nat /\ WholePieces * PieceLength <= Total
      BY <2>1, Numbers
    <3>2. get_piece_size(Context(torrent), index)
            = IF index < WholePieces THEN PieceLength ELSE Total - WholePieces * PieceLength
      BY <1>1, <2>1, SizeIs
    <3>3. /\ index <= WholePieces => merged = index * PieceLength
          /\ index = WholePieces + 1 => merged = Total
          /\ index > WholePieces + 1 => merged > Total
      BY <1>1, <2>1 DEF MergedSoFar
    <3>4. CASE index < WholePieces
      <4>1. merged' = index * PieceLength + PieceLength /\ index' <= WholePieces
        BY <1>1, <1>9, <3>1, <3>2, <3>3, <3>4
      <4>2. (index + 1) * PieceLength = index * PieceLength + PieceLength
        BY <1>1, <3>1, Multiples
      <4> QED BY <1>1, <1>4, <1>9, <3>1, <4>1, <4>2 DEF MergedSoFar
    <3>5. CASE index = WholePieces
      <4>1. merged' = Total /\ index' = WholePieces + 1
        BY <1>1, <1>9, <3>1, <3>2, <3>3, <3>5
      <4> QED BY <1>4, <3>1, <4>1 DEF MergedSoFar
    <3>6. CASE index > WholePieces
      <4>1. merged >= Total
        BY <1>1, <3>1, <3>3, <3>6
      <4>2. /\ merged' > Total /\ index' \in Nat
            /\ ~(index' <= WholePieces) /\ index' # WholePieces + 1
        BY <1>1, <1>9, <3>1, <3>2, <3>6, <4>1
      <4> QED BY <1>4, <4>2 DEF MergedSoFar
    <3> QED BY <1>1, <3>1, <3>4, <3>5, <3>6
  <2>2. ASSUME InRange PROVE BlocksEnd
    <3>1. /\ PieceLength \in Nat \ {0} /\ Total \in Nat /\ WholePieces \in Nat
          /\ WholePieces * PieceLength \in Nat /\ WholePieces * PieceLength <= Total
          /\ Total < WholePieces * PieceLength + PieceLength
      BY <2>2, Numbers
    <3>2. get_piece_size(Context(torrent), index)
            = IF index < WholePieces THEN PieceLength ELSE Total - WholePieces * PieceLength
      BY <1>1, <2>2, SizeIs
    <3>3. CASE index # 0
      BY <1>1, <2>2, <3>3 DEF TorrentInv, Accepted
    <3>4. CASE index = 0 /\ 0 < WholePieces
      <4>1. PieceLength \in Nat /\ OffsetsEnd(PieceLength)
        BY <1>9, <3>1, <3>2, <3>4
      <4> QED BY <4>1, OffsetsReachTheLast DEF BlocksEnd
    <3>5. CASE index = 0 /\ WholePieces = 0
      <4>1. 0 * PieceLength = 0
        BY <3>1
      <4>2. Total \in Nat /\ OffsetsEnd(Total)
        BY <1>9, <3>1, <3>2, <3>5, <4>1
      <4> QED BY <4>2, OffsetsReachTheLast DEF BlocksEnd
    <3> QED BY <3>1, <3>3, <3>4, <3>5
  <2> QED BY <1>1, <1>3, <1>4, <1>9, <2>1, <2>2 DEF TorrentInv, Accepted
<1> QED BY <1>2, <1>6, <1>7, <1>9, <1>8 DEF FetchPiece

LEMMA FinishStep ==
  ASSUME TorrentInv, Finish
  PROVE  TorrentInv'
<1>1. /\ pc = "loaded" /\ UNCHANGED <<file, torrent, index, merged>>
      /\ torrent = load_torrent_file(file)
  BY DEF Finish, TorrentInv, Accepted
<1>2. /\ Context(torrent).piece_size = PieceLength % Word32
      /\ Context(torrent).piece_count = Count
  BY <1>1, ContextIs
<1>3. /\ PieceLength' = PieceLength /\ Total' = Total /\ Count' = Count
      /\ WholePieces' = WholePieces /\ (InRange' <=> InRange)
      /\ (BlocksEnd' <=> BlocksEnd)
  BY <1>1, SameFile
<1>4. MergedSoFar' <=> MergedSoFar
  BY <1>1, <1>3 DEF MergedSoFar
<1>5. index = Count /\ pc' = IF PieceLength % Word32 = 0 THEN "crashed" ELSE "finished"
  BY <1>2 DEF Finish
<1> QED BY <1>1, <1>3, <1>4, <1>5 DEF TorrentInv, Accepted

(* The invariant holds in every state of every behaviour. *)
THEOREM TorrentInvariant == Spec => []TorrentInv
<1>1. Init => TorrentInv
  BY TorrentInit
<1>2. TorrentInv /\ [Next]_vars => TorrentInv'
  <2>1. TorrentInv /\ UNCHANGED vars => TorrentInv'
    <3> SUFFICES ASSUME TorrentInv, UNCHANGED vars PROVE TorrentInv'
      OBVIOUS
    <3>1. UNCHANGED <<file, pc, torrent, index, merged>>
      BY DEF vars
    <3>2. /\ PieceLength' = PieceLength /\ Total' = Total /\ Count' = Count
          /\ WholePieces' = WholePieces /\ (InRange' <=> InRange)
          /\ (BlocksEnd' <=> BlocksEnd)
      BY <3>1, SameFile
    <3>3. MergedSoFar' <=> MergedSoFar
      BY <3>1, <3>2 DEF MergedSoFar
    <3> QED BY <3>1, <3>2, <3>3 DEF TorrentInv, Accepted
  <2> QED BY <2>1, LoadStep, FetchStep, FinishStep DEF Next
<1> QED BY <1>1, <1>2, PTL DEF Spec

-----------------------------------------------------------------------------
(* The hashes that agree are one for each piece, the shorter one included. *)
LEMMA EnoughHashes ==
  ASSUME Agrees
  PROVE  /\ Hashes \in Nat
         /\ Total <= Hashes * PieceLength
         /\ \A i \in Nat : i < Hashes => i * PieceLength < Total
<1>1. PieceLength \in Nat \ {0} /\ Total \in Nat
  BY Numbers DEF Agrees
<1>2. Hashes = (Total + PieceLength - 1) \div PieceLength
  BY DEF Agrees
<1>3. PICK n \in Nat : n = Total + PieceLength - 1
  BY <1>1
<1>4. /\ Hashes \in Nat /\ Hashes * PieceLength \in Nat
      /\ Hashes * PieceLength <= n /\ n < Hashes * PieceLength + PieceLength
  BY <1>1, <1>2, <1>3, DivisionFacts
<1>5. ASSUME NEW i \in Nat, i < Hashes
      PROVE  i * PieceLength < Total
  <2>1. /\ i * PieceLength \in Nat
        /\ (i + 1) * PieceLength = i * PieceLength + PieceLength
    BY <1>1, Multiples
  <2>2. (i + 1) * PieceLength <= Hashes * PieceLength
    BY <1>1, <1>4, <1>5, Multiples, i + 1 \in Nat, i + 1 <= Hashes
  <2> QED BY <1>1, <1>3, <1>4, <2>1, <2>2
<1> QED BY <1>1, <1>3, <1>4, <1>5

(* Where the loop over the blocks has no end, a piece is too long for it.  *)
LEMMA EndlessIsTooLong ==
  ASSUME TorrentInv, pc = "endless", InRange
  PROVE  ~BlocksEnd
<1>1. /\ torrent = load_torrent_file(file) /\ index \in Nat
      /\ ~OffsetsEnd(get_piece_size(Context(torrent), index))
  BY DEF TorrentInv, Accepted
<1>2. /\ PieceLength \in Nat \ {0} /\ Total \in Nat /\ WholePieces \in Nat
      /\ WholePieces * PieceLength \in Nat /\ WholePieces * PieceLength <= Total
      /\ Total < WholePieces * PieceLength + PieceLength
  BY Numbers
<1>3. get_piece_size(Context(torrent), index)
        = IF index < WholePieces THEN PieceLength ELSE Total - WholePieces * PieceLength
  BY <1>1, SizeIs
<1>4. PICK size \in Nat : size = get_piece_size(Context(torrent), index)
  BY <1>2, <1>3
<1>5. ~(size <= Word32 - max_block_bytes)
  BY <1>1, <1>4, OffsetsReachTheLast
<1>6. size <= PieceLength
  BY <1>1, <1>2, <1>3, <1>4
<1>7. index < WholePieces => PieceLength <= Total
  <2>1. ASSUME index < WholePieces PROVE 1 * PieceLength <= WholePieces * PieceLength
    BY <1>1, <1>2, <2>1, Multiples, 1 \in Nat, 1 <= WholePieces
  <2> QED BY <1>2, <2>1
<1>8. size <= Total
  BY <1>1, <1>2, <1>3, <1>4, <1>7
<1>9. Word32 - max_block_bytes \in Int
  BY WidthAssumption, BlockAssumption DEF WidthAssumption, BlockAssumption
<1> QED BY <1>2, <1>4, <1>5, <1>6, <1>8, <1>9 DEF BlocksEnd

(* A file whose numbers agree is fetched to its last byte, for every piece *)
(* length, number and lengths of files and width of the integers, save for *)
(* the pieces over whose blocks the loop never ends: nothing on the way    *)
(* from load_torrent_file through the context and get_piece_size to the    *)
(* requests cuts, divides or adds one of its numbers wrongly               *)
(* (torrentfile.cpp:76-219, torrenter.cpp:61-65, context.hpp:55-63,        *)
(* downloader.cpp:51-62).                                                  *)
THEOREM AgreedFilesAreWhole == Spec => []AgreedIsWhole
<1>1. TorrentInv => AgreedIsWhole
  <2> SUFFICES ASSUME TorrentInv, Accepted, Agrees
               PROVE  /\ pc \notin {"crashed", "stuck"}
                      /\ pc = "endless" => ~BlocksEnd
                      /\ pc = "finished" => merged = Total /\ BlocksEnd
    BY DEF AgreedIsWhole
  <2>1. /\ InRange /\ file \in TorrentFiles /\ LoadError(file) = "none"
        /\ torrent = load_torrent_file(file) /\ index \in Nat /\ MergedSoFar
    BY DEF TorrentInv, Agrees
  <2>2. /\ PieceLength \in Nat \ {0} /\ Total \in Nat /\ WholePieces \in Nat
        /\ PieceLength % Word32 # 0
        /\ WholePieces * PieceLength \in Nat
        /\ WholePieces * PieceLength <= Total
        /\ Total < WholePieces * PieceLength + PieceLength
    BY <2>1, Numbers
  <2>3. Count = Hashes /\ Hashes \in Nat
    BY <2>1, CountIs DEF Agrees
  <2>4. /\ Total <= Hashes * PieceLength
        /\ \A i \in Nat : i < Hashes => i * PieceLength < Total
    BY EnoughHashes
  <2>5. pc # "crashed"
    BY <2>2 DEF TorrentInv
  <2>6. ASSUME pc = "stuck" PROVE FALSE
    <3>1. index < Hashes /\ get_piece_size(Context(torrent), index) = 0
      BY <2>3, <2>6 DEF TorrentInv
    <3>2. index >= WholePieces /\ Total = WholePieces * PieceLength
      BY <2>1, <2>2, <3>1, SizeIs
    <3>3. WholePieces < Hashes
      BY <2>1, <2>2, <2>3, <3>1, <3>2
    <3> QED BY <2>2, <2>4, <3>2, <3>3
  <2>7. ASSUME pc = "finished" PROVE merged = Total
    <3>1. index = Hashes
      BY <2>3, <2>7 DEF TorrentInv
    <3>2. Hashes <= WholePieces + 1
      <4>1. (WholePieces + 1) * PieceLength = WholePieces * PieceLength + PieceLength
        BY <2>2, Multiples
      <4>2. WholePieces + 1 \in Nat /\ ~(WholePieces + 1 < Hashes)
        BY <2>2, <2>4, <4>1
      <4> QED BY <2>2, <2>3, <4>2
    <3>3. CASE Hashes = WholePieces + 1
      BY <2>1, <3>1, <3>3 DEF MergedSoFar
    <3>4. CASE Hashes <= WholePieces
      <4>1. merged = Hashes * PieceLength
        BY <2>1, <3>1, <3>4 DEF MergedSoFar
      <4>2. Hashes * PieceLength <= WholePieces * PieceLength /\ Hashes * PieceLength \in Nat
        BY <2>2, <2>3, <3>4, Multiples
      <4> QED BY <2>2, <2>4, <4>1, <4>2
    <3> QED BY <2>2, <2>3, <3>2, <3>3, <3>4
  <2>8. ASSUME pc = "endless" PROVE ~BlocksEnd
    BY <2>1, <2>8, EndlessIsTooLong
  <2>9. ASSUME pc = "finished" PROVE BlocksEnd
    <3>1. CASE index # 0
      BY <2>1, <3>1 DEF TorrentInv
    <3>2. CASE index = 0
      <4>1. Hashes = 0
        BY <2>3, <2>9, <3>2 DEF TorrentInv
      <4>2. 0 * PieceLength = 0
        BY <2>2
      <4>3. Total = 0
        BY <2>2, <2>4, <4>1, <4>2
      <4>4. OffsetsEnd(0)
        <5>1. 0 \in 0..(Word32 - 1) /\ 0 % max_block_bytes = 0 /\ 0 >= 0
          BY WidthAssumption, BlockAssumption DEF WidthAssumption, BlockAssumption
        <5> QED BY <5>1 DEF OffsetsEnd, Offsets
      <4> QED BY <4>3, <4>4, OffsetsReachTheLast DEF BlocksEnd
    <3> QED BY <3>1, <3>2
  <2> QED BY <2>5, <2>6, <2>7, <2>8, <2>9
<1> QED BY <1>1, TorrentInvariant, PTL

(* The other ends have the causes stated and no others, for every file:    *)
(* a division by zero, a piece of no bytes that is waited for, one of too  *)
(* many that is cut into blocks for ever, and a result that is short or    *)
(* too long (context.hpp:57, torrenter.cpp:65, downloader.cpp:53-54).      *)
THEOREM WrongEndsHaveACause == Spec => []WrongEndHasACause
<1>1. TorrentInv => WrongEndHasACause
  <2> SUFFICES ASSUME TorrentInv PROVE WrongEndHasACause
    OBVIOUS
  <2>1. /\ pc = "crashed" => PieceLength % Word32 = 0
        /\ pc \in {"stuck", "endless", "finished"} => PieceLength % Word32 # 0
    BY DEF TorrentInv
  <2>2. ASSUME pc \in {"stuck", "finished"}, InRange
        PROVE  /\ Count \in Nat /\ index \in Nat /\ MergedSoFar
               /\ torrent = load_torrent_file(file)
               /\ PieceLength \in Nat \ {0} /\ Total \in Nat /\ WholePieces \in Nat
               /\ WholePieces * PieceLength \in Nat
               /\ WholePieces * PieceLength <= Total
               /\ Total < WholePieces * PieceLength + PieceLength
    BY <2>2, CountIs, Numbers DEF TorrentInv, Accepted
  <2>3. ASSUME pc = "stuck", InRange
        PROVE  Count * PieceLength > Total
    <3>1. index < Count /\ get_piece_size(Context(torrent), index) = 0
      BY <2>3 DEF TorrentInv
    <3>2. index >= WholePieces /\ Total = WholePieces * PieceLength
      BY <2>2, <2>3, <3>1, SizeIs
    <3>3. WholePieces < Count
      BY <2>2, <2>3, <3>1, <3>2
    <3>4. WholePieces * PieceLength < Count * PieceLength
      BY <2>2, <2>3, <3>3, Multiples
    <3> QED BY <3>2, <3>4
  <2>4. ASSUME pc = "finished", InRange
        PROVE  merged < Total <=> Count * PieceLength < Total
    <3>1. index = Count
      BY <2>4 DEF TorrentInv
    <3>2. CASE Count <= WholePieces
      BY <2>2, <2>4, <3>1, <3>2 DEF MergedSoFar
    <3>3. CASE Count > WholePieces
      <4>1. merged >= Total
        BY <2>2, <2>4, <3>1, <3>3 DEF MergedSoFar, TorrentInv
      <4>2. (WholePieces + 1) * PieceLength = WholePieces * PieceLength + PieceLength
        BY <2>2, <2>4, Multiples
      <4>3. (WholePieces + 1) * PieceLength <= Count * PieceLength /\ Count * PieceLength \in Nat
        BY <2>2, <2>4, <3>3, Multiples, WholePieces + 1 \in Nat, WholePieces + 1 <= Count
      <4> QED BY <2>2, <2>4, <4>1, <4>2, <4>3 DEF TorrentInv
    <3> QED BY <2>2, <2>4, <3>2, <3>3
  <2>5. ASSUME pc = "finished", InRange
        PROVE  merged > Total <=> Count * PieceLength > Total + PieceLength
    <3>1. index = Count /\ merged \in Int
      BY <2>5 DEF TorrentInv
    <3>2. /\ (WholePieces + 1) * PieceLength = WholePieces * PieceLength + PieceLength
          /\ (WholePieces + 2) * PieceLength = (WholePieces + 1) * PieceLength + PieceLength
      <4>1. WholePieces \in Nat /\ PieceLength \in Nat
        BY <2>2, <2>5
      <4> QED BY <4>1
    <3>3. CASE Count <= WholePieces + 1
      <4>1. merged <= Total
        <5>1. CASE Count = WholePieces + 1
          BY <2>2, <2>5, <3>1, <5>1 DEF MergedSoFar
        <5>2. CASE Count <= WholePieces
          <6>1. merged = Count * PieceLength
            BY <2>2, <2>5, <3>1, <5>2 DEF MergedSoFar
          <6>2. Count * PieceLength <= WholePieces * PieceLength /\ Count * PieceLength \in Nat
            BY <2>2, <2>5, <5>2, Multiples
          <6> QED BY <2>2, <2>5, <6>1, <6>2
        <5> QED BY <2>2, <2>5, <3>3, <5>1, <5>2
      <4>2. /\ Count * PieceLength <= (WholePieces + 1) * PieceLength
            /\ Count * PieceLength \in Nat
        BY <2>2, <2>5, <3>3, Multiples, WholePieces + 1 \in Nat
      <4> QED BY <2>2, <2>5, <3>1, <3>2, <4>1, <4>2
    <3>4. CASE Count > WholePieces + 1
      <4>1. merged > Total
        BY <2>2, <2>5, <3>1, <3>4 DEF MergedSoFar
      <4>2. WholePieces + 2 \in Nat /\ WholePieces + 2 <= Count
        BY <2>2, <2>5, <3>4
      <4>3. /\ (WholePieces + 2) * PieceLength <= Count * PieceLength
            /\ Count * PieceLength \in Nat
        BY <2>2, <2>5, <4>2, Multiples
      <4> QED BY <2>2, <2>5, <3>1, <3>2, <4>1, <4>3
    <3> QED BY <2>2, <2>5, <3>3, <3>4
  <2>6. pc = "endless" /\ InRange => ~BlocksEnd
    BY EndlessIsTooLong
  <2> QED BY <2>1, <2>3, <2>4, <2>5, <2>6 DEF WrongEndHasACause, Count
<1> QED BY <1>1, TorrentInvariant, PTL

=============================================================================
