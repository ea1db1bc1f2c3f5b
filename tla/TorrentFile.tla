----------------------------- MODULE TorrentFile -----------------------------
(***************************************************************************)
(* From a decoded torrent file to the geometry of the download:            *)
(* load_torrent_file (torrent/metadata/torrentfile.cpp), the context that  *)
(* Torrenter::download_file makes of it, and the sizes get_piece_size then *)
(* gives the pieces, which the Downloader fetches and the Reactor writes   *)
(* one after the other. A BeValue is <<which(), value>>, a string its      *)
(* length, a dictionary a function from the names of its fields.           *)
(*                                                                         *)
(* The numbers of the file are taken as they come: nothing compares the    *)
(* number of hashes with the lengths, and all are cut to unsigned widths.  *)
(***************************************************************************)
EXTENDS Integers, Sequences

CONSTANTS
  TorrentFiles,  \* the decoded files
  Word32,        \* how many values uint32_t has: 2^32 in the code
  Word64,        \* how many values uint64_t has: 2^64 in the code
  max_block_bytes \* of the default DownloaderPolicy: 2^13 in the code

ASSUME WidthAssumption == Word32 \in Nat \ {0} /\ Word64 \in Nat \ {0}

(* Both are powers of two. *)
ASSUME BlockAssumption ==
  /\ max_block_bytes \in Nat \ {0}
  /\ \E n \in 1..Word32 : Word32 = n * max_block_bytes

IInt64 == 0
IString == 1
IDict == 2
IList == 3

uint32(n) == n % Word32
uint64(n) == n % Word64

SHA1_HASH_SIZE == 20
SHA1(v) == <<"SHA1", v>>  \* of the encoded info dictionary

Sum(s) ==
  LET upto[k \in 0..Len(s)] == IF k = 0 THEN 0 ELSE upto[k - 1] + s[k] IN upto[Len(s)]

Flat(lists) ==
  LET upto[k \in 0..Len(lists)] == IF k = 0 THEN <<>> ELSE upto[k - 1] \o lists[k][2]
  IN  upto[Len(lists)]

-----------------------------------------------------------------------------
(* parse_field and its instances: the error, or none. *)
Missing == "MissingField"
Wrong == "InvalidField"

parse_field(dict, name, type) ==
  IF name \notin DOMAIN dict THEN Missing
  ELSE IF dict[name][1] # type THEN Wrong ELSE "none"

Has(dict, name, type) == parse_field(dict, name, type) = "none"

AllOf(list, type) == \A k \in DOMAIN list : list[k][1] = type

(* The loop over "announce-list": a value that is not a list is ignored.   *)
AnnounceListError(top) ==
  /\ Has(top, "announce-list", IList)
  /\ \/ ~AllOf(top["announce-list"][2], IList)
     \/ \E k \in DOMAIN top["announce-list"][2] :
          ~AllOf(top["announce-list"][2][k][2], IString)

Trackers(top) ==
  <<top["announce"]>>
    \o IF Has(top, "announce-list", IList) THEN Flat(top["announce-list"][2]) ELSE <<>>

(* The loop over "files" *)
FileError(entry) ==
  \/ entry[1] # IDict
  \/ ~Has(entry[2], "length", IInt64)
  \/ ~Has(entry[2], "path", IList)
  \/ ~AllOf(entry[2]["path"][2], IString)

FilesError(info) ==
  \/ ~Has(info, "files", IList)
  \/ \E k \in DOMAIN info["files"][2] : FileError(info["files"][2][k])

Lengths(info) ==
  IF "files" \in DOMAIN info
  THEN [k \in DOMAIN info["files"][2] |-> info["files"][2][k][2]["length"][2]]
  ELSE <<info["length"][2]>>

(* The files with their offsets; file_length is what comes after the last. *)
FileItems(lengths) ==
  [k \in DOMAIN lengths |->
     [size |-> uint64(lengths[k]), offset |-> uint64(Sum(SubSeq(lengths, 1, k - 1)))]]

(* The first error load_torrent_file comes across. *)
LoadError(file) ==
  LET top  == file[2]
      info == top["info"][2]
  IN  IF file[1] # IDict THEN Wrong
      ELSE IF ~Has(top, "announce", IString) THEN parse_field(top, "announce", IString)
      ELSE IF AnnounceListError(top) THEN Wrong
      ELSE IF ~Has(top, "info", IDict) THEN parse_field(top, "info", IDict)
      ELSE IF \/ ~Has(info, "name", IString)
              \/ ~Has(info, "piece length", IInt64)
              \/ ~Has(info, "pieces", IString) THEN Missing
      ELSE IF info["pieces"][2] % SHA1_HASH_SIZE # 0 THEN Wrong
      ELSE IF "files" \in DOMAIN info
           THEN IF FilesError(info) THEN Wrong ELSE "none"
      ELSE IF ~Has(info, "length", IInt64) THEN Missing ELSE "none"

(* "comment" and the like are taken when they have the right type. *)
Comment(top) == IF Has(top, "comment", IString) THEN top["comment"][2] ELSE 0

load_torrent_file(file) ==
  LET top  == file[2]
      info == top["info"][2]
  IN  [trackers |-> Trackers(top),
       info_hash |-> SHA1(info),
       comment |-> Comment(top),
       piece_length |-> uint32(info["piece length"][2]),
       piece_hashes |-> info["pieces"][2] \div SHA1_HASH_SIZE,
       files |-> FileItems(Lengths(info)),
       file_length |-> uint64(Sum(Lengths(info)))]

(* InternalContext, as download_file fills it. *)
Context(torrent) ==
  [info_hash |-> torrent.info_hash,
   file_size |-> torrent.file_length,
   piece_size |-> torrent.piece_length,
   piece_count |-> uint32(torrent.piece_hashes)]

(* InternalContext::get_piece_size, for piece_size # 0. *)
get_piece_sizeFull(context, index) == context.piece_size
get_piece_size(context, index) ==
  LET rounded_max_index == context.file_size \div context.piece_size
  IN  IF index < rounded_max_index
      THEN context.piece_size
      ELSE uint32(context.file_size - rounded_max_index * context.piece_size)

(* A string is given by its length, "pieces" too. *)
ASSUME FilesAssumption ==
  \A f \in TorrentFiles : LoadError(f) = "none" => f[2]["info"][2]["pieces"][2] \in Nat

-----------------------------------------------------------------------------
VARIABLES
  file,     \* the decoded file
  pc,       \* how far the program is with it
  torrent,  \* the TorrentFile
  index,    \* the next piece to fetch
  merged    \* bytes of the pieces before it

vars == <<file, pc, torrent, index, merged>>

Init ==
  /\ file \in TorrentFiles
  /\ pc = "decoded"
  /\ torrent = <<>>
  /\ index = 0
  /\ merged = 0

(* App::run: "couldn't decode", or a Torrenter for it. *)
Load ==
  /\ pc = "decoded"
  /\ IF LoadError(file) # "none"
     THEN pc' = "rejected" /\ UNCHANGED torrent
     ELSE pc' = "loaded" /\ torrent' = load_torrent_file(file)
  /\ UNCHANGED <<file, index, merged>>

(* Downloader::download_piece cuts a piece of size bytes into blocks: its  *)
(* offset goes through the multiples of max_block_bytes until it is past   *)
(* the piece, and being a uint32_t it comes back to 0 after the last one.  *)
Offsets == {offset \in 0..(Word32 - 1) : offset % max_block_bytes = 0}

OffsetsEnd(size) == \E offset \in Offsets : offset >= size

(* The next piece of the download: a division by zero ends the program; a  *)
(* piece without bytes has no block to ask for and is never complete; and  *)
(* the loop over the blocks, which has the thread, may have no end.        *)
FetchPiece ==
  LET context == Context(torrent)
  IN  /\ pc = "loaded"
      /\ index < context.piece_count
      /\ IF context.piece_size = 0
         THEN pc' = "crashed" /\ UNCHANGED <<index, merged>>
         ELSE IF get_piece_size(context, index) = 0
         THEN pc' = "stuck" /\ UNCHANGED <<index, merged>>
         ELSE IF ~OffsetsEnd(get_piece_size(context, index))
         THEN pc' = "endless" /\ UNCHANGED <<index, merged>>
         ELSE /\ merged' = merged + get_piece_size(context, index)
              /\ index' = index + 1
              /\ UNCHANGED pc
      /\ UNCHANGED <<file, torrent>>

(* Reactor::download: nothing is missing. The buffer for the merge is as   *)
(* long as piece 0, even where there is none.                              *)
FinishUnmeasured ==
  /\ pc = "loaded"
  /\ index = Context(torrent).piece_count
  /\ pc' = "finished"
  /\ UNCHANGED <<file, torrent, index, merged>>

Finish ==
  /\ pc = "loaded"
  /\ index = Context(torrent).piece_count
  /\ pc' = IF Context(torrent).piece_size = 0 THEN "crashed" ELSE "finished"
  /\ UNCHANGED <<file, torrent, index, merged>>

Next == Load \/ FetchPiece \/ Finish

Spec == Init /\ [][Next]_vars

-----------------------------------------------------------------------------
(* What the publisher says, in numbers without width. *)
Info == file[2]["info"][2]
PieceLength == Info["piece length"][2]
Hashes == Info["pieces"][2] \div SHA1_HASH_SIZE
Total == Sum(Lengths(Info))

InRange ==
  /\ PieceLength \in 1..(Word32 - 1)
  /\ \A k \in DOMAIN Lengths(Info) : Lengths(Info)[k] \in 0..(Word64 - 1)
  /\ Total \in 0..(Word64 - 1)

Agrees ==
  /\ InRange
  /\ Hashes = (Total + PieceLength - 1) \div PieceLength
  /\ Hashes < Word32

Accepted == pc \notin {"decoded", "rejected"}

(* The longest piece is a full one, or the only one. *)
BlocksEnd ==
  \/ PieceLength <= Word32 - max_block_bytes
  \/ Total <= Word32 - max_block_bytes

(* A file whose numbers agree, and has fewer than 2^32 pieces, is fetched  *)
(* to the last byte it declares: no piece is empty, whether or not the     *)
(* last one is shorter than the others, and together they are as long as   *)
(* the files; unless a piece is longer than 2^32 - 2^13, when the loop     *)
(* over its blocks never ends: then, and only then, nothing is fetched     *)
(* (torrentfile.cpp:76-219, context.hpp:55-63, downloader.cpp:51-62).      *)
AgreedIsWhole ==
  Accepted /\ Agrees =>
    /\ pc \notin {"crashed", "stuck"}
    /\ pc = "endless" => ~BlocksEnd
    /\ pc = "finished" => merged = Total /\ BlocksEnd

(* Nothing else is promised: the client divides by zero when the piece     *)
(* length is a multiple of 2^32, and then always; it waits for a piece     *)
(* forever only when there are hashes for pieces past the end of the file, *)
(* and cuts one into blocks forever only when it is longer than 2^32 - 2^13;*)
(* what it puts together is short exactly when hashes are missing, or are  *)
(* so many that their number is cut (torrenter.cpp:65), and too long       *)
(* exactly when there are hashes for more than a piece past the end.       *)
WrongEndHasACause ==
  /\ pc = "crashed" => PieceLength % Word32 = 0
  /\ pc \in {"stuck", "endless", "finished"} => PieceLength % Word32 # 0
  /\ pc = "stuck" /\ InRange => uint32(Hashes) * PieceLength > Total
  /\ pc = "endless" /\ InRange => ~BlocksEnd
  /\ pc = "finished" /\ InRange =>
       /\ merged < Total <=> uint32(Hashes) * PieceLength < Total
       /\ merged > Total <=> uint32(Hashes) * PieceLength > Total + PieceLength

=============================================================================
