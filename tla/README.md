# A TLA+ specification of Torrenter

Torrenter downloads a torrent with C++20 coroutines on one single-threaded
Boost.Asio `io_context`. Nothing runs in parallel, but every `co_await` is a
place where another coroutine may change what the first one has looked at. The
modules in this directory model those coroutines, the network and disk they
talk to, and the ways in which both fail. A step of a specification is what one
coroutine does between two suspensions.

## The system

| part | source (`src/source/`) | state | operations |
|---|---|---|---|
| Peer | `client/peer.{cpp,hpp}` | activity flags, `m_is_stopping`, peer status, the bounded channel `m_send_queue` | `start_async`, `connect_async`, receive loop, send loop, `send_async`, `internal_stop_sender` |
| Downloader | `client/downloader/` , `client/context.hpp` | `m_pieces`, `m_pending_requests`, `m_active_requests` | `download_piece`, `retrieve_piece`, `handle_piece`, the message callback, `send_buffered_messages` |
| Strategy | `client/reactor/strategy/strategy.hpp` | `m_missing_pieces`, `m_piece_downloaders`, `m_peer_pool`, `m_active_connections` | `include`, `assign`, `revoke`, `is_done` |
| Reactor | `client/reactor/reactor.hpp` | two loops and the merge | `download` |
| Storage | `client/storage/` | one file per piece | `push_piece`, `pull_piece`, `exists` |
| Tracker | `client/tracker/`, `torrent/tracker_messages.hpp` | one UDP exchange with a deadline | `fetch_udp_swarm` |
| Torrenter | `client/torrenter.cpp` | the list of trackers | `download_file` |
| Transmit, messages | `client/transmit/`, `torrent/messages.hpp`, `auxiliary/big_endian.hpp` | the bytes of a TCP connection | `send_message`, `read_message`, `send_handshake`, `read_handshake` |
| BitField | `torrent/bitfield/` | the bytes of a bit field | constructors, `mark`, `get` |
| Bencode, TorrentFile | `torrent/metadata/` | none | encoder, decoder, `load_torrent_file` |
| Application | `app.cpp`, `main.cpp` | the paths that were entered | `main`, `App::run` |

How they interact. `main` asks for paths and `App::run` decodes the torrent
file (`BDecoder`, `load_torrent_file`). `Torrenter` makes a context of it, resolves the trackers and spawns
`Reactor::download`. That runs two loops: the main loop R (wait, `revoke`,
`assign`, `is_done`, and in the end the merge) and the tracker loop T
(`is_done`, ask every tracker, wait, `include`). Both use one strategy object.
`include` makes a `Peer` and a `Downloader` per address and spawns
`start_async`; `assign` awaits `download_piece`; `is_done` polls
`retrieve_piece` and awaits `push_piece`. The receive loop of a Peer calls back
into its Downloader, which awaits `send_async` there, so that the receive loop
and the callers of `download_piece` meet both in the request containers and in
the Peer's channel. Below them `Transmit` makes messages of the bytes of the
connection, and the announced pieces are kept in a `BitField`.

What is hard, and what must hold:

* **Peer**: the shutdown protocol of the two loops through a bounded channel
  that may be full, empty or waited on; exceptions that skip the code after
  them. A stop request must be heard, the sentinel must not be written, the end
  must be reached, and an inactive Peer must have no coroutine left.
* **Downloader**: several coroutines in `send_buffered_messages`; chokes that
  requeue what is already underway; blocks that are counted and not marked. No
  block and no slot may get lost, a piece must become Complete when and only
  when all of it is there.
* **Strategy and Reactor**: two coroutines iterate and change the same maps
  across suspensions, downloaders vanish meanwhile. The maps must agree, the
  limits hold, and the download must end.
* **Storage**: a file that exists counts as a finished piece, also when a crash
  or a failed write left it half-written or another coroutine is writing it.
* **Tracker**: lost, duplicated and stray datagrams, one deadline for two
  receives, results that come after their turn is over.
* **Transmit**: messages arrive in pieces and malformed frames of other clients
  in between; the reader must keep its place in the stream and come to its end.
* **BitField**: indices nobody checked, a vector that grows on demand, bits
  counted from the high end. It must behave as a set of pieces.
* **Bencode, TorrentFile**: lengths and numbers from a file, cut to the widths
  of C++ integers, added and divided by. The decoder must stay inside the text,
  and a file whose numbers agree must be downloaded to its last byte.

The list `hazards` of `PROJECT.json` names the lines where each of these bites.

## Modules

| module | models | extends or uses |
|---|---|---|
| `Peer` | one connection | |
| `PeerProofs` | theorems about `Peer` | `Peer` |
| `Downloader` | a Downloader, its Peer, the TCP connection and the remote peer | `Peer`; implements `PieceWork` |
| `DownloaderProofs` | theorems about `Downloader` and its Peer; what each step does to a request | `Downloader`, `PeerProofs` |
| `BlockProofs` | theorems about the blocks of a `Downloader`, and that it implements `PieceWork` | `DownloaderProofs` |
| `PieceWork` | abstract: what a Downloader promises of each piece | |
| `Strategy` | strategy, both loops of the Reactor, merge, storage, crashes | uses `PieceWork`; implements `Download` |
| `StrategyProofs` | theorems about `Strategy`: its invariants, that it implements `Download` and stays within `PieceWork`, and its slots | `Strategy` |
| `Download` | abstract: what the user is promised | |
| `Tracker` | resolution of the trackers, tracker loop, `fetch_udp_swarm` | |
| `TrackerProofs` | theorems about `Tracker` | `Tracker` |
| `Transmit` | wire format and framing of the peer protocol | implements `MessageStream` |
| `TransmitProofs` | theorems about `Transmit`, and that it implements `MessageStream` | `Transmit` |
| `MessageStream` | abstract: a stream of whole messages | |
| `BitField` | the announced pieces, as bytes | implements `PieceSet` |
| `BitFieldProofs` | theorems about `BitField` | `BitField` |
| `PieceSet` | abstract: a set of pieces | |
| `Bencode` | encoder and decoder, on the text `App::run` gives it | |
| `TorrentFile` | `load_torrent_file`, the context and the sizes of the pieces | |
| `TorrentProofs` | theorems about `TorrentFile` | `TorrentFile` |
| `MCPeer`, `MCDownloader`, `MCStrategy`, `MCTracker`, `MCTransmit`, `MCBitField`, `MCBencode`, `MCTorrentFile` | values for TLC | the above |

The abstract modules join the layers. `Strategy` does not contain `Downloader`,
which would be out of reach; it has, for each downloader and piece, one of the
states none, working, Complete and Corrupt. `PieceWork` is the contract between
the two: `Downloader` implements it (`ImplementsPieceWork`, with blocks, chokes
and requeued requests hidden), and `Strategy` never leaves it
(`UsesPieceWork`); both are proved for all values of the constants. In the same
way `MessageStream` is what `Peer` and `Downloader` assume of the connection,
and `PieceSet` what all of them take a bit field for; these two are proved of
`Transmit` and `BitField`.

Operators named like `ActiveAfter` or `Requeued` are parts of the function
their comment names. A few operators stand right before another one of the same
kind and are not used (`ResetWithoutCancel`, `MaySendChoked`, ...): they are
plausible mistakes in that code, and `PROJECT.json` lists under `mutants` which
property each of them breaks.

### Peer

`start`, `recv` and `send` say where the three coroutines are; `await[t]` is
what task `t`'s last `async_send` came to: `posted` (it will resume), `blocked`
(in the line of a full channel) or `cancelled` (it will throw). The channel is
external and modelled from its use: a send goes to a waiting receiver, else
into the buffer, else into the line; a receive makes room for the head of the
line; `reset()` clears the buffer and cancels the line. Two ends of a
connection are easily overlooked and are both in the model: `start_async` that
threw (`start = "threw"`), after which `is_active` stays set, and the stop
request that `reset()` cancelled (`StopThrows`), which leads there too. A
message that cannot be parsed changes only the list of latest parse errors and
is left out.

| action | code |
|---|---|
| `StartAsync`, `ConnectOk`, `ConnectFails`, `JoinLoops`, `JoinThrows` | `start_async`, `connect_async` |
| `ReadMessage`, `CallbackGoesOn`, `CallbackThrows`, `ReadFails` | the receive loop |
| `StopDelivered`, `StopThrows` | the receive loop after `internal_stop_sender` |
| `SenderResume`, `WriteOk`, `WriteFails` | the send loop |
| `ClientSend`, `ClientResume` | `send_async` in another coroutine |
| `Drop` | the connection is lost |

### Downloader

`Downloader` extends `Peer`: it replaces the Peer's arbitrary clients and
callbacks by `download_piece` and the message callback, and adds both
directions of the TCP connection and a remote peer that keeps to the protocol
(it may choke, send corrupt blocks and learn of new pieces). The run checks
`PeerSpec` as a property and `DownloaderProofs` proves it, so every use the Downloader makes of its Peer is one
that `Peer` allows for, and what is proved of `Peer` holds of it.
`SecondCopies` separates two worlds. A request can be answered twice when the
remote peer unchokes while older requests are on their way to it, or when
`assign` gives the same piece to the same downloader again; the code then
counts a block twice. Without second copies everything is as it should be
(`MCDownloaderOrderly`); with them `MCDownloaderCopies` shows what still holds
of slots, of pieces that get no more blocks and of Complete pieces, since each
of them may go wrong: a slot of `m_active_requests` leaks, but only for a piece
that was handed out already (`LeakOnlyForStoredPieces`); a piece is stuck, but
only after its byte count passed its size (`StuckOnlyByOvershoot`); and a piece
is Complete without one of its blocks, but only where as many bytes of other
blocks were counted again (`OnlyRepeatsFillGaps`), so that a repeated block
stands in for one of its size. The hash then fails and the piece is asked for
again. To say the last, `FilePiece` has a field the code does not have:
`repeated`, the bytes counted of blocks that were there already. No step looks
at it.
A block is a request answered with the right bytes or with others.

### Strategy

`task["R"]` and `task["T"]` are the frames of the two loops: where they are,
what `assign` has left to do, and where the iterators of `is_done` stand. A
frame in `Running` has the thread and nothing else moves; elsewhere it is
suspended. A downloader is reduced to its connection, the pieces the remote
peer has announced and the state of each piece. It has announced none when the
connection is made (`Connected`); a BitField and Haves are read later
(`Announced`), or never.

Iterators that are no longer valid, `erase(end())` and the executor that T
captured by reference are undefined behaviour in the code; the model stops with
`undefined = TRUE` there. `is_done` is suspended in a range-for over
`m_piece_downloaders[p]`, whose iterators and end do not survive an entry that
the other `is_done` erased (`freed` of the frame), nor a downloader that
`assign` put into the vector or `revoke` took out of it (`moved`). Where the
loop has nothing more to do than to compare its place with the end it took, a
build may find them equal and go on, and both outcomes are in the model
(`Moved`, `Astray`). `UndefinedHasACause` names the four ways in which it comes
to that, each for the frame it happens to; the last of them needs no failure:
two healthy connections, a second downloader that `assign` enters for a piece
while T is writing that piece. `Crash` starts the process anew
on the files that were left. `ImplementsDownload` sums the module up: whole
piece files are gained one by one and never lost, whatever fails, and the
download is finished only with all of them. It says nothing of half-written
files, which the constructor takes for finished pieces: with one of those the
merge fails (`MergeReadsWholeFiles`).

`revoke` finds a connection that ended only by the pieces assigned to it. One
without pieces leaves the pool all the same if it announced a missing piece that
has room for another downloader, because `assign`, which does not look whether
the connection is there, gives it that piece (`Findable`, `EndedIsRevoked`). One
that ended before its BitField was read, or has none of the pieces that are
missing, keeps its place in the pool and its address in
`m_active_connections` for good.

### Tracker

A fetch is one call of `fetch_udp_swarm` with its own socket. `mail` only
grows while the socket is open and a receive takes any datagram of it or none,
which covers loss, duplication and reordering. The sends are not bounded by the
deadline, so a fetch can outlive its turn of the loop. The text of an Error
response, read as an id or an endpoint, is the value `Text`.
`sizeof(ErrorResponse)` is taken as 40, with the 32 bytes of libstdc++'s
`std::string`.

### Transmit

One direction of a connection: `wire` and `arrived` are bytes, the reader asks
for an exact number of them (`reader.asks`), as `async_read` does. The table
`Layout` holds the lengths and field widths of the structs as they are written
in `messages.hpp`; that they agree with each other, and the order of the variant
with the ids, is a result of the run and not an assumption. Two quirks are in
the model: a Keepalive selects no case of `send_message` and is not written
(the client uses it only as a sentinel), and the payload of a dynamic message is
read from a temporary that is gone, so its bytes are any (`FreedBytes`). The
program sends neither Piece nor BitField.

### BitField

A byte is the set of its set bits, so that `|`, `&` and `~` are set operations
and the provers can reason about them. `call` is the last operation; the
refinement maps a BitField message to the set of pieces it announces and
requires of every step that `get` answers as that set does.

### Bencode and TorrentFile

`Bencode` works on character codes, since what is hard in it are characters:
where a text ends, what a numeral is, how long a string claims to be. Widths
and the depth limit are constants, so that wrapping sums are within reach of
short texts. `TorrentFile` starts from decoded values, where a string is its
length; it follows one file through `load_torrent_file`, the context,
`get_piece_size` and the loop that cuts a piece into blocks, to the bytes that
the merge would write. The offset of that loop is a `uint32_t` and comes back to
0 for a piece longer than 2^32 - 2^13, whose loop never ends (`OffsetsEnd`,
`pc = "endless"`). Otherwise a download in it is undisturbed: how it gets its
pieces is the subject of the other modules. The numbers of `Downloader` have no
width, so its pieces are those for which the loop ends.

## Runs

| run | bounds | states | shows |
|---|---|---|---|
| `peer_lifecycle` | 2 clients, capacity 2, 2 starts | 7 915 | the shutdown protocol is orderly, ends, and releases waiting clients |
| `downloader_orderly` | pieces of 2 and 1 blocks, 2 calling coroutines, limit 2, capacity 1, 1 choke, 1 corrupt block | 267 360 | no block or slot is lost, pieces arrive, the Downloader implements `PeerSpec` and `PieceWork` |
| `downloader_copies` | 1 piece of 2 blocks of 2 bytes and 1 of 1, limit 1, 3 calls, 1 choke, 1 corrupt block, second copies | 1.1 million | what second copies can and cannot break |
| `strategy_one` | 3 pieces, 1 address, 2 Peers that announce one piece, all or none, 1 loss | 185 108 | the download finishes while the connection lasts, an ended connection leaves the pool if `assign` could give it a piece |
| `strategy_slots` | 3 pieces, 2 connections | 1.0 million | leaked slots do not add up to a standstill |
| `strategy_losses` | 2 pieces, 2 addresses, 2 Peers each, 1 loss, 1 corrupt piece | 4.2 million | maps and limits, the causes of undefined behaviour |
| `strategy_crashes` | 2 pieces, 2 addresses, 2 crashes or failed writes, 1 corrupt piece | 848 509 | what the files are taken for; the strategy implements `Download` and stays within `PieceWork` |
| `tracker_rounds` | ports 32767 and 32768, 2 turns, totals 2, 3 and 65537, an endpoint without an address, Error texts of 16 and 32 bytes, 1 stray | 134 697 | which endpoints reach `include`, what is lost, every turn ends |
| `bitfield` | messages of up to 2 bytes, indices on both sides of byte boundaries and past the end | 2 245 | the bytes implement `PieceSet` |
| `transmit` | a handshake and up to 2 messages, of 11 types and 8 foreign frames, delivered byte by byte | 240 723 | the reader implements `MessageStream` and comes to its end |
| `bencode` | 5 characters of 10 after 5 openings, depth 3, 5-bit integers and sizes | 555 555 | every text decodes or throws for a stated reason, what encoding gives back |
| `torrentfile` | every field missing or of the wrong type, words of 16 and 64 values, blocks of 4, up to 31 hashes | 11 896 | files that agree are fetched whole, others fail for stated reasons |

The bounds are the smallest at which the cases that matter occur: a channel
that is full and one that is not, a last block shorter than the others, fewer
slots than blocks, two downloaders for one piece and two pieces for one
downloader, an address connected again after a loss, values on both sides of
every integer width. Every bound is a constant (`Max...`) and appears in the
guard of the action it limits. The runs on two addresses use their symmetry,
except where liveness is checked. Deadlock is not checked: behaviours end when
the bounds are used up or the download is over, and what must not come to a
standstill is stated as liveness.

What the runs do *not* show: `NeverClogged` fails once a connection is lost
(the slots of the one that remains may all be lost), and with peers that have
some pieces and lack others (the one that has the last missing piece may be full
of stored ones); undefined behaviour can be
reached with two connections, neither of which is lost (`UndefinedHasACause`
says how), and a download that lost a connection need not finish. In
`tracker_rounds` no stray datagram comes from the tracker's own address, so of
the transaction ids that are not compared only late and repeated answers of the
tracker itself are exercised. The properties are stated for the
conditions under which the code keeps them.

### Observations

Seen in the runs: a length near 2^64 passes the check of
`bencode.cpp:113` and is stopped only by the limit of `std::string`; files that
nest too deeply end the program with an uncaught `std::runtime_error`
(`ThrowHasACause`); the info
hash is that of the dictionary as encoded again, so it is wrong for files whose
keys are not sorted (`EncodesAsRead`); one piece hash too many in a file makes a
download that never ends, and 2^32 hashes or more make one that ends early; a
piece length above 2^32 - 2^13 keeps `download_piece` in its loop for ever, on
the only thread (`WrongEndHasACause`). Two connections that last are enough for
undefined behaviour: `assign` may add a downloader to the vector over which a
suspended `is_done` iterates (`UndefinedHasACause`).

Seen while reading, without a run: `main.cpp:31` stores the pieces at the
default path whatever was entered at `main.cpp:14`; "Finished download."
(`main.cpp:35`) is said after a failed download too; `protocol_test.cpp:8`
requires a `Handshake` of 60 bytes, while the struct has 68 and the reader waits
for 68 (`sizeof_Handshake` in `Transmit`).

### Fairness

* `Peer`: an operation that completed resumes its coroutine, and on a dead
  connection writes complete. Nothing is assumed of a connection that is up.
* `Downloader`: in addition the connection carries what is written, the
  strategy polls (it does so every 3 seconds), and the remote peer takes,
  answers and unchokes. `PieceArrives` allows for a lost connection.
* `Strategy`: the running coroutine goes on (weak); timers, file writes and
  deliveries of connected peers happen although they are disabled whenever
  another coroutine has the thread (strong, since Asio serves its queue in
  order). Nothing is assumed of a connection that is being lost. One that has
  ended takes what `download_piece` sends into its channel, which has room for
  more than the requests and the Interested messages of two pieces.
* `Transmit`: TCP delivers while the connection lasts, and a read that has its
  bytes, or cannot get them any more, resumes. The writer need not write.
* `Tracker`: time passes, sends complete or throw, timers end. Nothing is
  assumed of trackers and network.

## Proofs

The theorems hold for every value of the constants: any clients, capacity and
number of starts in `PeerProofs`; any geometry of the file, policy and number of
calling coroutines in `DownloaderProofs` and `BlockProofs`; any indices and
messages in `BitFieldProofs`; any pieces, addresses, connections, losses and
crashes in `StrategyProofs`; any trackers, listings, stray datagrams and turns in
`TrackerProofs`; any messages, foreign frames, handshakes and contents of freed
memory in `TransmitProofs`; any decoded files and widths of the integers in
`TorrentProofs`.

| theorem | module | property |
|---|---|---|
| `PeerTypeCorrect` | `PeerProofs` | the type invariant `PeerTypeOK` |
| `InactiveCorrect` | `PeerProofs` | `InactiveMeansStopped` |
| `StopHeardCorrect` | `PeerProofs` | `StopIsHeard` |
| `SentinelCorrect` | `PeerProofs` | `SentinelNeverWritten` |
| `ThrownIsFinalCorrect` | `PeerProofs` | `ThrownIsFinal` |
| `DownloaderImplementsPeer` | `DownloaderProofs` | `PeerSpec` |
| `ActiveBoundCorrect` | `DownloaderProofs` | the limit on outgoing requests, `ActiveBound` (in the module of the proofs; no run checks it by itself) |
| `BlockInvariant` | `BlockProofs` | the inductive invariant `BlockInv` |
| `DownloaderTypes` | `BlockProofs` | `TypeOK` |
| `BlocksAreRemembered` | `BlockProofs` | `NoBlockForgotten` |
| `OnlyStoredPiecesLeak` | `BlockProofs` | `LeakOnlyForStoredPieces` |
| `StuckPiecesOvershot` | `BlockProofs` | `StuckOnlyByOvershoot` |
| `GapsAreOfRepeats` | `BlockProofs` | `OnlyRepeatsFillGaps` |
| `CompletePiecesAreWhole` | `BlockProofs` | `CompleteIsWhole`, if `~SecondCopies` |
| `ActiveRequestsAreUnderway` | `BlockProofs` | `ActiveIsUnderway`, if `~SecondCopies` |
| `DownloaderImplementsPieceWork` | `BlockProofs` | `ImplementsPieceWork` |
| `TypeCorrect` | `BitFieldProofs` | the type invariant `TypeOK` |
| `Refinement` | `BitFieldProofs` | `ImplementsPieceSet` |
| `StrategyInvariant` | `StrategyProofs` | the inductive invariant `StrategyInv` |
| `StrategyTypes` | `StrategyProofs` | `TypeOK` |
| `MissingPiecesMatchTheVault` | `StrategyProofs` | `MissingMatchesVault` |
| `TheMergeReadsWholeFiles` | `StrategyProofs` | `MergeReadsWholeFiles` |
| `TheMapsAgree` | `StrategyProofs` | `MapsAgreeOnMissing` |
| `LimitsHold` | `StrategyProofs` | `AtMostTwo` |
| `OneDownloaderPerAddress` | `StrategyProofs` | `PoolMatchesConnections` |
| `UndefinedOnlyForACause` | `StrategyProofs` | `UndefinedHasACause` |
| `StrategyImplementsDownload` | `StrategyProofs` | `ImplementsDownload` |
| `StrategyUsesPieceWork` | `StrategyProofs` | `UsesPieceWork` |
| `SlotsNeverClog` | `StrategyProofs` | `NeverClogged`, if no connection is lost and peers have all pieces or none |
| `SwarmOnlyHasListedPeers` | `TrackerProofs` | `OnlyListedPeers` |
| `AnnouncesUseIssuedIds` | `TrackerProofs` | `AnnounceUsesIssuedId` |
| `LossesHaveACause` | `TrackerProofs` | `LostForACause` |
| `IncludedSwarmsAreFinal` | `TrackerProofs` | `SwarmIsFinal` |
| `StreamInvariant` | `TransmitProofs` | the inductive invariant `StreamInv` |
| `TransmitImplementsMessageStream` | `TransmitProofs` | `ImplementsMessageStream` |
| `AgreedFilesAreWhole` | `TorrentProofs` | `AgreedIsWhole` |
| `WrongEndsHaveACause` | `TorrentProofs` | `WrongEndHasACause` |

Together the refinements make a chain: a connection is a stream of whole messages
(`MessageStream`), as `Downloader` has it between Peer and remote peer; a Downloader uses its Peer as `Peer`
allows (`PeerSpec`), keeps the promise `PieceWork` to the strategy, the
strategy asks for nothing else, and keeps the promise `Download` to the user.

### Peer

The five theorems rest on one inductive invariant, `PeerInv`, proved in
`PeerInvariant`. None of the properties is inductive by itself.
`SentinelNeverWritten` needs to
know that a Keepalive anywhere in the channel means that a running send loop
was told to stop (`KeepaliveIsSentinel`), which is kept by a new connection
only because an ended send loop left an empty channel and clients never send a
Keepalive (`PeerAssumption`). `InactiveMeansStopped` needs the table of
coroutine states that go together (`CoroutinesAgree`, `FlagsFollow`), and that
a receive loop throws only after the send loop ended, hence that a stop request
is cancelled only by a send loop that ended (`StoppingIsOrderly`).

A second invariant, `LineInv` (theorem `LineInvariant`), is about the
channel's line of waiting senders: a task is in it at most once and is then
blocked, so making room for the head of the line disturbs nobody else; a
receive loop that reads awaits nothing; a send loop that writes has a message.

### Downloader

`DownloaderInv` adds what the Downloader contributes: the types of its
containers and of the network, the limit itself, and the link between the two
layers (`CallsFollow`, `PiecesKnown`): a client outside `download_piece` awaits
nothing, and nobody is inside before the receive loop has run, because only
that loop learns which pieces there are. Without the link a call of
`download_piece` is not visibly a step that `Peer` allows its clients. The
refinement is then proved action by action (`CallStep`, `StrategyStep`,
`ReceiveStep`, ...) together with the invariant, in `DownloaderStep`.

The blocks need more, since a request is a copy in `m_pending_requests` or
`m_active_requests`, in the frame of a coroutine, in the channel, in the hand of
the send loop, on the wire, with the remote peer, or on its way back as a Piece.
Two reductions keep the proof readable. Each of these places is a count, and
lemmas say once how `Append`, `Tail`, `\o` and the channel's line change it; and
`StepEffect` says of every step that it is one of a handful of effects
(`BlockStep`): a copy moved, a turn of `send_buffered_messages`, a block, a Choke
or an Unchoke that was read, a piece entered or taken. The invariant
`BlockInv` is proved against the effects and not against the actions. Its parts:

* `PeerSide`, `Begins`: what the Peer adds (an idle send loop holds no message,
  only clients of an ended send loop are cancelled), and that nothing is known or
  asked for before the connection is there.
* `Chokes`: while the remote peer chokes, the client knows or the Choke is still
  coming; a choked client has no active requests, and the remote peer dropped
  its own.
* `Counted`: the bytes still missing and the bytes counted are together the size
  of the piece and the bytes counted again. So only an overshoot can make a
  piece stuck, and only repeated blocks can make up for one that is missing. The missing bytes are a sum over
  the blocks, a recursive function on the numbers of the blocks; that storing
  a block takes its bytes from the sum and no others is an induction, done with
  the smallest counterexample (well-foundedness of `<` on `Nat`).
* `Known`: whatever is asked for belongs to a piece in `m_pieces` or one already
  handed out.
* `Remembered`: a block that has not arrived is pending, active, or a coroutine
  is about to ask for it. This is `NoBlockForgotten`.
* `SlotsCome`: an active request has a copy underway, a Choke is coming that will
  requeue it, or its piece was handed out. This is `LeakOnlyForStoredPieces`.

If no request is answered twice, `Order` is invariant too: a request is in one
place only (`OneOfEach`) and asked for by one coroutine (`AsksOnce`), answers
and copies are of active requests (`AnswersWanted`, `CopiesWanted`), nothing but
Have messages follows a Choke (`ChokeIsLast`), and the count is exact (`Exact`).
`CompleteIsWhole` and `ActiveIsUnderway` follow. They are stated under the
hypothesis `~SecondCopies`, as they are checked under it in
`downloader_orderly`: with second copies they are false.
`GapsAreOfRepeats` and `OnlyStoredPiecesLeak`, which have no hypothesis, say what
remains of them.

`ImplementsPieceWork` holds in both worlds (`WorkInv`). The one step that needs
the invariant is a block for a piece that is Complete already: without second
copies there is none, and with them the count passes the size and the piece is
worked on again, which `PieceWork` allows where it may be asked for again.

### BitField

`BitField` implements `PieceSet` with `TypeOK` as its only invariant. The work
is in the lemmas: an index is its byte and its bit (division and remainder by 8
determine it), two indices with the same byte and the same mask are the same,
`mark` changes what `get` says of its own index and of no other, also across a
resize, and `get` on a message that was just taken is the set it announces.

### Strategy

`StrategyInv` says what each suspended coroutine may rely on when it resumes.

* `MadeInOrder`, `NotMadeYet`: which Peers of an address exist. Without it a new
  connection could be one that a map still names.
* `DownloadersOK`: a downloader of a piece was made, and the piece is assigned to
  it or was taken from it.
* `PollOK`, `MovedOK`, `StoringOK`: where the iterators of `is_done` stand, they
  stand in vectors that are still there and as long as they were, or the entry
  was erased, or, in T's frame only, R's `assign` or `revoke` changed the vector:
  then a downloader that was put in is still there, or one that was taken out
  ended and left the pool, unless the entry was erased since. This is how
  undefined behaviour comes about. A piece that is being stored is otherwise
  still assigned on both sides.
* `AssigningOK`: what `assign` checked before its `co_await` still holds after
  it. This is what makes `AtMostTwo` true: only `assign` adds pairs, only R runs
  it, and T can only take away.
* `MergingOK`, `PartialIsUnderway`: the merge reads whole files up to where it
  is, and a half-written file is being written or torn.
* `OneThread`, `Apart`: one coroutine runs; two that store the same piece of the
  same downloader do not both hold it. `Apart` is needed since each of them
  removes the pair from the maps and the second must find nothing.

`MapsAgreeOnMissing`, `AtMostTwo`, `PoolMatchesConnections`,
`MissingMatchesVault` and `UndefinedHasACause` are parts of the invariant, and
each needs some of the others. Vectors have at most two elements, so what
`std::remove` leaves of them is proved by unrolling its loop.
The refinements go through the actions twice more, for what `Download` sees of a
step (whole files and the outcome) and for what `PieceWork` sees.

`NeverClogged` needs an invariant of its own, `SlotsInv`, on top of
`StrategyInv`. A piece with two downloaders gives only one slot back when it is
stored, and storing a piece always frees a slot of somebody; so only `assign`
can fill the last one, with a piece that the tracker loop stored after the list
was made. `assign` goes twice through its list, each time through every missing
piece, and `Round(n)` speaks of the first of these times, of which n pieces are
left:

* `Stale(n)` are those of the n pieces that are stored by now, and
  `Begun(n)` the missing pieces behind that have a downloader. While R is
  suspended there are fewer stale pieces ahead than free slots and begun pieces
  together (`Fewer`). A slot that is taken (`SlotTaken`) makes one piece begun,
  or is wasted and leaves one stale piece less; a slot that is given back
  (`SlotGiven`) makes up for a piece that went stale or is begun no more. Between
  two candidates it is enough that the stale pieces are no more than the begun
  ones (`NoMore`), because the next candidate itself shows a free slot.
* `AllBegun`: a missing piece behind has a downloader, or there was no room for
  it, that is, everybody with a free slot has no pieces at all (`NoRoom`). Here
  the hypothesis is used that a peer has all pieces or none.

When the last slot is filled with a stale piece, the count leaves either
another free slot or a missing piece behind with a downloader, who then has it
in his vector (`MapsAgreeOnMissing`). Without a loss `revoke` takes nobody away
and undoes no assignment. In the second time round n is 0, and the claim is
only that every missing piece was begun or there was no room. Without either
hypothesis TLC finds the standstill.

### Transmit

`ImplementsMessageStream` says that reading undoes writing, for whole streams
and bytes that arrive in any sizes. `StreamInv` states it without an encoding of
streams, which would be an induction over them: there is a sequence `all` of the
bytes ever written, cut at positions `at` into frames (`Cut`); frame k is what
`send_handshake`, `send_message` or another client wrote for the k-th entry of
`sent` (`WrittenAs`); and what has arrived and what is on its way are, in this
order, bytes of `all` from the place up to which the reader has taken them
(`OnTheWay`), all the rest of them while the connection is open (`Whole`). That
place is where the frame after the last one received begins, or four bytes
behind it when the reader waits for a body. The last part is the one that could
go wrong: a message whose length field and size differ (`sizeof(metadata)`,
`add_length`, the byte order) would leave the reader inside a frame for good.

A step of the reader then concerns one frame, and the lemmas about it are
about at most 68 positions of fixed structs and a payload, which is written and
read without looking at it: the length prefix of each message is its size less
four; the id selects the struct it was written from; each field comes out as it
went in, given it fits its width (`MessagesAssumption`); a Keepalive, which
writes nothing, is never in the stream. A foreign frame is taken whole and
becomes a message or an error, whatever freed memory it reads.

### Tracker

`TrackerInv` has the types and: fetches begin with their turn and hold nothing
while underway (`FetchesFollowRounds`); swarms that were included are of past
turns (`IncludedIsPast`), which makes `SwarmIsFinal` true of a fetch that
outlives its turn; no listing comes to a socket that has not announced, an
announce has an id, and where the id came from is still in the mail
(`SocketsOK`).

### TorrentFile

`TorrentInv` relates `merged` to `index`: full pieces, then all of the file, then
more (`MergedSoFar`). The proof attempt showed that `AgreedIsWhole` was false as
it stood: `piece_count` is a `uint32_t`, so a file of 2^32 pieces or more is
declared finished after their number modulo 2^32. The property now asks for fewer, the
instance has files with more hashes than a word has values, and
`WrongEndHasACause` names the cut number as a cause of a short result. The loop over
the blocks ends exactly for the sizes up to the last multiple of a block that
fits a word, for every word that is made of whole blocks (`BlockAssumption`);
`BlocksEnd` says of a file that its longest piece is one of those. The sum of
the lengths is left as it is: nothing is used of it but that it is in range.

### Assumptions

`CapacityAssumption` and `PeerAssumption` of `Peer` (a channel has room for
something, clients do not send Keepalive), `GeometryAssumption` and
`DownloaderAssumption` of `Downloader` (sizes are positive, budgets are
numbers), `BitFieldAssumption`, `StrategyAssumption`, `TrackerAssumption`,
`ListingsAssumption`, `StraysAssumption` (a datagram that is not from the
tracker is marked so), `WidthAssumption`, `BlockAssumption` (a word is a multiple
of a block, as 2^32 is of 2^13) and `FilesAssumption` (the length of "pieces" is a
number), `MessagesAssumption`, `FramesAssumption` and
`BytesAssumption` of `Transmit` (fields fit the structs they are in, frames their
length field, and bytes are bytes). TLC evaluates all of them. `SlotsNeverClog`
has its hypotheses in its statement: `MaxLosses = 0`, `Bitfields \subseteq
{{}, Pieces}` and finitely many addresses; `CompletePiecesAreWhole` and
`ActiveRequestsAreUnderway` have `~SecondCopies`.

### Only model-checked

* Liveness, which is out of the prover's reach: `StopCompletes`,
  `DeadLinkReleasesClients`, `PieceArrives`, `DownloadFinishes`,
  `EndedIsRevoked`, `ReadsToTheEnd`, `FetchEnds`.
* `ThrowHasACause` and `EncodesAsRead` of `Bencode`, whose decoder is recursive:
  both are statements about every text, by induction over it.

## Not modelled

* The end of `io.run()`: the program has no graceful shutdown, and a peer that
  stays connected keeps it running after the merge.
* Memory: an allocation that fails (a frame of 4 GiB, a Have for index 2^32 - 1)
  throws into the receive loop like a broken connection.
* The contents of the handshake: `connect_async` compares nothing in it.
  `Transmit` frames it, and in `Peer` it succeeds or throws.
* Code without a caller: `parse_announcers`, `BitField::is_empty`,
  `BitField::as_raw`, `restart_connection`.
* The prompts and messages of `main`; `App::run` is in `Bencode` (`Type`, the
  file as it is read) and `TorrentFile` (`Load`), its reports are left out.
* The regular expression for announce URLs is a given set of URLs, the shuffle
  in `assign` any permutation, random ids any value. Colours, versions and
  progress output are left out, and so are the macros and headers of
  `auxiliary/` other than `big_endian.hpp`.

## Plan

The components are modelled, and of the 33 safety properties the runs check 31
are proved, each for all values of the constants or under the hypotheses its
theorem states. The other two and the seven liveness properties are out of the
prover's reach, for the reasons above. What remains to be done is in the code; the
observations name the lines.
