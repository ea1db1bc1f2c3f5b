----------------------------- MODULE Downloader -----------------------------
(***************************************************************************)
(* btr::Downloader (source/client/downloader/downloader.cpp) on top of its *)
(* Peer: pieces are cut into block requests, at most MaxConcurrent of them *)
(* are out at a time, a Choke puts them back in line, and the blocks that  *)
(* arrive are counted until the piece is complete.                         *)
(*                                                                         *)
(* send_buffered_messages suspends after every request it queues, and it   *)
(* runs in the receive loop (after a message) and in the coroutines that   *)
(* call download_piece; all of them share the two request containers.      *)
(***************************************************************************)
EXTENDS Peer

CONSTANTS
  FileSize, PieceSize, PieceCount,  \* InternalContext
  MaxBlockBytes, MaxConcurrent,     \* DownloaderPolicy
  SecondCopies,  \* whether a request can be underway twice: see RemoteUnchokes
  MaxCalls,      \* bound: calls of download_piece by assign()
  MaxChokes,     \* bound: how often the remote peer chokes
  MaxBad         \* bound: how many blocks the remote peer corrupts

Pieces == 0..(PieceCount - 1)

(* InternalContext::get_piece_size *)
get_piece_size(index) ==
  LET rounded_max_index == FileSize \div PieceSize
  IN  IF index < rounded_max_index
      THEN PieceSize
      ELSE FileSize - rounded_max_index * PieceSize

(* The loop of download_piece: for (offset = 0; offset < piece_length; ...),*)
(* for the pieces over which it comes to its end: see TorrentFile, where a *)
(* uint32_t offset wraps in a piece longer than 2^32 - MaxBlockBytes.      *)
BlockCount(index) ==
  (get_piece_size(index) + MaxBlockBytes - 1) \div MaxBlockBytes

Block(index, k) ==
  LET offset == (k - 1) * MaxBlockBytes
      left   == get_piece_size(index) - offset
  IN  [type |-> "Request", piece_index |-> index, offset_within_piece |-> offset,
       length |-> IF left < MaxBlockBytes THEN left ELSE MaxBlockBytes]

BlockRequests(index) == [k \in 1..BlockCount(index) |-> Block(index, k)]

Blocks(index) == {Block(index, k) : k \in 1..BlockCount(index)}

Requests == UNION {Blocks(index) : index \in Pieces}

Interested == [type |-> "Interested"]

(* A block is a request answered with the right bytes or with others. *)
Answers == [type : {"Piece"}, block : Requests, content : {"good", "bad"}]

Signals ==
  {[type |-> "Choke"], [type |-> "Unchoke"]}
    \cup [type : {"Have"}, piece_index : Pieces]
    \cup [type : {"BitField"}, pieces : SUBSET Pieces]

ASSUME GeometryAssumption ==
  /\ FileSize \in Nat \ {0}
  /\ PieceSize \in Nat \ {0}
  /\ PieceCount = (FileSize + PieceSize - 1) \div PieceSize
  /\ MaxBlockBytes \in Nat \ {0}
  /\ MaxConcurrent \in Nat \ {0}

ASSUME DownloaderAssumption ==
  /\ Outgoing = Requests \cup {Interested}
  /\ Incoming = Answers \cup Signals
  /\ MaxStarts = 1  \* include() starts a Peer once; nobody restarts it
  /\ SecondCopies \in BOOLEAN
  /\ MaxCalls \in Nat
  /\ MaxChokes \in Nat
  /\ MaxBad \in Nat

VARIABLES
  m_pieces,            \* std::map<size_t, FilePiece>
  m_pending_requests,  \* std::deque<Request>
  m_active_requests,   \* std::set<RequestIdentifier>
  call,                \* where each client is in download_piece
  stored,              \* pieces handed out by retrieve_piece as Complete
  outbound, inbound,   \* the two directions of the TCP connection
  remote,              \* the remote peer
  budget               \* what is left of the bounds

downloaderVars == <<m_pieces, m_pending_requests, m_active_requests, call, stored>>
networkVars == <<outbound, inbound, remote, budget>>
vars == <<peerVars, downloaderVars, networkVars>>

Contents == {"zero", "good", "bad"}

(* A FilePiece, with a history that nothing reads: how many of its         *)
(* bytes_downloaded are of blocks that had come before.                    *)
FilePiece(p) ==
  [status : {"Pending", "Active", "Complete"},
   data : [Blocks(p) -> Contents],
   bytes_downloaded : Nat,
   repeated : Nat]

CallStates ==
  [pc : {"idle"}] \cup [pc : {"interested", "sending"}, piece : Pieces]

TypeOK ==
  /\ PeerTypeOK
  /\ status \in [self_choked : BOOLEAN, remote_bitfield : SUBSET Pieces]
  /\ DOMAIN m_pieces \subseteq Pieces
  /\ \A p \in DOMAIN m_pieces : m_pieces[p] \in FilePiece(p)
  /\ m_pending_requests \in Seq(Requests)
  /\ m_active_requests \subseteq Requests
  /\ call \in [Clients -> CallStates]
  /\ stored \subseteq Pieces
  /\ outbound \in Seq(Outgoing)
  /\ inbound \in Seq(Incoming)
  /\ remote \in [choking : BOOLEAN, interested : BOOLEAN,
                 requests : Seq(Requests), has : SUBSET Pieces]
  /\ budget \in [calls : 0..MaxCalls, chokes : 0..MaxChokes, bad : 0..MaxBad]

Idle == [pc |-> "idle"]

Init ==
  /\ PeerInit
  /\ m_pieces = [p \in {} |-> {}]
  /\ m_pending_requests = <<>>
  /\ m_active_requests = {}
  /\ call = [c \in Clients |-> Idle]
  /\ stored = {}
  /\ outbound = <<>>
  /\ inbound = <<>>
  /\ remote \in [choking : {TRUE}, interested : {FALSE}, requests : {<<>>},
                 has : SUBSET Pieces]
  /\ budget = [calls |-> MaxCalls, chokes |-> MaxChokes, bad |-> MaxBad]

-----------------------------------------------------------------------------
(* send_buffered_messages *)

(* The condition of its loop. *)
MaySendChoked(pending, active, choked) ==
  pending # <<>> /\ Cardinality(active) < MaxConcurrent

MaySend(pending, active, choked) ==
  /\ ~choked
  /\ pending # <<>>
  /\ Cardinality(active) < MaxConcurrent

(* Task t is in, or has left, a callback or a call for piece p. *)
Continue(t, p) ==
  \/ t = ReceiveLoop /\ recv' = "callback" /\ UNCHANGED call
  \/ /\ t \in Clients
     /\ call' = [call EXCEPT ![t] = [pc |-> "sending", piece |-> p]]
     /\ UNCHANGED recv

Leave(t) ==
  \/ t = ReceiveLoop /\ recv' = "reading" /\ UNCHANGED call
  \/ t \in Clients /\ call' = [call EXCEPT ![t] = Idle] /\ UNCHANGED recv

(* One turn of the loop by task t, from the point where the containers are *)
(* pending and active: the request is entered as active and queued in the  *)
(* channel, or the loop is over.                                           *)
SendBuffered(t, p, pending, active, choked) ==
  \/ /\ MaySend(pending, active, choked)
     /\ m_active_requests' = active \cup {Head(pending)}
     /\ m_pending_requests' = Tail(pending)
     /\ AsyncSend(t, Head(pending))
     /\ Continue(t, p)
  \/ /\ ~MaySend(pending, active, choked)
     /\ m_active_requests' = active
     /\ m_pending_requests' = pending
     /\ await' = [await EXCEPT ![t] = "none"]
     /\ Leave(t)
     /\ UNCHANGED <<m_send_queue, waiters, send, hand>>

-----------------------------------------------------------------------------
(* download_piece and retrieve_piece, in the coroutine of a client *)

FreshPieceUnsized(p) ==
  [status |-> "Pending", data |-> [b \in {} |-> "zero"],
   bytes_downloaded |-> 0, repeated |-> 0]

FreshPieceCounted(p) ==
  [status |-> "Pending", data |-> [b \in Blocks(p) |-> "zero"],
   bytes_downloaded |-> IF p \in DOMAIN m_pieces
                        THEN m_pieces[p].bytes_downloaded ELSE 0,
   repeated |-> 0]

FreshPiece(p) ==
  [status |-> "Pending", data |-> [b \in Blocks(p) |-> "zero"],
   bytes_downloaded |-> 0, repeated |-> 0]

(* m_pieces[p] = FilePiece {...}, then Interested if choked; otherwise on  *)
(* to the requests without a suspension.                                   *)
download_piece(c, p) ==
  /\ p \in status.remote_bitfield
  /\ m_pieces' = [q \in DOMAIN m_pieces \cup {p} |->
                    IF q = p THEN FreshPiece(p) ELSE m_pieces[q]]
  /\ \/ /\ status.self_choked
        /\ AsyncSend(c, Interested)
        /\ call' = [call EXCEPT ![c] = [pc |-> "interested", piece |-> p]]
        /\ UNCHANGED <<m_pending_requests, m_active_requests, recv>>
     \/ /\ ~status.self_choked
        /\ SendBuffered(c, p, m_pending_requests \o BlockRequests(p),
                        m_active_requests, status.self_choked)

(* assign() gives this downloader a piece it is not working on.  When      *)
(* is_done() of the tracker loop runs in the middle of assign(), the list  *)
(* of missing pieces is stale and the piece may be given a second time.    *)
AssignPiece(c, p) ==
  /\ call[c] = Idle
  /\ p \in DOMAIN m_pieces => SecondCopies
  /\ budget.calls > 0
  /\ budget' = [budget EXCEPT !.calls = @ - 1]
  /\ download_piece(c, p)
  /\ UNCHANGED <<activityVars, m_is_stopping, status, start, link, starts,
                 stored, outbound, inbound, remote>>

(* Interested was queued: the requests of the piece go to the back. *)
InterestedSent(c) ==
  /\ call[c].pc = "interested"
  /\ await[c] = "posted"
  /\ SendBuffered(c, call[c].piece,
                  m_pending_requests \o BlockRequests(call[c].piece),
                  m_active_requests, status.self_choked)
  /\ UNCHANGED <<activityVars, m_is_stopping, status, start, link, starts,
                 m_pieces, stored, networkVars>>

(* A request was queued: the next turn of send_buffered_messages. *)
RequestSent(c) ==
  /\ call[c].pc = "sending"
  /\ await[c] = "posted"
  /\ SendBuffered(c, call[c].piece, m_pending_requests, m_active_requests,
                  status.self_choked)
  /\ UNCHANGED <<activityVars, m_is_stopping, status, start, link, starts,
                 m_pieces, stored, networkVars>>

(* The channel was reset under the client: download_piece throws. *)
CallThrows(c) ==
  /\ await[c] = "cancelled"
  /\ await' = [await EXCEPT ![c] = "none"]
  /\ call' = [call EXCEPT ![c] = Idle]
  /\ UNCHANGED <<activityVars, m_is_stopping, status, m_send_queue, waiters,
                 hand, start, recv, send, link, starts, m_pieces,
                 m_pending_requests, m_active_requests, stored, networkVars>>

(* The SHA1 of the data is the piece's hash. *)
HashMatches(p) == \A b \in Blocks(p) : m_pieces[p].data[b] = "good"

(* is_done() polls a complete piece: retrieve_piece extracts it, and a     *)
(* Corrupt one is downloaded again at once.                                *)
PollPiece(c, p) ==
  /\ call[c] = Idle
  /\ p \in DOMAIN m_pieces
  /\ m_pieces[p].status = "Complete"
  /\ \/ /\ HashMatches(p)
        /\ stored' = stored \cup {p}
        /\ m_pieces' = [q \in DOMAIN m_pieces \ {p} |-> m_pieces[q]]
        /\ UNCHANGED <<m_pending_requests, m_active_requests, call,
                       channelVars, send, hand, recv>>
     \/ /\ ~HashMatches(p)
        /\ download_piece(c, p)
        /\ UNCHANGED stored
  /\ UNCHANGED <<activityVars, m_is_stopping, status, start, link, starts,
                 networkVars>>

-----------------------------------------------------------------------------
(* triggered_on_received_message, in the receive loop *)

NeverErased(m) == m_active_requests

(* handle_piece(m): a block of a piece that is not being downloaded is     *)
(* ignored, whatever request it answers.                                   *)
ActiveAfter(m) ==
  IF m.block.piece_index \in DOMAIN m_pieces
  THEN m_active_requests \ {m.block} ELSE m_active_requests

IsCompleteOffByOne(p, bytes) == bytes + 1 >= get_piece_size(p)

IsComplete(p, bytes) == bytes = get_piece_size(p)

PiecesAfter(m) ==
  LET p     == m.block.piece_index
      bytes == m_pieces[p].bytes_downloaded + m.block.length
  IN  IF p \notin DOMAIN m_pieces THEN m_pieces
      ELSE [m_pieces EXCEPT ![p] =
              [status |-> IF IsComplete(p, bytes) THEN "Complete" ELSE "Active",
               data |-> [m_pieces[p].data EXCEPT ![m.block] = m.content],
               bytes_downloaded |-> bytes,
               repeated |-> IF m_pieces[p].data[m.block] = "zero"
                            THEN m_pieces[p].repeated
                            ELSE m_pieces[p].repeated + m.block.length]]

(* Choke: for each active request, in the order of the set, emplace_front. *)
Before(a, b) ==
  \/ a.piece_index < b.piece_index
  \/ /\ a.piece_index = b.piece_index
     /\ a.offset_within_piece < b.offset_within_piece

ForgetActive(active) == {<<>>}

Requeued(active) ==
  {s \in [1..Cardinality(active) -> active] :
     /\ \A i, j \in DOMAIN s : i < j => Before(s[j], s[i])
     /\ \A r \in active : \E i \in DOMAIN s : s[i] = r}

(* read_message returned m: handle_message, then this callback. *)
ReceiveMessage ==
  /\ recv = "reading"
  /\ inbound # <<>>
  /\ inbound' = Tail(inbound)
  /\ LET m == Head(inbound) IN
     /\ status' = handle_message(m)
     /\ \/ /\ m.type = "Piece"
           /\ m_pieces' = PiecesAfter(m)
           /\ SendBuffered(ReceiveLoop, 0, m_pending_requests, ActiveAfter(m),
                           status.self_choked)
        \/ /\ m.type = "Choke"
           /\ \E front \in Requeued(m_active_requests) :
                SendBuffered(ReceiveLoop, 0, front \o m_pending_requests, {}, TRUE)
           /\ UNCHANGED m_pieces
        \/ /\ m.type = "Unchoke"
           /\ SendBuffered(ReceiveLoop, 0, m_pending_requests,
                           m_active_requests, FALSE)
           /\ UNCHANGED m_pieces
        \/ /\ m.type \in {"Have", "BitField"}
           /\ UNCHANGED <<m_pieces, m_pending_requests, m_active_requests,
                          call, channelVars, send, hand, recv>>
  /\ UNCHANGED <<activityVars, m_is_stopping, start, link, starts, stored,
                 outbound, remote, budget>>

CallbackNotAwaited ==
  /\ recv = "callback"
  /\ SendBuffered(ReceiveLoop, 0, m_pending_requests, m_active_requests,
                  status.self_choked)
  /\ UNCHANGED <<activityVars, m_is_stopping, status, start, link, starts,
                 m_pieces, stored, networkVars>>

(* The callback's send_async completed: the next turn of its loop. *)
CallbackResume ==
  /\ recv = "callback"
  /\ await[ReceiveLoop] = "posted"
  /\ SendBuffered(ReceiveLoop, 0, m_pending_requests, m_active_requests,
                  status.self_choked)
  /\ UNCHANGED <<activityVars, m_is_stopping, status, start, link, starts,
                 m_pieces, stored, networkVars>>

-----------------------------------------------------------------------------
(* The connection and the remote peer, which keeps to the protocol *)

(* The remote peer opens with its BitField. *)
Connect ==
  /\ ConnectOk
  /\ inbound' = <<[type |-> "BitField", pieces |-> remote.has]>>
  /\ UNCHANGED <<downloaderVars, outbound, remote, budget>>

Write ==
  /\ WriteOk
  /\ outbound' = IF link = "up" THEN Append(outbound, hand) ELSE outbound
  /\ UNCHANGED <<downloaderVars, inbound, remote, budget>>

(* It takes requests while it does not choke us, and drops them otherwise. *)
RemoteTakes ==
  /\ link = "up"
  /\ outbound # <<>>
  /\ outbound' = Tail(outbound)
  /\ remote' =
       IF Head(outbound) = Interested THEN [remote EXCEPT !.interested = TRUE]
       ELSE IF remote.choking THEN remote
       ELSE [remote EXCEPT !.requests = Append(@, Head(outbound))]
  /\ UNCHANGED <<peerVars, downloaderVars, inbound, budget>>

RemoteServes ==
  /\ link = "up"
  /\ remote.requests # <<>>
  /\ \E content \in {"good", "bad"} :
       /\ content = "bad" => budget.bad > 0
       /\ budget' = IF content = "bad" THEN [budget EXCEPT !.bad = @ - 1] ELSE budget
       /\ inbound' = Append(inbound, [type |-> "Piece",
                                      block |-> Head(remote.requests),
                                      content |-> content])
  /\ remote' = [remote EXCEPT !.requests = Tail(@)]
  /\ UNCHANGED <<peerVars, downloaderVars, outbound>>

RemoteChokes ==
  /\ link = "up"
  /\ ~remote.choking
  /\ budget.chokes > 0
  /\ budget' = [budget EXCEPT !.chokes = @ - 1]
  /\ remote' = [remote EXCEPT !.choking = TRUE, !.requests = <<>>]
  /\ inbound' = Append(inbound, [type |-> "Choke"])
  /\ UNCHANGED <<peerVars, downloaderVars, outbound>>

(* The copies of a request between us and the remote peer's answer. *)
InSequence(s, r) == Cardinality({i \in DOMAIN s : s[i] = r})

CopiesToRemote(r) ==
  InSequence(m_send_queue, r) + InSequence(outbound, r)
    + (IF hand = r THEN 1 ELSE 0)
    + Cardinality({i \in DOMAIN waiters : waiters[i].msg = r})

CopiesUnderway(r) ==
  CopiesToRemote(r) + InSequence(remote.requests, r)
    + Cardinality({i \in DOMAIN inbound :
                     inbound[i].type = "Piece" /\ inbound[i].block = r})

ChokeUnderway ==
  \E i \in DOMAIN inbound : inbound[i].type = "Choke"

(* It unchokes those that are interested.  If it does so while a request   *)
(* from before the Choke is still on its way, it will answer that one and  *)
(* the one we send anew: SecondCopies says whether it may.                 *)
RemoteUnchokes ==
  /\ link = "up"
  /\ remote.choking
  /\ remote.interested
  /\ SecondCopies \/ (~ChokeUnderway /\ \A r \in Requests : CopiesToRemote(r) = 0)
  /\ remote' = [remote EXCEPT !.choking = FALSE]
  /\ inbound' = Append(inbound, [type |-> "Unchoke"])
  /\ UNCHANGED <<peerVars, downloaderVars, outbound, budget>>

RemoteGets(p) ==
  /\ link = "up"
  /\ p \notin remote.has
  /\ remote' = [remote EXCEPT !.has = @ \cup {p}]
  /\ inbound' = Append(inbound, [type |-> "Have", piece_index |-> p])
  /\ UNCHANGED <<peerVars, downloaderVars, outbound, budget>>

-----------------------------------------------------------------------------
PeerStep ==
  /\ PeerInternal \/ CallbackThrows
  /\ UNCHANGED <<downloaderVars, networkVars>>

Call(c) ==
  \/ InterestedSent(c)
  \/ RequestSent(c)
  \/ CallThrows(c)

Remote ==
  \/ RemoteTakes
  \/ RemoteServes
  \/ RemoteChokes
  \/ RemoteUnchokes
  \/ \E p \in Pieces : RemoteGets(p)

Next ==
  \/ PeerStep
  \/ Connect
  \/ Write
  \/ ReceiveMessage
  \/ CallbackResume
  \/ \E c \in Clients : Call(c)
  \/ \E c \in Clients, p \in Pieces : AssignPiece(c, p) \/ PollPiece(c, p)
  \/ Remote

Spec == Init /\ [][Next]_vars

(***************************************************************************)
(* Coroutines whose operation completed are resumed; the strategy polls    *)
(* every 3 seconds; the connection carries what is written to it; and the  *)
(* remote peer, while the connection is up, takes and answers requests and *)
(* unchokes us.                                                            *)
(***************************************************************************)
Fairness ==
  /\ WF_vars(SenderResume /\ UNCHANGED <<downloaderVars, networkVars>>)
  /\ WF_vars(StartAsync /\ UNCHANGED <<downloaderVars, networkVars>>)
  /\ WF_vars(Write)
  /\ WF_vars(ReceiveMessage)
  /\ WF_vars(CallbackResume)
  /\ \A c \in Clients : WF_vars(Call(c))
  /\ \A p \in Pieces : WF_vars(\E c \in Clients : PollPiece(c, p))
  /\ WF_vars(RemoteTakes)
  /\ WF_vars(RemoteServes)
  /\ WF_vars(RemoteUnchokes)

FairSpec == Spec /\ Fairness

-----------------------------------------------------------------------------
(* Properties *)

Waiting(r) == \E i \in DOMAIN m_pending_requests : m_pending_requests[i] = r

(* While the sender runs, every block of a piece being downloaded has      *)
(* arrived, or is in one of the request containers, or is about to be put  *)
(* there by a download_piece that waits for its Interested to be queued;   *)
(* chokes, corrupt blocks and repeated downloads included                  *)
(* (downloader.cpp:40-62, 124-131, 145-149).                               *)
RequestedOrArrived(p, b) ==
  \/ m_pieces[p].data[b] # "zero"
  \/ b \in m_active_requests
  \/ Waiting(b)
  \/ \E c \in Clients : call[c] = [pc |-> "interested", piece |-> p]

NoBlockForgotten ==
  is_sender_active =>
    \A p \in DOMAIN m_pieces : \A b \in Blocks(p) : RequestedOrArrived(p, b)

(* A slot of m_active_requests is never lost: while the connection lasts,  *)
(* an active request is on its way to the remote peer, with it, or on its  *)
(* way back as a block, unless a Choke that will requeue it is coming      *)
(* (downloader.cpp:76-79, 124-131, 147).                                   *)
Connected == link = "up" /\ is_sender_active

ActiveIsUnderway ==
  Connected =>
    \A r \in m_active_requests : CopiesUnderway(r) > 0 \/ ChokeUnderway

(* bytes_downloaded is a count of bytes and says nothing about which bytes *)
(* came; still, where no request is answered twice, a piece is Complete    *)
(* only when every block of it arrived (downloader.cpp:87-93).             *)
CompleteIsWhole ==
  \A p \in DOMAIN m_pieces :
    m_pieces[p].status = "Complete" =>
      \A b \in Blocks(p) : m_pieces[p].data[b] # "zero"

(* A piece given to this downloader is in the end stored, unless the       *)
(* connection is lost: chokes, corrupt blocks and the limit on active      *)
(* requests only delay it.                                                 *)
PieceArrives ==
  \A p \in Pieces :
    p \in DOMAIN m_pieces ~> p \in stored \/ link = "down"

(* When the same request can be answered twice, three things can go wrong. *)
(* A block of a piece that was already handed out leaves its request       *)
(* active (downloader.cpp:71-73), for good unless the piece is asked for   *)
(* again; so the slots that leak are those of stored pieces.               *)
LeakOnlyForStoredPieces ==
  Connected =>
    \A r \in m_active_requests :
      \/ CopiesUnderway(r) > 0
      \/ ChokeUnderway
      \/ /\ r.piece_index \in stored
         /\ Waiting(r) \/ r.piece_index \notin DOMAIN m_pieces

(* A piece that will get no more blocks without being Complete has         *)
(* counted a block twice: its byte count passed the size it is compared    *)
(* with (downloader.cpp:89).                                               *)
StuckOnlyByOvershoot ==
  \A p \in DOMAIN m_pieces :
    \/ ~Connected
    \/ m_pieces[p].status = "Complete"
    \/ m_pieces[p].bytes_downloaded > get_piece_size(p)
    \/ ChokeUnderway
    \/ \E c \in Clients : call[c] = [pc |-> "interested", piece |-> p]
    \/ \E b \in Blocks(p) : Waiting(b) \/ CopiesUnderway(b) > 0

(* And a piece may be Complete with a block missing, of which only its     *)
(* hash tells: then as many bytes of other blocks were counted again, so   *)
(* that a repeated block stands in for one of its size, and nothing else   *)
(* does, neither chokes nor what an earlier download of the piece counted  *)
(* (downloader.cpp:34-45, 87-93).                                          *)
OnlyRepeatsFillGaps ==
  \A p \in DOMAIN m_pieces : \A b \in Blocks(p) :
    m_pieces[p].status = "Complete" /\ m_pieces[p].data[b] = "zero" =>
      m_pieces[p].repeated >= b.length

(* What the strategy takes a Downloader for: blocks, chokes, requests sent *)
(* again and the limit on them never show, and a Complete piece stays as   *)
(* it is until it is taken (downloader.cpp:34-64, 69-95, 154-183).         *)
Work == INSTANCE PieceWork WITH
  Items <- Pieces, Again <- SecondCopies,
  got <- [p \in Pieces |->
            IF p \notin DOMAIN m_pieces THEN "none"
            ELSE IF m_pieces[p].status # "Complete" THEN "working"
            ELSE IF HashMatches(p) THEN "Complete" ELSE "Corrupt"]

ImplementsPieceWork == Work!Spec

=============================================================================
