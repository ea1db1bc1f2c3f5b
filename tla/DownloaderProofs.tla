-------------------------- MODULE DownloaderProofs --------------------------
(***************************************************************************)
(* Proofs about Downloader, for every geometry of the file and every       *)
(* policy: it uses its Peer only in the ways the specification of Peer     *)
(* allows, so that what is proved of Peer holds under it, and the limit on *)
(* outgoing requests is kept.  From there on the module states what every  *)
(* step does to a request, wherever it is, to the pieces and to the remote *)
(* peer (BlockStep): the proofs of BlockProofs rest on these effects alone. *)
(***************************************************************************)
EXTENDS Downloader, PeerProofs, FiniteSetTheorems, SequenceTheorems

(* max_concurrent_outgoing_requests holds although several coroutines run  *)
(* send_buffered_messages at once (downloader.cpp:141-152).                *)
ActiveBound == Cardinality(m_active_requests) <= MaxConcurrent

(***************************************************************************)
(* The inductive invariant, on top of those of Peer.  A client that is     *)
(* idle awaits nothing, and there are calls, and known pieces, only after  *)
(* the receive loop has run: without these a step of download_piece might  *)
(* not be one that Peer allows its clients.                                *)
(***************************************************************************)
Containers ==
  /\ m_pending_requests \in Seq(Requests)
  /\ m_active_requests \in SUBSET Requests
  /\ IsFiniteSet(m_active_requests)
  /\ ActiveBound

NetworkTyped ==
  /\ outbound \in Seq(Outgoing)
  /\ inbound \in Seq(Incoming)
  /\ remote \in [choking : BOOLEAN, interested : BOOLEAN,
                 requests : Seq(Requests), has : SUBSET Pieces]

CallsFollow ==
  /\ call \in [Clients -> CallStates]
  /\ \A c \in Clients : call[c] = Idle => await[c] = "none"
  /\ \A c \in Clients : call[c] # Idle => recv # "off"

PiecesKnown == recv = "off" => status.remote_bitfield = {}

OwnInv == Containers /\ NetworkTyped /\ CallsFollow /\ PiecesKnown

DownloaderInv == PeerInv /\ LineInv /\ OwnInv

-----------------------------------------------------------------------------
(* Facts about the operators *)

(* The requests download_piece appends are requests. *)
LEMMA BlockRequestsType ==
  ASSUME NEW p \in Pieces
  PROVE  BlockRequests(p) \in Seq(Requests)
<1>1. get_piece_size(p) \in Int
  <2>1. FileSize \div PieceSize \in Int
    BY GeometryAssumption
  <2> QED BY <2>1, GeometryAssumption DEF get_piece_size
<1>2. BlockCount(p) \in Int
  BY <1>1, GeometryAssumption DEF BlockCount
<1>3. \A k \in 1..BlockCount(p) : Block(p, k) \in Requests
  BY DEF Blocks, Requests
<1>4. PICK n \in Nat : 1..BlockCount(p) = 1..n
  <2>1. CASE BlockCount(p) >= 0
    BY <1>2, <2>1
  <2>2. CASE BlockCount(p) < 0
    <3>1. 1..BlockCount(p) = 1..0
      BY <1>2, <2>2
    <3> QED BY <3>1
  <2> QED BY <1>2, <2>1, <2>2
<1>5. BlockRequests(p) \in [1..n -> Requests]
  BY <1>3, <1>4 DEF BlockRequests
<1> QED BY <1>5

(* One more element. *)
LEMMA AddOne ==
  ASSUME NEW S, NEW x, IsFiniteSet(S)
  PROVE  /\ IsFiniteSet(S \cup {x})
         /\ Cardinality(S \cup {x}) <= Cardinality(S) + 1
<1> DEFINE T == S \cup {x}
<1>1. /\ IsFiniteSet(T)
      /\ Cardinality(T) = IF x \in S THEN Cardinality(S) ELSE Cardinality(S) + 1
  BY FS_AddElement, Zenon
<1>2. Cardinality(S) \in Nat
  BY FS_CardinalityType
<1> HIDE DEF T
<1>3. IsFiniteSet(T) /\ Cardinality(T) <= Cardinality(S) + 1
  BY <1>1, <1>2
<1> QED BY <1>3 DEF T

(* What a Choke puts back is a sequence of requests. *)
LEMMA RequeuedType ==
  ASSUME NEW active \in SUBSET Requests, IsFiniteSet(active),
         NEW front \in Requeued(active)
  PROVE  front \in Seq(Requests)
<1>1. Cardinality(active) \in Nat
  BY FS_CardinalityType
<1>2. front \in [1..Cardinality(active) -> active]
  BY DEF Requeued
<1> QED BY <1>1, <1>2

(* A block that arrives takes at most one request out of the active ones. *)
LEMMA ActiveAfterType ==
  ASSUME Containers, NEW m
  PROVE  /\ ActiveAfter(m) \in SUBSET Requests
         /\ IsFiniteSet(ActiveAfter(m))
         /\ Cardinality(ActiveAfter(m)) <= MaxConcurrent
<1>1. ActiveAfter(m) \in SUBSET m_active_requests
  BY DEF ActiveAfter
<1>2. /\ IsFiniteSet(ActiveAfter(m))
      /\ Cardinality(ActiveAfter(m)) <= Cardinality(m_active_requests)
  BY <1>1, FS_Subset DEF Containers
<1>3. Cardinality(ActiveAfter(m)) \in Nat /\ Cardinality(m_active_requests) \in Nat
  BY <1>2, FS_CardinalityType DEF Containers
<1> QED
  BY <1>1, <1>2, <1>3, GeometryAssumption DEF Containers, ActiveBound

(* One turn of send_buffered_messages, from containers within the limit:   *)
(* they stay within it, and the task sends a message or leaves.            *)
Sends(t, p) == \E m \in Outgoing : AsyncSend(t, m) /\ Continue(t, p)

Leaves(t) ==
  /\ await' = [await EXCEPT ![t] = "none"]
  /\ Leave(t)
  /\ UNCHANGED <<m_send_queue, waiters, send, hand>>

LEMMA SendBufferedLemma ==
  ASSUME NEW t, NEW p, NEW choked,
         NEW pending \in Seq(Requests),
         NEW active \in SUBSET Requests, IsFiniteSet(active),
         Cardinality(active) <= MaxConcurrent,
         SendBuffered(t, p, pending, active, choked)
  PROVE  Containers' /\ (Sends(t, p) \/ Leaves(t))
<1>1. CASE /\ MaySend(pending, active, choked)
           /\ m_active_requests' = active \cup {Head(pending)}
           /\ m_pending_requests' = Tail(pending)
           /\ AsyncSend(t, Head(pending))
           /\ Continue(t, p)
  <2>0. pending # <<>>
    BY <1>1 DEF MaySend
  <2>1. Head(pending) \in Requests /\ Tail(pending) \in Seq(Requests)
    BY <2>0
  <2>2. /\ IsFiniteSet(active \cup {Head(pending)})
        /\ Cardinality(active \cup {Head(pending)}) <= Cardinality(active) + 1
    BY AddOne
  <2>3. /\ Cardinality(active) \in Nat
        /\ Cardinality(active \cup {Head(pending)}) \in Nat
        /\ Cardinality(active) < MaxConcurrent
    BY <1>1, <2>2, FS_CardinalityType DEF MaySend
  <2>4. Cardinality(active \cup {Head(pending)}) <= MaxConcurrent
    BY <2>2, <2>3, GeometryAssumption
  <2>5. Containers'
    BY <1>1, <2>1, <2>2, <2>4 DEF Containers, ActiveBound
  <2>6. Sends(t, p)
    BY <1>1, <2>1, DownloaderAssumption DEF Sends
  <2> QED BY <2>5, <2>6
<1>2. CASE /\ m_active_requests' = active
           /\ m_pending_requests' = pending
           /\ await' = [await EXCEPT ![t] = "none"]
           /\ Leave(t)
           /\ UNCHANGED <<m_send_queue, waiters, send, hand>>
  BY <1>2 DEF Containers, ActiveBound, Leaves
<1> QED BY <1>1, <1>2 DEF SendBuffered

-----------------------------------------------------------------------------
(* The Peer's own steps leave a client that awaits nothing alone, and      *)
(* never unmake the receive loop.                                          *)
LEMMA PeerKeeps ==
  ASSUME PeerInv, LineInv, PeerInternal \/ ConnectOk \/ WriteOk \/ CallbackThrows
  PROVE  /\ \A c \in Clients : await[c] = "none" => await'[c] = "none"
         /\ recv' = "off" => recv = "off"
         /\ status' = status
<1> USE DEF LineInv, LoopAwaitsNothing
<1>1. /\ ReceiveLoop \in Tasks
      /\ \A c \in Clients : c \in Tasks \ {ReceiveLoop}
      /\ await \in [Tasks -> {"none", "posted", "blocked", "cancelled"}]
  BY PeerAssumption DEF Tasks, PeerInv, PeerTypeOK
<1>2. CASE /\ SenderExit \/ AsyncReceive \/ UNCHANGED channelVars
           /\ recv' \in {recv, "reading"}
           /\ status' = status
  BY <1>1, <1>2, LineReset, LineReceive DEF channelVars
<1>3. ASSUME await[ReceiveLoop] # "blocked", ReceiverExit, status' = status
      PROVE  /\ \A c \in Clients : await[c] = "none" => await'[c] = "none"
             /\ recv' # "off"
  <2>1. CASE internal_stop_sender /\ recv' = "stopping"
    BY <1>1, <1>3, <2>1, LineSend DEF internal_stop_sender, Messages
  <2>2. CASE /\ recv' = "done"
             /\ await' = [await EXCEPT ![ReceiveLoop] = "none"]
    BY <1>1, <2>2
  <2> QED BY <1>3, <2>1, <2>2 DEF ReceiverExit
<1>4. CASE SenderResume \/ WriteOk \/ WriteFails \/ ConnectOk
  BY <1>2, <1>4 DEF SenderResume, WriteOk, WriteFails, ConnectOk, SendLoopHead
<1>5. CASE ReadFails \/ CallbackThrows
  BY <1>3, <1>5 DEF ReadFails, CallbackThrows
<1>6. CASE StopDelivered \/ StopThrows
  BY <1>1, <1>6 DEF StopDelivered, StopThrows
<1>7. CASE StartAsync \/ ConnectFails \/ JoinLoops \/ JoinThrows \/ Drop
  BY <1>2, <1>7 DEF StartAsync, ConnectFails, JoinLoops, JoinThrows, Drop
<1> QED BY <1>4, <1>5, <1>6, <1>7 DEF PeerInternal

(* What a client's turn of send_buffered_messages is to the Peer: an       *)
(* async_send or the end of one, or nothing at all.                        *)
LEMMA ClientStep ==
  ASSUME PeerInv, LineInv, CallsFollow, recv # "off",
         NEW c \in Clients, NEW p \in Pieces, await[c] \in {"none", "posted"},
         Sends(c, p) \/ Leaves(c),
         UNCHANGED <<activityVars, m_is_stopping, status, start, link, starts>>
  PROVE  [PeerNext]_peerVars /\ CallsFollow' /\ recv' # "off"
<1>1. /\ c \in Tasks /\ c # ReceiveLoop
      /\ Clients \subseteq Tasks
      /\ await \in [Tasks -> {"none", "posted", "blocked", "cancelled"}]
      /\ call \in [Clients -> CallStates]
  BY PeerAssumption DEF Tasks, PeerInv, PeerTypeOK, CallsFollow
<1>2. [pc |-> "sending", piece |-> p] \in CallStates /\ Idle \in CallStates
      /\ [pc |-> "sending", piece |-> p] # Idle
  <2>1. [pc |-> "sending", piece |-> p].pc # Idle.pc
    BY DEF Idle
  <2> QED BY <2>1 DEF CallStates, Idle
<1>3. CASE Sends(c, p)
  <2>1. PICK m \in Outgoing : AsyncSend(c, m) /\ Continue(c, p)
    BY <1>3 DEF Sends
  <2>2. /\ call' = [call EXCEPT ![c] = [pc |-> "sending", piece |-> p]]
        /\ UNCHANGED recv
    BY <1>1, <2>1 DEF Continue
  <2>3. ClientSend(c, m)
    BY <2>1, <2>2 DEF ClientSend
  <2>4. \A r \in Tasks \ {c} : await'[r] = await[r]
    BY <1>1, <2>1, LineSend DEF LineInv, Messages
  <2>5. CallsFollow'
    BY <1>1, <1>2, <2>2, <2>4 DEF CallsFollow
  <2> QED BY <2>2, <2>3, <2>5 DEF PeerNext
<1>4. CASE Leaves(c)
  <2>1. /\ await' = [await EXCEPT ![c] = "none"]
        /\ call' = [call EXCEPT ![c] = Idle]
        /\ UNCHANGED recv
        /\ UNCHANGED <<m_send_queue, waiters, send, hand>>
    BY <1>1, <1>4 DEF Leaves, Leave
  <2>2. CallsFollow'
    BY <1>1, <1>2, <2>1 DEF CallsFollow
  <2>3. CASE await[c] = "posted"
    <3>1. ClientResume(c)
      BY <2>1, <2>3 DEF ClientResume
    <3> QED BY <2>1, <2>2, <3>1 DEF PeerNext
  <2>4. CASE await[c] = "none"
    <3>1. await' = await
      BY <1>1, <2>1, <2>4
    <3>2. UNCHANGED peerVars
      BY <2>1, <3>1 DEF peerVars, activityVars
    <3> QED BY <2>1, <2>2, <3>2
  <2> QED BY <2>3, <2>4
<1> QED BY <1>3, <1>4

(* download_piece by an idle client. *)
LEMMA DownloadPieceStep ==
  ASSUME PeerInv, LineInv, OwnInv, NEW c \in Clients, NEW p \in Pieces,
         call[c] = Idle, download_piece(c, p),
         UNCHANGED <<activityVars, m_is_stopping, status, start, link, starts>>
  PROVE  [PeerNext]_peerVars /\ Containers' /\ CallsFollow' /\ recv' # "off"
<1>1. recv # "off" /\ await[c] = "none"
  BY DEF OwnInv, PiecesKnown, CallsFollow, download_piece
<1>2. CASE /\ AsyncSend(c, Interested)
           /\ call' = [call EXCEPT ![c] = [pc |-> "interested", piece |-> p]]
           /\ UNCHANGED <<m_pending_requests, m_active_requests, recv>>
  <2>1. Interested \in Outgoing
    BY DownloaderAssumption
  <2>2. /\ c \in Tasks
        /\ Clients \subseteq Tasks
        /\ call \in [Clients -> CallStates]
    BY DEF Tasks, OwnInv, CallsFollow
  <2>3. [pc |-> "interested", piece |-> p] \in CallStates
        /\ [pc |-> "interested", piece |-> p] # Idle
    <3>1. [pc |-> "interested", piece |-> p].pc # Idle.pc
      BY DEF Idle
    <3> QED BY <3>1 DEF CallStates
  <2>4. ClientSend(c, Interested)
    BY <1>1, <1>2 DEF ClientSend
  <2>5. \A r \in Tasks \ {c} : await'[r] = await[r]
    BY <1>1, <1>2, <2>1, <2>2, LineSend DEF LineInv, Messages
  <2>6. CallsFollow'
    BY <1>1, <1>2, <2>2, <2>3, <2>5 DEF CallsFollow, OwnInv
  <2>7. Containers'
    BY <1>2 DEF Containers, ActiveBound, OwnInv
  <2> QED BY <1>1, <1>2, <2>1, <2>4, <2>6, <2>7 DEF PeerNext
<1>3. CASE SendBuffered(c, p, m_pending_requests \o BlockRequests(p),
                        m_active_requests, status.self_choked)
  <2>1. m_pending_requests \o BlockRequests(p) \in Seq(Requests)
    BY BlockRequestsType DEF OwnInv, Containers
  <2>2. Containers' /\ (Sends(c, p) \/ Leaves(c))
    BY <1>3, <2>1, SendBufferedLemma DEF OwnInv, Containers, ActiveBound
  <2> QED BY <1>1, <2>2, ClientStep DEF OwnInv
<1> QED BY <1>2, <1>3 DEF download_piece

(* A client that resumes in download_piece. *)
LEMMA CallStep ==
  ASSUME DownloaderInv, NEW c \in Clients, Call(c)
  PROVE  [PeerNext]_peerVars /\ OwnInv'
<1>1. /\ call[c] \in CallStates
      /\ c \in Tasks /\ Clients \subseteq Tasks
      /\ call \in [Clients -> CallStates]
      /\ await \in [Tasks -> {"none", "posted", "blocked", "cancelled"}]
  BY DEF DownloaderInv, OwnInv, CallsFollow, Tasks, PeerInv, PeerTypeOK
<1>2. CASE CallThrows(c)
  <2>1. ClientResume(c)
    BY <1>2 DEF CallThrows, ClientResume
  <2>2. CallsFollow'
    <3>1. Idle \in CallStates
      BY DEF CallStates, Idle
    <3> QED BY <1>1, <1>2, <3>1 DEF CallThrows, CallsFollow, DownloaderInv, OwnInv
  <2>3. Containers' /\ NetworkTyped' /\ PiecesKnown'
    BY <1>2
       DEF CallThrows, networkVars, DownloaderInv, OwnInv, Containers,
           ActiveBound, NetworkTyped, PiecesKnown
  <2> QED BY <2>1, <2>2, <2>3 DEF PeerNext, OwnInv
<1>3. ASSUME NEW pending \in Seq(Requests), await[c] = "posted",
             call[c].pc \in {"interested", "sending"},
             SendBuffered(c, call[c].piece, pending, m_active_requests,
                          status.self_choked),
             UNCHANGED <<activityVars, m_is_stopping, status, start, link,
                         starts, m_pieces, stored, networkVars>>
      PROVE  [PeerNext]_peerVars /\ OwnInv'
  <2>1. call[c].piece \in Pieces /\ call[c] # Idle
    BY <1>1, <1>3 DEF CallStates, Idle
  <2>2. recv # "off"
    BY <2>1 DEF DownloaderInv, OwnInv, CallsFollow
  <2>3. Containers' /\ (Sends(c, call[c].piece) \/ Leaves(c))
    BY <1>3, SendBufferedLemma DEF DownloaderInv, OwnInv, Containers, ActiveBound
  <2>4. [PeerNext]_peerVars /\ CallsFollow' /\ recv' # "off"
    BY <1>3, <2>1, <2>2, <2>3, ClientStep DEF DownloaderInv, OwnInv
  <2>5. NetworkTyped' /\ PiecesKnown'
    BY <1>3, <2>4 DEF networkVars, DownloaderInv, OwnInv, NetworkTyped, PiecesKnown
  <2> QED BY <2>3, <2>4, <2>5 DEF OwnInv
<1>4. CASE InterestedSent(c)
  <2>1. call[c].piece \in Pieces
    BY <1>1, <1>4 DEF InterestedSent, CallStates
  <2>2. m_pending_requests \o BlockRequests(call[c].piece) \in Seq(Requests)
    BY <2>1, BlockRequestsType DEF DownloaderInv, OwnInv, Containers
  <2> QED BY <1>3, <1>4, <2>2 DEF InterestedSent
<1>5. CASE RequestSent(c)
  <2>1. m_pending_requests \in Seq(Requests)
    BY DEF DownloaderInv, OwnInv, Containers
  <2> QED BY <1>3, <1>5, <2>1 DEF RequestSent
<1> QED BY <1>2, <1>4, <1>5 DEF Call

(* The strategy's calls. *)
LEMMA StrategyStep ==
  ASSUME DownloaderInv, NEW c \in Clients, NEW p \in Pieces,
         AssignPiece(c, p) \/ PollPiece(c, p)
  PROVE  [PeerNext]_peerVars /\ OwnInv'
<1>1. UNCHANGED <<outbound, inbound, remote, status>>
  BY DEF AssignPiece, PollPiece, networkVars
<1>2. NetworkTyped'
  BY <1>1 DEF NetworkTyped, DownloaderInv, OwnInv
<1>3. CASE /\ call[c] = Idle
           /\ download_piece(c, p)
           /\ UNCHANGED <<activityVars, m_is_stopping, status, start, link, starts>>
  <2>1. [PeerNext]_peerVars /\ Containers' /\ CallsFollow' /\ recv' # "off"
    BY <1>3, DownloadPieceStep DEF DownloaderInv
  <2> QED BY <1>2, <2>1 DEF OwnInv, PiecesKnown
<1>4. CASE UNCHANGED <<peerVars, m_pending_requests, m_active_requests, call>>
  BY <1>2, <1>4
     DEF OwnInv, DownloaderInv, Containers, ActiveBound, CallsFollow,
         PiecesKnown, peerVars
<1> QED
  BY <1>3, <1>4 DEF AssignPiece, PollPiece, peerVars, channelVars, activityVars

(* A turn of send_buffered_messages in the receive loop. *)
LEMMA LoopStep ==
  ASSUME DownloaderInv, recv \in {"reading", "callback"},
         await[ReceiveLoop] # "blocked",
         NEW pending \in Seq(Requests), NEW choked,
         NEW active \in SUBSET Requests, IsFiniteSet(active),
         Cardinality(active) <= MaxConcurrent,
         SendBuffered(ReceiveLoop, 0, pending, active, choked)
  PROVE  Callbacks /\ Containers' /\ CallsFollow' /\ recv' # "off"
<1>1. /\ ReceiveLoop \in Tasks /\ ReceiveLoop \notin Clients
      /\ \A c \in Clients : c \in Tasks \ {ReceiveLoop}
      /\ await \in [Tasks -> {"none", "posted", "blocked", "cancelled"}]
  BY PeerAssumption DEF Tasks, DownloaderInv, PeerInv, PeerTypeOK
<1>2. Containers' /\ (Sends(ReceiveLoop, 0) \/ Leaves(ReceiveLoop))
  BY SendBufferedLemma
<1>3. CASE Sends(ReceiveLoop, 0)
  <2>1. PICK m \in Outgoing : AsyncSend(ReceiveLoop, m) /\ Continue(ReceiveLoop, 0)
    BY <1>3 DEF Sends
  <2>2. recv' = "callback" /\ call' = call
    BY <1>1, <2>1 DEF Continue
  <2>3. \A c \in Clients : await'[c] = await[c]
    BY <1>1, <2>1, LineSend DEF DownloaderInv, LineInv, Messages
  <2>4. CallsFollow'
    BY <2>2, <2>3 DEF CallsFollow, DownloaderInv, OwnInv
  <2> QED BY <1>2, <2>1, <2>2, <2>4 DEF Callbacks
<1>4. CASE Leaves(ReceiveLoop)
  <2>1. /\ await' = [await EXCEPT ![ReceiveLoop] = "none"]
        /\ recv' = "reading" /\ call' = call
        /\ UNCHANGED <<m_send_queue, waiters, send, hand>>
    BY <1>1, <1>4 DEF Leaves, Leave
  <2>2. CallsFollow'
    BY <1>1, <2>1 DEF CallsFollow, DownloaderInv, OwnInv
  <2> QED BY <1>2, <2>1, <2>2 DEF Callbacks
<1> QED BY <1>2, <1>3, <1>4

(* A message from the remote peer. *)
LEMMA ReceiveStep ==
  ASSUME DownloaderInv, ReceiveMessage
  PROVE  [PeerNext]_peerVars /\ OwnInv'
<1> DEFINE m == Head(inbound)
<1>1. /\ m \in Incoming
      /\ inbound' \in Seq(Incoming)
  BY DEF ReceiveMessage, DownloaderInv, OwnInv, NetworkTyped
<1>2. /\ recv = "reading" /\ await[ReceiveLoop] = "none"
      /\ await \in [Tasks -> {"none", "posted", "blocked", "cancelled"}]
  BY DEF ReceiveMessage, DownloaderInv, LineInv, LoopAwaitsNothing, PeerInv, PeerTypeOK
<1>3. /\ m_pending_requests \in Seq(Requests)
      /\ m_active_requests \in SUBSET Requests
      /\ IsFiniteSet(m_active_requests)
      /\ Cardinality(m_active_requests) <= MaxConcurrent
  BY DEF DownloaderInv, OwnInv, Containers, ActiveBound
<1>4. Callbacks /\ Containers' /\ CallsFollow' /\ recv' # "off"
  <2>1. CASE SendBuffered(ReceiveLoop, 0, m_pending_requests, ActiveAfter(m),
                          status.self_choked)
    <3>1. /\ ActiveAfter(m) \in SUBSET Requests
          /\ IsFiniteSet(ActiveAfter(m))
          /\ Cardinality(ActiveAfter(m)) <= MaxConcurrent
      BY ActiveAfterType DEF DownloaderInv, OwnInv
    <3> QED BY <1>2, <1>3, <2>1, <3>1, LoopStep
  <2>2. ASSUME NEW front \in Requeued(m_active_requests),
               SendBuffered(ReceiveLoop, 0, front \o m_pending_requests, {}, TRUE)
        PROVE  Callbacks /\ Containers' /\ CallsFollow' /\ recv' # "off"
    <3>1. front \o m_pending_requests \in Seq(Requests)
      BY <1>3, <2>2, RequeuedType
    <3>2. IsFiniteSet({}) /\ Cardinality({}) <= MaxConcurrent
      BY FS_EmptySet, GeometryAssumption
    <3> QED BY <1>2, <2>2, <3>1, <3>2, LoopStep
  <2>3. CASE SendBuffered(ReceiveLoop, 0, m_pending_requests, m_active_requests, FALSE)
    BY <1>2, <1>3, <2>3, LoopStep
  <2>4. CASE UNCHANGED <<m_pieces, m_pending_requests, m_active_requests,
                         call, channelVars, send, hand, recv>>
    <3>1. await' = [await EXCEPT ![ReceiveLoop] = "none"]
      BY <1>2, <2>4 DEF channelVars
    <3>2. Callbacks
      BY <1>2, <2>4, <3>1 DEF Callbacks, channelVars
    <3> QED
      BY <1>2, <2>4, <3>2
         DEF channelVars, DownloaderInv, OwnInv, Containers, ActiveBound, CallsFollow
  <2> QED BY <2>1, <2>2, <2>3, <2>4 DEF ReceiveMessage
<1>5. ReadMessage(m)
  BY <1>4 DEF ReceiveMessage, ReadMessage
<1>6. NetworkTyped'
  BY <1>1 DEF ReceiveMessage, NetworkTyped, DownloaderInv, OwnInv
<1> QED BY <1>1, <1>4, <1>5, <1>6 DEF PeerNext, OwnInv, PiecesKnown

(* The callback's next turn. *)
LEMMA CallbackStep ==
  ASSUME DownloaderInv, CallbackResume
  PROVE  [PeerNext]_peerVars /\ OwnInv'
<1>1. Callbacks /\ Containers' /\ CallsFollow' /\ recv' # "off"
  BY LoopStep DEF CallbackResume, DownloaderInv, OwnInv, Containers, ActiveBound
<1>2. CallbackGoesOn
  BY <1>1 DEF CallbackResume, CallbackGoesOn
<1>3. NetworkTyped'
  BY DEF CallbackResume, networkVars, NetworkTyped, DownloaderInv, OwnInv
<1> QED BY <1>1, <1>2, <1>3 DEF PeerNext, OwnInv, PiecesKnown

(* The Peer's own steps, and those it takes together with the connection. *)
LEMMA PeerStepStep ==
  ASSUME DownloaderInv, PeerStep \/ Connect \/ Write
  PROVE  [PeerNext]_peerVars /\ OwnInv'
<1>1. PeerInternal \/ ConnectOk \/ WriteOk \/ CallbackThrows
  BY DEF PeerStep, Connect, Write
<1>2. /\ \A c \in Clients : await[c] = "none" => await'[c] = "none"
      /\ recv' = "off" => recv = "off"
      /\ status' = status
  BY <1>1, PeerKeeps DEF DownloaderInv
<1>3. UNCHANGED <<m_pending_requests, m_active_requests, call, remote>>
  BY DEF PeerStep, Connect, Write, downloaderVars, networkVars
<1>4. Containers' /\ CallsFollow' /\ PiecesKnown'
  BY <1>2, <1>3
     DEF DownloaderInv, OwnInv, Containers, ActiveBound, CallsFollow, PiecesKnown
<1>5. inbound' \in Seq(Incoming)
  <2>1. CASE UNCHANGED inbound
    BY <2>1 DEF DownloaderInv, OwnInv, NetworkTyped
  <2>2. CASE Connect
    <3>1. remote.has \in SUBSET Pieces
      BY DEF DownloaderInv, OwnInv, NetworkTyped
    <3>2. [type |-> "BitField", pieces |-> remote.has] \in Incoming
      BY <3>1, DownloaderAssumption DEF Signals
    <3> QED BY <2>2, <3>2 DEF Connect
  <2> QED BY <2>1, <2>2 DEF PeerStep, Write, networkVars
<1>6. outbound' \in Seq(Outgoing)
  <2>1. outbound \in Seq(Outgoing)
    BY DEF DownloaderInv, OwnInv, NetworkTyped
  <2>2. CASE Write
    <3>1. hand \in Outgoing
      BY <2>2
         DEF Write, WriteOk, DownloaderInv, LineInv, HandIsFull, Messages,
             PeerInv, KeepaliveIsSentinel
    <3> QED BY <2>1, <2>2, <3>1 DEF Write
  <2> QED BY <2>1, <2>2 DEF PeerStep, Connect, networkVars
<1>7. NetworkTyped'
  BY <1>3, <1>5, <1>6 DEF NetworkTyped, DownloaderInv, OwnInv
<1> QED BY <1>1, <1>4, <1>7 DEF PeerNext, OwnInv

(* The remote peer's steps. *)
LEMMA RemoteStep ==
  ASSUME DownloaderInv, Remote
  PROVE  UNCHANGED peerVars /\ OwnInv'
<1>1. UNCHANGED <<peerVars, downloaderVars>>
  BY DEF Remote, RemoteTakes, RemoteServes, RemoteChokes, RemoteUnchokes, RemoteGets
<1>2. Containers' /\ CallsFollow' /\ PiecesKnown'
  BY <1>1
     DEF DownloaderInv, OwnInv, Containers, ActiveBound, CallsFollow,
         PiecesKnown, peerVars, downloaderVars
<1>3. /\ outbound \in Seq(Outgoing)
      /\ inbound \in Seq(Incoming)
      /\ remote \in [choking : BOOLEAN, interested : BOOLEAN,
                     requests : Seq(Requests), has : SUBSET Pieces]
  BY DEF DownloaderInv, OwnInv, NetworkTyped
<1>4. CASE RemoteTakes
  <2>1. /\ Head(outbound) \in Requests \cup {Interested}
        /\ Tail(outbound) \in Seq(Outgoing)
    BY <1>3, <1>4, DownloaderAssumption DEF RemoteTakes
  <2>2. Head(outbound) # Interested =>
          Append(remote.requests, Head(outbound)) \in Seq(Requests)
    BY <1>3, <2>1
  <2> QED BY <1>2, <1>3, <1>4, <2>1, <2>2 DEF RemoteTakes, OwnInv, NetworkTyped
<1>5. CASE RemoteServes
  <2>1. /\ Head(remote.requests) \in Requests
        /\ Tail(remote.requests) \in Seq(Requests)
    BY <1>3, <1>5 DEF RemoteServes
  <2>2. \A content \in {"good", "bad"} :
          [type |-> "Piece", block |-> Head(remote.requests),
           content |-> content] \in Incoming
    BY <2>1, DownloaderAssumption DEF Answers
  <2>3. inbound' \in Seq(Incoming)
    BY <1>3, <1>5, <2>2 DEF RemoteServes
  <2> QED BY <1>2, <1>3, <1>5, <2>1, <2>3 DEF RemoteServes, OwnInv, NetworkTyped
<1>6. CASE RemoteChokes \/ RemoteUnchokes
  <2>1. [type |-> "Choke"] \in Incoming /\ [type |-> "Unchoke"] \in Incoming
    BY DownloaderAssumption DEF Signals
  <2>2. inbound' \in Seq(Incoming)
    <3>1. PICK m \in Incoming : inbound' = Append(inbound, m)
      BY <1>6, <2>1, Zenon DEF RemoteChokes, RemoteUnchokes
    <3> QED BY <1>3, <3>1
  <2>3. <<>> \in Seq(Requests)
    OBVIOUS
  <2>4. CASE RemoteChokes
    BY <1>2, <1>3, <2>2, <2>3, <2>4 DEF RemoteChokes, OwnInv, NetworkTyped
  <2>5. CASE RemoteUnchokes
    BY <1>2, <1>3, <2>2, <2>5 DEF RemoteUnchokes, OwnInv, NetworkTyped
  <2> QED BY <1>6, <2>4, <2>5
<1>7. ASSUME NEW p \in Pieces, RemoteGets(p)
      PROVE  OwnInv'
  <2>1. [type |-> "Have", piece_index |-> p] \in Incoming
    BY DownloaderAssumption DEF Signals
  <2>2. inbound' \in Seq(Incoming)
    BY <1>3, <1>7, <2>1 DEF RemoteGets
  <2> QED BY <1>2, <1>3, <1>7, <2>2 DEF RemoteGets, OwnInv, NetworkTyped
<1> QED BY <1>1, <1>4, <1>5, <1>6, <1>7 DEF Remote

-----------------------------------------------------------------------------
(* Every step is one the Peer allows, and keeps the invariant. *)
LEMMA DownloaderStep ==
  ASSUME DownloaderInv, [Next]_vars
  PROVE  [PeerNext]_peerVars /\ DownloaderInv'
<1>1. CASE UNCHANGED vars
  BY <1>1
     DEF vars, downloaderVars, networkVars, peerVars, DownloaderInv, PeerInv,
         PeerTypeOK, CoroutinesAgree, FlagsFollow, StoppingIsOrderly,
         KeepaliveIsSentinel, ToldToStop, LineInv, LineOrdered,
         LoopAwaitsNothing, HandIsFull, OwnInv, Containers, ActiveBound,
         NetworkTyped, CallsFollow, PiecesKnown
<1>2. CASE Next
  <2>1. [PeerNext]_peerVars /\ OwnInv'
    <3>1. CASE PeerStep \/ Connect \/ Write
      BY <3>1, PeerStepStep
    <3>2. CASE ReceiveMessage
      BY <3>2, ReceiveStep
    <3>3. CASE CallbackResume
      BY <3>3, CallbackStep
    <3>4. CASE \E c \in Clients : Call(c)
      BY <3>4, CallStep
    <3>5. CASE \E c \in Clients, p \in Pieces : AssignPiece(c, p) \/ PollPiece(c, p)
      BY <3>5, StrategyStep
    <3>6. CASE Remote
      BY <3>6, RemoteStep
    <3> QED BY <1>2, <3>1, <3>2, <3>3, <3>4, <3>5, <3>6 DEF Next
  <2>2. PeerInv' /\ LineInv'
    BY <2>1, PeerInvStep, LineInvStep DEF DownloaderInv
  <2> QED BY <2>1, <2>2 DEF DownloaderInv
<1> QED BY <1>1, <1>2

(* The invariant holds at first. *)
LEMMA DownloaderInit ==
  ASSUME Init
  PROVE  DownloaderInv
<1>1. PeerInv /\ LineInv
  BY PeerInvInit, LineInvInit DEF Init
<1>2. Containers
  BY FS_EmptySet, GeometryAssumption DEF Init, Containers, ActiveBound
<1>3. NetworkTyped
  <2>1. remote \in [choking : {TRUE}, interested : {FALSE}, requests : {<<>>},
                    has : SUBSET Pieces]
    BY DEF Init
  <2>2. <<>> \in Seq(Requests)
    OBVIOUS
  <2>3. remote \in [choking : BOOLEAN, interested : BOOLEAN,
                    requests : Seq(Requests), has : SUBSET Pieces]
    BY <2>1, <2>2
  <2> QED BY <2>3 DEF Init, NetworkTyped
<1>4. CallsFollow
  BY DEF Init, PeerInit, CallsFollow, CallStates, Idle, Tasks
<1>5. PiecesKnown
  BY DEF Init, PeerInit, PiecesKnown
<1> QED BY <1>1, <1>2, <1>3, <1>4, <1>5 DEF DownloaderInv, OwnInv

(* The invariant holds in every state of every behaviour. *)
THEOREM DownloaderInvariant == Spec => []DownloaderInv
<1>1. Init => DownloaderInv
  BY DownloaderInit
<1>2. DownloaderInv /\ [Next]_vars => DownloaderInv'
  BY DownloaderStep
<1> QED BY <1>1, <1>2, PTL DEF Spec

(* A downloader is a legitimate client of its Peer: whatever it, the       *)
(* strategy and the remote peer do, the Peer's coroutines and channel go   *)
(* through a behaviour of the Peer's own specification, so that all that   *)
(* is proved of a Peer holds in it (downloader.cpp:12-152, peer.cpp).      *)
THEOREM DownloaderImplementsPeer == Spec => PeerSpec
<1>1. Init => PeerInit
  BY DEF Init
<1>2. DownloaderInv /\ [Next]_vars => [PeerNext]_peerVars
  BY DownloaderStep
<1> QED BY <1>1, <1>2, DownloaderInvariant, PTL DEF Spec, PeerSpec

(* The limit on outgoing requests holds for every limit, geometry and      *)
(* number of coroutines in send_buffered_messages (downloader.cpp:141-152). *)
THEOREM ActiveBoundCorrect == Spec => []ActiveBound
<1>1. DownloaderInv => ActiveBound
  BY DEF DownloaderInv, OwnInv, Containers
<1> QED BY <1>1, DownloaderInvariant, PTL
-----------------------------------------------------------------------------
(* Counting in sequences *)

(* How many elements of s are in T. *)
Count(s, T) == Cardinality({i \in DOMAIN s : s[i] \in T})

LEMMA Shifted ==
  ASSUME NEW I \in SUBSET Int, IsFiniteSet(I), NEW m \in Int,
         NEW J, J = {i + m : i \in I}
  PROVE  IsFiniteSet(J) /\ Cardinality(J) = Cardinality(I)
<1> DEFINE f == [i \in I |-> i + m]
<1>1. f \in [I -> J]
  OBVIOUS
<1>2. \A i, j \in I : f[i] = f[j] => i = j
  OBVIOUS
<1>3. \A j \in J : \E i \in I : f[i] = j
  OBVIOUS
<1> HIDE DEF f
<1>4. f \in Bijection(I, J)
  BY <1>1, <1>2, <1>3 DEF Bijection, Injection, Surjection, IsInjective
<1>5. ExistsBijection(I, J)
  BY <1>4 DEF ExistsBijection
<1> QED BY <1>5, FS_Bijection

(* The positions in a sequence are finitely many. *)
LEMMA CountType ==
  ASSUME NEW S, NEW s \in Seq(S), NEW T
  PROVE  /\ IsFiniteSet({i \in DOMAIN s : s[i] \in T})
         /\ Count(s, T) \in Nat
         /\ Count(s, T) = 0 <=> \A i \in DOMAIN s : s[i] \notin T
<1>1. DOMAIN s = 1..Len(s) /\ Len(s) \in Nat
  OBVIOUS
<1>2. IsFiniteSet(1..Len(s))
  BY <1>1, FS_Interval
<1>3. IsFiniteSet({i \in DOMAIN s : s[i] \in T})
  BY <1>1, <1>2, FS_Subset
<1>4. Count(s, T) \in Nat
  BY <1>3, FS_CardinalityType DEF Count
<1>5. Count(s, T) = 0 <=> {i \in DOMAIN s : s[i] \in T} = {}
  BY <1>3, FS_EmptySet DEF Count
<1> QED BY <1>3, <1>4, <1>5

LEMMA CountEmpty ==
  ASSUME NEW T
  PROVE  Count(<<>>, T) = 0
<1>1. {i \in DOMAIN <<>> : <<>>[i] \in T} = {}
  OBVIOUS
<1> QED BY <1>1, FS_EmptySet DEF Count

LEMMA CountAppend ==
  ASSUME NEW S, NEW s \in Seq(S), NEW x \in S, NEW T
  PROVE  Count(Append(s, x), T) = Count(s, T) + (IF x \in T THEN 1 ELSE 0)
<1> DEFINE a == Append(s, x)
           I == {i \in DOMAIN s : s[i] \in T}
           n == Len(s) + 1
           N == {i \in DOMAIN a : a[i] \in T}
<1>1. /\ Len(s) \in Nat /\ DOMAIN s = 1..Len(s)
      /\ DOMAIN a = 1..n /\ a[n] = x
      /\ \A i \in 1..Len(s) : a[i] = s[i]
  OBVIOUS
<1>2. IsFiniteSet(I) /\ Cardinality(I) \in Nat
  BY CountType DEF Count
<1>3. n \notin I
  BY <1>1
<1>4. N = IF x \in T THEN I \cup {n} ELSE I
  BY <1>1
<1>0. Count(a, T) = Cardinality(N)
  BY DEF Count
<1> HIDE DEF a, I, n, N
<1>5. Cardinality(I \cup {n}) = Cardinality(I) + 1
  BY <1>2, <1>3, FS_AddElement
<1>6. Count(a, T) = Cardinality(I) + (IF x \in T THEN 1 ELSE 0)
  BY <1>0, <1>2, <1>4, <1>5
<1>7. Count(s, T) = Cardinality(I)
  BY DEF Count, I
<1> QED BY <1>6, <1>7 DEF a

LEMMA CountConcat ==
  ASSUME NEW S, NEW s \in Seq(S), NEW t \in Seq(S), NEW T
  PROVE  Count(s \o t, T) = Count(s, T) + Count(t, T)
<1> DEFINE a == s \o t
           I == {i \in DOMAIN s : s[i] \in T}
           J == {i \in DOMAIN t : t[i] \in T}
           K == {j + Len(s) : j \in J}
           N == {i \in DOMAIN a : a[i] \in T}
<1>1. /\ Len(s) \in Nat /\ DOMAIN s = 1..Len(s)
      /\ Len(t) \in Nat /\ DOMAIN t = 1..Len(t)
      /\ DOMAIN a = 1..(Len(s) + Len(t))
      /\ \A i \in 1..Len(s) : a[i] = s[i]
      /\ \A j \in 1..Len(t) : a[j + Len(s)] = t[j]
  OBVIOUS
<1>2. /\ IsFiniteSet(I) /\ Cardinality(I) \in Nat
      /\ IsFiniteSet(J) /\ Cardinality(J) \in Nat
  BY CountType DEF Count
<1>0. Count(a, T) = Cardinality(N)
  BY DEF Count
<1>3. /\ N = I \cup K
      /\ I \cap K = {}
  <2>1. \A i \in DOMAIN a : i \in 1..Len(s) \/ (i - Len(s) \in 1..Len(t) /\ i = (i - Len(s)) + Len(s))
    BY <1>1
  <2>2. \A j \in 1..Len(t) : j + Len(s) \in DOMAIN a /\ j + Len(s) \notin 1..Len(s)
    BY <1>1
  <2>3. 1..Len(s) \subseteq DOMAIN a
    BY <1>1
  <2> HIDE DEF a
  <2>4. \A i \in DOMAIN a : a[i] \in T => i \in I \cup K
    BY <1>1, <2>1
  <2>5. \A i \in I \cup K : i \in DOMAIN a /\ a[i] \in T
    BY <1>1, <2>2, <2>3
  <2>6. I \cap K = {}
    BY <1>1, <2>2
  <2> QED BY <2>4, <2>5, <2>6
<1>4. IsFiniteSet(K) /\ Cardinality(K) = Cardinality(J)
  <2>1. J \in SUBSET Int /\ Len(s) \in Int
    BY <1>1
  <2> HIDE DEF J
  <2> QED BY <1>2, <2>1, Shifted
<1> HIDE DEF a, I, J, K, N
<1>5. Cardinality(I \cup K) = Cardinality(I) + Cardinality(K) - Cardinality(I \cap K)
  BY <1>2, <1>4, FS_Union
<1>6. Cardinality(I \cap K) = 0
  BY <1>3, FS_EmptySet
<1>7. Count(a, T) = Cardinality(I) + Cardinality(J)
  BY <1>0, <1>2, <1>3, <1>4, <1>5, <1>6
<1> QED BY <1>7 DEF Count, a, I, J

LEMMA CountTail ==
  ASSUME NEW S, NEW s \in Seq(S), s # <<>>, NEW T
  PROVE  Count(s, T) = Count(Tail(s), T) + (IF Head(s) \in T THEN 1 ELSE 0)
<1>1. /\ Head(s) \in S /\ Tail(s) \in Seq(S)
      /\ <<>> \in Seq(S)
      /\ Append(<<>>, Head(s)) \in Seq(S)
      /\ s = Append(<<>>, Head(s)) \o Tail(s)
  OBVIOUS
<1>2. Count(s, T) = Count(Append(<<>>, Head(s)), T) + Count(Tail(s), T)
  BY <1>1, CountConcat
<1>3. Count(Append(<<>>, Head(s)), T) = Count(<<>>, T) + (IF Head(s) \in T THEN 1 ELSE 0)
  BY <1>1, CountAppend
<1>4. Count(<<>>, T) = 0 /\ Count(Tail(s), T) \in Nat
  BY <1>1, CountEmpty, CountType
<1> QED BY <1>2, <1>3, <1>4

-----------------------------------------------------------------------------
(* The geometry of pieces and blocks *)

LEMMA Quotient ==
  ASSUME NEW a \in Nat, NEW b \in Nat \ {0}
  PROVE  /\ a \div b \in Nat
         /\ (a \div b) * b <= a
         /\ a < (a \div b) * b + b
OBVIOUS

LEMMA Product ==
  ASSUME NEW i \in Nat, NEW j \in Nat, i <= j, NEW b \in Nat
  PROVE  i * b <= j * b /\ i * b \in Nat
OBVIOUS

(* Every piece has bytes. *)
LEMMA PieceHasBytes ==
  ASSUME NEW p \in Pieces
  PROVE  get_piece_size(p) \in Nat \ {0}
<1> DEFINE n == FileSize \div PieceSize
           c == (FileSize + PieceSize - 1) \div PieceSize
<1>1. /\ FileSize \in Nat \ {0} /\ PieceSize \in Nat \ {0}
      /\ FileSize + PieceSize - 1 \in Nat
      /\ p \in Nat /\ p < c
  BY GeometryAssumption DEF Pieces
<1>2. n \in Nat /\ n * PieceSize <= FileSize
  BY <1>1, Quotient
<1>3. c \in Nat /\ c * PieceSize <= FileSize + PieceSize - 1
  BY <1>1, Quotient
<1>4. get_piece_size(p) = IF p < n THEN PieceSize ELSE FileSize - n * PieceSize
  BY DEF get_piece_size
<1> HIDE DEF n, c
<1>5. CASE p < n
  BY <1>1, <1>4, <1>5
<1>6. CASE ~(p < n)
  <2>1. n + 1 <= c
    BY <1>1, <1>2, <1>3, <1>6
  <2>2. (n + 1) * PieceSize <= c * PieceSize /\ (n + 1) * PieceSize \in Nat
    BY <1>1, <1>2, <1>3, <2>1, Product
  <2>3. (n + 1) * PieceSize = n * PieceSize + PieceSize /\ n * PieceSize \in Nat
    BY <1>1, <1>2
  <2>4. n * PieceSize < FileSize
    BY <1>1, <1>2, <1>3, <2>2, <2>3
  <2> QED BY <1>1, <1>2, <1>4, <1>6, <2>3, <2>4
<1> QED BY <1>5, <1>6

(* The blocks of a piece are as many as it takes to hold its bytes. *)
LEMMA BlocksHold ==
  ASSUME NEW p \in Pieces
  PROVE  /\ BlockCount(p) \in Nat \ {0}
         /\ get_piece_size(p) <= BlockCount(p) * MaxBlockBytes
         /\ \A k \in 1..BlockCount(p) :
              (k - 1) * MaxBlockBytes \in Nat /\ (k - 1) * MaxBlockBytes < get_piece_size(p)
<1> DEFINE s == get_piece_size(p)
           n == BlockCount(p)
<1>1. s \in Nat \ {0} /\ MaxBlockBytes \in Nat \ {0}
  BY PieceHasBytes, GeometryAssumption
<1>2. n = (s + MaxBlockBytes - 1) \div MaxBlockBytes
  BY DEF BlockCount
<1> HIDE DEF s, n
<1>3. s + MaxBlockBytes - 1 \in Nat
  BY <1>1
<1>4. /\ n \in Nat
      /\ n * MaxBlockBytes <= s + MaxBlockBytes - 1
      /\ s + MaxBlockBytes - 1 < n * MaxBlockBytes + MaxBlockBytes
  BY <1>1, <1>2, <1>3, Quotient
<1>5. n * MaxBlockBytes \in Nat
  BY <1>1, <1>4
<1>6. s <= n * MaxBlockBytes
  BY <1>1, <1>4, <1>5
<1>7. n # 0
  BY <1>1, <1>6
<1>8. ASSUME NEW k \in 1..n
      PROVE  (k - 1) * MaxBlockBytes \in Nat /\ (k - 1) * MaxBlockBytes < s
  <2>1. k \in Nat /\ k <= n /\ k - 1 \in Nat
    BY <1>4
  <2>2. k * MaxBlockBytes <= n * MaxBlockBytes /\ k * MaxBlockBytes \in Nat
    BY <1>1, <1>4, <2>1, Product
  <2>3. (k - 1) * MaxBlockBytes \in Nat /\ k * MaxBlockBytes = (k - 1) * MaxBlockBytes + MaxBlockBytes
    BY <1>1, <2>1
  <2> QED BY <1>1, <1>4, <1>5, <2>2, <2>3
<1> QED BY <1>4, <1>6, <1>7, <1>8 DEF s, n

(* A block has at least one byte, and its piece and its offset tell it     *)
(* from all others.                                                        *)
LEMMA BlockFacts ==
  ASSUME NEW p \in Pieces, NEW k \in 1..BlockCount(p)
  PROVE  /\ Block(p, k) \in Requests
         /\ Block(p, k) \in Blocks(p)
         /\ Block(p, k).type = "Request"
         /\ Block(p, k).piece_index = p
         /\ Block(p, k).length \in Nat \ {0}
         /\ Block(p, k).offset_within_piece = (k - 1) * MaxBlockBytes
         /\ Block(p, k).length =
              IF get_piece_size(p) - (k - 1) * MaxBlockBytes < MaxBlockBytes
              THEN get_piece_size(p) - (k - 1) * MaxBlockBytes ELSE MaxBlockBytes
<1>1. /\ get_piece_size(p) \in Nat /\ MaxBlockBytes \in Nat \ {0}
      /\ (k - 1) * MaxBlockBytes \in Nat /\ (k - 1) * MaxBlockBytes < get_piece_size(p)
  BY PieceHasBytes, BlocksHold, GeometryAssumption
<1>2. Block(p, k) \in Blocks(p) /\ Block(p, k) \in Requests
  BY DEF Blocks, Requests
<1>3. /\ Block(p, k).type = "Request"
      /\ Block(p, k).piece_index = p
      /\ Block(p, k).offset_within_piece = (k - 1) * MaxBlockBytes
      /\ Block(p, k).length =
              IF get_piece_size(p) - (k - 1) * MaxBlockBytes < MaxBlockBytes
              THEN get_piece_size(p) - (k - 1) * MaxBlockBytes ELSE MaxBlockBytes
  BY DEF Block
<1> QED BY <1>1, <1>2, <1>3

LEMMA BlocksDiffer ==
  ASSUME NEW p \in Pieces, NEW j \in 1..BlockCount(p), NEW k \in 1..BlockCount(p),
         Block(p, j) = Block(p, k)
  PROVE  j = k
<1>1. /\ MaxBlockBytes \in Nat \ {0} /\ BlockCount(p) \in Nat
  BY BlocksHold, GeometryAssumption
<1>2. (j - 1) * MaxBlockBytes = (k - 1) * MaxBlockBytes
  BY BlockFacts
<1>3. j \in Nat /\ k \in Nat /\ j - 1 \in Nat /\ k - 1 \in Nat
  BY <1>1
<1>4. ASSUME NEW a \in Nat, NEW b \in Nat, a < b
      PROVE  a * MaxBlockBytes # b * MaxBlockBytes
  <2>1. (a + 1) * MaxBlockBytes <= b * MaxBlockBytes
    BY <1>1, <1>4, Product, a + 1 \in Nat, a + 1 <= b
  <2>2. (a + 1) * MaxBlockBytes = a * MaxBlockBytes + MaxBlockBytes /\ a * MaxBlockBytes \in Nat
    BY <1>1
  <2> QED BY <1>1, <2>1, <2>2
<1> QED BY <1>2, <1>3, <1>4

(* A request is a block of its piece. *)
LEMMA RequestFacts ==
  ASSUME NEW r \in Requests
  PROVE  /\ r.type = "Request"
         /\ r.piece_index \in Pieces
         /\ r \in Blocks(r.piece_index)
         /\ r.length \in Nat \ {0}
         /\ r # Interested /\ r # Keepalive /\ r # NoMessage
         /\ \A p \in Pieces : r \in Blocks(p) => p = r.piece_index
<1>1. PICK p \in Pieces : r \in Blocks(p)
  BY DEF Requests
<1>2. PICK k \in 1..BlockCount(p) : r = Block(p, k)
  BY <1>1 DEF Blocks
<1>3. /\ r.type = "Request" /\ r.piece_index = p /\ r.length \in Nat \ {0}
  BY <1>2, BlockFacts
<1>4. r # Interested /\ r # Keepalive /\ r # NoMessage
  <2>1. /\ Interested.type = "Interested" /\ Keepalive.type = "Keepalive"
        /\ NoMessage.type = "None"
    BY DEF Interested, Keepalive, NoMessage
  <2> QED BY <1>3, <2>1
<1>5. ASSUME NEW q \in Pieces, r \in Blocks(q)
      PROVE  q = r.piece_index
  <2>1. PICK j \in 1..BlockCount(q) : r = Block(q, j)
    BY <1>5 DEF Blocks
  <2> QED BY <2>1, BlockFacts
<1> QED BY <1>1, <1>3, <1>4, <1>5

-----------------------------------------------------------------------------
(* Counting requests *)

LEMMA InSequenceIs ==
  ASSUME NEW s, NEW r
  PROVE  InSequence(s, r) = Count(s, {r})
<1>1. {i \in DOMAIN s : s[i] = r} = {i \in DOMAIN s : s[i] \in {r}}
  OBVIOUS
<1> QED BY <1>1 DEF InSequence, Count

(* What InSequence says of the operations on sequences. *)
LEMMA InSequenceFacts ==
  ASSUME NEW S, NEW s \in Seq(S), NEW r
  PROVE  /\ InSequence(s, r) \in Nat
         /\ InSequence(s, r) > 0 <=> \E i \in DOMAIN s : s[i] = r
         /\ InSequence(<<>>, r) = 0
         /\ \A x \in S : InSequence(Append(s, x), r)
                           = InSequence(s, r) + (IF x = r THEN 1 ELSE 0)
         /\ s # <<>> => /\ Head(s) \in S /\ Tail(s) \in Seq(S)
                        /\ InSequence(s, r)
                             = InSequence(Tail(s), r) + (IF Head(s) = r THEN 1 ELSE 0)
         /\ \A t \in Seq(S) : InSequence(s \o t, r) = InSequence(s, r) + InSequence(t, r)
<1>1. Count(s, {r}) \in Nat /\ (Count(s, {r}) = 0 <=> \A i \in DOMAIN s : s[i] # r)
  BY CountType
<1>2. Count(<<>>, {r}) = 0
  BY CountEmpty
<1>3. \A x \in S : Count(Append(s, x), {r}) = Count(s, {r}) + (IF x = r THEN 1 ELSE 0)
  BY CountAppend
<1>4. s # <<>> => /\ Head(s) \in S /\ Tail(s) \in Seq(S)
                  /\ Count(s, {r}) = Count(Tail(s), {r}) + (IF Head(s) = r THEN 1 ELSE 0)
  BY CountTail
<1>5. \A t \in Seq(S) : Count(s \o t, {r}) = Count(s, {r}) + Count(t, {r})
  BY CountConcat
<1>6. \A t : InSequence(t, r) = Count(t, {r})
  BY InSequenceIs
<1>7. InSequence(s, r) \in Nat /\ (InSequence(s, r) = 0 <=> \A i \in DOMAIN s : s[i] # r)
  BY <1>1, <1>6
<1>8. InSequence(s, r) > 0 <=> \E i \in DOMAIN s : s[i] = r
  BY <1>7
<1>9. InSequence(<<>>, r) = 0
  BY <1>2, <1>6
<1>10. \A x \in S : InSequence(Append(s, x), r)
                           = InSequence(s, r) + (IF x = r THEN 1 ELSE 0)
  BY <1>3, <1>6
<1>11. s # <<>> => /\ Head(s) \in S /\ Tail(s) \in Seq(S)
                  /\ InSequence(s, r)
                       = InSequence(Tail(s), r) + (IF Head(s) = r THEN 1 ELSE 0)
  BY <1>4, <1>6
<1>12. \A t \in Seq(S) : InSequence(s \o t, r) = InSequence(s, r) + InSequence(t, r)
  BY <1>5, <1>6
<1> QED BY <1>7, <1>8, <1>9, <1>10, <1>11, <1>12

LEMMA InTail ==
  ASSUME NEW S, NEW s \in Seq(S), s # <<>>, NEW r
  PROVE  /\ Head(s) \in S /\ Tail(s) \in Seq(S)
         /\ InSequence(Tail(s), r) \in Nat
         /\ InSequence(s, r) = InSequence(Tail(s), r) + (IF Head(s) = r THEN 1 ELSE 0)
<1>1. /\ Head(s) \in S /\ Tail(s) \in Seq(S)
      /\ InSequence(s, r) = InSequence(Tail(s), r) + (IF Head(s) = r THEN 1 ELSE 0)
  BY InSequenceFacts
<1>2. InSequence(Tail(s), r) \in Nat
  BY <1>1, InSequenceFacts
<1> QED BY <1>1, <1>2

LEMMA InAppend ==
  ASSUME NEW S, NEW s \in Seq(S), NEW x \in S, NEW r
  PROVE  /\ Append(s, x) \in Seq(S)
         /\ InSequence(s, r) \in Nat
         /\ InSequence(Append(s, x), r) = InSequence(s, r) + (IF x = r THEN 1 ELSE 0)
BY InSequenceFacts

LEMMA InConcat ==
  ASSUME NEW S, NEW s \in Seq(S), NEW t \in Seq(S), NEW r
  PROVE  /\ s \o t \in Seq(S)
         /\ InSequence(s, r) \in Nat /\ InSequence(t, r) \in Nat
         /\ InSequence(s \o t, r) = InSequence(s, r) + InSequence(t, r)
<1>1. InSequence(s, r) \in Nat /\ InSequence(s \o t, r) = InSequence(s, r) + InSequence(t, r)
  BY InSequenceFacts
<1>2. InSequence(t, r) \in Nat
  BY InSequenceFacts
<1> QED BY <1>1, <1>2

(* A sequence without repetitions has each of its elements once. *)
LEMMA Once ==
  ASSUME NEW s, NEW r, \A i, j \in DOMAIN s : s[i] = s[j] => i = j
  PROVE  InSequence(s, r) = IF \E i \in DOMAIN s : s[i] = r THEN 1 ELSE 0
<1> DEFINE I == {i \in DOMAIN s : s[i] = r}
<1>1. InSequence(s, r) = Cardinality(I)
  BY DEF InSequence
<1>2. CASE \E i \in DOMAIN s : s[i] = r
  <2>1. PICK k \in DOMAIN s : s[k] = r
    BY <1>2
  <2>2. I = {k}
    BY <2>1
  <2> HIDE DEF I
  <2>3. Cardinality({k}) = 1
    BY FS_Singleton
  <2> QED BY <1>1, <1>2, <2>2, <2>3
<1>3. CASE ~\E i \in DOMAIN s : s[i] = r
  <2>1. I = {}
    BY <1>3
  <2> HIDE DEF I
  <2> QED BY <1>1, <1>3, <2>1, FS_EmptySet
<1> QED BY <1>2, <1>3

(* download_piece asks for each block of the piece once. *)
LEMMA AskedOnce ==
  ASSUME NEW p \in Pieces, NEW r
  PROVE  InSequence(BlockRequests(p), r) = IF r \in Blocks(p) THEN 1 ELSE 0
<1> DEFINE s == BlockRequests(p)
<1>1. DOMAIN s = 1..BlockCount(p) /\ \A k \in DOMAIN s : s[k] = Block(p, k)
  BY DEF BlockRequests
<1>2. \A i, j \in DOMAIN s : s[i] = s[j] => i = j
  BY <1>1, BlocksDiffer
<1>3. r \in Blocks(p) <=> \E i \in DOMAIN s : s[i] = r
  BY <1>1 DEF Blocks
<1> HIDE DEF s
<1>4. InSequence(s, r) = IF \E i \in DOMAIN s : s[i] = r THEN 1 ELSE 0
  BY <1>2, Once
<1>5. InSequence(s, r) = IF r \in Blocks(p) THEN 1 ELSE 0
  BY <1>3, <1>4
<1> QED BY <1>5 DEF s

(* A Choke puts back each active request once. *)
LEMMA RequeuedOnce ==
  ASSUME NEW active \in SUBSET Requests, IsFiniteSet(active),
         NEW front \in Requeued(active), NEW r
  PROVE  InSequence(front, r) = IF r \in active THEN 1 ELSE 0
<1>1. Cardinality(active) \in Nat
  BY FS_CardinalityType
<1>2. /\ front \in [1..Cardinality(active) -> active]
      /\ \A i, j \in DOMAIN front : i < j => Before(front[j], front[i])
      /\ \A x \in active : \E i \in DOMAIN front : front[i] = x
  BY DEF Requeued
<1>3. \A x \in Requests : ~Before(x, x)
  <2> SUFFICES ASSUME NEW x \in Requests PROVE ~Before(x, x)
    OBVIOUS
  <2>1. PICK p \in Pieces : x \in Blocks(p)
    BY DEF Requests
  <2>2. PICK k \in 1..BlockCount(p) : x = Block(p, k)
    BY <2>1 DEF Blocks
  <2>3. x.piece_index = p /\ x.offset_within_piece = (k - 1) * MaxBlockBytes
    BY <2>2, BlockFacts
  <2>4. p \in Int /\ (k - 1) * MaxBlockBytes \in Int
    BY BlocksHold, GeometryAssumption DEF Pieces
  <2> QED BY <2>3, <2>4 DEF Before
<1>4. \A i, j \in DOMAIN front : front[i] = front[j] => i = j
  <2> SUFFICES ASSUME NEW i \in DOMAIN front, NEW j \in DOMAIN front,
                      front[i] = front[j], i # j
               PROVE  FALSE
    OBVIOUS
  <2>1. i \in Int /\ j \in Int
    BY <1>1, <1>2
  <2>2. i < j \/ j < i
    BY <2>1
  <2>3. front[i] \in Requests /\ front[j] \in Requests
    BY <1>2
  <2> QED BY <1>2, <1>3, <2>2, <2>3
<1>5. r \in active <=> \E i \in DOMAIN front : front[i] = r
  BY <1>2
<1>6. InSequence(front, r) = IF \E i \in DOMAIN front : front[i] = r THEN 1 ELSE 0
  BY <1>4, Once
<1> QED BY <1>5, <1>6

-----------------------------------------------------------------------------
(***************************************************************************)
(* What is needed of the Peer: only a send loop that took a message has    *)
(* one, a Downloader's Peer connects once, and a client is thrown out of   *)
(* the channel only by a send loop that ended.                             *)
(***************************************************************************)
HandEmpty == send \notin {"got", "writing"} => hand = NoMessage

ConnectsOnce ==
  /\ start \in {"idle", "connecting"} => recv = "off"
  /\ starts = 0 <=> start = "idle"

ThrowsAfterEnd == \A c \in Clients : await[c] = "cancelled" => ~is_sender_active

PeerSide == HandEmpty /\ ConnectsOnce /\ ThrowsAfterEnd

LEMMA HandEmptyStep ==
  ASSUME PeerInv, HandEmpty, [PeerNext]_peerVars
  PROVE  HandEmpty'
<1> USE DEF HandEmpty
<1>1. CASE UNCHANGED <<send, hand>>
  BY <1>1
<1>2. CASE SenderExit
  BY <1>2 DEF SenderExit
<1>3. CASE AsyncReceive
  BY <1>3 DEF AsyncReceive
<1>4. ASSUME NEW t, NEW m, AsyncSend(t, m)
      PROVE  HandEmpty'
  BY <1>4 DEF AsyncSend
<1>5. CASE SenderResume \/ WriteOk \/ WriteFails \/ ConnectOk
  BY <1>2, <1>3, <1>5
     DEF SenderResume, WriteOk, WriteFails, SendLoopHead, ConnectOk
<1>6. CASE ReceiverExit
  BY <1>1, <1>4, <1>6 DEF ReceiverExit, internal_stop_sender
<1>7. CASE Callbacks
  BY <1>1, <1>4, <1>7 DEF Callbacks
<1>8. CASE \E c \in Clients, m \in Outgoing : ClientSend(c, m)
  BY <1>4, <1>8 DEF ClientSend
<1>9. CASE StopDelivered \/ StopThrows \/ StartAsync \/ ConnectFails
              \/ JoinLoops \/ JoinThrows \/ Drop \/ UNCHANGED peerVars
              \/ (\E c \in Clients : ClientResume(c))
  BY <1>1, <1>9
     DEF StopDelivered, StopThrows, StartAsync, ConnectFails, JoinLoops,
         JoinThrows, Drop, peerVars, channelVars, ClientResume
<1> QED
  BY <1>5, <1>6, <1>7, <1>8, <1>9
     DEF PeerNext, PeerInternal, ReadFails, CallbackThrows, ReadMessage, CallbackGoesOn

LEMMA ConnectsOnceStep ==
  ASSUME PeerInv, ConnectsOnce, [PeerNext]_peerVars
  PROVE  ConnectsOnce'
<1> USE DEF ConnectsOnce
<1>1. CASE UNCHANGED <<start, recv, starts>>
  BY <1>1
<1>2. CASE StartAsync
  <2>1. starts = 0
    BY <1>2, DownloaderAssumption DEF StartAsync, PeerInv, PeerTypeOK
  <2> QED BY <1>2, <2>1 DEF StartAsync
<1>3. CASE ConnectOk \/ ConnectFails \/ JoinLoops \/ JoinThrows
  BY <1>3 DEF ConnectOk, ConnectFails, JoinLoops, JoinThrows
<1>4. CASE UNCHANGED <<start, starts>> /\ recv # "off"
  BY <1>4
<1>5. CASE SenderResume \/ WriteOk \/ WriteFails \/ Drop \/ UNCHANGED peerVars
  BY <1>1, <1>5 DEF SenderResume, WriteOk, WriteFails, Drop, peerVars
<1>6. CASE ReadFails \/ CallbackThrows \/ StopDelivered \/ StopThrows
             \/ CallbackGoesOn \/ (\E m \in Incoming : ReadMessage(m))
  BY <1>4, <1>6
     DEF ReadFails, CallbackThrows, StopDelivered, StopThrows, CallbackGoesOn, ReadMessage
<1>7. CASE \E c \in Clients : ClientResume(c) \/ \E m \in Outgoing : ClientSend(c, m)
  BY <1>1, <1>7 DEF ClientResume, ClientSend
<1> QED
  BY <1>2, <1>3, <1>5, <1>6, <1>7 DEF PeerNext, PeerInternal

LEMMA ThrowsAfterEndStep ==
  ASSUME DownloaderInv, ConnectsOnce, ThrowsAfterEnd, [PeerNext]_peerVars
  PROVE  ThrowsAfterEnd'
<1>1. /\ ReceiveLoop \in Tasks /\ Clients \subseteq Tasks
      /\ Outgoing \subseteq Messages /\ Keepalive \in Messages
      /\ await \in [Tasks -> {"none", "posted", "blocked", "cancelled"}]
      /\ PeerInv
  BY DEF Tasks, Messages, DownloaderInv, PeerInv, PeerTypeOK
<1>2. CASE /\ \A c \in Clients : await'[c] = "cancelled" => await[c] = "cancelled"
           /\ UNCHANGED is_sender_active
  BY <1>2 DEF ThrowsAfterEnd
<1>3. CASE SenderExit
  BY <1>3 DEF SenderExit, ThrowsAfterEnd
<1>4. ASSUME NEW t \in Tasks, NEW m \in Messages, AsyncSend(t, m), UNCHANGED is_sender_active
      PROVE  ThrowsAfterEnd'
  BY <1>1, <1>2, <1>4, AsyncSendLemma
<1>5. CASE ~m_is_stopping /\ AsyncReceive /\ UNCHANGED is_sender_active
  BY <1>1, <1>2, <1>5, AsyncReceiveLemma
<1>6. ASSUME NEW t \in Tasks, await' = [await EXCEPT ![t] = "none"], UNCHANGED is_sender_active
      PROVE  ThrowsAfterEnd'
  BY <1>1, <1>2, <1>6
<1>7. CASE UNCHANGED <<await, is_sender_active>>
  BY <1>2, <1>7
<1>8. CASE SenderResume \/ WriteOk \/ WriteFails
  BY <1>3, <1>5, <1>7, <1>8 DEF SenderResume, WriteOk, WriteFails, SendLoopHead, channelVars
<1>9. CASE ConnectOk
  <2>1. recv = "off" /\ ~m_is_stopping
    BY <1>1, <1>9 DEF ConnectOk, ConnectsOnce, PeerInv, StoppingIsOrderly
  <2>2. \A c \in Clients : await[c] = "none"
    BY <2>1 DEF DownloaderInv, OwnInv, CallsFollow
  <2>3. \A c \in Clients : await'[c] # "cancelled"
    BY <1>1, <1>9, <2>1, <2>2, AsyncReceiveLemma DEF ConnectOk
  <2> QED BY <2>3 DEF ThrowsAfterEnd
<1>10. CASE ReceiverExit /\ UNCHANGED is_sender_active
  BY <1>1, <1>4, <1>6, <1>10 DEF ReceiverExit, internal_stop_sender
<1>11. CASE Callbacks /\ UNCHANGED is_sender_active
  BY <1>1, <1>4, <1>6, <1>11 DEF Callbacks
<1>12. CASE \E c \in Clients, m \in Outgoing : ClientSend(c, m)
  BY <1>1, <1>4, <1>12 DEF ClientSend, activityVars
<1>13. CASE StopDelivered \/ StopThrows \/ (\E c \in Clients : ClientResume(c))
  BY <1>1, <1>6, <1>13 DEF StopDelivered, StopThrows, ClientResume, activityVars
<1>14. CASE StartAsync \/ ConnectFails \/ JoinLoops \/ JoinThrows \/ Drop
              \/ UNCHANGED peerVars
  BY <1>7, <1>14
     DEF StartAsync, ConnectFails, JoinLoops, JoinThrows, Drop, peerVars,
         channelVars, activityVars
<1> QED
  BY <1>8, <1>9, <1>10, <1>11, <1>12, <1>13, <1>14
     DEF PeerNext, PeerInternal, ReadFails, CallbackThrows, ReadMessage,
         CallbackGoesOn, activityVars

LEMMA PeerSideStep ==
  ASSUME DownloaderInv, PeerSide, [PeerNext]_peerVars
  PROVE  PeerSide'
BY HandEmptyStep, ConnectsOnceStep, ThrowsAfterEndStep DEF PeerSide, DownloaderInv

-----------------------------------------------------------------------------
(* Copies of a request in the channel *)

Waiter == [task : Tasks, msg : Messages]

InLineOf(line, r) == Cardinality({i \in DOMAIN line : line[i].msg = r})

InLine(r) == InLineOf(waiters, r)

Queued(r) ==
  InSequence(m_send_queue, r) + (IF hand = r THEN 1 ELSE 0) + InLine(r)

LEMMA InLineIs ==
  ASSUME NEW line \in Seq(Waiter), NEW r
  PROVE  InLineOf(line, r) = Count(line, {w \in Waiter : w.msg = r})
<1> DEFINE T == {w \in Waiter : w.msg = r}
           I == {i \in DOMAIN line : line[i].msg = r}
           J == {i \in DOMAIN line : line[i] \in T}
<1>1. \A i \in DOMAIN line : line[i] \in Waiter
  <2> HIDE DEF Waiter
  <2> QED OBVIOUS
<1>2. I = J
  <2> HIDE DEF Waiter
  <2> QED BY <1>1
<1>3. Count(line, T) = Cardinality(J)
  BY DEF Count
<1> HIDE DEF I, J, T
<1>4. Cardinality(I) = Count(line, T)
  BY <1>2, <1>3
<1> QED BY <1>4 DEF I, T, InLineOf

(* The numbers are numbers. *)
LEMMA QueuedType ==
  ASSUME PeerTypeOK, NEW r
  PROVE  /\ m_send_queue \in Seq(Messages)
         /\ waiters \in Seq(Waiter)
         /\ InSequence(m_send_queue, r) \in Nat
         /\ InLine(r) \in Nat
         /\ Queued(r) \in Nat
<1>1. m_send_queue \in Seq(Messages) /\ waiters \in Seq(Waiter)
  BY DEF PeerTypeOK, Messages, Waiter
<1>2. InSequence(m_send_queue, r) \in Nat
  BY <1>1, InSequenceFacts
<1>3. InLine(r) = Count(waiters, {w \in Waiter : w.msg = r})
  BY <1>1, InLineIs DEF InLine
<1>4. Count(waiters, {w \in Waiter : w.msg = r}) \in Nat
  BY <1>1, CountType
<1> QED BY <1>1, <1>2, <1>3, <1>4 DEF Queued

(* The line, as it grows and shrinks. *)
LEMMA LineCounts ==
  ASSUME NEW line \in Seq(Waiter), NEW r
  PROVE  /\ InLineOf(line, r) \in Nat
         /\ InLineOf(<<>>, r) = 0
         /\ \A w \in Waiter : InLineOf(Append(line, w), r)
                                = InLineOf(line, r) + (IF w.msg = r THEN 1 ELSE 0)
         /\ line # <<>> =>
              /\ Head(line) \in Waiter /\ Tail(line) \in Seq(Waiter)
              /\ InLineOf(line, r)
                   = InLineOf(Tail(line), r) + (IF Head(line).msg = r THEN 1 ELSE 0)
<1> DEFINE T == {w \in Waiter : w.msg = r}
<1>1. \A l \in Seq(Waiter) : InLineOf(l, r) = Count(l, T)
  BY InLineIs
<1>2. /\ <<>> \in Seq(Waiter)
      /\ \A w \in Waiter : Append(line, w) \in Seq(Waiter)
      /\ line # <<>> => Head(line) \in Waiter /\ Tail(line) \in Seq(Waiter)
  <2> HIDE DEF Waiter
  <2> QED OBVIOUS
<1>3. \A w \in Waiter : w \in T <=> w.msg = r
  OBVIOUS
<1> HIDE DEF T, Waiter
<1>4. Count(line, T) \in Nat
  BY CountType
<1>5. Count(<<>>, T) = 0
  BY CountEmpty
<1>6. \A w \in Waiter : Count(Append(line, w), T) = Count(line, T) + (IF w \in T THEN 1 ELSE 0)
  BY CountAppend
<1>7. line # <<>> => Count(line, T) = Count(Tail(line), T) + (IF Head(line) \in T THEN 1 ELSE 0)
  BY CountTail
<1>8. InLineOf(line, r) \in Nat /\ InLineOf(<<>>, r) = 0
  BY <1>1, <1>2, <1>4, <1>5
<1>9. \A w \in Waiter : InLineOf(Append(line, w), r)
                          = InLineOf(line, r) + (IF w.msg = r THEN 1 ELSE 0)
  BY <1>1, <1>2, <1>3, <1>6
<1>10. line # <<>> => InLineOf(line, r)
                        = InLineOf(Tail(line), r) + (IF Head(line).msg = r THEN 1 ELSE 0)
  BY <1>1, <1>2, <1>3, <1>7
<1> QED BY <1>2, <1>8, <1>9, <1>10

(* async_send adds its message, wherever it goes. *)
LEMMA SendCounts ==
  ASSUME PeerInv, HandEmpty, NEW t \in Tasks, NEW m \in Messages, AsyncSend(t, m),
         NEW r \in Requests
  PROVE  Queued(r)' = Queued(r) + (IF m = r THEN 1 ELSE 0)
<1>1. /\ m_send_queue \in Seq(Messages) /\ waiters \in Seq(Waiter)
      /\ InSequence(m_send_queue, r) \in Nat /\ InLine(r) \in Nat
  BY QueuedType DEF PeerInv
<1>2. CASE /\ send = "receiving"
           /\ hand' = m
           /\ UNCHANGED <<m_send_queue, waiters>>
  <2>1. hand # r
    BY <1>2, RequestFacts DEF HandEmpty
  <2>2. Queued(r)' = InSequence(m_send_queue, r) + (IF m = r THEN 1 ELSE 0) + InLine(r)
    BY <1>2 DEF Queued, InLine
  <2> QED BY <1>1, <2>1, <2>2 DEF Queued
<1>3. CASE /\ m_send_queue' = Append(m_send_queue, m)
           /\ UNCHANGED <<waiters, send, hand>>
  <2>1. InSequence(Append(m_send_queue, m), r)
          = InSequence(m_send_queue, r) + (IF m = r THEN 1 ELSE 0)
    BY <1>1, InSequenceFacts
  <2>2. Queued(r)' = InSequence(Append(m_send_queue, m), r)
                       + (IF hand = r THEN 1 ELSE 0) + InLine(r)
    BY <1>3 DEF Queued, InLine
  <2> QED BY <1>1, <2>1, <2>2 DEF Queued
<1>4. CASE /\ waiters' = Append(waiters, [task |-> t, msg |-> m])
           /\ UNCHANGED <<m_send_queue, send, hand>>
  <2>1. [task |-> t, msg |-> m] \in Waiter /\ [task |-> t, msg |-> m].msg = m
    BY DEF Waiter
  <2>2. PICK w \in Waiter : w.msg = m /\ waiters' = Append(waiters, w)
    BY <1>4, <2>1
  <2>5. InLine(r)' = InLineOf(Append(waiters, w), r)
    BY <2>2 DEF InLine
  <2>3. InLine(r)' = InLine(r) + (IF m = r THEN 1 ELSE 0)
    BY <1>1, <2>2, <2>5, LineCounts DEF InLine
  <2>4. Queued(r)' = InSequence(m_send_queue, r) + (IF hand = r THEN 1 ELSE 0) + InLine(r)'
    BY <1>4 DEF Queued
  <2> QED BY <1>1, <2>3, <2>4 DEF Queued
<1> QED BY <1>2, <1>3, <1>4 DEF AsyncSend

(* async_receive loses nothing but the message the send loop had. *)
LEMMA ReceiveCounts ==
  ASSUME PeerInv, AsyncReceive, NEW r \in Requests
  PROVE  Queued(r)' + (IF hand = r THEN 1 ELSE 0) = Queued(r)
<1>1. /\ m_send_queue \in Seq(Messages) /\ waiters \in Seq(Waiter)
      /\ InSequence(m_send_queue, r) \in Nat /\ InLine(r) \in Nat
  BY QueuedType DEF PeerInv
<1>2. CASE /\ hand' = NoMessage
           /\ UNCHANGED channelVars
  <2>1. NoMessage # r
    BY RequestFacts
  <2>2. Queued(r)' = InSequence(m_send_queue, r) + (IF NoMessage = r THEN 1 ELSE 0) + InLine(r)
    BY <1>2 DEF Queued, InLine, channelVars
  <2> QED BY <1>1, <2>1, <2>2 DEF Queued
<1>3. ASSUME m_send_queue # <<>>
      PROVE  /\ Head(m_send_queue) \in Messages /\ Tail(m_send_queue) \in Seq(Messages)
             /\ InSequence(m_send_queue, r) = InSequence(Tail(m_send_queue), r)
                                                + (IF Head(m_send_queue) = r THEN 1 ELSE 0)
             /\ InSequence(Tail(m_send_queue), r) \in Nat
  BY <1>1, <1>3, InTail, Zenon
<1>4. CASE /\ m_send_queue # <<>>
           /\ hand' = Head(m_send_queue)
           /\ m_send_queue' = Tail(m_send_queue)
           /\ UNCHANGED <<waiters, await>>
  <2>1. Queued(r)' = InSequence(Tail(m_send_queue), r)
                       + (IF Head(m_send_queue) = r THEN 1 ELSE 0) + InLine(r)
    BY <1>4 DEF Queued, InLine
  <2> QED BY <1>1, <1>3, <1>4, <2>1 DEF Queued
<1>5. CASE /\ m_send_queue # <<>>
           /\ waiters # <<>>
           /\ hand' = Head(m_send_queue)
           /\ m_send_queue' = Append(Tail(m_send_queue), Head(waiters).msg)
           /\ waiters' = Tail(waiters)
  <2>1. /\ Head(waiters) \in Waiter
        /\ InLine(r) = InLine(r)' + (IF Head(waiters).msg = r THEN 1 ELSE 0)
        /\ InLine(r)' \in Nat
    <3>0. InLine(r)' = InLineOf(Tail(waiters), r)
      BY <1>5 DEF InLine
    <3>1. /\ Head(waiters) \in Waiter /\ Tail(waiters) \in Seq(Waiter)
          /\ InLine(r) = InLine(r)' + (IF Head(waiters).msg = r THEN 1 ELSE 0)
      BY <1>1, <1>5, <3>0, LineCounts DEF InLine
    <3>2. InLine(r)' \in Nat
      BY <3>0, <3>1, LineCounts
    <3> QED BY <3>1, <3>2
  <2>2. Head(waiters).msg \in Messages
    BY <2>1 DEF Waiter
  <2>3. InSequence(Append(Tail(m_send_queue), Head(waiters).msg), r)
          = InSequence(Tail(m_send_queue), r) + (IF Head(waiters).msg = r THEN 1 ELSE 0)
    <3>1. Tail(m_send_queue) \in Seq(Messages)
      BY <1>3, <1>5
    <3>2. PICK q \in Seq(Messages), x \in Messages :
            q = Tail(m_send_queue) /\ x = Head(waiters).msg
      BY <2>2, <3>1
    <3>3. InSequence(Append(q, x), r) = InSequence(q, r) + (IF x = r THEN 1 ELSE 0)
      BY InAppend
    <3> QED BY <3>2, <3>3
  <2>4. Queued(r)' = InSequence(Append(Tail(m_send_queue), Head(waiters).msg), r)
                       + (IF Head(m_send_queue) = r THEN 1 ELSE 0) + InLine(r)'
    BY <1>5 DEF Queued
  <2>5. /\ InSequence(m_send_queue, r) = InSequence(Tail(m_send_queue), r)
                                            + (IF Head(m_send_queue) = r THEN 1 ELSE 0)
        /\ InSequence(Tail(m_send_queue), r) \in Nat
    BY <1>3, <1>5
  <2>6. Queued(r) = InSequence(m_send_queue, r) + (IF hand = r THEN 1 ELSE 0) + InLine(r)
    BY DEF Queued
  <2> DEFINE a == IF Head(waiters).msg = r THEN 1 ELSE 0
             b == IF Head(m_send_queue) = r THEN 1 ELSE 0
             h == IF hand = r THEN 1 ELSE 0
             n == InSequence(Tail(m_send_queue), r)
             s == InSequence(Append(Tail(m_send_queue), Head(waiters).msg), r)
  <2>7. a \in Nat /\ b \in Nat /\ h \in Nat
    OBVIOUS
  <2>8. /\ InLine(r) = InLine(r)' + a /\ InLine(r)' \in Nat
        /\ s = n + a
        /\ Queued(r)' = s + b + InLine(r)'
        /\ InSequence(m_send_queue, r) = n + b /\ n \in Nat
        /\ Queued(r) = InSequence(m_send_queue, r) + h + InLine(r)
    BY <2>1, <2>3, <2>4, <2>5, <2>6
  <2> HIDE DEF a, b, h, n, s
  <2>9. Queued(r)' + h = Queued(r)
    BY <2>7, <2>8
  <2> QED BY <2>9 DEF h
<1> QED BY <1>2, <1>4, <1>5 DEF AsyncReceive

(* The end of the send loop throws everything away. *)
LEMMA ExitCounts ==
  ASSUME SenderExit, NEW r \in Requests
  PROVE  Queued(r)' = 0
<1>1. m_send_queue' = <<>> /\ waiters' = <<>> /\ hand' = NoMessage
  BY DEF SenderExit, Reset
<1>2. NoMessage # r
  BY RequestFacts
<1>3. InSequence(<<>>, r) = 0
  BY InSequenceFacts, <<>> \in Seq(Messages)
<1>4. InLine(r)' = 0
  <2>1. InLine(r)' = InLineOf(<<>>, r)
    BY <1>1 DEF InLine
  <2>2. <<>> \in Seq(Waiter)
    OBVIOUS
  <2> QED BY <2>1, <2>2, LineCounts
<1> QED BY <1>1, <1>2, <1>3, <1>4 DEF Queued

-----------------------------------------------------------------------------
(* Copies of a request on their way back *)

Answering(r) == {m \in Incoming : m.type = "Piece" /\ m.block = r}

ComingIn(line, r) ==
  Cardinality({i \in DOMAIN line : line[i].type = "Piece" /\ line[i].block = r})

Served(r) == InSequence(remote.requests, r) + ComingIn(inbound, r)

LEMMA ComingIs ==
  ASSUME NEW line \in Seq(Incoming), NEW r
  PROVE  ComingIn(line, r) = Count(line, Answering(r))
<1> DEFINE I == {i \in DOMAIN line : line[i].type = "Piece" /\ line[i].block = r}
           J == {i \in DOMAIN line : line[i] \in Answering(r)}
<1>1. \A i \in DOMAIN line : line[i] \in Incoming
  OBVIOUS
<1>2. I = J
  BY <1>1 DEF Answering
<1>3. Count(line, Answering(r)) = Cardinality(J)
  BY DEF Count
<1>4. ComingIn(line, r) = Cardinality(I)
  BY DEF ComingIn
<1> HIDE DEF I, J
<1> QED BY <1>2, <1>3, <1>4

LEMMA ComingType ==
  ASSUME NEW line \in Seq(Incoming), NEW r
  PROVE  /\ ComingIn(line, r) \in Nat
         /\ ComingIn(line, r) > 0 <=>
              \E i \in DOMAIN line : line[i].type = "Piece" /\ line[i].block = r
<1>1. Count(line, Answering(r)) \in Nat
      /\ (Count(line, Answering(r)) = 0 <=> \A i \in DOMAIN line : line[i] \notin Answering(r))
  BY CountType
<1>2. \A i \in DOMAIN line : line[i] \in Incoming
  OBVIOUS
<1> QED BY <1>1, <1>2, ComingIs DEF Answering

LEMMA ComingAppend ==
  ASSUME NEW line \in Seq(Incoming), NEW m \in Incoming, NEW r
  PROVE  /\ Append(line, m) \in Seq(Incoming)
         /\ ComingIn(line, r) \in Nat
         /\ ComingIn(Append(line, m), r)
              = ComingIn(line, r) + (IF m.type = "Piece" /\ m.block = r THEN 1 ELSE 0)
<1>1. Append(line, m) \in Seq(Incoming)
  OBVIOUS
<1>2. Count(Append(line, m), Answering(r))
        = Count(line, Answering(r)) + (IF m \in Answering(r) THEN 1 ELSE 0)
  BY CountAppend
<1>3. m \in Answering(r) <=> m.type = "Piece" /\ m.block = r
  BY DEF Answering
<1>4. ComingIn(Append(line, m), r) = Count(Append(line, m), Answering(r))
  BY <1>1, ComingIs
<1>5. ComingIn(line, r) = Count(line, Answering(r)) /\ ComingIn(line, r) \in Nat
  BY ComingIs, ComingType
<1> HIDE DEF ComingIn
<1> QED BY <1>1, <1>2, <1>3, <1>4, <1>5

LEMMA ComingTail ==
  ASSUME NEW line \in Seq(Incoming), line # <<>>, NEW r
  PROVE  /\ Head(line) \in Incoming /\ Tail(line) \in Seq(Incoming)
         /\ ComingIn(Tail(line), r) \in Nat
         /\ ComingIn(line, r)
              = ComingIn(Tail(line), r)
                  + (IF Head(line).type = "Piece" /\ Head(line).block = r THEN 1 ELSE 0)
<1>1. Head(line) \in Incoming /\ Tail(line) \in Seq(Incoming)
  OBVIOUS
<1>2. Count(line, Answering(r))
        = Count(Tail(line), Answering(r)) + (IF Head(line) \in Answering(r) THEN 1 ELSE 0)
  BY CountTail
<1>3. Head(line) \in Answering(r) <=> Head(line).type = "Piece" /\ Head(line).block = r
  BY <1>1 DEF Answering
<1>4. ComingIn(Tail(line), r) = Count(Tail(line), Answering(r)) /\ ComingIn(Tail(line), r) \in Nat
  BY <1>1, ComingIs, ComingType
<1>5. ComingIn(line, r) = Count(line, Answering(r))
  BY ComingIs
<1> QED BY <1>1, <1>2, <1>3, <1>4, <1>5

(* The copies of a request, by where they are. *)
LEMMA CopiesType ==
  ASSUME DownloaderInv, NEW r
  PROVE  /\ InSequence(m_pending_requests, r) \in Nat
         /\ Queued(r) \in Nat
         /\ InSequence(outbound, r) \in Nat
         /\ CopiesToRemote(r) \in Nat
         /\ CopiesToRemote(r) = Queued(r) + InSequence(outbound, r)
         /\ InSequence(remote.requests, r) \in Nat
         /\ ComingIn(inbound, r) \in Nat
         /\ Served(r) \in Nat
         /\ CopiesUnderway(r) = CopiesToRemote(r) + Served(r)
<1>1. /\ m_pending_requests \in Seq(Requests) /\ outbound \in Seq(Outgoing)
      /\ inbound \in Seq(Incoming) /\ remote.requests \in Seq(Requests)
      /\ PeerTypeOK
  BY DEF DownloaderInv, OwnInv, Containers, NetworkTyped, PeerInv
<1>2. InSequence(m_send_queue, r) \in Nat /\ InLine(r) \in Nat /\ Queued(r) \in Nat
  BY <1>1, QueuedType
<1>3. /\ InSequence(m_pending_requests, r) \in Nat
      /\ InSequence(outbound, r) \in Nat
      /\ InSequence(remote.requests, r) \in Nat
  BY <1>1, InSequenceFacts
<1>4. ComingIn(inbound, r) \in Nat
  BY <1>1, ComingType
<1>5. Served(r) \in Nat
  BY <1>3, <1>4 DEF Served
<1>6. CopiesToRemote(r) = InSequence(m_send_queue, r) + InSequence(outbound, r)
                            + (IF hand = r THEN 1 ELSE 0) + InLine(r)
  BY DEF CopiesToRemote, InLine, InLineOf
<1>7. CopiesUnderway(r) = CopiesToRemote(r) + InSequence(remote.requests, r)
                            + ComingIn(inbound, r)
  BY DEF CopiesUnderway, ComingIn
<1>8. CopiesToRemote(r) = Queued(r) + InSequence(outbound, r)
  BY <1>2, <1>3, <1>6 DEF Queued
<1>9. CopiesToRemote(r) \in Nat
  BY <1>2, <1>3, <1>8
<1>10. CopiesUnderway(r) = CopiesToRemote(r) + Served(r)
  BY <1>3, <1>4, <1>7, <1>9 DEF Served
<1> QED BY <1>2, <1>3, <1>4, <1>5, <1>8, <1>9, <1>10

LEMMA WaitingIs ==
  ASSUME DownloaderInv, NEW r
  PROVE  Waiting(r) <=> InSequence(m_pending_requests, r) > 0
<1>1. m_pending_requests \in Seq(Requests)
  BY DEF DownloaderInv, OwnInv, Containers
<1> QED BY <1>1, InSequenceFacts DEF Waiting

CopiesAre ==
  \A r \in Requests :
    /\ InSequence(m_pending_requests, r) \in Nat
    /\ Queued(r) \in Nat
    /\ InSequence(outbound, r) \in Nat
    /\ CopiesToRemote(r) \in Nat
    /\ CopiesToRemote(r) = Queued(r) + InSequence(outbound, r)
    /\ InSequence(remote.requests, r) \in Nat
    /\ ComingIn(inbound, r) \in Nat
    /\ Served(r) \in Nat
    /\ Served(r) = InSequence(remote.requests, r) + ComingIn(inbound, r)
    /\ CopiesUnderway(r) \in Nat
    /\ CopiesUnderway(r) = CopiesToRemote(r) + Served(r)
    /\ Waiting(r) <=> InSequence(m_pending_requests, r) > 0

(* The same, for the state before a step and the one after it. *)
LEMMA CopiesNow == DownloaderInv => CopiesAre
<1> SUFFICES ASSUME DownloaderInv, NEW r \in Requests
             PROVE  /\ InSequence(m_pending_requests, r) \in Nat
                    /\ Queued(r) \in Nat
                    /\ InSequence(outbound, r) \in Nat
                    /\ CopiesToRemote(r) \in Nat
                    /\ CopiesToRemote(r) = Queued(r) + InSequence(outbound, r)
                    /\ InSequence(remote.requests, r) \in Nat
                    /\ ComingIn(inbound, r) \in Nat
                    /\ Served(r) \in Nat
                    /\ Served(r) = InSequence(remote.requests, r) + ComingIn(inbound, r)
                    /\ CopiesUnderway(r) \in Nat
                    /\ CopiesUnderway(r) = CopiesToRemote(r) + Served(r)
                    /\ Waiting(r) <=> InSequence(m_pending_requests, r) > 0
  BY DEF CopiesAre
<1>1. Served(r) = InSequence(remote.requests, r) + ComingIn(inbound, r)
  BY DEF Served
<1>2. Waiting(r) <=> InSequence(m_pending_requests, r) > 0
  BY WaitingIs
<1>3. /\ InSequence(m_pending_requests, r) \in Nat
      /\ Queued(r) \in Nat
      /\ InSequence(outbound, r) \in Nat
      /\ CopiesToRemote(r) \in Nat
      /\ CopiesToRemote(r) = Queued(r) + InSequence(outbound, r)
      /\ InSequence(remote.requests, r) \in Nat
      /\ ComingIn(inbound, r) \in Nat
      /\ Served(r) \in Nat
      /\ CopiesUnderway(r) = CopiesToRemote(r) + Served(r)
  BY CopiesType
<1>4. CopiesUnderway(r) \in Nat
  BY <1>3
<1> QED BY <1>1, <1>2, <1>3, <1>4

LEMMA CopiesThen == DownloaderInv' => CopiesAre'
BY CopiesNow, PTL

-----------------------------------------------------------------------------
(***************************************************************************)
(* What each step does to a request, wherever it is: one turn of           *)
(* send_buffered_messages moves it from the line to the active ones and    *)
(* sends a copy of it, or leaves it where it is.                           *)
(***************************************************************************)
Moves(r, pending, choked) ==
  /\ ~choked
  /\ r \in m_active_requests'
  /\ InSequence(pending, r) = InSequence(m_pending_requests, r)' + 1
  /\ CopiesToRemote(r)' = CopiesToRemote(r) + 1

Stays(r, pending, active) ==
  /\ r \in m_active_requests' <=> r \in active
  /\ InSequence(m_pending_requests, r)' = InSequence(pending, r)
  /\ CopiesToRemote(r)' = CopiesToRemote(r)

Turn(pending, active, choked) ==
  \A r \in Requests : Moves(r, pending, choked) \/ Stays(r, pending, active)

LEMMA TurnLemma ==
  ASSUME DownloaderInv, DownloaderInv', PeerSide, NEW t \in Tasks, NEW p,
         NEW pending \in Seq(Requests), NEW active, NEW choked,
         SendBuffered(t, p, pending, active, choked), UNCHANGED outbound
  PROVE  Turn(pending, active, choked)
<1> SUFFICES ASSUME NEW r \in Requests
             PROVE  Moves(r, pending, choked) \/ Stays(r, pending, active)
  BY DEF Turn
<1>1. /\ CopiesToRemote(r) = Queued(r) + InSequence(outbound, r)
      /\ Queued(r) \in Nat /\ InSequence(outbound, r) \in Nat
  BY CopiesType
<1>2. CopiesToRemote(r)' = Queued(r)' + InSequence(outbound, r)'
  BY CopiesThen DEF CopiesAre
<1>3. InSequence(outbound, r)' = InSequence(outbound, r)
  OBVIOUS
<1>4. CASE /\ MaySend(pending, active, choked)
           /\ m_active_requests' = active \cup {Head(pending)}
           /\ m_pending_requests' = Tail(pending)
           /\ AsyncSend(t, Head(pending))
  <2>1. pending # <<>> /\ ~choked
    BY <1>4 DEF MaySend
  <2>2. /\ Head(pending) \in Requests
        /\ InSequence(Tail(pending), r) \in Nat
        /\ InSequence(pending, r)
             = InSequence(Tail(pending), r) + (IF Head(pending) = r THEN 1 ELSE 0)
    BY <2>1, InTail
  <2>3. Queued(r)' = Queued(r) + (IF Head(pending) = r THEN 1 ELSE 0)
    <3>1. Head(pending) \in Messages
      BY <2>2, DownloaderAssumption DEF Messages
    <3>2. PICK m \in Messages : m = Head(pending) /\ AsyncSend(t, m)
      BY <1>4, <3>1
    <3>3. Queued(r)' = Queued(r) + (IF m = r THEN 1 ELSE 0)
      BY <3>2, SendCounts DEF DownloaderInv, PeerSide
    <3> QED BY <3>2, <3>3
  <2>4. InSequence(m_pending_requests, r)' = InSequence(Tail(pending), r)
    BY <1>4
  <2>5. CASE Head(pending) = r
    <3>1. CopiesToRemote(r)' = CopiesToRemote(r) + 1
      BY <1>1, <1>2, <1>3, <2>3, <2>5
    <3>2. InSequence(pending, r) = InSequence(m_pending_requests, r)' + 1
      BY <2>2, <2>4, <2>5
    <3> QED BY <1>4, <2>1, <2>5, <3>1, <3>2 DEF Moves
  <2>6. CASE Head(pending) # r
    <3>1. CopiesToRemote(r)' = CopiesToRemote(r)
      BY <1>1, <1>2, <1>3, <2>3, <2>6
    <3>2. InSequence(m_pending_requests, r)' = InSequence(pending, r)
      BY <2>2, <2>4, <2>6
    <3> QED BY <1>4, <2>6, <3>1, <3>2 DEF Stays
  <2> QED BY <2>5, <2>6
<1>5. CASE /\ m_active_requests' = active
           /\ m_pending_requests' = pending
           /\ UNCHANGED <<m_send_queue, waiters, send, hand>>
  <2>1. Queued(r)' = Queued(r)
    BY <1>5 DEF Queued, InLine
  <2>2. CopiesToRemote(r)' = CopiesToRemote(r)
    BY <1>1, <1>2, <1>3, <2>1
  <2> QED BY <1>5, <2>2 DEF Stays
<1> QED BY <1>4, <1>5 DEF SendBuffered

(* An async_send of something else than a request. *)
SameCopies == \A r \in Requests : CopiesToRemote(r)' = CopiesToRemote(r)

LEMMA SameCopiesLemma ==
  ASSUME DownloaderInv, DownloaderInv', UNCHANGED outbound,
         \A r \in Requests : Queued(r)' = Queued(r)
  PROVE  SameCopies
<1> SUFFICES ASSUME NEW r \in Requests
             PROVE  CopiesToRemote(r)' = CopiesToRemote(r)
  BY DEF SameCopies
<1>1. CopiesToRemote(r) = Queued(r) + InSequence(outbound, r)
  BY CopiesType
<1>2. CopiesToRemote(r)' = Queued(r)' + InSequence(outbound, r)'
  BY CopiesThen DEF CopiesAre
<1> QED BY <1>1, <1>2

LEMMA SameChannel ==
  ASSUME DownloaderInv, DownloaderInv',
         UNCHANGED <<outbound, m_send_queue, waiters, hand>>
  PROVE  SameCopies
<1>1. \A r \in Requests : Queued(r)' = Queued(r)
  BY DEF Queued, InLine
<1> QED BY <1>1, SameCopiesLemma

(* Client c waits to have its Interested queued, to ask for piece p. *)
Asks(c, p) == call[c] = [pc |-> "interested", piece |-> p]

SameAsks == \A c \in Clients : \A p \in Pieces : Asks(c, p)' <=> Asks(c, p)

AsksNothing(c) == \A p \in Pieces : ~Asks(c, p)

OthersAsk(c) == \A d \in Clients \ {c} : \A p \in Pieces : Asks(d, p)' <=> Asks(d, p)

LEMMA AsksFacts ==
  ASSUME NEW c, NEW p
  PROVE  /\ call[c] = Idle => ~Asks(c, p)
         /\ \A q : call[c] = [pc |-> "sending", piece |-> q] => ~Asks(c, p)
         /\ call[c].pc = "sending" => ~Asks(c, p)
         /\ Asks(c, p) => call[c].pc = "interested" /\ call[c].piece = p
<1>1. \A q : /\ [pc |-> "interested", piece |-> q].pc = "interested"
             /\ [pc |-> "interested", piece |-> q].piece = q
             /\ [pc |-> "sending", piece |-> q].pc = "sending"
  OBVIOUS
<1>2. Idle.pc = "idle"
  BY DEF Idle
<1> QED BY <1>1, <1>2 DEF Asks

(* A client's turn of the loop ends or continues its call. *)
LEMMA TurnAsks ==
  ASSUME DownloaderInv, NEW c \in Clients, NEW p, NEW pending, NEW active, NEW choked,
         SendBuffered(c, p, pending, active, choked)
  PROVE  OthersAsk(c) /\ AsksNothing(c)'
<1>1. PICK x : /\ call' = [call EXCEPT ![c] = x]
               /\ x = Idle \/ x = [pc |-> "sending", piece |-> p]
  BY PeerAssumption DEF SendBuffered, Continue, Leave
<1>2. call \in [Clients -> CallStates]
  BY DEF DownloaderInv, OwnInv, CallsFollow
<1>3. \A d \in Clients \ {c} : call'[d] = call[d]
  BY <1>1, <1>2
<1>4. OthersAsk(c)
  BY <1>3 DEF OthersAsk, Asks
<1>5. call'[c] = x
  BY <1>1, <1>2
<1>6. \A q : x # [pc |-> "interested", piece |-> q]
  <2>1. \A q : [pc |-> "interested", piece |-> q].pc = "interested"
    OBVIOUS
  <2>2. x.pc \in {"idle", "sending"}
    BY <1>1 DEF Idle
  <2> QED BY <2>1, <2>2
<1>7. AsksNothing(c)'
  BY <1>5, <1>6 DEF AsksNothing, Asks
<1> QED BY <1>4, <1>7

LEMMA LoopAsks ==
  ASSUME NEW pending, NEW active, NEW choked,
         SendBuffered(ReceiveLoop, 0, pending, active, choked)
  PROVE  SameAsks
<1>1. call' = call
  BY PeerAssumption DEF SendBuffered, Continue, Leave
<1> QED BY <1>1 DEF SameAsks, Asks

-----------------------------------------------------------------------------
(* The steps, one by one *)

(* The Peer's own steps lose copies only with the connection. *)
Quiet ==
  /\ UNCHANGED <<m_pieces, m_pending_requests, m_active_requests, call, stored,
                 inbound, remote, status>>
  /\ is_sender_active' => is_sender_active
  /\ link' = "up" => link = "up"
  /\ \A r \in Requests :
       /\ CopiesToRemote(r)' <= CopiesToRemote(r)
       /\ Connected' => CopiesToRemote(r)' = CopiesToRemote(r)

LEMMA PeerEffect ==
  ASSUME DownloaderInv, DownloaderInv', PeerSide, PeerStep \/ Write
  PROVE  Quiet
<1>1. PeerInternal \/ CallbackThrows \/ WriteOk
  BY DEF PeerStep, Write
<1>2. /\ UNCHANGED <<m_pieces, m_pending_requests, m_active_requests, call, stored,
                     inbound, remote>>
      /\ PeerStep => UNCHANGED outbound
  BY DEF PeerStep, Write, downloaderVars, networkVars
<1>3. UNCHANGED status
  BY <1>1, PeerKeeps DEF DownloaderInv
<1>4. /\ is_sender_active' => is_sender_active
      /\ link' = "up" => link = "up"
  BY <1>1
     DEF PeerInternal, SenderResume, WriteFails, WriteOk, SendLoopHead, SenderExit,
         ReadFails, CallbackThrows, StopDelivered, StopThrows, StartAsync,
         ConnectFails, JoinLoops, JoinThrows, Drop, activityVars
<1>5. ASSUME NEW r \in Requests
      PROVE  /\ CopiesToRemote(r)' <= CopiesToRemote(r)
             /\ Connected' => CopiesToRemote(r)' = CopiesToRemote(r)
  <2>1. /\ CopiesToRemote(r) = Queued(r) + InSequence(outbound, r)
        /\ Queued(r) \in Nat /\ InSequence(outbound, r) \in Nat
    BY CopiesNow DEF CopiesAre
  <2>2. /\ CopiesToRemote(r)' = Queued(r)' + InSequence(outbound, r)'
        /\ Queued(r)' \in Nat /\ InSequence(outbound, r)' \in Nat
    BY CopiesThen DEF CopiesAre
  <2>3. CASE Write
    <3>1. WriteOk
      BY <2>3 DEF Write
    <3>2. hand \in Outgoing /\ outbound \in Seq(Outgoing)
      BY <3>1 DEF WriteOk, DownloaderInv, LineInv, HandIsFull, Messages, PeerInv,
                  KeepaliveIsSentinel, OwnInv, NetworkTyped
    <3>3. InSequence(Append(outbound, hand), r)
            = InSequence(outbound, r) + (IF hand = r THEN 1 ELSE 0)
      BY <3>2, InAppend
    <3>4. InSequence(outbound, r)' =
            IF link = "up" THEN InSequence(Append(outbound, hand), r)
                           ELSE InSequence(outbound, r)
      BY <2>3 DEF Write
    <3>5. CASE SenderExit
      <4>1. Queued(r)' = 0 /\ ~Connected'
        BY <3>5, ExitCounts DEF Connected, SenderExit
      <4>2. Queued(r) >= (IF hand = r THEN 1 ELSE 0)
        <5>1. InSequence(m_send_queue, r) \in Nat /\ InLine(r) \in Nat
          BY QueuedType DEF DownloaderInv, PeerInv
        <5> QED BY <5>1 DEF Queued
      <4> QED BY <2>1, <2>2, <3>3, <3>4, <4>1, <4>2
    <3>6. CASE AsyncReceive
      <4>1. Queued(r)' + (IF hand = r THEN 1 ELSE 0) = Queued(r)
        BY <3>6, ReceiveCounts DEF DownloaderInv
      <4>2. Connected' => link = "up"
        BY <1>4 DEF Connected
      <4> QED BY <2>1, <2>2, <3>3, <3>4, <4>1, <4>2
    <3> QED BY <3>1, <3>5, <3>6 DEF WriteOk, SendLoopHead
  <2>4. CASE PeerStep
    <3>1. InSequence(outbound, r)' = InSequence(outbound, r)
      BY <1>2, <2>4
    <3>2. CASE SenderExit
      <4>1. Queued(r)' = 0 /\ ~Connected'
        BY <3>2, ExitCounts DEF Connected, SenderExit
      <4> QED BY <2>1, <2>2, <3>1, <4>1
    <3>3. CASE Queued(r)' = Queued(r)
      BY <2>1, <2>2, <3>1, <3>3
    <3>4. CASE UNCHANGED <<m_send_queue, waiters, hand>>
      BY <3>3, <3>4 DEF Queued, InLine
    <3>5. CASE AsyncSend(ReceiveLoop, Keepalive)
      <4>1. ReceiveLoop \in Tasks /\ Keepalive \in Messages /\ Keepalive # r
        BY RequestFacts DEF Tasks, Messages
      <4>2. Queued(r)' = Queued(r) + (IF Keepalive = r THEN 1 ELSE 0)
        BY <3>5, <4>1, SendCounts DEF DownloaderInv, PeerSide
      <4> QED BY <2>1, <3>3, <4>1, <4>2
    <3>6. CASE ReceiverExit
      BY <3>4, <3>5, <3>6 DEF ReceiverExit, internal_stop_sender
    <3>7. CASE SenderResume \/ WriteFails
      BY <3>2, <3>4, <3>7 DEF SenderResume, WriteFails, channelVars
    <3>8. CASE ReadFails \/ CallbackThrows
      BY <3>6, <3>8 DEF ReadFails, CallbackThrows
    <3>9. CASE StopDelivered \/ StopThrows \/ StartAsync \/ ConnectFails \/ JoinLoops
                 \/ JoinThrows \/ Drop
      BY <3>4, <3>9
         DEF StopDelivered, StopThrows, StartAsync, ConnectFails, JoinLoops,
             JoinThrows, Drop, channelVars
    <3> QED BY <2>4, <3>7, <3>8, <3>9 DEF PeerStep, PeerInternal
  <2> QED BY <2>3, <2>4
<1> QED BY <1>2, <1>3, <1>4, <1>5 DEF Quiet

Steady == UNCHANGED <<is_sender_active, link>>

(* A request was queued, and send_buffered_messages goes on. *)
GoesOn ==
  /\ Turn(m_pending_requests, m_active_requests, status.self_choked)
  /\ SameAsks
  /\ Steady
  /\ UNCHANGED <<m_pieces, stored, inbound, remote, status>>

LEMMA GoesOnEffect ==
  ASSUME DownloaderInv, DownloaderInv', PeerSide,
         CallbackResume \/ \E c \in Clients : RequestSent(c)
  PROVE  GoesOn
<1>1. m_pending_requests \in Seq(Requests)
  BY DEF DownloaderInv, OwnInv, Containers
<1>2. CASE CallbackResume
  <2>1. SendBuffered(ReceiveLoop, 0, m_pending_requests, m_active_requests,
                     status.self_choked)
        /\ Steady /\ UNCHANGED <<m_pieces, stored, outbound, inbound, remote, status>>
    BY <1>2 DEF CallbackResume, networkVars, activityVars, Steady
  <2>2. ReceiveLoop \in Tasks
    BY DEF Tasks
  <2>3. Turn(m_pending_requests, m_active_requests, status.self_choked)
    BY <1>1, <2>1, <2>2, TurnLemma
  <2>4. SameAsks
    BY <2>1, LoopAsks
  <2> QED BY <2>1, <2>3, <2>4 DEF GoesOn
<1>3. ASSUME NEW c \in Clients, RequestSent(c)
      PROVE  GoesOn
  <2>1. SendBuffered(c, call[c].piece, m_pending_requests, m_active_requests,
                     status.self_choked)
        /\ Steady /\ UNCHANGED <<m_pieces, stored, outbound, inbound, remote, status>>
        /\ call[c].pc = "sending"
    BY <1>3 DEF RequestSent, networkVars, activityVars, Steady
  <2>2. c \in Tasks
    BY DEF Tasks
  <2>3. Turn(m_pending_requests, m_active_requests, status.self_choked)
    BY <1>1, <2>1, <2>2, TurnLemma
  <2>4. OthersAsk(c) /\ AsksNothing(c)'
    BY <2>1, TurnAsks
  <2>5. AsksNothing(c)
    BY <2>1, AsksFacts DEF AsksNothing
  <2>6. SameAsks
    BY <2>4, <2>5 DEF SameAsks, OthersAsk, AsksNothing
  <2> QED BY <2>1, <2>3, <2>6 DEF GoesOn
<1> QED BY <1>2, <1>3

(* Interested was queued, and the requests of the piece get in line. *)
GetsInLine(c, p) ==
  /\ Asks(c, p)
  /\ Turn(m_pending_requests \o BlockRequests(p), m_active_requests, status.self_choked)
  /\ OthersAsk(c)
  /\ AsksNothing(c)'
  /\ Steady
  /\ UNCHANGED <<m_pieces, stored, inbound, remote, status>>

LEMMA GetsInLineEffect ==
  ASSUME DownloaderInv, DownloaderInv', PeerSide, NEW c \in Clients, InterestedSent(c)
  PROVE  \E p \in Pieces : GetsInLine(c, p)
<1>1. call[c] \in CallStates /\ call[c].pc = "interested"
  BY DEF DownloaderInv, OwnInv, CallsFollow, InterestedSent
<1>2. PICK p \in Pieces : call[c] = [pc |-> "interested", piece |-> p]
  BY <1>1 DEF CallStates
<1>3. call[c].piece = p /\ Asks(c, p)
  BY <1>2 DEF Asks
<1>4. /\ SendBuffered(c, p, m_pending_requests \o BlockRequests(p),
                      m_active_requests, status.self_choked)
      /\ Steady /\ UNCHANGED <<m_pieces, stored, outbound, inbound, remote, status>>
  BY <1>3 DEF InterestedSent, networkVars, activityVars, Steady
<1>5. m_pending_requests \o BlockRequests(p) \in Seq(Requests) /\ c \in Tasks
  BY BlockRequestsType DEF DownloaderInv, OwnInv, Containers, Tasks
<1>6. Turn(m_pending_requests \o BlockRequests(p), m_active_requests, status.self_choked)
  BY <1>4, <1>5, TurnLemma
<1>7. OthersAsk(c) /\ AsksNothing(c)'
  BY <1>4, TurnAsks
<1> QED BY <1>3, <1>4, <1>6, <1>7 DEF GetsInLine

(* A call that was waiting in the channel throws. *)
GivesUp(c) ==
  /\ await[c] = "cancelled"
  /\ OthersAsk(c)
  /\ AsksNothing(c)'
  /\ SameCopies
  /\ Steady
  /\ UNCHANGED <<m_pieces, m_pending_requests, m_active_requests, stored, inbound,
                 remote, status>>

LEMMA GivesUpEffect ==
  ASSUME DownloaderInv, DownloaderInv', NEW c \in Clients, CallThrows(c)
  PROVE  GivesUp(c)
<1>1. /\ await[c] = "cancelled" /\ Steady
      /\ call' = [call EXCEPT ![c] = Idle]
      /\ UNCHANGED <<m_pieces, m_pending_requests, m_active_requests, stored, inbound,
                     outbound, remote, status, m_send_queue, waiters, hand>>
  BY DEF CallThrows, networkVars, activityVars, Steady
<1>2. call \in [Clients -> CallStates]
  BY DEF DownloaderInv, OwnInv, CallsFollow
<1>3. call'[c] = Idle /\ \A d \in Clients \ {c} : call'[d] = call[d]
  BY <1>1, <1>2
<1>4. OthersAsk(c)
  BY <1>3 DEF OthersAsk, Asks
<1>5. AsksNothing(c)'
  <2>1. \A p : Idle # [pc |-> "interested", piece |-> p]
    <3>1. \A p : [pc |-> "interested", piece |-> p].pc = "interested"
      OBVIOUS
    <3>2. Idle.pc = "idle"
      BY DEF Idle
    <3> QED BY <3>1, <3>2
  <2> QED BY <1>3, <2>1 DEF AsksNothing, Asks
<1>6. SameCopies
  BY <1>1, SameChannel
<1> QED BY <1>1, <1>4, <1>5, <1>6 DEF GivesUp

(* download_piece, by a client that asks for nothing yet. *)
Downloads(c, p) ==
  /\ AsksNothing(c)
  /\ m_pieces' = [q \in DOMAIN m_pieces \cup {p} |->
                    IF q = p THEN FreshPiece(p) ELSE m_pieces[q]]
  /\ \/ SecondCopies
     \/ p \notin DOMAIN m_pieces
     \/ m_pieces[p].status = "Complete" /\ ~HashMatches(p)
  /\ \/ /\ status.self_choked
        /\ SameCopies
        /\ Asks(c, p)'
        /\ \A q \in Pieces \ {p} : ~Asks(c, q)'
        /\ OthersAsk(c)
        /\ UNCHANGED <<m_pending_requests, m_active_requests>>
     \/ /\ ~status.self_choked
        /\ Turn(m_pending_requests \o BlockRequests(p), m_active_requests, FALSE)
        /\ SameAsks
  /\ Steady
  /\ UNCHANGED <<stored, inbound, remote, status>>

LEMMA DownloadsEffect ==
  ASSUME DownloaderInv, DownloaderInv', PeerSide, NEW c \in Clients, NEW p \in Pieces,
         call[c] = Idle, download_piece(c, p),
         \/ SecondCopies
         \/ p \notin DOMAIN m_pieces
         \/ m_pieces[p].status = "Complete" /\ ~HashMatches(p),
         UNCHANGED <<is_sender_active, link, stored, outbound, inbound, remote, status>>
  PROVE  Downloads(c, p)
<1>1. AsksNothing(c)
  BY AsksFacts DEF AsksNothing
<1>2. m_pieces' = [q \in DOMAIN m_pieces \cup {p} |->
                     IF q = p THEN FreshPiece(p) ELSE m_pieces[q]]
  BY DEF download_piece
<1>3. c \in Tasks /\ call \in [Clients -> CallStates]
  BY DEF Tasks, DownloaderInv, OwnInv, CallsFollow
<1>4. CASE /\ status.self_choked
           /\ AsyncSend(c, Interested)
           /\ call' = [call EXCEPT ![c] = [pc |-> "interested", piece |-> p]]
           /\ UNCHANGED <<m_pending_requests, m_active_requests, recv>>
  <2>1. Interested \in Messages
    BY DownloaderAssumption DEF Messages
  <2>2. \A r \in Requests : Queued(r)' = Queued(r)
    <3> SUFFICES ASSUME NEW r \in Requests PROVE Queued(r)' = Queued(r)
      OBVIOUS
    <3>1. Queued(r)' = Queued(r) + (IF Interested = r THEN 1 ELSE 0)
      BY <1>3, <1>4, <2>1, SendCounts DEF DownloaderInv, PeerSide
    <3>2. Interested # r /\ Queued(r) \in Nat
      BY RequestFacts, CopiesNow DEF CopiesAre
    <3> QED BY <3>1, <3>2
  <2>3. SameCopies
    BY <2>2, SameCopiesLemma
  <2>4. /\ call'[c] = [pc |-> "interested", piece |-> p]
        /\ \A d \in Clients \ {c} : call'[d] = call[d]
    BY <1>3, <1>4
  <2>5. Asks(c, p)' /\ OthersAsk(c)
    BY <2>4 DEF Asks, OthersAsk
  <2>6. \A q \in Pieces \ {p} : ~Asks(c, q)'
    <3>1. \A q \in Pieces \ {p} :
            [pc |-> "interested", piece |-> p] # [pc |-> "interested", piece |-> q]
      <4>1. \A q : [pc |-> "interested", piece |-> q].piece = q
        OBVIOUS
      <4> QED BY <4>1
    <3> QED BY <2>4, <3>1 DEF Asks
  <2> QED BY <1>1, <1>2, <1>4, <2>3, <2>5, <2>6 DEF Downloads, Steady
<1>5. CASE /\ ~status.self_choked
           /\ SendBuffered(c, p, m_pending_requests \o BlockRequests(p),
                           m_active_requests, status.self_choked)
  <2>1. m_pending_requests \o BlockRequests(p) \in Seq(Requests)
    BY BlockRequestsType DEF DownloaderInv, OwnInv, Containers
  <2>2. status.self_choked \in BOOLEAN => status.self_choked = FALSE
    BY <1>5
  <2>3. Turn(m_pending_requests \o BlockRequests(p), m_active_requests, status.self_choked)
    BY <1>3, <1>5, <2>1, TurnLemma
  <2>4. Turn(m_pending_requests \o BlockRequests(p), m_active_requests, FALSE)
    BY <2>3 DEF Turn, Moves
  <2>5. OthersAsk(c) /\ AsksNothing(c)'
    BY <1>5, TurnAsks
  <2>6. SameAsks
    BY <1>1, <2>5 DEF SameAsks, OthersAsk, AsksNothing
  <2> QED BY <1>1, <1>2, <1>5, <2>4, <2>6 DEF Downloads, Steady
<1> QED BY <1>4, <1>5 DEF download_piece

(* retrieve_piece hands a piece out. *)
Takes(p) ==
  /\ p \in DOMAIN m_pieces
  /\ m_pieces[p].status = "Complete"
  /\ HashMatches(p)
  /\ stored' = stored \cup {p}
  /\ m_pieces' = [q \in DOMAIN m_pieces \ {p} |-> m_pieces[q]]
  /\ SameCopies
  /\ SameAsks
  /\ Steady
  /\ UNCHANGED <<m_pending_requests, m_active_requests, inbound, remote, status>>

LEMMA StrategyEffect ==
  ASSUME DownloaderInv, DownloaderInv', PeerSide, NEW c \in Clients, NEW p \in Pieces,
         AssignPiece(c, p) \/ PollPiece(c, p)
  PROVE  Downloads(c, p) \/ Takes(p)
<1>1. CASE AssignPiece(c, p)
  <2>1. /\ call[c] = Idle /\ download_piece(c, p)
        /\ SecondCopies \/ p \notin DOMAIN m_pieces
        /\ UNCHANGED <<is_sender_active, link, stored, outbound, inbound, remote, status>>
    BY <1>1 DEF AssignPiece, activityVars
  <2> QED BY <2>1, DownloadsEffect
<1>2. CASE PollPiece(c, p)
  <2>1. /\ call[c] = Idle /\ p \in DOMAIN m_pieces /\ m_pieces[p].status = "Complete"
        /\ UNCHANGED <<is_sender_active, link, outbound, inbound, remote, status>>
    BY <1>2 DEF PollPiece, activityVars, networkVars
  <2>2. CASE ~HashMatches(p) /\ download_piece(c, p) /\ UNCHANGED stored
    BY <2>1, <2>2, DownloadsEffect
  <2>3. CASE /\ HashMatches(p)
             /\ stored' = stored \cup {p}
             /\ m_pieces' = [q \in DOMAIN m_pieces \ {p} |-> m_pieces[q]]
             /\ UNCHANGED <<m_pending_requests, m_active_requests, call,
                            channelVars, send, hand, recv>>
    <3>1. SameCopies
      BY <2>1, <2>3, SameChannel DEF channelVars
    <3>2. SameAsks
      BY <2>3 DEF SameAsks, Asks
    <3> QED BY <2>1, <2>3, <3>1, <3>2 DEF Takes, Steady
  <2> QED BY <1>2, <2>2, <2>3 DEF PollPiece
<1> QED BY <1>1, <1>2

(* The types that DownloaderInv does not say. *)
BlockTypes ==
  /\ status \in [self_choked : BOOLEAN, remote_bitfield : SUBSET Pieces]
  /\ DOMAIN m_pieces \subseteq Pieces
  /\ \A p \in DOMAIN m_pieces : m_pieces[p] \in FilePiece(p)
  /\ stored \subseteq Pieces
  /\ budget \in [calls : 0..MaxCalls, chokes : 0..MaxChokes, bad : 0..MaxBad]

(* The messages, and what handle_message makes of them. *)
LEMMA IncomingFacts ==
  ASSUME NEW m \in Incoming
  PROVE  /\ m.type \in {"Piece", "Choke", "Unchoke", "Have", "BitField"}
         /\ m.type = "Piece" => /\ m.block \in Requests
                                /\ m.content \in {"good", "bad"}
         /\ m.type = "Have" => m.piece_index \in Pieces
         /\ m.type = "BitField" => m.pieces \in SUBSET Pieces
BY DownloaderAssumption DEF Answers, Signals

LEMMA HandleMessage ==
  ASSUME BlockTypes, NEW m \in Incoming
  PROVE  /\ handle_message(m) \in [self_choked : BOOLEAN, remote_bitfield : SUBSET Pieces]
         /\ m.type = "Piece" => handle_message(m) = status
         /\ m.type = "Choke" => handle_message(m).self_choked
         /\ m.type = "Unchoke" => ~handle_message(m).self_choked
         /\ m.type \in {"Have", "BitField"} =>
              handle_message(m).self_choked = status.self_choked
<1>1. /\ m.type \in {"Piece", "Choke", "Unchoke", "Have", "BitField"}
      /\ m.type = "Have" => m.piece_index \in Pieces
      /\ m.type = "BitField" => m.pieces \in SUBSET Pieces
  BY IncomingFacts
<1>2. status \in [self_choked : BOOLEAN, remote_bitfield : SUBSET Pieces]
  BY DEF BlockTypes
<1>3. CASE m.type = "Piece"
  BY <1>2, <1>3 DEF handle_message
<1>4. CASE m.type = "Choke"
  BY <1>2, <1>4 DEF handle_message
<1>5. CASE m.type = "Unchoke"
  BY <1>2, <1>5 DEF handle_message
<1>6. CASE m.type = "Have"
  BY <1>1, <1>2, <1>6 DEF handle_message
<1>7. CASE m.type = "BitField"
  BY <1>1, <1>2, <1>7 DEF handle_message
<1> QED BY <1>1, <1>3, <1>4, <1>5, <1>6, <1>7

(* What the receive loop does with the four kinds of messages. *)
Reads(m) ==
  /\ inbound # <<>>
  /\ m = Head(inbound)
  /\ inbound' = Tail(inbound)
  /\ status' = handle_message(m)
  /\ SameAsks
  /\ Steady
  /\ UNCHANGED <<stored, remote>>

ReadsBlock(m) ==
  /\ Reads(m)
  /\ m.type = "Piece"
  /\ m_pieces' = PiecesAfter(m)
  /\ Turn(m_pending_requests, ActiveAfter(m), status.self_choked)

ReadsChoke(m) ==
  /\ Reads(m)
  /\ m.type = "Choke"
  /\ UNCHANGED m_pieces
  /\ m_active_requests' = {}
  /\ SameCopies
  /\ \A r \in Requests :
       InSequence(m_pending_requests, r)'
         = InSequence(m_pending_requests, r) + (IF r \in m_active_requests THEN 1 ELSE 0)

ReadsUnchoke(m) ==
  /\ Reads(m)
  /\ m.type = "Unchoke"
  /\ UNCHANGED m_pieces
  /\ Turn(m_pending_requests, m_active_requests, FALSE)

ReadsNews(m) ==
  /\ Reads(m)
  /\ m.type \in {"Have", "BitField"}
  /\ SameCopies
  /\ UNCHANGED <<m_pieces, m_pending_requests, m_active_requests>>

LEMMA ReceiveEffect ==
  ASSUME DownloaderInv, DownloaderInv', PeerSide, ReceiveMessage
  PROVE  \E m \in Incoming :
           ReadsBlock(m) \/ ReadsChoke(m) \/ ReadsUnchoke(m) \/ ReadsNews(m)
<1>1. /\ inbound # <<>> /\ inbound' = Tail(inbound) /\ Steady
      /\ UNCHANGED <<stored, remote, outbound>>
  BY DEF ReceiveMessage, activityVars, Steady
<1>2. PICK m \in Incoming : m = Head(inbound)
  BY <1>1 DEF DownloaderInv, OwnInv, NetworkTyped
<1>3. /\ m_pending_requests \in Seq(Requests)
      /\ m_active_requests \in SUBSET Requests
      /\ IsFiniteSet(m_active_requests)
      /\ ReceiveLoop \in Tasks
  BY DEF DownloaderInv, OwnInv, Containers, Tasks
<1>4. status' = handle_message(m)
  BY <1>2 DEF ReceiveMessage
<1>5. ASSUME SameAsks PROVE Reads(m)
  BY <1>1, <1>2, <1>4, <1>5 DEF Reads
<1>6. CASE /\ m.type = "Piece"
           /\ m_pieces' = PiecesAfter(m)
           /\ SendBuffered(ReceiveLoop, 0, m_pending_requests, ActiveAfter(m),
                           status.self_choked)
  <2>1. SameAsks
    BY <1>6, LoopAsks
  <2>2. Turn(m_pending_requests, ActiveAfter(m), status.self_choked)
    BY <1>1, <1>3, <1>6, TurnLemma
  <2> QED BY <1>5, <1>6, <2>1, <2>2 DEF ReadsBlock
<1>7. ASSUME m.type = "Choke", UNCHANGED m_pieces, NEW front \in Requeued(m_active_requests),
             SendBuffered(ReceiveLoop, 0, front \o m_pending_requests, {}, TRUE)
      PROVE  ReadsChoke(m)
  <2>1. SameAsks
    BY <1>7, LoopAsks
  <2>2. front \in Seq(Requests)
    BY <1>3, RequeuedType
  <2>3. front \o m_pending_requests \in Seq(Requests)
    BY <1>3, <2>2
  <2>4. /\ m_active_requests' = {}
        /\ m_pending_requests' = front \o m_pending_requests
        /\ UNCHANGED <<m_send_queue, waiters, send, hand>>
    BY <1>7 DEF SendBuffered, MaySend
  <2>5. SameCopies
    BY <1>1, <2>4, SameChannel
  <2>6. ASSUME NEW r \in Requests
        PROVE  InSequence(m_pending_requests, r)'
                 = InSequence(m_pending_requests, r) + (IF r \in m_active_requests THEN 1 ELSE 0)
    <3>1. /\ InSequence(front \o m_pending_requests, r)
               = InSequence(front, r) + InSequence(m_pending_requests, r)
          /\ InSequence(m_pending_requests, r) \in Nat
      BY <1>3, <2>2, InConcat
    <3>2. InSequence(front, r) = IF r \in m_active_requests THEN 1 ELSE 0
      BY <1>3, RequeuedOnce
    <3>3. InSequence(m_pending_requests, r)' = InSequence(front \o m_pending_requests, r)
      BY <2>4
    <3> QED BY <3>1, <3>2, <3>3
  <2> QED BY <1>5, <1>7, <2>1, <2>4, <2>5, <2>6 DEF ReadsChoke
<1>8. CASE /\ m.type = "Unchoke"
           /\ SendBuffered(ReceiveLoop, 0, m_pending_requests, m_active_requests, FALSE)
           /\ UNCHANGED m_pieces
  <2>1. SameAsks
    BY <1>8, LoopAsks
  <2>2. Turn(m_pending_requests, m_active_requests, FALSE)
    BY <1>1, <1>3, <1>8, TurnLemma
  <2> QED BY <1>5, <1>8, <2>1, <2>2 DEF ReadsUnchoke
<1>9. CASE /\ m.type \in {"Have", "BitField"}
           /\ UNCHANGED <<m_pieces, m_pending_requests, m_active_requests,
                          call, channelVars, send, hand, recv>>
  <2>1. SameAsks
    BY <1>9 DEF SameAsks, Asks
  <2>2. SameCopies
    BY <1>1, <1>9, SameChannel DEF channelVars
  <2> QED BY <1>5, <1>9, <2>1, <2>2 DEF ReadsNews
<1> QED BY <1>2, <1>6, <1>7, <1>8, <1>9 DEF ReceiveMessage

(* What the remote peer's steps leave alone. *)
OursUntouched ==
  UNCHANGED <<m_pieces, m_pending_requests, m_active_requests, call, stored, status,
              is_sender_active, link>>

(* It takes a request, or drops it. *)
TookOne ==
  /\ OursUntouched
  /\ UNCHANGED inbound
  /\ remote'.choking = remote.choking
  /\ remote.choking => remote'.requests = remote.requests
  /\ \A r \in Requests :
       IF remote.choking
       THEN Served(r)' = Served(r) /\ CopiesToRemote(r)' <= CopiesToRemote(r)
       ELSE CopiesUnderway(r)' = CopiesUnderway(r)

(* It sends something: a block it was asked for, or a signal. *)
SaidOne(m) ==
  /\ OursUntouched
  /\ SameCopies
  /\ inbound' = Append(inbound, m)

Answered(m) ==
  /\ SaidOne(m)
  /\ m.type = "Piece"
  /\ remote.requests # <<>>
  /\ remote'.choking = remote.choking
  /\ \A r \in Requests : Served(r)' = Served(r)

Choked(m) ==
  /\ SaidOne(m)
  /\ m.type = "Choke"
  /\ ~remote.choking
  /\ remote'.choking /\ remote'.requests = <<>>
  /\ \A r \in Requests : Served(r)' <= Served(r)

Unchoked(m) ==
  /\ SaidOne(m)
  /\ m.type = "Unchoke"
  /\ remote.choking
  /\ SecondCopies \/ (~ChokeUnderway /\ \A r \in Requests : CopiesToRemote(r) = 0)
  /\ ~remote'.choking
  /\ \A r \in Requests : Served(r)' = Served(r)

Announced(m) ==
  /\ SaidOne(m)
  /\ m.type = "Have"
  /\ remote'.choking = remote.choking /\ remote'.requests = remote.requests
  /\ \A r \in Requests : Served(r)' = Served(r)

LEMMA TookOneEffect ==
  ASSUME DownloaderInv, DownloaderInv', RemoteTakes
  PROVE  TookOne
<1>1. OursUntouched /\ UNCHANGED <<inbound, m_send_queue, waiters, hand>>
  BY DEF RemoteTakes, OursUntouched, peerVars, downloaderVars
<1>2. /\ outbound # <<>> /\ outbound \in Seq(Outgoing)
      /\ outbound' = Tail(outbound)
      /\ remote \in [choking : BOOLEAN, interested : BOOLEAN,
                     requests : Seq(Requests), has : SUBSET Pieces]
  BY DEF RemoteTakes, DownloaderInv, OwnInv, NetworkTyped
<1>3. PICK x \in Outgoing : x = Head(outbound)
  BY <1>2
<1>4. /\ remote'.choking = remote.choking
      /\ remote.choking \/ x = Interested => remote'.requests = remote.requests
      /\ ~remote.choking /\ x # Interested => remote'.requests = Append(remote.requests, x)
  BY <1>2, <1>3 DEF RemoteTakes
<1>5. ASSUME NEW r \in Requests
      PROVE  IF remote.choking
             THEN Served(r)' = Served(r) /\ CopiesToRemote(r)' <= CopiesToRemote(r)
             ELSE CopiesUnderway(r)' = CopiesUnderway(r)
  <2>1. /\ CopiesToRemote(r) = Queued(r) + InSequence(outbound, r)
        /\ Queued(r) \in Nat /\ InSequence(outbound, r) \in Nat
        /\ InSequence(remote.requests, r) \in Nat /\ ComingIn(inbound, r) \in Nat
        /\ Served(r) = InSequence(remote.requests, r) + ComingIn(inbound, r)
        /\ CopiesUnderway(r) = CopiesToRemote(r) + Served(r)
    BY CopiesNow DEF CopiesAre
  <2>2. /\ CopiesToRemote(r)' = Queued(r)' + InSequence(outbound, r)'
        /\ Served(r)' = InSequence(remote.requests, r)' + ComingIn(inbound, r)'
        /\ CopiesUnderway(r)' = CopiesToRemote(r)' + Served(r)'
    BY CopiesThen DEF CopiesAre
  <2>3. Queued(r)' = Queued(r) /\ ComingIn(inbound, r)' = ComingIn(inbound, r)
    BY <1>1 DEF Queued, InLine
  <2>4. /\ InSequence(outbound, r)' \in Nat
        /\ InSequence(outbound, r) = InSequence(outbound, r)' + (IF x = r THEN 1 ELSE 0)
    <3>1. /\ InSequence(Tail(outbound), r) \in Nat
          /\ InSequence(outbound, r)
               = InSequence(Tail(outbound), r) + (IF Head(outbound) = r THEN 1 ELSE 0)
      BY <1>2, InTail
    <3>2. InSequence(outbound, r)' = InSequence(Tail(outbound), r)
      BY <1>2
    <3> QED BY <1>3, <3>1, <3>2
  <2>5. CASE remote.choking \/ x = Interested
    <3>1. InSequence(remote.requests, r)' = InSequence(remote.requests, r)
      BY <1>4, <2>5
    <3>2. x = Interested => x # r
      BY RequestFacts
    <3> QED BY <2>1, <2>2, <2>3, <2>4, <2>5, <3>1, <3>2
  <2>6. CASE ~remote.choking /\ x # Interested
    <3>1. x \in Requests /\ remote.requests \in Seq(Requests)
      BY <1>2, <2>6, DownloaderAssumption
    <3>2. InSequence(Append(remote.requests, x), r)
            = InSequence(remote.requests, r) + (IF x = r THEN 1 ELSE 0)
      BY <3>1, InAppend
    <3>3. InSequence(remote.requests, r)' = InSequence(Append(remote.requests, x), r)
      BY <1>4, <2>6
    <3> QED BY <2>1, <2>2, <2>3, <2>4, <2>6, <3>2, <3>3
  <2> QED BY <2>5, <2>6
<1> QED BY <1>1, <1>4, <1>5 DEF TookOne

LEMMA SaidEffect ==
  ASSUME DownloaderInv, DownloaderInv',
         RemoteServes \/ RemoteChokes \/ RemoteUnchokes \/ \E p \in Pieces : RemoteGets(p)
  PROVE  \E m \in Incoming : Answered(m) \/ Choked(m) \/ Unchoked(m) \/ Announced(m)
<1>1. OursUntouched /\ UNCHANGED <<outbound, m_send_queue, waiters, hand>>
  BY DEF RemoteServes, RemoteChokes, RemoteUnchokes, RemoteGets, OursUntouched,
         peerVars, downloaderVars
<1>2. SameCopies
  BY <1>1, SameChannel
<1>3. /\ inbound \in Seq(Incoming)
      /\ remote \in [choking : BOOLEAN, interested : BOOLEAN,
                     requests : Seq(Requests), has : SUBSET Pieces]
  BY DEF DownloaderInv, OwnInv, NetworkTyped
<1>4. ASSUME NEW m \in Incoming, inbound' = Append(inbound, m), NEW r \in Requests
      PROVE  /\ Served(r) = InSequence(remote.requests, r) + ComingIn(inbound, r)
             /\ InSequence(remote.requests, r) \in Nat /\ ComingIn(inbound, r) \in Nat
             /\ Served(r)' = InSequence(remote.requests, r)' + ComingIn(inbound, r)
                               + (IF m.type = "Piece" /\ m.block = r THEN 1 ELSE 0)
             /\ InSequence(remote.requests, r)' \in Nat
  <2>1. ComingIn(Append(inbound, m), r)
          = ComingIn(inbound, r) + (IF m.type = "Piece" /\ m.block = r THEN 1 ELSE 0)
    BY <1>3, ComingAppend
  <2>2. ComingIn(inbound, r)' = ComingIn(Append(inbound, m), r)
    BY <1>4
  <2>3. /\ InSequence(remote.requests, r) \in Nat /\ ComingIn(inbound, r) \in Nat
        /\ Served(r) = InSequence(remote.requests, r) + ComingIn(inbound, r)
    BY CopiesNow DEF CopiesAre
  <2>4. /\ Served(r)' = InSequence(remote.requests, r)' + ComingIn(inbound, r)'
        /\ InSequence(remote.requests, r)' \in Nat
    BY CopiesThen DEF CopiesAre
  <2> QED BY <2>1, <2>2, <2>3, <2>4
<1>5. CASE RemoteServes
  <2>1. PICK content \in {"good", "bad"} :
          inbound' = Append(inbound, [type |-> "Piece", block |-> Head(remote.requests),
                                      content |-> content])
    BY <1>5 DEF RemoteServes
  <2>2. /\ remote.requests # <<>> /\ remote'.requests = Tail(remote.requests)
        /\ remote'.choking = remote.choking
        /\ Head(remote.requests) \in Requests
    BY <1>3, <1>5 DEF RemoteServes
  <2>3. PICK m \in Incoming : /\ inbound' = Append(inbound, m)
                              /\ m.type = "Piece" /\ m.block = Head(remote.requests)
    <3>1. PICK m : m = [type |-> "Piece", block |-> Head(remote.requests),
                        content |-> content]
      OBVIOUS
    <3>2. m \in Incoming
      BY <2>2, <3>1, DownloaderAssumption DEF Answers
    <3>3. m.type = "Piece" /\ m.block = Head(remote.requests)
      BY <3>1
    <3> QED BY <2>1, <3>1, <3>2, <3>3
  <2>4. ASSUME NEW r \in Requests
        PROVE  Served(r)' = Served(r)
    <3>1. InSequence(remote.requests, r)
            = InSequence(Tail(remote.requests), r)
                + (IF Head(remote.requests) = r THEN 1 ELSE 0)
      BY <1>3, <2>2, InTail
    <3>2. InSequence(remote.requests, r)' = InSequence(Tail(remote.requests), r)
      BY <2>2
    <3> QED BY <1>4, <2>3, <3>1, <3>2
  <2>5. Answered(m)
    BY <1>1, <1>2, <2>2, <2>3, <2>4 DEF Answered, SaidOne
  <2> QED BY <2>5
<1>6. CASE RemoteChokes
  <2>1. PICK m \in Incoming : m = [type |-> "Choke"]
    BY DownloaderAssumption DEF Signals
  <2>2. m.type = "Choke"
    BY <2>1
  <2>3. /\ inbound' = Append(inbound, m)
        /\ ~remote.choking /\ remote'.choking /\ remote'.requests = <<>>
    BY <1>3, <1>6, <2>1 DEF RemoteChokes
  <2>4. ASSUME NEW r \in Requests
        PROVE  Served(r)' <= Served(r)
    <3>1. InSequence(remote.requests, r)' = InSequence(<<>>, r)
      BY <2>3
    <3>2. InSequence(<<>>, r) = 0
      BY <1>3, InSequenceFacts
    <3> QED BY <1>4, <2>2, <2>3, <3>1, <3>2
  <2>5. Choked(m)
    BY <1>1, <1>2, <2>2, <2>3, <2>4 DEF Choked, SaidOne
  <2> QED BY <2>5
<1>7. CASE RemoteUnchokes
  <2>1. PICK m \in Incoming : m = [type |-> "Unchoke"]
    BY DownloaderAssumption DEF Signals
  <2>2. m.type = "Unchoke"
    BY <2>1
  <2>3. /\ inbound' = Append(inbound, m)
        /\ remote.choking /\ ~remote'.choking /\ remote'.requests = remote.requests
        /\ SecondCopies \/ (~ChokeUnderway /\ \A r \in Requests : CopiesToRemote(r) = 0)
    BY <1>3, <1>7, <2>1 DEF RemoteUnchokes
  <2>4. ASSUME NEW r \in Requests
        PROVE  Served(r)' = Served(r)
    <3>1. InSequence(remote.requests, r)' = InSequence(remote.requests, r)
      BY <2>3
    <3> QED BY <1>4, <2>2, <2>3, <3>1
  <2>5. Unchoked(m)
    BY <1>1, <1>2, <2>2, <2>3, <2>4 DEF Unchoked, SaidOne
  <2> QED BY <2>5
<1>8. ASSUME NEW p \in Pieces, RemoteGets(p)
      PROVE  \E m \in Incoming : Announced(m)
  <2>1. PICK m \in Incoming : m = [type |-> "Have", piece_index |-> p]
    BY DownloaderAssumption DEF Signals
  <2>2. m.type = "Have"
    BY <2>1
  <2>3. /\ inbound' = Append(inbound, m)
        /\ remote'.choking = remote.choking /\ remote'.requests = remote.requests
    BY <1>3, <1>8, <2>1 DEF RemoteGets
  <2>4. ASSUME NEW r \in Requests
        PROVE  Served(r)' = Served(r)
    <3>1. InSequence(remote.requests, r)' = InSequence(remote.requests, r)
      BY <2>3
    <3> QED BY <1>4, <2>2, <2>3, <3>1
  <2>5. Announced(m)
    BY <1>1, <1>2, <2>2, <2>3, <2>4 DEF Announced, SaidOne
  <2> QED BY <2>5
<1> QED BY <1>5, <1>6, <1>7, <1>8

-----------------------------------------------------------------------------
(* Nothing is known, asked for or sent before the connection is there. *)
Begins ==
  recv = "off" =>
    /\ DOMAIN m_pieces = {} /\ stored = {}
    /\ m_pending_requests = <<>> /\ m_active_requests = {}
    /\ status.self_choked /\ remote.choking /\ remote.requests = <<>>
    /\ inbound = <<>> /\ link # "up"

LEMMA BeginsStep ==
  ASSUME DownloaderInv, DownloaderInv', PeerSide, Begins, [Next]_vars
  PROVE  Begins'
<1>1. CASE UNCHANGED vars
  BY <1>1 DEF vars, peerVars, downloaderVars, networkVars, Begins
<1>2. CASE PeerStep \/ Write
  <2>1. Quiet
    BY <1>2, PeerEffect
  <2>2. recv' = "off" => recv = "off"
    BY <1>2, PeerKeeps DEF PeerStep, Write, DownloaderInv
  <2> QED BY <2>1, <2>2 DEF Quiet, Begins
<1>3. CASE Connect
  BY <1>3 DEF Connect, ConnectOk, Begins
<1>4. CASE ReceiveMessage
  <2>1. recv = "reading"
    BY <1>4 DEF ReceiveMessage
  <2>2. recv' # "off"
    BY <1>4, <2>1, PeerAssumption DEF ReceiveMessage, SendBuffered, Continue, Leave
  <2> QED BY <2>2 DEF Begins
<1>5. CASE CallbackResume
  BY <1>5, PeerAssumption DEF CallbackResume, SendBuffered, Continue, Leave, Begins
<1>6. CASE \E c \in Clients : Call(c)
  <2>1. PICK c \in Clients : Call(c)
    BY <1>6
  <2>2. recv # "off"
    BY <2>1 DEF Call, InterestedSent, RequestSent, CallThrows, DownloaderInv, OwnInv,
                CallsFollow, Idle
  <2>3. recv' = recv
    BY <2>1, PeerAssumption
       DEF Call, InterestedSent, RequestSent, CallThrows, SendBuffered, Continue, Leave
  <2> QED BY <2>2, <2>3 DEF Begins
<1>7. ASSUME NEW c \in Clients, NEW p \in Pieces, AssignPiece(c, p) \/ PollPiece(c, p)
      PROVE  Begins'
  <2>1. recv # "off"
    <3>1. p \in status.remote_bitfield \/ p \in DOMAIN m_pieces
      BY <1>7 DEF AssignPiece, PollPiece, download_piece
    <3> QED BY <3>1 DEF Begins, DownloaderInv, OwnInv, PiecesKnown
  <2>2. recv' = recv
    <3>1. ASSUME download_piece(c, p) PROVE recv' = recv
      BY <3>1, PeerAssumption DEF download_piece, SendBuffered, Continue, Leave
    <3> QED BY <1>7, <3>1 DEF AssignPiece, PollPiece
  <2> QED BY <2>1, <2>2 DEF Begins
<1>8. CASE Remote
  <2>1. link = "up" /\ recv' = recv
    BY <1>8 DEF Remote, RemoteTakes, RemoteServes, RemoteChokes, RemoteUnchokes,
                RemoteGets, peerVars
  <2> QED BY <2>1 DEF Begins
<1> QED BY <1>1, <1>2, <1>3, <1>4, <1>5, <1>6, <1>7, <1>8 DEF Next

(* The connection is there, and the remote peer says what it has. *)
Opens(m) ==
  /\ DOMAIN m_pieces = {} /\ stored = {}
  /\ m_pending_requests = <<>> /\ m_active_requests = {}
  /\ status.self_choked /\ remote.choking /\ remote.requests = <<>>
  /\ inbound = <<>> /\ inbound' = <<m>> /\ m.type = "BitField"
  /\ UNCHANGED <<m_pieces, m_pending_requests, m_active_requests, call, stored,
                 remote, status>>
  /\ \A r \in Requests :
       CopiesToRemote(r)' <= CopiesToRemote(r) /\ Served(r)' = Served(r)

LEMMA OpensEffect ==
  ASSUME DownloaderInv, DownloaderInv', PeerSide, Begins, Connect
  PROVE  \E m \in Incoming : Opens(m)
<1>1. recv = "off"
  BY DEF Connect, ConnectOk, PeerSide, ConnectsOnce
<1>2. /\ AsyncReceive
      /\ UNCHANGED <<m_pieces, m_pending_requests, m_active_requests, call, stored,
                     remote, status, outbound>>
      /\ inbound' = <<[type |-> "BitField", pieces |-> remote.has]>>
  BY DEF Connect, ConnectOk, downloaderVars
<1>3. [type |-> "BitField", pieces |-> remote.has] \in Incoming
  BY DownloaderAssumption DEF DownloaderInv, OwnInv, NetworkTyped, Signals
<1>4. PICK m \in Incoming : m.type = "BitField" /\ inbound' = <<m>>
  <2>1. [type |-> "BitField", pieces |-> remote.has].type = "BitField"
    OBVIOUS
  <2> QED BY <1>2, <1>3, <2>1
<1>5. ASSUME NEW r \in Requests
      PROVE  CopiesToRemote(r)' <= CopiesToRemote(r) /\ Served(r)' = Served(r)
  <2>1. /\ CopiesToRemote(r) = Queued(r) + InSequence(outbound, r)
        /\ Queued(r) \in Nat /\ InSequence(outbound, r) \in Nat
        /\ Served(r) = InSequence(remote.requests, r) + ComingIn(inbound, r)
        /\ InSequence(remote.requests, r) \in Nat
    BY CopiesNow DEF CopiesAre
  <2>2. /\ CopiesToRemote(r)' = Queued(r)' + InSequence(outbound, r)'
        /\ Queued(r)' \in Nat
        /\ Served(r)' = InSequence(remote.requests, r)' + ComingIn(inbound, r)'
    BY CopiesThen DEF CopiesAre
  <2>3. Queued(r)' + (IF hand = r THEN 1 ELSE 0) = Queued(r)
    BY <1>2, ReceiveCounts DEF DownloaderInv
  <2>4. /\ InSequence(outbound, r)' = InSequence(outbound, r)
        /\ InSequence(remote.requests, r)' = InSequence(remote.requests, r)
    BY <1>2
  <2>5. ComingIn(inbound, r) = 0
    <3>1. inbound = <<>> /\ inbound \in Seq(Incoming)
      BY <1>1 DEF Begins, DownloaderInv, OwnInv, NetworkTyped
    <3>2. ComingIn(inbound, r) \in Nat
          /\ (ComingIn(inbound, r) > 0 <=>
                \E i \in DOMAIN inbound : inbound[i].type = "Piece" /\ inbound[i].block = r)
      BY <3>1, ComingType
    <3>3. DOMAIN inbound = {}
      BY <3>1
    <3> QED BY <3>2, <3>3
  <2>6. ComingIn(inbound, r)' = 0
    <3>1. <<m>> \in Seq(Incoming)
      OBVIOUS
    <3>2. PICK line \in Seq(Incoming) : line = <<m>>
      BY <3>1
    <3>3. ComingIn(line, r) \in Nat
          /\ (ComingIn(line, r) > 0 <=>
                \E i \in DOMAIN line : line[i].type = "Piece" /\ line[i].block = r)
      BY ComingType
    <3>4. DOMAIN line = {1} /\ line[1] = m
      BY <3>2
    <3>5. ComingIn(inbound, r)' = ComingIn(line, r)
      BY <1>4, <3>2
    <3> QED BY <1>4, <3>3, <3>4, <3>5
  <2> QED BY <2>1, <2>2, <2>3, <2>4, <2>5, <2>6
<1> QED BY <1>1, <1>2, <1>4, <1>5 DEF Opens, Begins

(***************************************************************************)
(* The steps of the specification, each with its effect on the requests.   *)
(***************************************************************************)
OwnStep ==
  \/ GoesOn
  \/ \E c \in Clients, p \in Pieces : GetsInLine(c, p) \/ Downloads(c, p)
  \/ \E c \in Clients : GivesUp(c)
  \/ \E p \in Pieces : Takes(p)

ReadStep ==
  \E m \in Incoming : ReadsBlock(m) \/ ReadsChoke(m) \/ ReadsUnchoke(m) \/ ReadsNews(m)

RemoteMoves ==
  \/ TookOne
  \/ \E m \in Incoming : Answered(m) \/ Choked(m) \/ Unchoked(m) \/ Announced(m)

BlockStep ==
  \/ Quiet
  \/ \E m \in Incoming : Opens(m)
  \/ OwnStep
  \/ ReadStep
  \/ RemoteMoves

LEMMA StepEffect ==
  ASSUME DownloaderInv, DownloaderInv', PeerSide, Begins, [Next]_vars
  PROVE  BlockStep
<1>1. CASE UNCHANGED vars
  <2>1. UNCHANGED <<m_pieces, m_pending_requests, m_active_requests, call, stored,
                    inbound, remote, status, outbound, m_send_queue, waiters, hand,
                    is_sender_active, link>>
    BY <1>1 DEF vars, peerVars, activityVars, channelVars, downloaderVars, networkVars
  <2>2. SameCopies
    BY <2>1, SameChannel
  <2>3. \A r \in Requests : CopiesToRemote(r) \in Nat
    BY CopiesNow DEF CopiesAre
  <2>4. Quiet
    BY <2>1, <2>2, <2>3 DEF Quiet, SameCopies
  <2> QED BY <2>4 DEF BlockStep
<1>2. CASE PeerStep \/ Write
  BY <1>2, PeerEffect DEF BlockStep
<1>3. CASE Connect
  BY <1>3, OpensEffect DEF BlockStep
<1>4. CASE ReceiveMessage
  BY <1>4, ReceiveEffect DEF BlockStep, ReadStep
<1>5. CASE CallbackResume
  BY <1>5, GoesOnEffect DEF BlockStep, OwnStep
<1>6. CASE \E c \in Clients : Call(c)
  <2>1. PICK c \in Clients : Call(c)
    BY <1>6
  <2>2. CASE InterestedSent(c)
    BY <2>2, GetsInLineEffect DEF BlockStep, OwnStep
  <2>3. CASE RequestSent(c)
    BY <2>3, GoesOnEffect DEF BlockStep, OwnStep
  <2>4. CASE CallThrows(c)
    BY <2>4, GivesUpEffect DEF BlockStep, OwnStep
  <2> QED BY <2>1, <2>2, <2>3, <2>4 DEF Call
<1>7. CASE \E c \in Clients, p \in Pieces : AssignPiece(c, p) \/ PollPiece(c, p)
  BY <1>7, StrategyEffect DEF BlockStep, OwnStep
<1>8. CASE Remote
  <2>1. CASE RemoteTakes
    BY <2>1, TookOneEffect DEF BlockStep, RemoteMoves
  <2>2. CASE RemoteServes \/ RemoteChokes \/ RemoteUnchokes \/ \E p \in Pieces : RemoteGets(p)
    BY <2>2, SaidEffect DEF BlockStep, RemoteMoves
  <2> QED BY <1>8, <2>1, <2>2 DEF Remote
<1> QED BY <1>1, <1>2, <1>3, <1>4, <1>5, <1>6, <1>7, <1>8 DEF Next

=============================================================================
