-------------------------------- MODULE Peer --------------------------------
(***************************************************************************)
(* One connection to a remote peer: btr::Peer (source/client/peer.cpp).    *)
(*                                                                         *)
(* A Peer is driven by coroutines of one single-threaded io_context, so a  *)
(* step of this specification is what one coroutine does between two       *)
(* suspensions.  The coroutines are                                        *)
(*   start_async          (variable start),                                *)
(*   receive_loop_async   (variable recv),                                 *)
(*   send_loop_async      (variable send),                                 *)
(* and the clients: coroutines of other components that await send_async.  *)
(* The loops and the clients meet at m_send_queue, a bounded channel of    *)
(* Boost.Asio, which is external and modelled from how this code uses it.  *)
(***************************************************************************)
EXTENDS Naturals, Sequences, FiniteSets

CONSTANTS
  Clients,      \* coroutines outside the Peer that await send_async
  ReceiveLoop,  \* the receive loop, which awaits send_async in its callbacks
  Capacity,     \* max_outgoing_messages, the bound of the channel
  Outgoing,     \* the messages that clients and callbacks send
  Incoming,     \* the messages the remote peer may send
  MaxStarts     \* bound: how often start_async begins a connection

(* The message internal_stop_sender wakes the send loop with. *)
Keepalive == [type |-> "Keepalive"]

NoMessage == [type |-> "None"]

Tasks == Clients \cup {ReceiveLoop}

ASSUME CapacityAssumption == Capacity \in Nat \ {0}

ASSUME PeerAssumption ==
  /\ ReceiveLoop \notin Clients
  /\ Keepalive \notin Outgoing
  /\ MaxStarts \in Nat

VARIABLES
  is_active, is_sender_active, is_receiver_active,  \* PeerActivity
  m_is_stopping,
  status,        \* PeerStatus: self_choked and remote_bitfield
  m_send_queue,  \* messages buffered in the channel
  waiters,       \* async_send operations that found the channel full
  await,         \* what each task's last async_send came to
  hand,          \* the message the send loop took from the channel
  start, recv, send,  \* where the three coroutines are
  link,          \* the TCP connection
  starts         \* how often start_async began a connection

channelVars  == <<m_send_queue, waiters, await>>
activityVars == <<is_active, is_sender_active, is_receiver_active>>
peerVars == <<is_active, is_sender_active, is_receiver_active, m_is_stopping,
              status, m_send_queue, waiters, await, hand, start, recv, send,
              link, starts>>

PeerTypeOK ==
  /\ is_active \in BOOLEAN
  /\ is_sender_active \in BOOLEAN
  /\ is_receiver_active \in BOOLEAN
  /\ m_is_stopping \in BOOLEAN
  /\ m_send_queue \in Seq(Outgoing \cup {Keepalive})
  /\ waiters \in Seq([task : Tasks, msg : Outgoing \cup {Keepalive}])
  /\ await \in [Tasks -> {"none", "posted", "blocked", "cancelled"}]
  /\ hand \in Outgoing \cup {Keepalive, NoMessage}
  /\ start \in {"idle", "connecting", "running", "ended", "threw"}
  /\ recv \in {"off", "reading", "callback", "stopping", "done", "threw"}
  /\ send \in {"off", "receiving", "got", "writing", "done"}
  /\ link \in {"up", "down"}
  /\ starts \in 0..MaxStarts

PeerInit ==
  /\ is_active = FALSE
  /\ is_sender_active = FALSE
  /\ is_receiver_active = FALSE
  /\ m_is_stopping = FALSE
  /\ status = [self_choked |-> TRUE, remote_bitfield |-> {}]
  /\ m_send_queue = <<>>
  /\ waiters = <<>>
  /\ await = [t \in Tasks |-> "none"]
  /\ hand = NoMessage
  /\ start = "idle"
  /\ recv = "off"
  /\ send = "off"
  /\ link = "down"
  /\ starts = 0

-----------------------------------------------------------------------------
(***************************************************************************)
(* The channel.  An async_send never completes inline: the awaiting task   *)
(* resumes in a later step, when await is "posted", or throws when it is   *)
(* "cancelled".                                                            *)
(***************************************************************************)

(* m_send_queue.async_send(m) awaited by task t: to the waiting receiver,  *)
(* else into the buffer, else into the line of waiting senders.            *)
AsyncSend(t, m) ==
  \/ /\ send = "receiving"
     /\ send' = "got"
     /\ hand' = m
     /\ await' = [await EXCEPT ![t] = "posted"]
     /\ UNCHANGED <<m_send_queue, waiters>>
  \/ /\ send # "receiving"
     /\ Len(m_send_queue) < Capacity
     /\ m_send_queue' = Append(m_send_queue, m)
     /\ await' = [await EXCEPT ![t] = "posted"]
     /\ UNCHANGED <<waiters, send, hand>>
  \/ /\ send # "receiving"
     /\ Len(m_send_queue) >= Capacity
     /\ waiters' = Append(waiters, [task |-> t, msg |-> m])
     /\ await' = [await EXCEPT ![t] = "blocked"]
     /\ UNCHANGED <<m_send_queue, send, hand>>

(* m_send_queue.async_receive() awaited by the send loop: the head of the  *)
(* buffer, whose place the first waiting sender takes, or wait for one.    *)
AsyncReceive ==
  \/ /\ m_send_queue = <<>>
     /\ send' = "receiving"
     /\ hand' = NoMessage
     /\ UNCHANGED channelVars
  \/ /\ m_send_queue # <<>>
     /\ waiters = <<>>
     /\ send' = "got"
     /\ hand' = Head(m_send_queue)
     /\ m_send_queue' = Tail(m_send_queue)
     /\ UNCHANGED <<waiters, await>>
  \/ /\ m_send_queue # <<>>
     /\ waiters # <<>>
     /\ send' = "got"
     /\ hand' = Head(m_send_queue)
     /\ m_send_queue' = Append(Tail(m_send_queue), Head(waiters).msg)
     /\ waiters' = Tail(waiters)
     /\ await' = [await EXCEPT ![Head(waiters).task] = "posted"]

(* m_send_queue.reset(): the buffer is cleared, waiting senders throw. *)
ResetWithoutCancel ==
  /\ m_send_queue' = <<>>
  /\ UNCHANGED <<waiters, await>>

Reset ==
  /\ m_send_queue' = <<>>
  /\ waiters' = <<>>
  /\ await' = [t \in Tasks |->
                 IF await[t] = "blocked" THEN "cancelled" ELSE await[t]]

-----------------------------------------------------------------------------
(* The send loop *)

(* The lines after the loop, reached by its condition, a break or a throw. *)
SenderExit ==
  /\ Reset
  /\ send' = "done"
  /\ hand' = NoMessage
  /\ is_sender_active' = FALSE

(* while (!m_is_stopping) ... async_receive *)
SendLoopHead ==
  \/ m_is_stopping /\ SenderExit
  \/ ~m_is_stopping /\ AsyncReceive /\ UNCHANGED is_sender_active

SenderResumeUnchecked ==
  /\ send = "got"
  /\ send' = "writing"
  /\ UNCHANGED <<channelVars, hand, is_sender_active, is_active,
                 is_receiver_active, m_is_stopping, status, start, recv, link,
                 starts>>

(* async_receive completed: leave if told to stop, else write the message. *)
SenderResume ==
  /\ send = "got"
  /\ \/ m_is_stopping /\ SenderExit
     \/ /\ ~m_is_stopping
        /\ send' = "writing"
        /\ UNCHANGED <<channelVars, hand, is_sender_active>>
  /\ UNCHANGED <<is_active, is_receiver_active, m_is_stopping, status, start,
                 recv, link, starts>>

(* send_message completed, and the loop goes round.  A write may still     *)
(* succeed on a connection that is gone: the kernel buffers it.            *)
WriteOk ==
  /\ send = "writing"
  /\ SendLoopHead
  /\ UNCHANGED <<is_active, is_receiver_active, m_is_stopping, status, start,
                 recv, link, starts>>

(* send_message threw: sender_exit_message, break. *)
WriteFails ==
  /\ send = "writing"
  /\ link = "down"
  /\ SenderExit
  /\ UNCHANGED <<is_active, is_receiver_active, m_is_stopping, status, start,
                 recv, link, starts>>

-----------------------------------------------------------------------------
(* The receive loop *)

(* PeerStatus after handle_message: requests, pieces and the messages      *)
(* nobody here reads leave it alone.                                       *)
handle_message(m) ==
  CASE m.type = "Choke"    -> [status EXCEPT !.self_choked = TRUE]
    [] m.type = "Unchoke"  -> [status EXCEPT !.self_choked = FALSE]
    [] m.type = "Have"     -> [status EXCEPT !.remote_bitfield = @ \cup {m.piece_index}]
    [] m.type = "BitField" -> [status EXCEPT !.remote_bitfield = m.pieces]
    [] OTHER               -> status

(* internal_stop_sender: the flag first, then the message that wakes the   *)
(* send loop.                                                              *)
StopFlagAfterwards ==
  /\ AsyncSend(ReceiveLoop, Keepalive)
  /\ UNCHANGED m_is_stopping

internal_stop_sender ==
  /\ m_is_stopping' = TRUE
  /\ AsyncSend(ReceiveLoop, Keepalive)

(* The lines after the receive loop: a sender that still runs is stopped,  *)
(* and only then is the receiver inactive.                                 *)
ReceiverExit ==
  \/ /\ is_sender_active
     /\ internal_stop_sender
     /\ recv' = "stopping"
     /\ UNCHANGED is_receiver_active
  \/ /\ ~is_sender_active
     /\ is_receiver_active' = FALSE
     /\ recv' = "done"
     /\ await' = [await EXCEPT ![ReceiveLoop] = "none"]
     /\ UNCHANGED <<m_is_stopping, m_send_queue, waiters, send, hand>>

(* What the callbacks do up to the next suspension: await send_async, or   *)
(* return, and the loop comes to its next read_message.  (m_is_stopping is *)
(* set by the exit path only, so the loop condition holds here.)           *)
Callbacks ==
  \/ /\ \E m \in Outgoing : AsyncSend(ReceiveLoop, m)
     /\ recv' = "callback"
  \/ /\ recv' = "reading"
     /\ await' = [await EXCEPT ![ReceiveLoop] = "none"]
     /\ UNCHANGED <<m_send_queue, waiters, send, hand>>

(* read_message returned m: handle_message, then the callbacks. *)
ReadMessage(m) ==
  /\ recv = "reading"
  /\ status' = handle_message(m)
  /\ Callbacks
  /\ UNCHANGED <<activityVars, m_is_stopping, start, link, starts>>

(* A send_async in a callback completed. *)
CallbackGoesOn ==
  /\ recv = "callback"
  /\ await[ReceiveLoop] = "posted"
  /\ Callbacks
  /\ UNCHANGED <<activityVars, m_is_stopping, status, start, link, starts>>

(* A send_async in a callback threw: receiver_exit_message, break. *)
CallbackThrows ==
  /\ recv = "callback"
  /\ await[ReceiveLoop] = "cancelled"
  /\ ReceiverExit
  /\ UNCHANGED <<is_active, is_sender_active, status, start, link, starts>>

(* read_message threw: receiver_exit_message, break. *)
ReadFails ==
  /\ recv = "reading"
  /\ link = "down"
  /\ ReceiverExit
  /\ UNCHANGED <<is_active, is_sender_active, status, start, link, starts>>

(* internal_stop_sender's async_send completed. *)
StopDelivered ==
  /\ recv = "stopping"
  /\ await[ReceiveLoop] = "posted"
  /\ is_receiver_active' = FALSE
  /\ recv' = "done"
  /\ await' = [await EXCEPT ![ReceiveLoop] = "none"]
  /\ UNCHANGED <<is_active, is_sender_active, m_is_stopping, status,
                 m_send_queue, waiters, hand, start, send, link, starts>>

(* It was waiting in a full channel when the send loop reset it: the       *)
(* exception leaves receive_loop_async, outside its try block.             *)
StopThrows ==
  /\ recv = "stopping"
  /\ await[ReceiveLoop] = "cancelled"
  /\ recv' = "threw"
  /\ await' = [await EXCEPT ![ReceiveLoop] = "none"]
  /\ UNCHANGED <<activityVars, m_is_stopping, status, m_send_queue, waiters,
                 hand, start, send, link, starts>>

-----------------------------------------------------------------------------
(* start_async and the connection *)

(* start_async, by include() or restart_connection(); it does nothing      *)
(* while is_active holds.                                                  *)
StartAsync ==
  /\ ~is_active
  /\ starts < MaxStarts
  /\ starts' = starts + 1
  /\ is_active' = TRUE
  /\ m_is_stopping' = FALSE
  /\ start' = "connecting"
  /\ UNCHANGED <<is_sender_active, is_receiver_active, status, channelVars,
                 hand, recv, send, link>>

(* connect_async returned and both loops run up to their first suspension; *)
(* they are started together, before either can complete an operation.     *)
ConnectOk ==
  /\ start = "connecting"
  /\ start' = "running"
  /\ link' = "up"
  /\ is_receiver_active' = TRUE
  /\ recv' = "reading"
  /\ is_sender_active' = TRUE
  /\ AsyncReceive
  /\ UNCHANGED <<is_active, m_is_stopping, status, starts>>

ConnectFailsAndClears ==
  /\ start = "connecting"
  /\ start' = "threw"
  /\ is_active' = FALSE
  /\ UNCHANGED <<is_sender_active, is_receiver_active, m_is_stopping, status,
                 channelVars, hand, recv, send, link, starts>>

(* async_connect, send_handshake or read_handshake threw: the exception    *)
(* leaves start_async before is_active is cleared.                         *)
ConnectFails ==
  /\ start = "connecting"
  /\ start' = "threw"
  /\ UNCHANGED <<activityVars, m_is_stopping, status, channelVars, hand, recv,
                 send, link, starts>>

JoinFirst ==
  /\ start = "running"
  /\ recv = "done"
  /\ is_active' = FALSE
  /\ start' = "ended"
  /\ UNCHANGED <<is_sender_active, is_receiver_active, m_is_stopping, status,
                 channelVars, hand, recv, send, link, starts>>

(* Both loops returned. *)
JoinLoops ==
  /\ start = "running"
  /\ recv = "done"
  /\ send = "done"
  /\ is_active' = FALSE
  /\ start' = "ended"
  /\ UNCHANGED <<is_sender_active, is_receiver_active, m_is_stopping, status,
                 channelVars, hand, recv, send, link, starts>>

(* The receive loop threw: so does the && of both loops, and start_async. *)
JoinThrows ==
  /\ start = "running"
  /\ recv = "threw"
  /\ send = "done"
  /\ start' = "threw"
  /\ UNCHANGED <<activityVars, m_is_stopping, status, channelVars, hand, recv,
                 send, link, starts>>

(* The remote peer or the network closes the connection. *)
Drop ==
  /\ link = "up"
  /\ link' = "down"
  /\ UNCHANGED <<activityVars, m_is_stopping, status, channelVars, hand, start,
                 recv, send, starts>>

-----------------------------------------------------------------------------
(* Clients *)

(* A client awaits send_async, perhaps right after an earlier one.  It     *)
(* does so for pieces in remote_bitfield only, so after the first          *)
(* connection was made.                                                    *)
ClientSend(c, m) ==
  /\ recv # "off"
  /\ await[c] \in {"none", "posted"}
  /\ AsyncSend(c, m)
  /\ UNCHANGED <<activityVars, m_is_stopping, status, start, recv, link, starts>>

(* The client resumes, by the completion or by the exception. *)
ClientResume(c) ==
  /\ await[c] \in {"posted", "cancelled"}
  /\ await' = [await EXCEPT ![c] = "none"]
  /\ UNCHANGED <<activityVars, m_is_stopping, status, m_send_queue, waiters,
                 hand, start, recv, send, link, starts>>

(* What the Peer's own coroutines and the network do, whoever its clients  *)
(* and callbacks are.                                                      *)
PeerInternal ==
  \/ SenderResume
  \/ WriteFails
  \/ ReadFails
  \/ StopDelivered
  \/ StopThrows
  \/ StartAsync
  \/ ConnectFails
  \/ JoinLoops
  \/ JoinThrows
  \/ Drop

PeerNext ==
  \/ PeerInternal
  \/ ConnectOk
  \/ WriteOk
  \/ \E m \in Incoming : ReadMessage(m)
  \/ CallbackGoesOn
  \/ CallbackThrows
  \/ \E c \in Clients : ClientResume(c) \/ \E m \in Outgoing : ClientSend(c, m)

PeerSpec == PeerInit /\ [][PeerNext]_peerVars

(***************************************************************************)
(* A coroutine whose operation completed is resumed by the io_context, and *)
(* on a dead connection reads and writes complete.  Nothing is assumed of  *)
(* a connection that is up: the remote peer may never read.                *)
(***************************************************************************)
PeerFairness ==
  /\ WF_peerVars(SenderResume)
  /\ WF_peerVars(link = "down" /\ (WriteOk \/ WriteFails))
  /\ WF_peerVars(StopDelivered \/ StopThrows)
  /\ WF_peerVars(JoinLoops \/ JoinThrows)

PeerFairSpec == PeerSpec /\ PeerFairness

-----------------------------------------------------------------------------
(* Properties *)

(* revoke() frees a Peer once is_active is false (strategy.hpp:112).  By   *)
(* then no coroutine of the Peer is left that would run on freed memory.   *)
InactiveMeansStopped ==
  ~is_active => /\ send \in {"off", "done"}
                /\ recv \in {"off", "done"}
                /\ start \in {"idle", "ended"}

(* The stop request is never lost: once internal_stop_sender ran, the send *)
(* loop is not asleep in async_receive, whatever it was doing when the     *)
(* request came (peer.cpp:169-176, 196-201).                               *)
StopIsHeard == (recv = "stopping" \/ m_is_stopping) => send # "receiving"

(* The Keepalive of internal_stop_sender is a signal to the send loop and  *)
(* is never written to the remote peer (peer.cpp:174-178).                 *)
SentinelNeverWritten == send = "writing" => hand # Keepalive

(* An exception that leaves start_async is final: is_active stays set, so  *)
(* neither revoke() nor a later start_async ever gets hold of the Peer     *)
(* again (peer.cpp:79-87).                                                 *)
ThrownIsFinal == [][start = "threw" => start' = "threw" /\ is_active']_peerVars

(* A receive loop that has begun to stop the sender brings the whole       *)
(* connection to its end, even when the channel is full.                   *)
StopCompletes == recv = "stopping" ~> start \in {"ended", "threw"}

(* A client waiting for room in the channel of a connection that died is   *)
(* released, if the send loop was still running.                           *)
DeadLinkReleasesClients ==
  \A c \in Clients :
    (await[c] = "blocked" /\ is_sender_active /\ link = "down")
      ~> await[c] # "blocked"

=============================================================================
