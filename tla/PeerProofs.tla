----------------------------- MODULE PeerProofs -----------------------------
(***************************************************************************)
(* Proofs about Peer, for any set of clients, any capacity of the channel  *)
(* and any number of starts.                                               *)
(***************************************************************************)
EXTENDS Peer, TLAPS

(***************************************************************************)
(* The inductive invariant.  Its parts say, in turn: which states of the   *)
(* three coroutines go together; that is_sender_active and is_active       *)
(* follow them; that m_is_stopping is set by a receive loop on its way out *)
(* and is never seen by a send loop asleep, and that a stop request is     *)
(* cancelled only by a send loop that ended; and that a Keepalive is in    *)
(* the channel or the send loop's hand only while a running send loop has  *)
(* been told to stop.                                                      *)
(***************************************************************************)
CoroutinesAgree ==
  /\ start = "idle" => send = "off" /\ recv = "off"
  /\ start = "connecting" => send \in {"off", "done"} /\ recv \in {"off", "done"}
  /\ start = "running" => send # "off" /\ recv # "off"
  /\ start = "ended" => send = "done" /\ recv = "done"
  /\ start = "threw" => send \in {"off", "done"} /\ recv \in {"off", "done", "threw"}
  /\ recv = "threw" => send = "done"

FlagsFollow ==
  /\ is_sender_active <=> send \in {"receiving", "got", "writing"}
  /\ is_active <=> start \in {"connecting", "running", "threw"}

StoppingIsOrderly ==
  /\ m_is_stopping => start # "connecting"
  /\ m_is_stopping => recv \notin {"reading", "callback"}
  /\ recv = "stopping" => m_is_stopping
  /\ m_is_stopping => send # "receiving"
  /\ recv = "stopping" /\ await[ReceiveLoop] = "cancelled" => send = "done"

ToldToStop == m_is_stopping /\ send \in {"got", "writing"}

KeepaliveIsSentinel ==
  /\ \A i \in 1..Len(m_send_queue) : m_send_queue[i] = Keepalive => ToldToStop
  /\ \A i \in 1..Len(waiters) : waiters[i].msg = Keepalive => ToldToStop
  /\ hand = Keepalive => m_is_stopping /\ send = "got"

PeerInv ==
  /\ PeerTypeOK
  /\ CoroutinesAgree
  /\ FlagsFollow
  /\ StoppingIsOrderly
  /\ KeepaliveIsSentinel

Messages == Outgoing \cup {Keepalive}

-----------------------------------------------------------------------------
(* What the channel's operations do to the invariant's parts.              *)

(* async_send keeps the types, wakes a send loop that sleeps, and puts no  *)
(* Keepalive in the channel but the one it is given.                       *)
LEMMA AsyncSendLemma ==
  ASSUME PeerInv, NEW t \in Tasks, NEW m \in Messages, AsyncSend(t, m)
  PROVE  /\ m_send_queue' \in Seq(Messages)
         /\ waiters' \in Seq([task : Tasks, msg : Messages])
         /\ await' \in [Tasks -> {"none", "posted", "blocked", "cancelled"}]
         /\ send = "receiving" => send' = "got" /\ hand' = m
         /\ \A r \in Tasks : await'[r] = "cancelled" => await[r] = "cancelled" /\ r # t
         /\ send # "receiving" => send' = send /\ hand' = hand
         /\ \A i \in 1..Len(m_send_queue') :
              m_send_queue'[i] = Keepalive =>
                ToldToStop \/ (m = Keepalive /\ send # "receiving")
         /\ \A i \in 1..Len(waiters') :
              waiters'[i].msg = Keepalive =>
                ToldToStop \/ (m = Keepalive /\ send # "receiving")
<1>1. /\ m_send_queue \in Seq(Messages)
      /\ waiters \in Seq([task : Tasks, msg : Messages])
      /\ await \in [Tasks -> {"none", "posted", "blocked", "cancelled"}]
      /\ \A i \in 1..Len(m_send_queue) : m_send_queue[i] = Keepalive => ToldToStop
      /\ \A i \in 1..Len(waiters) : waiters[i].msg = Keepalive => ToldToStop
  BY DEF PeerInv, PeerTypeOK, KeepaliveIsSentinel, Messages
<1>2. CASE /\ send = "receiving"
           /\ send' = "got" /\ hand' = m
           /\ await' = [await EXCEPT ![t] = "posted"]
           /\ UNCHANGED <<m_send_queue, waiters>>
  BY <1>1, <1>2
<1>3. CASE /\ send # "receiving"
           /\ m_send_queue' = Append(m_send_queue, m)
           /\ await' = [await EXCEPT ![t] = "posted"]
           /\ UNCHANGED <<waiters, send, hand>>
  BY <1>1, <1>3
<1>4. CASE /\ send # "receiving"
           /\ waiters' = Append(waiters, [task |-> t, msg |-> m])
           /\ await' = [await EXCEPT ![t] = "blocked"]
           /\ UNCHANGED <<m_send_queue, send, hand>>
  BY <1>1, <1>4
<1> QED BY <1>2, <1>3, <1>4 DEF AsyncSend

(* async_receive by a send loop that was not told to stop finds no         *)
(* Keepalive.                                                              *)
LEMMA AsyncReceiveLemma ==
  ASSUME PeerInv, ~m_is_stopping, AsyncReceive
  PROVE  /\ m_send_queue' \in Seq(Messages)
         /\ waiters' \in Seq([task : Tasks, msg : Messages])
         /\ await' \in [Tasks -> {"none", "posted", "blocked", "cancelled"}]
         /\ \A r \in Tasks : await'[r] = "cancelled" => await[r] = "cancelled"
         /\ send' \in {"receiving", "got"}
         /\ hand' \in Outgoing \cup {NoMessage}
         /\ send' = "got" => hand' \in Outgoing
         /\ \A i \in 1..Len(m_send_queue') : m_send_queue'[i] # Keepalive
         /\ \A i \in 1..Len(waiters') : waiters'[i].msg # Keepalive
<1>1. /\ m_send_queue \in Seq(Messages)
      /\ waiters \in Seq([task : Tasks, msg : Messages])
      /\ await \in [Tasks -> {"none", "posted", "blocked", "cancelled"}]
      /\ \A i \in 1..Len(m_send_queue) : m_send_queue[i] # Keepalive
      /\ \A i \in 1..Len(waiters) : waiters[i].msg # Keepalive
  BY DEF PeerInv, PeerTypeOK, KeepaliveIsSentinel, ToldToStop, Messages
<1>2. CASE /\ send' = "receiving"
           /\ hand' = NoMessage
           /\ UNCHANGED channelVars
  BY <1>1, <1>2 DEF channelVars
<1>3. ASSUME m_send_queue # <<>>
      PROVE  /\ Head(m_send_queue) \in Outgoing
             /\ Tail(m_send_queue) \in Seq(Messages)
             /\ \A i \in 1..Len(Tail(m_send_queue)) : Tail(m_send_queue)[i] # Keepalive
  BY <1>1, <1>3 DEF Messages
<1>4. CASE /\ m_send_queue # <<>>
           /\ send' = "got"
           /\ hand' = Head(m_send_queue)
           /\ m_send_queue' = Tail(m_send_queue)
           /\ UNCHANGED <<waiters, await>>
  BY <1>1, <1>3, <1>4
<1>5. CASE /\ m_send_queue # <<>>
           /\ waiters # <<>>
           /\ send' = "got"
           /\ hand' = Head(m_send_queue)
           /\ m_send_queue' = Append(Tail(m_send_queue), Head(waiters).msg)
           /\ waiters' = Tail(waiters)
           /\ await' = [await EXCEPT ![Head(waiters).task] = "posted"]
  <2>1. /\ Head(waiters) \in [task : Tasks, msg : Messages]
        /\ Head(waiters).msg # Keepalive
    <3> DEFINE S == [task : Tasks, msg : Messages]
    <3>1. waiters \in Seq(S) /\ waiters # <<>>
      BY <1>1, <1>5
    <3> HIDE DEF S
    <3>2. Len(waiters) >= 1 /\ Head(waiters) = waiters[1] /\ waiters[1] \in S
      BY <3>1
    <3>3. waiters[1].msg # Keepalive
      BY <1>1, <3>2, 1 \in 1..Len(waiters)
    <3> QED BY <3>2, <3>3 DEF S
  <2>2. /\ waiters' \in Seq([task : Tasks, msg : Messages])
        /\ \A i \in 1..Len(waiters') : waiters'[i].msg # Keepalive
    BY <1>1, <1>5
  <2>3. /\ m_send_queue' \in Seq(Messages)
        /\ \A i \in 1..Len(m_send_queue') : m_send_queue'[i] # Keepalive
    BY <1>3, <1>5, <2>1
  <2> QED BY <1>1, <1>3, <1>5, <2>1, <2>2, <2>3
<1> QED BY <1>2, <1>4, <1>5 DEF AsyncReceive

(* The end of the send loop leaves an empty channel. *)
LEMMA SenderExitLemma ==
  ASSUME PeerInv, SenderExit
  PROVE  /\ m_send_queue' = <<>>
         /\ waiters' = <<>>
         /\ await' \in [Tasks -> {"none", "posted", "blocked", "cancelled"}]
         /\ send' = "done"
         /\ hand' = NoMessage
         /\ ~is_sender_active'
BY DEF PeerInv, PeerTypeOK, SenderExit, Reset

-----------------------------------------------------------------------------
(* The initial state satisfies the invariant. *)
LEMMA PeerInvInit == PeerInit => PeerInv
<1> SUFFICES ASSUME PeerInit
             PROVE  PeerInv
  OBVIOUS
<1>1. m_send_queue = <<>> /\ waiters = <<>> /\ hand = NoMessage /\ starts = 0
  BY DEF PeerInit
<1>2. PeerTypeOK
  <2>1. /\ m_send_queue \in Seq(Outgoing \cup {Keepalive})
        /\ waiters \in Seq([task : Tasks, msg : Outgoing \cup {Keepalive}])
    BY <1>1
  <2>2. starts \in 0..MaxStarts
    BY <1>1, PeerAssumption
  <2> QED BY <2>1, <2>2 DEF PeerInit, PeerTypeOK
<1>3. CoroutinesAgree /\ FlagsFollow /\ StoppingIsOrderly
  BY DEF PeerInit, CoroutinesAgree, FlagsFollow, StoppingIsOrderly
<1>4. KeepaliveIsSentinel
  <2>1. Len(m_send_queue) = 0 /\ Len(waiters) = 0
    BY <1>1
  <2>2. hand # Keepalive
    BY <1>1 DEF NoMessage, Keepalive
  <2> QED BY <2>1, <2>2 DEF KeepaliveIsSentinel
<1> QED BY <1>2, <1>3, <1>4 DEF PeerInv

(* Steps that leave the channel and the send loop alone. *)
LEMMA QuietSteps ==
  ASSUME PeerInv,
         StopDelivered \/ StopThrows \/ StartAsync \/ ConnectFails
           \/ JoinLoops \/ JoinThrows \/ Drop
           \/ (\E c \in Clients : ClientResume(c))
  PROVE  PeerInv'
<1> USE PeerAssumption
    DEF PeerInv, PeerTypeOK, CoroutinesAgree, FlagsFollow, StoppingIsOrderly,
        KeepaliveIsSentinel, ToldToStop, activityVars, channelVars, Tasks
<1>1. CASE StopDelivered
  BY <1>1 DEF StopDelivered
<1>2. CASE StopThrows
  BY <1>2 DEF StopThrows
<1>3. CASE StartAsync
  <2>1. start \in {"idle", "ended"} /\ send \in {"off", "done"}
    BY <1>3 DEF StartAsync
  <2>2. starts' \in 0..MaxStarts
    BY <1>3 DEF StartAsync
  <2>3. PeerTypeOK'
    BY <1>3, <2>2 DEF StartAsync
  <2>4. CoroutinesAgree' /\ FlagsFollow' /\ StoppingIsOrderly'
    BY <1>3, <2>1 DEF StartAsync
  <2>5. ~ToldToStop /\ hand # Keepalive
    BY <2>1
  <2>6. KeepaliveIsSentinel'
    BY <1>3, <2>5 DEF StartAsync
  <2> QED BY <2>3, <2>4, <2>6
<1>4. CASE ConnectFails
  BY <1>4 DEF ConnectFails
<1>5. CASE JoinLoops
  BY <1>5 DEF JoinLoops
<1>6. CASE JoinThrows
  BY <1>6 DEF JoinThrows
<1>7. CASE Drop
  BY <1>7 DEF Drop
<1>8. ASSUME NEW c \in Clients, ClientResume(c)
      PROVE  PeerInv'
  BY <1>8 DEF ClientResume
<1> QED BY <1>1, <1>2, <1>3, <1>4, <1>5, <1>6, <1>7, <1>8

(* A send loop that ends. *)
LEMMA SenderEnds ==
  ASSUME PeerInv, send \in {"got", "writing"}, SenderExit,
         UNCHANGED <<is_active, is_receiver_active, m_is_stopping, status, start,
                     recv, link, starts>>
  PROVE  PeerInv'
<1>1. /\ m_send_queue' = <<>>
      /\ waiters' = <<>>
      /\ await' \in [Tasks -> {"none", "posted", "blocked", "cancelled"}]
      /\ send' = "done"
      /\ hand' = NoMessage
      /\ is_sender_active' = FALSE
  BY SenderExitLemma DEF SenderExit
<1>2. PeerTypeOK'
  <2>1. /\ m_send_queue' \in Seq(Outgoing \cup {Keepalive})
        /\ waiters' \in Seq([task : Tasks, msg : Outgoing \cup {Keepalive}])
    BY <1>1
  <2> QED BY <1>1, <2>1 DEF PeerInv, PeerTypeOK
<1>3. CoroutinesAgree' /\ FlagsFollow' /\ StoppingIsOrderly'
  BY <1>1 DEF PeerInv, PeerTypeOK, CoroutinesAgree, FlagsFollow, StoppingIsOrderly
<1>4. KeepaliveIsSentinel'
  BY <1>1 DEF KeepaliveIsSentinel, NoMessage, Keepalive
<1> QED BY <1>2, <1>3, <1>4 DEF PeerInv

(* Steps of the send loop. *)
LEMMA SenderSteps ==
  ASSUME PeerInv, SenderResume \/ WriteOk \/ WriteFails
  PROVE  PeerInv'
<1>1. CASE WriteFails
  BY <1>1, SenderEnds DEF WriteFails
<1>2. CASE SenderResume
  <2>1. CASE SenderExit
    BY <1>2, <2>1, SenderEnds DEF SenderResume
  <2>2. CASE /\ ~m_is_stopping
             /\ send' = "writing"
             /\ UNCHANGED <<channelVars, hand, is_sender_active>>
    BY <1>2, <2>2
       DEF SenderResume, PeerInv, PeerTypeOK, CoroutinesAgree, FlagsFollow,
           StoppingIsOrderly, KeepaliveIsSentinel, ToldToStop, channelVars
  <2> QED BY <1>2, <2>1, <2>2 DEF SenderResume
<1>3. CASE WriteOk
  <2>1. CASE SenderExit
    BY <1>3, <2>1, SenderEnds DEF WriteOk
  <2>2. CASE ~m_is_stopping /\ AsyncReceive /\ UNCHANGED is_sender_active
    <3>1. /\ m_send_queue' \in Seq(Messages)
          /\ waiters' \in Seq([task : Tasks, msg : Messages])
          /\ await' \in [Tasks -> {"none", "posted", "blocked", "cancelled"}]
          /\ \A r \in Tasks : await'[r] = "cancelled" => await[r] = "cancelled"
          /\ send' \in {"receiving", "got"}
          /\ hand' \in Outgoing \cup {NoMessage}
          /\ \A i \in 1..Len(m_send_queue') : m_send_queue'[i] # Keepalive
          /\ \A i \in 1..Len(waiters') : waiters'[i].msg # Keepalive
      BY <2>2, AsyncReceiveLemma
    <3>2. PeerTypeOK'
      BY <1>3, <2>2, <3>1 DEF WriteOk, PeerInv, PeerTypeOK, Messages
    <3>3. CoroutinesAgree' /\ FlagsFollow' /\ StoppingIsOrderly'
      BY <1>3, <2>2, <3>1
         DEF WriteOk, PeerInv, PeerTypeOK, CoroutinesAgree, FlagsFollow,
             StoppingIsOrderly
    <3>4. KeepaliveIsSentinel'
      BY <3>1, PeerAssumption DEF KeepaliveIsSentinel, NoMessage, Keepalive
    <3> QED BY <3>2, <3>3, <3>4 DEF PeerInv
  <2> QED BY <1>3, <2>1, <2>2 DEF WriteOk, SendLoopHead
<1> QED BY <1>1, <1>2, <1>3

(* The start of both loops. *)
LEMMA ConnectStep ==
  ASSUME PeerInv, ConnectOk
  PROVE  PeerInv'
<1>1. /\ m_send_queue' \in Seq(Messages)
      /\ waiters' \in Seq([task : Tasks, msg : Messages])
      /\ await' \in [Tasks -> {"none", "posted", "blocked", "cancelled"}]
      /\ send' \in {"receiving", "got"}
      /\ hand' \in Outgoing \cup {NoMessage}
      /\ \A i \in 1..Len(m_send_queue') : m_send_queue'[i] # Keepalive
      /\ \A i \in 1..Len(waiters') : waiters'[i].msg # Keepalive
  BY AsyncReceiveLemma DEF ConnectOk, PeerInv, StoppingIsOrderly
<1>2. PeerTypeOK'
  BY <1>1 DEF ConnectOk, PeerInv, PeerTypeOK, Messages
<1>3. CoroutinesAgree' /\ FlagsFollow' /\ StoppingIsOrderly'
  BY <1>1
     DEF ConnectOk, PeerInv, PeerTypeOK, CoroutinesAgree, FlagsFollow,
         StoppingIsOrderly
<1>4. KeepaliveIsSentinel'
  BY <1>1, PeerAssumption DEF KeepaliveIsSentinel, NoMessage, Keepalive
<1> QED BY <1>2, <1>3, <1>4 DEF PeerInv

(* A message of a client or a callback enters the channel. *)
LEMMA MessageSent ==
  ASSUME PeerInv, NEW t \in Tasks, NEW m \in Outgoing, AsyncSend(t, m),
         recv # "off", recv' \in {recv, "callback"},
         recv' = "callback" => recv \in {"reading", "callback"},
         UNCHANGED <<activityVars, m_is_stopping, start, link, starts>>
  PROVE  PeerInv'
<1>1. /\ m_send_queue' \in Seq(Messages)
      /\ waiters' \in Seq([task : Tasks, msg : Messages])
      /\ await' \in [Tasks -> {"none", "posted", "blocked", "cancelled"}]
      /\ \A r \in Tasks : await'[r] = "cancelled" => await[r] = "cancelled"
      /\ send = "receiving" => send' = "got" /\ hand' = m
      /\ send # "receiving" => send' = send /\ hand' = hand
      /\ \A i \in 1..Len(m_send_queue') : m_send_queue'[i] = Keepalive => ToldToStop
      /\ \A i \in 1..Len(waiters') : waiters'[i].msg = Keepalive => ToldToStop
  <2>1. m \in Messages /\ m # Keepalive
    BY PeerAssumption DEF Messages
  <2> QED BY <2>1, AsyncSendLemma
<1>2. PeerTypeOK'
  BY <1>1 DEF PeerInv, PeerTypeOK, Messages, activityVars
<1>3. CoroutinesAgree' /\ FlagsFollow' /\ StoppingIsOrderly'
  BY <1>1, ReceiveLoop \in Tasks
     DEF PeerInv, PeerTypeOK, CoroutinesAgree, FlagsFollow, StoppingIsOrderly,
         activityVars, Tasks
<1>4. KeepaliveIsSentinel'
  BY <1>1, PeerAssumption DEF PeerInv, KeepaliveIsSentinel, ToldToStop
<1> QED BY <1>2, <1>3, <1>4 DEF PeerInv

(* The receive loop between two suspensions of its callbacks. *)
LEMMA CallbackSteps ==
  ASSUME PeerInv, recv \in {"reading", "callback"}, Callbacks,
         UNCHANGED <<activityVars, m_is_stopping, start, link, starts>>
  PROVE  PeerInv'
<1>1. ASSUME NEW m \in Outgoing, AsyncSend(ReceiveLoop, m), recv' = "callback"
      PROVE  PeerInv'
  BY <1>1, MessageSent DEF Tasks
<1>2. CASE /\ recv' = "reading"
           /\ await' = [await EXCEPT ![ReceiveLoop] = "none"]
           /\ UNCHANGED <<m_send_queue, waiters, send, hand>>
  BY <1>2
     DEF PeerInv, PeerTypeOK, CoroutinesAgree, FlagsFollow, StoppingIsOrderly,
         KeepaliveIsSentinel, ToldToStop, activityVars
<1> QED BY <1>1, <1>2 DEF Callbacks

(* The receive loop leaves its while: it stops the sender, or is done. *)
LEMMA ReceiverExits ==
  ASSUME PeerInv, recv \in {"reading", "callback"}, ReceiverExit,
         UNCHANGED <<is_active, is_sender_active, start, link, starts>>
  PROVE  PeerInv'
<1>1. CASE /\ is_sender_active
           /\ internal_stop_sender
           /\ recv' = "stopping"
           /\ UNCHANGED is_receiver_active
  <2>1. /\ m_send_queue' \in Seq(Messages)
        /\ waiters' \in Seq([task : Tasks, msg : Messages])
        /\ await' \in [Tasks -> {"none", "posted", "blocked", "cancelled"}]
        /\ await'[ReceiveLoop] # "cancelled"
        /\ send = "receiving" => send' = "got" /\ hand' = Keepalive
        /\ send # "receiving" => send' = send /\ hand' = hand
    BY <1>1, AsyncSendLemma DEF internal_stop_sender, Messages, Tasks
  <2>2. m_is_stopping' = TRUE /\ send' \in {"got", "writing"}
    BY <1>1, <2>1 DEF internal_stop_sender, PeerInv, FlagsFollow
  <2>3. PeerTypeOK'
    BY <1>1, <2>1, <2>2 DEF PeerInv, PeerTypeOK, Messages
  <2>4. CoroutinesAgree' /\ FlagsFollow' /\ StoppingIsOrderly'
    BY <1>1, <2>1, <2>2
       DEF PeerInv, PeerTypeOK, CoroutinesAgree, FlagsFollow, StoppingIsOrderly
  <2>5. KeepaliveIsSentinel'
    BY <2>1, <2>2 DEF PeerInv, KeepaliveIsSentinel, ToldToStop
  <2> QED BY <2>3, <2>4, <2>5 DEF PeerInv
<1>2. CASE /\ ~is_sender_active
           /\ is_receiver_active' = FALSE
           /\ recv' = "done"
           /\ await' = [await EXCEPT ![ReceiveLoop] = "none"]
           /\ UNCHANGED <<m_is_stopping, m_send_queue, waiters, send, hand>>
  BY <1>2
     DEF PeerInv, PeerTypeOK, CoroutinesAgree, FlagsFollow, StoppingIsOrderly,
         KeepaliveIsSentinel, ToldToStop
<1> QED BY <1>1, <1>2 DEF ReceiverExit

(* Every step keeps the invariant. *)
LEMMA PeerInvStep ==
  ASSUME PeerInv, [PeerNext]_peerVars
  PROVE  PeerInv'
<1>1. CASE UNCHANGED peerVars
  BY <1>1
     DEF peerVars, PeerInv, PeerTypeOK, CoroutinesAgree, FlagsFollow,
         StoppingIsOrderly, KeepaliveIsSentinel, ToldToStop
<1>2. CASE SenderResume \/ WriteOk \/ WriteFails
  BY <1>2, SenderSteps
<1>3. CASE ReadFails
  BY <1>3, ReceiverExits DEF ReadFails
<1>4. CASE CallbackThrows
  BY <1>4, ReceiverExits DEF CallbackThrows
<1>5. CASE StopDelivered \/ StopThrows \/ StartAsync \/ ConnectFails
             \/ JoinLoops \/ JoinThrows \/ Drop
  BY <1>5, QuietSteps
<1>6. CASE ConnectOk
  BY <1>6, ConnectStep
<1>7. ASSUME NEW m \in Incoming, ReadMessage(m)
      PROVE  PeerInv'
  BY <1>7, CallbackSteps DEF ReadMessage
<1>8. CASE CallbackGoesOn
  BY <1>8, CallbackSteps DEF CallbackGoesOn
<1>9. ASSUME NEW c \in Clients, ClientResume(c)
      PROVE  PeerInv'
  BY <1>9, QuietSteps
<1>10. ASSUME NEW c \in Clients, NEW m \in Outgoing, ClientSend(c, m)
       PROVE  PeerInv'
  <2>1. recv' = recv /\ recv # "off" /\ AsyncSend(c, m) /\ c \in Tasks
    BY <1>10 DEF ClientSend, Tasks
  <2>2. UNCHANGED <<activityVars, m_is_stopping, start, link, starts>>
    BY <1>10 DEF ClientSend
  <2> QED BY <2>1, <2>2, MessageSent
<1> QED
  BY <1>1, <1>2, <1>3, <1>4, <1>5, <1>6, <1>7, <1>8, <1>9, <1>10
     DEF PeerNext, PeerInternal

(* The invariant holds in every state of every behaviour. *)
THEOREM PeerInvariant == PeerSpec => []PeerInv
<1>1. PeerInit => PeerInv
  BY PeerInvInit
<1>2. PeerInv /\ [PeerNext]_peerVars => PeerInv'
  BY PeerInvStep
<1> QED BY <1>1, <1>2, PTL DEF PeerSpec

(* The variables of a Peer keep their types. *)
THEOREM PeerTypeCorrect == PeerSpec => []PeerTypeOK
<1>1. PeerInv => PeerTypeOK
  BY DEF PeerInv
<1> QED BY <1>1, PeerInvariant, PTL

(* An inactive Peer has no coroutine left (peer.cpp:79-87), whatever its   *)
(* clients do and however often it was started: revoke() may free it.      *)
THEOREM InactiveCorrect == PeerSpec => []InactiveMeansStopped
<1>1. PeerInv => InactiveMeansStopped
  BY DEF PeerInv, PeerTypeOK, CoroutinesAgree, FlagsFollow, InactiveMeansStopped
<1> QED BY <1>1, PeerInvariant, PTL

(* A stop request is never lost on a send loop asleep (peer.cpp:196-201),  *)
(* for any capacity of the channel.                                        *)
THEOREM StopHeardCorrect == PeerSpec => []StopIsHeard
<1>1. PeerInv => StopIsHeard
  BY DEF PeerInv, StoppingIsOrderly, StopIsHeard
<1> QED BY <1>1, PeerInvariant, PTL

(* The Keepalive that wakes the send loop is never written to the remote   *)
(* peer (peer.cpp:174-178), over any number of connections.                *)
THEOREM SentinelCorrect == PeerSpec => []SentinelNeverWritten
<1>1. PeerInv => SentinelNeverWritten
  BY DEF PeerInv, KeepaliveIsSentinel, SentinelNeverWritten
<1> QED BY <1>1, PeerInvariant, PTL

(* A start_async that threw is the last one: no later step clears          *)
(* is_active or starts the Peer again (peer.cpp:79-87).                    *)
THEOREM ThrownIsFinalCorrect == PeerSpec => ThrownIsFinal
<1> DEFINE Final == start = "threw" => start' = "threw" /\ is_active'
<1>1. PeerInv /\ [PeerNext]_peerVars => [Final]_peerVars
  <2> SUFFICES ASSUME PeerInv, PeerNext, start = "threw"
               PROVE  start' = "threw" /\ is_active'
    OBVIOUS
  <2>1. is_active = TRUE
    BY DEF PeerInv, PeerTypeOK, FlagsFollow
  <2> QED
    BY <2>1
       DEF PeerNext, PeerInternal, SenderResume, WriteFails, ReadFails,
           StopDelivered, StopThrows, StartAsync, ConnectFails, JoinLoops,
           JoinThrows, Drop, ConnectOk, WriteOk, ReadMessage, CallbackGoesOn,
           CallbackThrows, ClientResume, ClientSend, activityVars
<1> QED BY <1>1, PeerInvariant, PTL DEF PeerSpec, ThrownIsFinal

-----------------------------------------------------------------------------
(***************************************************************************)
(* A second invariant, about the line of senders that wait for room: each  *)
(* task is in it at most once and is then blocked, and a receive loop that *)
(* is not in a callback or stopping awaits nothing.  And a send loop that  *)
(* is about to write has a message.                                        *)
(***************************************************************************)
LineOrdered ==
  /\ \A i \in 1..Len(waiters) : await[waiters[i].task] = "blocked"
  /\ \A i, j \in 1..Len(waiters) : waiters[i].task = waiters[j].task => i = j

LoopAwaitsNothing ==
  recv \in {"off", "reading", "done", "threw"} => await[ReceiveLoop] = "none"

HandIsFull == send \in {"got", "writing"} => hand \in Messages

LineInv == LineOrdered /\ LoopAwaitsNothing /\ HandIsFull

(* Those in the line are tasks. *)
LEMMA LineTasks ==
  ASSUME PeerTypeOK
  PROVE  \A i \in 1..Len(waiters) : waiters[i].task \in Tasks
<1> DEFINE S == [task : Tasks, msg : Messages]
<1>1. waiters \in Seq(S)
  BY DEF PeerTypeOK, Messages
<1>2. \A i \in 1..Len(waiters) : waiters[i] \in S
  <2> HIDE DEF S
  <2> QED BY <1>1
<1>3. \A w \in S : w.task \in Tasks
  OBVIOUS
<1> HIDE DEF S
<1> QED BY <1>2, <1>3

(* async_send by a task that is not in the line concerns that task only. *)
LEMMA LineSend ==
  ASSUME PeerInv, LineOrdered, NEW t \in Tasks, NEW m \in Messages,
         await[t] # "blocked", AsyncSend(t, m)
  PROVE  /\ LineOrdered'
         /\ \A r \in Tasks \ {t} : await'[r] = await[r]
<1> DEFINE S == [task : Tasks, msg : Messages]
<1>1. /\ waiters \in Seq(S)
      /\ await \in [Tasks -> {"none", "posted", "blocked", "cancelled"}]
  BY DEF PeerInv, PeerTypeOK, Messages
<1>2. \A i \in 1..Len(waiters) : waiters[i].task \in Tasks \ {t}
  BY LineTasks DEF PeerInv, LineOrdered
<1>3. CASE /\ await' = [await EXCEPT ![t] = "posted"]
           /\ UNCHANGED waiters
  BY <1>1, <1>2, <1>3 DEF LineOrdered
<1>4. CASE /\ waiters' = Append(waiters, [task |-> t, msg |-> m])
           /\ await' = [await EXCEPT ![t] = "blocked"]
  <2> DEFINE w == [task |-> t, msg |-> m]
  <2>1. /\ Len(waiters') = Len(waiters) + 1
        /\ \A i \in 1..Len(waiters) : waiters'[i] = waiters[i]
        /\ waiters'[Len(waiters) + 1].task = t
    <3>1. w \in S /\ w.task = t
      OBVIOUS
    <3> HIDE DEF S, w
    <3>2. waiters' = Append(waiters, w)
      BY <1>4 DEF w
    <3> QED BY <1>1, <3>1, <3>2
  <2>2. Len(waiters) \in Nat
    BY <1>1
  <2>3. \A i \in 1..Len(waiters') : i \in 1..Len(waiters) \/ i = Len(waiters) + 1
    BY <2>1, <2>2
  <2>4. \A i \in 1..Len(waiters') : await'[waiters'[i].task] = "blocked"
    BY <1>1, <1>2, <1>4, <2>1, <2>3 DEF LineOrdered
  <2>5. \A i, j \in 1..Len(waiters') :
          waiters'[i].task = waiters'[j].task => i = j
    BY <1>2, <2>1, <2>3 DEF LineOrdered
  <2> QED BY <1>1, <1>4, <2>4, <2>5 DEF LineOrdered
<1> QED BY <1>3, <1>4 DEF AsyncSend

(* async_receive concerns at most the head of the line. *)
LEMMA LineReceive ==
  ASSUME PeerInv, LineOrdered, AsyncReceive
  PROVE  /\ LineOrdered'
         /\ \A r \in Tasks : await[r] # "blocked" => await'[r] = await[r]
<1> DEFINE S == [task : Tasks, msg : Messages]
<1>1. /\ waiters \in Seq(S)
      /\ await \in [Tasks -> {"none", "posted", "blocked", "cancelled"}]
  BY DEF PeerInv, PeerTypeOK, Messages
<1>2. CASE UNCHANGED <<waiters, await>>
  BY <1>2 DEF LineOrdered
<1>3. CASE /\ waiters # <<>>
           /\ waiters' = Tail(waiters)
           /\ await' = [await EXCEPT ![Head(waiters).task] = "posted"]
  <2>1. /\ Len(waiters) \in Nat \ {0}
        /\ Head(waiters) = waiters[1]
        /\ Len(waiters') = Len(waiters) - 1
        /\ \A i \in 1..Len(waiters') : waiters'[i] = waiters[i + 1]
    <3> HIDE DEF S
    <3> QED BY <1>1, <1>3
  <2>2. \A i \in 1..Len(waiters) : waiters[i].task \in Tasks
    BY LineTasks DEF PeerInv
  <2>3. /\ 1 \in 1..Len(waiters)
        /\ \A i \in 1..Len(waiters') : i + 1 \in 1..Len(waiters) /\ i + 1 # 1
    BY <2>1
  <2>4. \A i \in 1..Len(waiters') : await'[waiters'[i].task] = "blocked"
    BY <1>1, <1>3, <2>1, <2>2, <2>3 DEF LineOrdered
  <2>5. \A i, j \in 1..Len(waiters') :
          waiters'[i].task = waiters'[j].task => i = j
    BY <2>1, <2>3 DEF LineOrdered
  <2>6. \A r \in Tasks : await[r] # "blocked" => await'[r] = await[r]
    BY <1>1, <1>3, <2>1, <2>2, <2>3 DEF LineOrdered
  <2> QED BY <2>4, <2>5, <2>6 DEF LineOrdered
<1> QED BY <1>2, <1>3 DEF AsyncReceive, channelVars

(* A task that leaves an async_send behind is not in the line. *)
LEMMA LineResume ==
  ASSUME PeerInv, LineOrdered, NEW t \in Tasks, await[t] # "blocked",
         waiters' = waiters, await' = [await EXCEPT ![t] = "none"]
  PROVE  LineOrdered'
<1>1. /\ await \in [Tasks -> {"none", "posted", "blocked", "cancelled"}]
      /\ \A i \in 1..Len(waiters) : waiters[i].task \in Tasks
  BY LineTasks DEF PeerInv, PeerTypeOK
<1> QED BY <1>1 DEF LineOrdered

(* The end of the send loop empties the line. *)
LEMMA LineReset ==
  ASSUME PeerInv, SenderExit
  PROVE  /\ LineOrdered'
         /\ \A r \in Tasks : await[r] # "blocked" => await'[r] = await[r]
<1>1. waiters' = <<>> /\ Len(waiters') = 0
  BY DEF SenderExit, Reset
<1>2. \A r \in Tasks : await[r] # "blocked" => await'[r] = await[r]
  BY DEF SenderExit, Reset
<1> QED BY <1>1, <1>2 DEF LineOrdered

(* The send loop's hand. *)
LEMMA HandStep ==
  ASSUME PeerInv, HandIsFull, [PeerNext]_peerVars
  PROVE  HandIsFull'
<1> USE DEF HandIsFull
<1>1. CASE UNCHANGED <<send, hand>>
  BY <1>1
<1>2. CASE SenderExit
  BY <1>2 DEF SenderExit
<1>3. CASE ~m_is_stopping /\ AsyncReceive
  BY <1>3, AsyncReceiveLemma DEF Messages
<1>4. ASSUME NEW t \in Tasks, NEW m \in Messages, AsyncSend(t, m)
      PROVE  HandIsFull'
  BY <1>4, AsyncSendLemma
<1>5. ReceiveLoop \in Tasks /\ Clients \subseteq Tasks
      /\ Outgoing \subseteq Messages /\ Keepalive \in Messages
  BY DEF Tasks, Messages
<1>6. CASE SenderResume \/ WriteOk \/ WriteFails
  BY <1>2, <1>3, <1>6 DEF SenderResume, WriteOk, WriteFails, SendLoopHead
<1>7. CASE ConnectOk
  BY <1>3, <1>7 DEF ConnectOk, PeerInv, StoppingIsOrderly
<1>8. CASE ReceiverExit
  BY <1>1, <1>4, <1>5, <1>8 DEF ReceiverExit, internal_stop_sender
<1>9. CASE Callbacks
  BY <1>1, <1>4, <1>5, <1>9 DEF Callbacks
<1>10. CASE \E c \in Clients, m \in Outgoing : ClientSend(c, m)
  BY <1>4, <1>5, <1>10 DEF ClientSend
<1>11. CASE StopDelivered \/ StopThrows \/ StartAsync \/ ConnectFails
              \/ JoinLoops \/ JoinThrows \/ Drop \/ UNCHANGED peerVars
              \/ (\E c \in Clients : ClientResume(c))
  BY <1>1, <1>11
     DEF StopDelivered, StopThrows, StartAsync, ConnectFails, JoinLoops,
         JoinThrows, Drop, peerVars, channelVars, ClientResume
<1> QED
  BY <1>6, <1>7, <1>8, <1>9, <1>10, <1>11
     DEF PeerNext, PeerInternal, ReadFails, CallbackThrows, ReadMessage, CallbackGoesOn

(* Every step keeps the invariant. *)
LEMMA LineInvStep ==
  ASSUME PeerInv, LineInv, [PeerNext]_peerVars
  PROVE  LineInv'
<1> USE DEF LineInv, LoopAwaitsNothing
<1>0. HandIsFull'
  BY HandStep
<1> USE <1>0
<1>1. /\ ReceiveLoop \in Tasks
      /\ \A c \in Clients : c \in Tasks \ {ReceiveLoop}
      /\ await \in [Tasks -> {"none", "posted", "blocked", "cancelled"}]
  BY PeerAssumption DEF Tasks, PeerInv, PeerTypeOK
<1>2. CASE UNCHANGED <<waiters, await, recv>>
  BY <1>2 DEF LineOrdered
<1>3. CASE /\ SenderExit \/ AsyncReceive
           /\ UNCHANGED recv \/ (recv \in {"off", "done"} /\ recv' = "reading")
  <2>1. /\ LineOrdered'
        /\ \A r \in Tasks : await[r] # "blocked" => await'[r] = await[r]
    BY <1>3, LineReset, LineReceive
  <2> QED BY <1>1, <1>3, <2>1
<1>4. ASSUME NEW c \in Clients, ClientResume(c)
      PROVE  LineInv'
  <2>1. LineOrdered'
    BY <1>1, <1>4, LineResume DEF ClientResume
  <2> QED BY <1>1, <1>4, <2>1 DEF ClientResume
<1>5. ASSUME NEW c \in Clients, NEW m \in Outgoing, ClientSend(c, m)
      PROVE  LineInv'
  <2>1. LineOrdered' /\ await'[ReceiveLoop] = await[ReceiveLoop]
    BY <1>1, <1>5, LineSend DEF ClientSend, Messages
  <2> QED BY <1>5, <2>1 DEF ClientSend
<1>6. ASSUME recv \in {"reading", "callback"}, await[ReceiveLoop] # "blocked", Callbacks
      PROVE  LineInv'
  <2>1. ASSUME NEW m \in Outgoing, AsyncSend(ReceiveLoop, m), recv' = "callback"
        PROVE  LineInv'
    BY <1>1, <1>6, <2>1, LineSend DEF Messages
  <2>2. CASE /\ recv' = "reading"
             /\ await' = [await EXCEPT ![ReceiveLoop] = "none"]
             /\ UNCHANGED <<m_send_queue, waiters, send, hand>>
    BY <1>1, <1>6, <2>2, LineResume
  <2> QED BY <1>6, <2>1, <2>2 DEF Callbacks
<1>7. ASSUME await[ReceiveLoop] # "blocked", ReceiverExit
      PROVE  LineInv'
  <2>1. CASE internal_stop_sender /\ recv' = "stopping"
    BY <1>1, <1>7, <2>1, LineSend DEF internal_stop_sender, Messages
  <2>2. CASE /\ recv' = "done"
             /\ await' = [await EXCEPT ![ReceiveLoop] = "none"]
             /\ UNCHANGED <<m_is_stopping, m_send_queue, waiters, send, hand>>
    BY <1>1, <1>7, <2>2, LineResume
  <2> QED BY <1>7, <2>1, <2>2 DEF ReceiverExit
<1>8. CASE StopDelivered \/ StopThrows
  BY <1>1, <1>8, LineResume DEF StopDelivered, StopThrows
<1>9. CASE \E m \in Incoming : ReadMessage(m)
  BY <1>6, <1>9 DEF ReadMessage
<1>10. CASE CallbackGoesOn
  BY <1>6, <1>10 DEF CallbackGoesOn
<1>11. CASE CallbackThrows \/ ReadFails
  BY <1>7, <1>11 DEF CallbackThrows, ReadFails
<1>12. CASE SenderResume \/ WriteOk \/ WriteFails \/ ConnectOk
  <2>1. UNCHANGED recv \/ (recv \in {"off", "done"} /\ recv' = "reading")
    BY <1>12
       DEF SenderResume, WriteOk, WriteFails, ConnectOk, PeerInv, CoroutinesAgree
  <2>2. SenderExit \/ AsyncReceive \/ UNCHANGED channelVars
    BY <1>12 DEF SenderResume, WriteOk, WriteFails, ConnectOk, SendLoopHead
  <2>3. UNCHANGED channelVars => UNCHANGED recv \/ AsyncReceive
    BY <1>12 DEF SenderResume, WriteOk, WriteFails, ConnectOk, SendLoopHead
  <2> QED BY <1>2, <1>3, <2>1, <2>2, <2>3 DEF channelVars
<1>13. CASE StartAsync \/ ConnectFails \/ JoinLoops \/ JoinThrows \/ Drop
               \/ UNCHANGED peerVars
  BY <1>2, <1>13
     DEF StartAsync, ConnectFails, JoinLoops, JoinThrows, Drop, peerVars, channelVars
<1> QED
  BY <1>4, <1>5, <1>8, <1>9, <1>10, <1>11, <1>12, <1>13 DEF PeerNext, PeerInternal

(* The line is empty at first. *)
LEMMA LineInvInit ==
  ASSUME PeerInit
  PROVE  LineInv
<1>1. waiters = <<>> /\ await = [t \in Tasks |-> "none"]
  BY DEF PeerInit
<1>2. Len(waiters) = 0 /\ ReceiveLoop \in Tasks
  BY <1>1 DEF Tasks
<1>3. send = "off"
  BY DEF PeerInit
<1> QED BY <1>1, <1>2, <1>3 DEF LineInv, LineOrdered, LoopAwaitsNothing, HandIsFull

(* A task waits in the channel's line at most once, and only while its     *)
(* async_send is blocked (peer.cpp:190-200).                               *)
THEOREM LineInvariant == PeerSpec => []LineInv
<1>1. PeerInit => LineInv
  BY LineInvInit
<1>2. PeerInv /\ LineInv /\ [PeerNext]_peerVars => LineInv'
  BY LineInvStep
<1> QED BY <1>1, <1>2, PeerInvariant, PTL DEF PeerSpec

=============================================================================
