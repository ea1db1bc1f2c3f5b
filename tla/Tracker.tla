------------------------------ MODULE Tracker -------------------------------
(***************************************************************************)
(* How peers are found: the resolution of the trackers by                  *)
(* Torrenter::download_file (torrenter.cpp), the tracker loop of           *)
(* Reactor::download (reactor.hpp), and Tracker::fetch_udp_swarm           *)
(* (tracker.cpp), which asks one tracker over UDP: connect, then announce, *)
(* both before one deadline.                                               *)
(*                                                                         *)
(* A fetch is one call of fetch_udp_swarm; each has a socket of its own.   *)
(* Datagrams to a socket are lost, duplicated and reordered: mail only     *)
(* grows, and a receive takes any of it or none.                           *)
(***************************************************************************)
EXTENDS Integers, Sequences, FiniteSets

CONSTANTS
  Urls,        \* the announce URLs that match udp://host:port/announce
  Port,        \* the port in each of them
  Listings,    \* what a tracker may answer: [peers : Seq, total : Nat]
  ErrorTexts,  \* the lengths of the texts of its Error responses
  Unset,       \* the endpoints whose address is 0.0.0.0
  Strays,      \* datagrams of other senders that may reach a socket
  MaxRounds    \* bound: turns of the tracker loop

(* sizeof, in bytes.  ErrorResponse has a std::string in it (32 bytes).    *)
SizeOfConnectResponse  == 16
SizeOfAnnounceResponse == 20
SizeOfIpV4Port         == 6
SizeOfErrorResponse    == 8 + 32

ASSUME TrackerAssumption ==
  /\ \A u \in Urls : Port[u] \in Nat /\ Port[u] < 65536
  /\ ErrorTexts \subseteq Nat
  /\ MaxRounds \in Nat

ASSUME ListingsAssumption ==
  \A l \in Listings : /\ Len(l.peers) \in Nat /\ DOMAIN l.peers = 1..Len(l.peers)
                      /\ l.total \in Nat /\ Len(l.peers) <= l.total

ASSUME StraysAssumption == \A d \in Strays : d.from # "tracker"

Fetches == Urls \X (1..MaxRounds)

(* What an Error's text reads as where an id or an endpoint is expected. *)
Text == "text"

Ids == {"issued", Text}

ConnectReply == [action |-> "Connect", from |-> "tracker",
                 size |-> SizeOfConnectResponse]

ErrorReply(n) == [action |-> "Error", from |-> "tracker", size |-> 8 + n]

AnnounceReply(l) ==
  [action |-> "Announce", from |-> "tracker", peers |-> l.peers, total |-> l.total,
   size |-> SizeOfAnnounceResponse + SizeOfIpV4Port * Len(l.peers)]

Requests == {[action |-> "Connect"]} \cup [action : {"Announce"}, id : Ids]

NoReply == [action |-> "None", from |-> "none", size |-> 0]

VARIABLES
  resolving,  \* URLs whose resolution is underway
  resolved,   \* URLs whose endpoint is in the list of trackers
  unknown,    \* URLs whose host the DNS did not know
  loop,       \* where the tracker loop is
  round,      \* its turn
  fetch,      \* the coroutines: pc, whether the deadline passed, connection_id
  sent,       \* the requests that reached the tracker on each socket
  mail,       \* the datagrams that may reach each socket
  reply,      \* the datagram whose endpoints each fetch put into the swarm
  swarm,      \* the vector of endpoints of each turn
  included    \* the turns whose swarm was handed to include()

resolveVars == <<resolving, resolved, unknown>>
loopVars    == <<loop, round, included>>
vars == <<resolveVars, loopVars, fetch, sent, mail, reply, swarm>>

Sending  == {"sendConnect", "sendAnnounce"}
Awaiting == {"awaitConnect", "awaitAnnounce"}

PeersOf(d) == IF d.action = "Announce" THEN {d.peers[i] : i \in DOMAIN d.peers} ELSE {}

Init ==
  /\ resolving = Urls
  /\ resolved = {}
  /\ unknown = {}
  /\ loop = "resolving"
  /\ round = 0
  /\ fetch = [f \in Fetches |-> [pc |-> "none", expired |-> FALSE, id |-> "none"]]
  /\ sent = [f \in Fetches |-> {}]
  /\ mail = [f \in Fetches |-> {}]
  /\ reply = [f \in Fetches |-> NoReply]
  /\ swarm = [r \in 1..MaxRounds |-> {}]
  /\ included = {}

-----------------------------------------------------------------------------
(* Torrenter::download_file *)

(* static_cast<int16_t>(std::stoi(port)) *)
AsInt16(port) == IF port >= 32768 THEN port - 65536 ELSE port

(* async_resolve finds the host; the decimal of a negative number is no    *)
(* service name, and then it throws, as it does for an unknown host.  The  *)
(* exception ends the detached coroutine of this URL only.                 *)
Resolve(u) ==
  /\ u \in resolving
  /\ resolving' = resolving \ {u}
  /\ \/ /\ AsInt16(Port[u]) >= 0
        /\ resolved' = resolved \cup {u}
        /\ UNCHANGED unknown
     \/ /\ AsInt16(Port[u]) < 0
        /\ UNCHANGED <<resolved, unknown>>
     \/ /\ unknown' = unknown \cup {u}
        /\ UNCHANGED resolved
  /\ UNCHANGED <<loopVars, fetch, sent, mail, reply, swarm>>

(* resolve_io.run() returned: the trackers are made, download() starts. *)
StartDownload ==
  /\ loop = "resolving"
  /\ resolving = {}
  /\ loop' = "is_done"
  /\ UNCHANGED <<resolveVars, round, included, fetch, sent, mail, reply, swarm>>

-----------------------------------------------------------------------------
(* The tracker loop *)

(* is_done() returned false: a new swarm, and a fetch for every tracker. *)
StartRound ==
  /\ loop = "is_done"
  /\ round < MaxRounds
  /\ loop' = "waiting"
  /\ round' = round + 1
  /\ fetch' = [f \in Fetches |->
                 IF f[1] \in resolved /\ f[2] = round + 1
                 THEN [fetch[f] EXCEPT !.pc = "sendConnect"] ELSE fetch[f]]
  /\ UNCHANGED <<resolveVars, included, sent, mail, reply, swarm>>

DownloadDone ==
  /\ loop = "is_done"
  /\ loop' = "ended"
  /\ UNCHANGED <<resolveVars, round, included, fetch, sent, mail, reply, swarm>>

(* The 8 seconds are over, long after the deadline of 1 second of every    *)
(* fetch of this turn: include() gets the swarm, which is then freed.      *)
TimerEnds ==
  /\ loop = "waiting"
  /\ \A u \in resolved : fetch[<<u, round>>].pc = "done" \/ fetch[<<u, round>>].expired
  /\ included' = included \cup {round}
  /\ loop' = "is_done"
  /\ UNCHANGED <<resolveVars, round, fetch, sent, mail, reply, swarm>>

-----------------------------------------------------------------------------
(* fetch_udp_swarm *)

(* steady_clock passes the deadline of fetch f. *)
DeadlinePasses(f) ==
  /\ fetch[f].pc \in Sending \cup Awaiting
  /\ ~fetch[f].expired
  /\ fetch' = [fetch EXCEPT ![f].expired = TRUE]
  /\ UNCHANGED <<resolveVars, loopVars, sent, mail, reply, swarm>>

(* async_send_to completed, which no deadline bounds; the request may      *)
(* still be lost.                                                          *)
SendDone(f) ==
  /\ fetch[f].pc \in Sending
  /\ LET request == IF fetch[f].pc = "sendConnect" THEN [action |-> "Connect"]
                    ELSE [action |-> "Announce", id |-> fetch[f].id]
     IN  sent' \in {sent, [sent EXCEPT ![f] = @ \cup {request}]}
  /\ fetch' = [fetch EXCEPT ![f].pc =
                 IF @ = "sendConnect" THEN "awaitConnect" ELSE "awaitAnnounce"]
  /\ UNCHANGED <<resolveVars, loopVars, mail, reply, swarm>>

(* The coroutine is over and its socket closed. *)
Close(f) ==
  /\ fetch' = [fetch EXCEPT ![f] = [pc |-> "done", expired |-> FALSE, id |-> "none"]]
  /\ sent' = [sent EXCEPT ![f] = {}]
  /\ mail' = [mail EXCEPT ![f] = {}]

(* async_send_to threw out of the detached coroutine. *)
SendThrows(f) ==
  /\ fetch[f].pc \in Sending
  /\ Close(f)
  /\ UNCHANGED <<resolveVars, loopVars, reply, swarm>>

(* parse_message<T> of datagram d has a value.  An Error that is at least  *)
(* as long as an ErrorResponse is copied and then passed on all the same.  *)
parse_message_any_error(size, d) == d.size >= size

parse_message(size, d) ==
  \/ d.size >= size /\ d.action # "Error"
  \/ d.size >= SizeOfErrorResponse /\ d.action = "Error"

FromAnyone(d) == TRUE

FromTracker(d) == d.from = "tracker"

(* The first response: go on with its connection_id, or give up. *)
ConnectReceived(f, d) ==
  /\ fetch[f].pc = "awaitConnect"
  /\ \/ /\ parse_message(SizeOfConnectResponse, d)
        /\ FromTracker(d)
        /\ fetch' = [fetch EXCEPT ![f].pc = "sendAnnounce",
                                  ![f].id = IF d.action = "Connect" THEN "issued" ELSE Text]
        /\ UNCHANGED <<sent, mail>>
     \/ /\ ~(parse_message(SizeOfConnectResponse, d) /\ FromTracker(d))
        /\ Close(f)
  /\ UNCHANGED <<resolveVars, loopVars, reply, swarm>>

(* The count of parse_ipv4_peer_endpoints: static_cast<uint16_t> of        *)
(* leechers + seeders, a number of 32 bits.  The other bound of its        *)
(* std::min is taken of the buffer of 65535 bytes, and is above what one   *)
(* datagram can hold.                                                      *)
PeersCountOffByOne(total) == (total % 65536) - 1

PeersCount(total) == total % 65536

(* The loop over the endpoints, which an ip of 0 ends.  The buffer was     *)
(* zeroed, so that is what lies past the datagram.  Of an Error's text     *)
(* nothing is known but that it is no zero.                                *)
AllSet(peers, n) == \A i \in 1..n : peers[i] \notin Unset

Endpoints(d) ==
  IF d.action = "Announce"
  THEN {{d.peers[i] : i \in {j \in DOMAIN d.peers : j <= PeersCount(d.total) /\ AllSet(d.peers, j)}}}
  ELSE {{}, {Text}}

(* out_peer_endpoints.lock() finds the swarm of turn r. *)
LockAlways(r) == TRUE

Lock(r) == loop = "waiting" /\ round = r

(* The second response: its endpoints go into the swarm if that is there.  *)
AnnounceReceived(f, d) ==
  /\ fetch[f].pc = "awaitAnnounce"
  /\ Close(f)
  /\ \/ /\ parse_message(SizeOfAnnounceResponse, d)
        /\ FromTracker(d)
        /\ Lock(f[2])
        /\ reply' = [reply EXCEPT ![f] = d]
        /\ \E found \in Endpoints(d) : swarm' = [swarm EXCEPT ![f[2]] = @ \cup found]
     \/ /\ ~(parse_message(SizeOfAnnounceResponse, d) /\ FromTracker(d) /\ Lock(f[2]))
        /\ UNCHANGED <<reply, swarm>>
  /\ UNCHANGED <<resolveVars, loopVars>>

FirstReceiveTimesOut(f) ==
  /\ fetch[f].pc = "awaitConnect"
  /\ fetch[f].expired
  /\ Close(f)
  /\ UNCHANGED <<resolveVars, loopVars, reply, swarm>>

(* The timeout won: nothing was received, and parse_message has no value.  *)
ReceiveTimesOut(f) ==
  /\ fetch[f].pc \in Awaiting
  /\ fetch[f].expired
  /\ Close(f)
  /\ UNCHANGED <<resolveVars, loopVars, reply, swarm>>

-----------------------------------------------------------------------------
(* The trackers and the network, which are external *)

(* A tracker answers a request, perhaps with an Error, and an announce     *)
(* with an id it did not issue with an Error always.                       *)
TrackerReplies(f) ==
  /\ fetch[f].pc \in Sending \cup Awaiting
  /\ \/ [action |-> "Connect"] \in sent[f] /\ mail' = [mail EXCEPT ![f] = @ \cup {ConnectReply}]
     \/ /\ [action |-> "Announce", id |-> "issued"] \in sent[f]
        /\ \E l \in Listings : mail' = [mail EXCEPT ![f] = @ \cup {AnnounceReply(l)}]
     \/ /\ sent[f] # {}
        /\ \E n \in ErrorTexts : mail' = [mail EXCEPT ![f] = @ \cup {ErrorReply(n)}]
  /\ UNCHANGED <<resolveVars, loopVars, fetch, sent, reply, swarm>>

StrayArrives(f) ==
  /\ fetch[f].pc \in Sending \cup Awaiting
  /\ \E d \in Strays : mail' = [mail EXCEPT ![f] = @ \cup {d}]
  /\ UNCHANGED <<resolveVars, loopVars, fetch, sent, reply, swarm>>

-----------------------------------------------------------------------------
Receive(f) ==
  \/ ReceiveTimesOut(f)
  \/ \E d \in mail[f] : ConnectReceived(f, d) \/ AnnounceReceived(f, d)

Next ==
  \/ \E u \in Urls : Resolve(u)
  \/ StartDownload
  \/ StartRound
  \/ DownloadDone
  \/ TimerEnds
  \/ \E f \in Fetches :
       \/ DeadlinePasses(f)
       \/ SendDone(f)
       \/ SendThrows(f)
       \/ Receive(f)
       \/ TrackerReplies(f)
       \/ StrayArrives(f)

Spec == Init /\ [][Next]_vars

(***************************************************************************)
(* Time passes, timers end and sends complete.  Nothing is assumed of the  *)
(* trackers and the network.                                               *)
(***************************************************************************)
Fairness ==
  /\ \A u \in Urls : WF_vars(Resolve(u))
  /\ WF_vars(StartDownload)
  /\ WF_vars(TimerEnds)
  /\ \A f \in Fetches :
       /\ WF_vars(DeadlinePasses(f))
       /\ WF_vars(SendDone(f) \/ SendThrows(f))
       /\ WF_vars(ReceiveTimesOut(f))

FairSpec == Spec /\ Fairness

-----------------------------------------------------------------------------
(* Properties *)

(* Every endpoint handed to include() was listed for this turn by the      *)
(* tracker that was asked: no stray, duplicated or late datagram adds one. *)
(* The exception is the text of an Error response of 40 bytes or more,     *)
(* which parse_message passes on (tracker.cpp:36-56, 153, 172-178).        *)
OnlyListedPeers ==
  \A r \in 1..MaxRounds : \A e \in swarm[r] :
    \E u \in Urls :
      LET d == reply[<<u, r>>]
      IN  \/ d.from = "tracker" /\ e \in PeersOf(d)
          \/ e = Text /\ d.action = "Error" /\ d.size >= SizeOfErrorResponse

(* An announce carries the connection_id the tracker issued on the same    *)
(* socket, unless a long Error came instead of it (tracker.cpp:153-165).   *)
AnnounceUsesIssuedId ==
  \A f \in Fetches :
    /\ fetch[f].id = "issued" => ConnectReply \in mail[f]
    /\ fetch[f].id = Text =>
         \E d \in mail[f] : /\ d.action = "Error" /\ d.from = "tracker"
                            /\ d.size >= SizeOfErrorResponse

(* A fetch whose sends took longer than the turn it belongs to adds        *)
(* nothing: what include() was given does not change (tracker.cpp:176).    *)
SwarmIsFinal ==
  [][\A r \in included : swarm'[r] = swarm[r]]_vars

(* What may be lost, and nothing else is: a tracker to the DNS or to a     *)
(* port that int16_t cannot hold; a listed endpoint when leechers +        *)
(* seeders does not fit 16 bits, and then perhaps all of them, or when one *)
(* without an address comes before it                                      *)
(* (torrenter.cpp:33, tracker.cpp:67-72).                                  *)
LostForACause ==
  /\ \A u \in Urls \ (resolving \cup resolved \cup unknown) : Port[u] > 32767
  /\ \A f \in Fetches :
       reply[f].action = "Announce" =>
         \A i \in DOMAIN reply[f].peers :
           \/ reply[f].peers[i] \in swarm[f[2]]
           \/ reply[f].total >= 65536
           \/ ~AllSet(reply[f].peers, i)

(* Whatever the network loses, every fetch comes to its end and the        *)
(* tracker loop to its next is_done() (tracker.cpp:80-112, 129).           *)
FetchEnds ==
  /\ \A f \in Fetches : fetch[f].pc = "sendConnect" ~> fetch[f].pc = "done"
  /\ loop = "waiting" ~> loop # "waiting"

=============================================================================
