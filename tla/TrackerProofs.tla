--------------------------- MODULE TrackerProofs ----------------------------
(***************************************************************************)
(* Theorems about Tracker, for any trackers, ports, listings, Error texts, *)
(* stray datagrams and number of turns.                                    *)
(***************************************************************************)
EXTENDS Tracker, TLAPS

(* What a tracker may send in answer to a request: an announce is answered *)
(* with a listing only if it carries the id that was issued.               *)
Greetings == {ConnectReply} \cup {ErrorReply(n) : n \in ErrorTexts} \cup Strays
Datagrams == Greetings \cup {AnnounceReply(l) : l \in Listings}

Announces == [action : {"Announce"}, id : Ids]

FetchStates == {"none", "done"} \cup Sending \cup Awaiting

FetchRecords == [pc : FetchStates, expired : BOOLEAN, id : Ids \cup {"none"}]

TrackerTypeOK ==
  /\ resolved \subseteq Urls
  /\ round \in 0..MaxRounds
  /\ fetch \in [Fetches -> FetchRecords]
  /\ sent \in [Fetches -> SUBSET Requests]
  /\ mail \in [Fetches -> SUBSET Datagrams]
  /\ reply \in [Fetches -> Datagrams \cup {NoReply}]
  /\ DOMAIN swarm = 1..MaxRounds

(* Fetches of turns to come have not begun, and one that is underway has   *)
(* put nothing into its swarm.                                             *)
FetchesFollowRounds ==
  /\ \A f \in Fetches : fetch[f].pc # "none" => f[2] <= round
  /\ \A f \in Fetches : reply[f] # NoReply => fetch[f].pc = "done"

TurnHasBegun == loop = "waiting" => round # 0

(* The swarm of the turn that is underway was not handed over yet. *)
IncludedIsPast ==
  /\ \A r \in included : r \in 1..round
  /\ loop = "waiting" => round \notin included

(* No listing is on its way to a socket that has not announced; an         *)
(* announce has an id; and where it came from is still in the mail.        *)
SocketOK(f) ==
  /\ fetch[f].pc \in {"none", "sendConnect", "awaitConnect"} =>
       sent[f] \cap Announces = {} /\ mail[f] \subseteq Greetings
  /\ fetch[f].pc \in {"sendAnnounce", "awaitAnnounce"} => fetch[f].id \in Ids
  /\ fetch[f].id = "issued" => ConnectReply \in mail[f]
  /\ fetch[f].id = Text =>
       \E d \in mail[f] : /\ d.action = "Error" /\ d.from = "tracker"
                          /\ d.size >= SizeOfErrorResponse

SocketsOK == \A f \in Fetches : SocketOK(f)

TrackerInv ==
  /\ TrackerTypeOK
  /\ FetchesFollowRounds
  /\ TurnHasBegun
  /\ IncludedIsPast
  /\ SocketsOK
  /\ OnlyListedPeers
  /\ LostForACause

-----------------------------------------------------------------------------
(* Datagrams *)

(* What comes from a tracker is one of its three answers. *)
LEMMA FromTrackerKinds ==
  ASSUME NEW d \in Datagrams, FromTracker(d)
  PROVE  \/ d = ConnectReply
         \/ \E n \in ErrorTexts : d = ErrorReply(n)
         \/ d \notin Greetings /\ \E l \in Listings : d = AnnounceReply(l)
BY StraysAssumption DEF StraysAssumption, Datagrams, Greetings, FromTracker

LEMMA ConnectReplyFields ==
  /\ ConnectReply.action = "Connect" /\ ConnectReply.from = "tracker"
  /\ ConnectReply.size = 16
BY DEF ConnectReply, SizeOfConnectResponse

LEMMA ErrorReplyFields ==
  ASSUME NEW n \in ErrorTexts
  PROVE  /\ ErrorReply(n).action = "Error" /\ ErrorReply(n).from = "tracker"
         /\ ErrorReply(n).size \in Nat
BY TrackerAssumption DEF ErrorReply, TrackerAssumption

LEMMA AnnounceReplyFields ==
  ASSUME NEW l \in Listings
  PROVE  /\ AnnounceReply(l).action = "Announce" /\ AnnounceReply(l).from = "tracker"
         /\ AnnounceReply(l).peers = l.peers /\ AnnounceReply(l).total = l.total
BY DEF AnnounceReply

(* A response that is taken for a connect response before the announce is  *)
(* the ConnectResponse or a long Error.                                    *)
LEMMA TakenForConnect ==
  ASSUME NEW d \in Greetings, FromTracker(d), parse_message(SizeOfConnectResponse, d)
  PROVE  IF d.action = "Connect" THEN d = ConnectReply
         ELSE d.action = "Error" /\ d.size >= SizeOfErrorResponse
<1>1. CASE d = ConnectReply
  BY <1>1, ConnectReplyFields
<1>2. ASSUME NEW n \in ErrorTexts, d = ErrorReply(n)
      PROVE  d.action = "Error" /\ d.size >= SizeOfErrorResponse
  BY <1>2, ErrorReplyFields DEF parse_message
<1> QED
  BY <1>1, <1>2, FromTrackerKinds DEF Datagrams

(* A response that is taken for an announce response is a listing or a     *)
(* long Error: a second ConnectResponse is too short.                      *)
LEMMA TakenForAnnounce ==
  ASSUME NEW d \in Datagrams, FromTracker(d), parse_message(SizeOfAnnounceResponse, d)
  PROVE  \/ \E l \in Listings : d = AnnounceReply(l)
         \/ d.action = "Error" /\ d.size >= SizeOfErrorResponse
<1>1. d # ConnectReply
  BY ConnectReplyFields DEF parse_message, SizeOfAnnounceResponse
<1>2. ASSUME NEW n \in ErrorTexts, d = ErrorReply(n)
      PROVE  d.action = "Error" /\ d.size >= SizeOfErrorResponse
  BY <1>2, ErrorReplyFields DEF parse_message
<1> QED
  BY <1>1, <1>2, FromTrackerKinds

(* The endpoints that datagram d lists are in S, save those that may be    *)
(* lost.                                                                   *)
AreIn(d, S) ==
  \A i \in DOMAIN d.peers :
    d.peers[i] \in S \/ d.total >= 65536 \/ ~AllSet(d.peers, i)

(* What parse_ipv4_peer_endpoints makes of such a response: endpoints it   *)
(* lists, all up to one without an address if their number fits 16 bits,   *)
(* or an Error's text.                                                     *)
LEMMA FoundEndpoints ==
  ASSUME NEW d \in Datagrams, FromTracker(d), parse_message(SizeOfAnnounceResponse, d),
         NEW found \in Endpoints(d)
  PROVE  /\ \A e \in found : \/ e \in PeersOf(d)
                             \/ e = Text /\ d.action = "Error" /\ d.size >= SizeOfErrorResponse
         /\ d.action = "Announce" => AreIn(d, found)
<1>1. ASSUME NEW l \in Listings, d = AnnounceReply(l)
      PROVE  /\ found \subseteq PeersOf(d)
             /\ AreIn(d, found)
  <2>1. /\ d.action = "Announce" /\ d.peers = l.peers /\ d.total = l.total
        /\ l.total \in Nat /\ Len(l.peers) <= l.total
        /\ DOMAIN l.peers = 1..Len(l.peers) /\ Len(l.peers) \in Nat
    BY <1>1, AnnounceReplyFields, ListingsAssumption DEF ListingsAssumption
  <2>2. found = {d.peers[i] : i \in {j \in DOMAIN d.peers : j <= PeersCount(d.total) /\ AllSet(d.peers, j)}}
    BY <2>1 DEF Endpoints
  <2>3. found \subseteq PeersOf(d)
    BY <2>1, <2>2 DEF PeersOf
  <2>4. ASSUME d.total < 65536, NEW i \in DOMAIN d.peers, AllSet(d.peers, i)
        PROVE  d.peers[i] \in found
    <3>1. PeersCount(d.total) = d.total
      BY <2>1, <2>4 DEF PeersCount
    <3>2. \A j \in DOMAIN d.peers : j <= d.total
      BY <2>1
    <3> QED
      BY <2>1, <2>2, <2>4, <3>1, <3>2
  <2>5. d.total < 65536 \/ d.total >= 65536
    BY <2>1
  <2> QED
    BY <2>3, <2>4, <2>5 DEF AreIn
<1>2. ASSUME d.action = "Error" PROVE \A e \in found : e = Text
  BY <1>2 DEF Endpoints
<1> QED
  BY <1>1, <1>2, TakenForAnnounce

-----------------------------------------------------------------------------
(* The invariant *)

LEMMA TrackerInit == Init => TrackerInv
<1> SUFFICES ASSUME Init PROVE TrackerInv
  OBVIOUS
<1>1. TrackerTypeOK
  BY TrackerAssumption DEF Init, TrackerTypeOK, TrackerAssumption,
     FetchRecords, FetchStates, Ids
<1>2. FetchesFollowRounds /\ TurnHasBegun /\ IncludedIsPast
  BY DEF Init, TurnHasBegun, FetchesFollowRounds, IncludedIsPast
<1>3. OnlyListedPeers
  BY DEF Init, OnlyListedPeers
<1>4. SocketsOK
  BY DEF Init, SocketsOK, SocketOK, Text
<1>5. LostForACause
  BY DEF Init, LostForACause, NoReply
<1> QED
  BY <1>1, <1>2, <1>3, <1>4, <1>5 DEF TrackerInv

(* A port that int16_t cannot hold is the only one that is given up.       *)
LEMMA ResolveStep ==
  ASSUME TrackerInv, NEW u \in Urls, Resolve(u)
  PROVE  TrackerInv'
<1>1. UNCHANGED <<loop, round, included, fetch, sent, mail, reply, swarm>>
  BY DEF Resolve, loopVars
<1>2. TrackerTypeOK'
  BY <1>1 DEF Resolve, TrackerInv, TrackerTypeOK
<1>3. (FetchesFollowRounds /\ TurnHasBegun /\ IncludedIsPast)'
  BY <1>1 DEF TrackerInv, TurnHasBegun, FetchesFollowRounds, IncludedIsPast
<1>4. (OnlyListedPeers /\ SocketsOK)'
  BY <1>1 DEF TrackerInv, OnlyListedPeers, SocketsOK, SocketOK
<1>5. LostForACause'
  <2>1. \A v \in Urls : Port[v] \in Nat /\ Port[v] < 65536
    BY TrackerAssumption DEF TrackerAssumption
  <2>2. \A v \in Urls \ (resolving' \cup resolved' \cup unknown') : Port[v] > 32767
    BY <2>1 DEF Resolve, TrackerInv, LostForACause, AsInt16
  <2> QED
    BY <1>1, <2>2 DEF TrackerInv, LostForACause
<1> QED
  BY <1>2, <1>3, <1>4, <1>5 DEF TrackerInv

LEMMA SetPc ==
  ASSUME NEW r \in FetchRecords, NEW pc \in FetchStates
  PROVE  /\ [r EXCEPT !.pc = pc] \in FetchRecords
         /\ [r EXCEPT !.pc = pc].pc = pc
         /\ [r EXCEPT !.pc = pc].id = r.id
BY DEF FetchRecords

LEMMA FetchTurn ==
  ASSUME NEW f \in Fetches
  PROVE  f[2] \in 1..MaxRounds /\ f = <<f[1], f[2]>> /\ f[1] \in Urls
BY DEF Fetches

(* The steps of the loop that begin no turn. *)
LEMMA LoopStep ==
  ASSUME TrackerInv, StartDownload \/ DownloadDone \/ TimerEnds
  PROVE  TrackerInv'
<1>1. UNCHANGED <<resolving, resolved, unknown, round, fetch, sent, mail, reply, swarm>>
  BY DEF StartDownload, DownloadDone, TimerEnds, resolveVars
<1>2. TrackerTypeOK'
  BY <1>1 DEF TrackerInv, TrackerTypeOK
<1>3. IncludedIsPast'
  <2>1. CASE StartDownload \/ DownloadDone
    BY <1>1, <2>1 DEF StartDownload, DownloadDone, TrackerInv, IncludedIsPast
  <2>2. CASE TimerEnds
    <3>1. round \in 1..round
      BY <2>2 DEF TimerEnds, TrackerInv, TrackerTypeOK, TurnHasBegun
    <3> QED
      BY <1>1, <2>2, <3>1 DEF TimerEnds, TrackerInv, IncludedIsPast
  <2> QED
    BY <2>1, <2>2
<1>4. (FetchesFollowRounds /\ SocketsOK)'
  BY <1>1 DEF TrackerInv, FetchesFollowRounds, SocketsOK, SocketOK
<1>5. (OnlyListedPeers /\ LostForACause)'
  BY <1>1 DEF TrackerInv, OnlyListedPeers, LostForACause
<1>6. TurnHasBegun'
  BY <1>1 DEF StartDownload, DownloadDone, TimerEnds, TrackerInv, TurnHasBegun
<1> QED
  BY <1>2, <1>3, <1>4, <1>5, <1>6 DEF TrackerInv

(* A turn begins with fetches that were never used. *)
LEMMA StartRoundStep ==
  ASSUME TrackerInv, StartRound
  PROVE  TrackerInv'
<1>1. UNCHANGED <<resolving, resolved, unknown, included, sent, mail, reply, swarm>>
  BY DEF StartRound, resolveVars
<1>2. round \in Nat /\ round' = round + 1 /\ round' \in 0..MaxRounds /\ MaxRounds \in Nat
  BY TrackerAssumption DEF StartRound, TrackerInv, TrackerTypeOK, TrackerAssumption
<1>10. \A f \in Fetches : fetch[f] \in FetchRecords
  BY DEF TrackerInv, TrackerTypeOK
<1>3. \A f \in Fetches :
        /\ fetch'[f] \in FetchRecords
        /\ fetch'[f].id = fetch[f].id
        /\ \/ fetch'[f].pc = fetch[f].pc
           \/ fetch'[f].pc = "sendConnect" /\ fetch[f].pc = "none" /\ f[2] = round'
  <2> TAKE f \in Fetches
  <2>1. f[2] = round + 1 => fetch[f].pc = "none"
    BY <1>2, FetchTurn DEF TrackerInv, FetchesFollowRounds
  <2>2. "sendConnect" \in FetchStates
    BY DEF FetchStates, Sending
  <2>3. \/ fetch'[f] = fetch[f]
        \/ f[2] = round + 1 /\ fetch'[f] = [fetch[f] EXCEPT !.pc = "sendConnect"]
    BY DEF StartRound
  <2>4. fetch[f] \in FetchRecords
    BY <1>10
  <2>5. /\ [fetch[f] EXCEPT !.pc = "sendConnect"] \in FetchRecords
        /\ [fetch[f] EXCEPT !.pc = "sendConnect"].pc = "sendConnect"
        /\ [fetch[f] EXCEPT !.pc = "sendConnect"].id = fetch[f].id
    BY <2>2, <2>4, SetPc, Zenon
  <2> QED
    BY <1>2, <2>1, <2>3, <2>4, <2>5
<1>4. TrackerTypeOK'
  <2>1. \A f \in Fetches : fetch'[f] \in FetchRecords
    BY <1>3
  <2>2. DOMAIN fetch' = Fetches /\ fetch' = [f \in Fetches |-> fetch'[f]]
    BY DEF StartRound
  <2> QED
    BY <1>1, <1>2, <2>1, <2>2 DEF TrackerInv, TrackerTypeOK
<1>5. IncludedIsPast' /\ TurnHasBegun'
  BY <1>1, <1>2 DEF StartRound, TrackerInv, IncludedIsPast, TurnHasBegun
<1>6. FetchesFollowRounds'
  <2>1. \A f \in Fetches : fetch'[f].pc # "none" => f[2] <= round'
    <3> TAKE f \in Fetches
    <3>1. f[2] \in Nat
      BY <1>2, FetchTurn
    <3> QED
      BY <1>2, <1>3, <3>1 DEF TrackerInv, FetchesFollowRounds
  <2>2. \A f \in Fetches : reply'[f] # NoReply => fetch'[f].pc = "done"
    BY <1>1, <1>3 DEF TrackerInv, FetchesFollowRounds
  <2> QED
    BY <2>1, <2>2 DEF FetchesFollowRounds
<1>7. SocketsOK'
  BY <1>1, <1>3 DEF TrackerInv, SocketsOK, SocketOK
<1>9. (OnlyListedPeers /\ LostForACause)'
  BY <1>1 DEF TrackerInv, OnlyListedPeers, LostForACause
<1> QED
  BY <1>4, <1>5, <1>6, <1>7, <1>9 DEF TrackerInv

(* A step of one fetch that leaves the swarms alone keeps the invariant if *)
(* it keeps what the invariant says of this fetch and its socket.          *)
OthersKept(f) ==
  /\ UNCHANGED <<resolveVars, loopVars>>
  /\ \A g \in Fetches : g # f =>
       fetch'[g] = fetch[g] /\ sent'[g] = sent[g] /\ mail'[g] = mail[g]

LEMMA OneFetch ==
  ASSUME TrackerInv, NEW f \in Fetches, OthersKept(f),
         fetch[f].pc \in Sending \cup Awaiting, fetch'[f].pc # "none",
         SocketOK(f)'
  PROVE  (TurnHasBegun /\ IncludedIsPast /\ SocketsOK)'
         /\ \A g \in Fetches : fetch'[g].pc # "none" => g[2] <= round'
<1>1. UNCHANGED <<resolving, resolved, unknown, loop, round, included>>
  BY DEF OthersKept, resolveVars, loopVars
<1>2. (TurnHasBegun /\ IncludedIsPast)'
  BY <1>1 DEF TrackerInv, TurnHasBegun, IncludedIsPast
<1>4. SocketsOK'
  BY DEF OthersKept, TrackerInv, SocketsOK, SocketOK
<1>5. \A g \in Fetches : fetch'[g].pc # "none" => g[2] <= round'
  BY <1>1 DEF OthersKept, TrackerInv, FetchesFollowRounds, Sending, Awaiting
<1> QED
  BY <1>2, <1>4, <1>5

LEMMA SwarmKept ==
  ASSUME OnlyListedPeers, LostForACause,
         UNCHANGED <<resolving, resolved, unknown, reply, swarm>>
  PROVE  (OnlyListedPeers /\ LostForACause)'
BY DEF OnlyListedPeers, LostForACause

LEMMA OneFetchOnly ==
  ASSUME TrackerInv, NEW f \in Fetches, OthersKept(f), UNCHANGED <<reply, swarm>>,
         fetch[f].pc \in Sending \cup Awaiting, fetch'[f].pc # "none",
         SocketOK(f)',
         fetch' \in [Fetches -> FetchRecords], sent' \in [Fetches -> SUBSET Requests],
         mail' \in [Fetches -> SUBSET Datagrams]
  PROVE  TrackerInv'
<1>1. UNCHANGED <<resolving, resolved, unknown, loop, round, included>>
  BY DEF OthersKept, resolveVars, loopVars
<1>2. TrackerTypeOK'
  BY <1>1 DEF TrackerInv, TrackerTypeOK
<1>3. (OnlyListedPeers /\ LostForACause)'
  <2>1. OnlyListedPeers /\ LostForACause
    BY DEF TrackerInv
  <2> QED
    BY <1>1, <2>1, SwarmKept
<1>4. \A g \in Fetches : reply'[g] # NoReply => fetch'[g].pc = "done"
  BY DEF OthersKept, TrackerInv, FetchesFollowRounds, Sending, Awaiting
<1> QED
  BY <1>2, <1>3, <1>4, OneFetch DEF TrackerInv, FetchesFollowRounds

(* A fetch that ends leaves an empty socket and no id behind. *)
LEMMA Closed ==
  ASSUME TrackerInv, NEW f \in Fetches, Close(f)
  PROVE  /\ fetch'[f].pc = "done" /\ SocketOK(f)'
         /\ \A g \in Fetches : g # f =>
              fetch'[g] = fetch[g] /\ sent'[g] = sent[g] /\ mail'[g] = mail[g]
         /\ fetch' \in [Fetches -> FetchRecords] /\ sent' \in [Fetches -> SUBSET Requests]
         /\ mail' \in [Fetches -> SUBSET Datagrams]
<1>1. fetch' \in [Fetches -> FetchRecords]
  BY DEF Close, TrackerInv, TrackerTypeOK, FetchRecords, FetchStates
<1>2. sent' \in [Fetches -> SUBSET Requests] /\ mail' \in [Fetches -> SUBSET Datagrams]
  BY DEF Close, TrackerInv, TrackerTypeOK
<1>3. /\ fetch'[f] = [pc |-> "done", expired |-> FALSE, id |-> "none"]
      /\ sent'[f] = {} /\ mail'[f] = {}
      /\ \A g \in Fetches : g # f =>
           fetch'[g] = fetch[g] /\ sent'[g] = sent[g] /\ mail'[g] = mail[g]
  BY DEF Close, TrackerInv, TrackerTypeOK
<1> QED
  BY <1>1, <1>2, <1>3 DEF SocketOK, Text

LEMMA CloseStep ==
  ASSUME TrackerInv, NEW f \in Fetches, fetch[f].pc \in Sending \cup Awaiting, Close(f),
         UNCHANGED <<resolveVars, loopVars, reply, swarm>>
  PROVE  TrackerInv'
BY Closed, OneFetchOnly DEF OthersKept

(* The steps of a fetch. *)
LEMMA DeadlineStep ==
  ASSUME TrackerInv, NEW f \in Fetches, DeadlinePasses(f)
  PROVE  TrackerInv'
<1>1. fetch[f] \in FetchRecords /\ fetch' = [fetch EXCEPT ![f].expired = TRUE]
  BY DEF DeadlinePasses, TrackerInv, TrackerTypeOK
<1>2. fetch'[f].pc = fetch[f].pc /\ fetch'[f].id = fetch[f].id
  BY <1>1 DEF TrackerInv, TrackerTypeOK, FetchRecords
<1>3. fetch' \in [Fetches -> FetchRecords]
  BY <1>1 DEF TrackerInv, TrackerTypeOK, FetchRecords
<1>4. OthersKept(f) /\ UNCHANGED <<sent, mail, reply, swarm>>
  BY <1>1 DEF DeadlinePasses, OthersKept, TrackerInv, TrackerTypeOK
<1>5. SocketOK(f)'
  BY <1>2, <1>4 DEF TrackerInv, SocketsOK, SocketOK
<1> QED
  BY <1>2, <1>3, <1>4, <1>5, OneFetchOnly DEF DeadlinePasses, TrackerInv, TrackerTypeOK,
     Sending, Awaiting

LEMMA SendStep ==
  ASSUME TrackerInv, NEW f \in Fetches, SendDone(f)
  PROVE  TrackerInv'
<1> DEFINE pc == IF fetch[f].pc = "sendConnect" THEN "awaitConnect" ELSE "awaitAnnounce"
           request == IF fetch[f].pc = "sendConnect" THEN [action |-> "Connect"]
                      ELSE [action |-> "Announce", id |-> fetch[f].id]
<1>1. fetch[f] \in FetchRecords /\ fetch' = [fetch EXCEPT ![f].pc = pc] /\ pc \in FetchStates
  BY DEF SendDone, TrackerInv, TrackerTypeOK, FetchStates, Awaiting
<1>2. fetch'[f].pc = pc /\ fetch'[f].id = fetch[f].id
  BY <1>1 DEF TrackerInv, TrackerTypeOK, FetchRecords
<1>3. fetch' \in [Fetches -> FetchRecords]
  BY <1>1 DEF TrackerInv, TrackerTypeOK, FetchRecords
<1>4. sent' \in {sent, [sent EXCEPT ![f] = @ \cup {request}]}
  BY DEF SendDone
<1>5. request \in Requests /\ (fetch[f].pc = "sendConnect" => request \notin Announces)
  BY DEF SendDone, TrackerInv, SocketsOK, SocketOK, Requests, Announces, Sending
<1>6. sent' \in [Fetches -> SUBSET Requests]
  BY <1>4, <1>5 DEF TrackerInv, TrackerTypeOK
<1>7. OthersKept(f) /\ UNCHANGED <<mail, reply, swarm>>
  BY <1>1, <1>4 DEF SendDone, OthersKept, TrackerInv, TrackerTypeOK
<1>8. SocketOK(f)'
  <2>1. sent'[f] \subseteq sent[f] \cup {request}
    BY <1>4 DEF TrackerInv, TrackerTypeOK
  <2> QED
    <3>1. SocketOK(f) /\ mail' = mail
      BY <1>7 DEF TrackerInv, SocketsOK
    <3>2. fetch[f].pc \in Sending
      BY DEF SendDone
    <3>3. pc = "awaitConnect" => sent'[f] \cap Announces = {} /\ mail'[f] \subseteq Greetings
      BY <1>5, <2>1, <3>1, <3>2 DEF SocketOK, Sending
    <3>4. pc = "awaitAnnounce" => fetch[f].id \in Ids
      BY <3>1, <3>2 DEF SocketOK, Sending
    <3>5. pc \in {"awaitConnect", "awaitAnnounce"}
      OBVIOUS
    <3> HIDE DEF pc
    <3> QED
      BY <1>2, <3>1, <3>3, <3>4, <3>5 DEF SocketOK
<1> QED
  BY <1>2, <1>3, <1>6, <1>7, <1>8, OneFetchOnly DEF SendDone, TrackerInv, TrackerTypeOK

LEMMA ConnectStep ==
  ASSUME TrackerInv, NEW f \in Fetches, NEW d \in mail[f], ConnectReceived(f, d)
  PROVE  TrackerInv'
<1>1. d \in Greetings /\ fetch[f] \in FetchRecords /\ fetch[f].pc = "awaitConnect"
  BY DEF ConnectReceived, TrackerInv, TrackerTypeOK, SocketsOK, SocketOK
<1>2. CASE parse_message(SizeOfConnectResponse, d) /\ FromTracker(d)
  <2> DEFINE id == IF d.action = "Connect" THEN "issued" ELSE Text
  <2>1. /\ fetch' = [fetch EXCEPT ![f].pc = "sendAnnounce", ![f].id = id]
        /\ UNCHANGED <<sent, mail, reply, swarm, resolveVars, loopVars>>
    BY <1>2 DEF ConnectReceived
  <2>2. fetch'[f].pc = "sendAnnounce" /\ fetch'[f].id = id
    BY <1>1, <2>1 DEF TrackerInv, TrackerTypeOK, FetchRecords
  <2>3. fetch' \in [Fetches -> FetchRecords]
    BY <1>1, <2>1 DEF TrackerInv, TrackerTypeOK, FetchRecords, FetchStates, Sending, Ids
  <2>4. OthersKept(f)
    BY <2>1 DEF OthersKept, TrackerInv, TrackerTypeOK
  <2>5. SocketOK(f)'
    <3>1. mail' = mail
      BY <2>1
    <3>2. id \in Ids /\ (id = "issued" => d = ConnectReply)
          /\ (id = Text => d.action = "Error" /\ d.size >= SizeOfErrorResponse)
      BY <1>1, <1>2, TakenForConnect DEF Text, Ids
    <3>3. d.from = "tracker"
      BY <1>2 DEF FromTracker
    <3> HIDE DEF id
    <3> QED
      BY <2>2, <3>1, <3>2, <3>3 DEF SocketOK
  <2> QED
    BY <1>1, <2>1, <2>2, <2>3, <2>4, <2>5, OneFetchOnly DEF TrackerInv, TrackerTypeOK, Awaiting
<1>3. CASE ~(parse_message(SizeOfConnectResponse, d) /\ FromTracker(d))
  BY <1>1, <1>3, CloseStep DEF ConnectReceived, Awaiting
<1> QED
  BY <1>2, <1>3

(* A listing joins the swarm of the turn it was asked in, and only the     *)
(* narrowing of its length and an unset address lose any of it.            *)
LEMMA AnnounceStep ==
  ASSUME TrackerInv, NEW f \in Fetches, NEW d \in mail[f], AnnounceReceived(f, d)
  PROVE  TrackerInv'
<1>1. d \in Datagrams /\ fetch[f].pc = "awaitAnnounce" /\ Close(f)
  BY DEF AnnounceReceived, TrackerInv, TrackerTypeOK
<1>2. UNCHANGED <<resolving, resolved, unknown, loop, round, included>>
  BY DEF AnnounceReceived, resolveVars, loopVars
<1>3. CASE UNCHANGED <<reply, swarm>>
  BY <1>1, <1>3, CloseStep DEF AnnounceReceived, Awaiting
<1>4. ASSUME FromTracker(d), parse_message(SizeOfAnnounceResponse, d),
             reply' = [reply EXCEPT ![f] = d],
             NEW found \in Endpoints(d), swarm' = [swarm EXCEPT ![f[2]] = @ \cup found]
      PROVE  TrackerInv'
  <2>1. /\ fetch'[f].pc = "done" /\ SocketOK(f)' /\ OthersKept(f)
        /\ fetch' \in [Fetches -> FetchRecords] /\ sent' \in [Fetches -> SUBSET Requests]
        /\ mail' \in [Fetches -> SUBSET Datagrams]
    BY <1>1, Closed DEF OthersKept, AnnounceReceived
  <2>2. /\ (TurnHasBegun /\ IncludedIsPast /\ SocketsOK)'
        /\ \A g \in Fetches : fetch'[g].pc # "none" => g[2] <= round'
    BY <1>1, <2>1, OneFetch DEF Awaiting
  <2>3. reply'[f] = d /\ \A g \in Fetches : g # f => reply'[g] = reply[g]
    BY <1>4 DEF TrackerInv, TrackerTypeOK
  <2>4. /\ f[2] \in 1..MaxRounds /\ f = <<f[1], f[2]>> /\ f[1] \in Urls
        /\ swarm'[f[2]] = swarm[f[2]] \cup found
        /\ \A r \in 1..MaxRounds : r # f[2] => swarm'[r] = swarm[r]
    BY <1>4, FetchTurn DEF TrackerInv, TrackerTypeOK
  <2>5. reply[f] = NoReply
    BY <1>1 DEF TrackerInv, FetchesFollowRounds
  <2>6. TrackerTypeOK'
    <3>1. reply' \in [Fetches -> Datagrams \cup {NoReply}] /\ DOMAIN swarm' = 1..MaxRounds
      BY <1>1, <1>4 DEF TrackerInv, TrackerTypeOK
    <3> QED
      BY <1>2, <2>1, <3>1 DEF TrackerInv, TrackerTypeOK
  <2>7. FetchesFollowRounds'
    <3>1. \A g \in Fetches : reply'[g] # NoReply => fetch'[g].pc = "done"
      BY <2>1, <2>3 DEF OthersKept, TrackerInv, FetchesFollowRounds
    <3> QED
      BY <2>2, <3>1 DEF FetchesFollowRounds
  <2>8. /\ \A e \in found : \/ e \in PeersOf(d)
                            \/ e = Text /\ d.action = "Error" /\ d.size >= SizeOfErrorResponse
        /\ d.action = "Announce" => AreIn(d, found)
    BY <1>1, <1>4, FoundEndpoints
  <2>9. OnlyListedPeers'
    <3> SUFFICES ASSUME NEW r \in 1..MaxRounds, NEW e \in swarm'[r]
                 PROVE  \E u \in Urls :
                          \/ reply'[<<u, r>>].from = "tracker" /\ e \in PeersOf(reply'[<<u, r>>])
                          \/ /\ e = Text /\ reply'[<<u, r>>].action = "Error"
                             /\ reply'[<<u, r>>].size >= SizeOfErrorResponse
      BY Zenon DEF OnlyListedPeers
    <3>1. CASE r = f[2] /\ e \in found
      BY <1>4, <2>3, <2>4, <2>8, <3>1 DEF FromTracker
    <3>2. CASE e \in swarm[r]
      <4>1. PICK u \in Urls :
              \/ reply[<<u, r>>].from = "tracker" /\ e \in PeersOf(reply[<<u, r>>])
              \/ /\ e = Text /\ reply[<<u, r>>].action = "Error"
                 /\ reply[<<u, r>>].size >= SizeOfErrorResponse
        BY <3>2, Zenon DEF TrackerInv, OnlyListedPeers
      <4>2. <<u, r>> # f
        BY <2>5, <4>1 DEF NoReply
      <4>3. reply'[<<u, r>>] = reply[<<u, r>>]
        BY <2>3, <4>2 DEF Fetches
      <4> QED
        BY <4>1, <4>3
    <3> QED
      BY <2>4, <3>1, <3>2
  <2>10. LostForACause'
    <3>1. \A u \in Urls \ (resolving' \cup resolved' \cup unknown') : Port[u] > 32767
      BY <1>2 DEF TrackerInv, LostForACause
    <3>2. ASSUME NEW g \in Fetches, reply'[g].action = "Announce"
          PROVE  AreIn(reply'[g], swarm'[g[2]])
      <4>1. CASE g = f
        <5>1. AreIn(d, found) /\ reply'[g] = d /\ found \subseteq swarm'[g[2]]
          BY <2>3, <2>4, <2>8, <3>2, <4>1
        <5> QED
          BY <5>1 DEF AreIn
      <4>2. CASE g # f
        <5>1. g[2] \in 1..MaxRounds /\ reply'[g] = reply[g]
          BY <2>3, <4>2, FetchTurn
        <5>2. AreIn(reply[g], swarm[g[2]])
          BY <3>2, <5>1 DEF TrackerInv, LostForACause, AreIn
        <5>3. swarm[g[2]] \subseteq swarm'[g[2]]
          BY <2>4, <5>1
        <5> QED
          BY <5>1, <5>2, <5>3 DEF AreIn
      <4> QED
        BY <4>1, <4>2
    <3> QED
      BY <3>1, <3>2 DEF LostForACause, AreIn
  <2> QED
    BY <2>2, <2>6, <2>7, <2>9, <2>10 DEF TrackerInv
<1> QED
  BY <1>3, <1>4 DEF AnnounceReceived

(* One more datagram that may reach a socket. *)
LEMMA MailStep ==
  ASSUME TrackerInv, NEW f \in Fetches, fetch[f].pc \in Sending \cup Awaiting,
         NEW d \in Datagrams,
         d \in Greetings \/ sent[f] \cap Announces # {},
         mail' = [mail EXCEPT ![f] = @ \cup {d}],
         UNCHANGED <<resolveVars, loopVars, fetch, sent, reply, swarm>>
  PROVE  TrackerInv'
<1>1. /\ mail'[f] = mail[f] \cup {d}
      /\ mail' \in [Fetches -> SUBSET Datagrams] /\ OthersKept(f)
  BY DEF TrackerInv, TrackerTypeOK, OthersKept
<1>2. fetch' = fetch /\ sent' = sent
  OBVIOUS
<1>3. SocketOK(f)'
  <2>1. SocketOK(f)
    BY DEF TrackerInv, SocketsOK
  <2> QED
    BY <1>1, <1>2, <2>1 DEF SocketOK
<1> QED
  BY <1>1, <1>2, <1>3, OneFetchOnly DEF TrackerInv, TrackerTypeOK, Sending, Awaiting

LEMMA ReplyStep ==
  ASSUME TrackerInv, NEW f \in Fetches, TrackerReplies(f)
  PROVE  TrackerInv'
<1>1. ASSUME mail' = [mail EXCEPT ![f] = @ \cup {ConnectReply}] PROVE TrackerInv'
  BY <1>1, MailStep DEF TrackerReplies, Greetings, Datagrams
<1>2. ASSUME [action |-> "Announce", id |-> "issued"] \in sent[f],
             NEW l \in Listings, mail' = [mail EXCEPT ![f] = @ \cup {AnnounceReply(l)}]
      PROVE  TrackerInv'
  <2>1. sent[f] \cap Announces # {} /\ AnnounceReply(l) \in Datagrams
    BY <1>2 DEF Announces, Ids, Datagrams
  <2> QED
    BY <1>2, <2>1, MailStep DEF TrackerReplies
<1>3. ASSUME NEW n \in ErrorTexts, mail' = [mail EXCEPT ![f] = @ \cup {ErrorReply(n)}]
      PROVE  TrackerInv'
  BY <1>3, MailStep DEF TrackerReplies, Greetings, Datagrams
<1> QED
  BY <1>1, <1>2, <1>3 DEF TrackerReplies

LEMMA StrayStep ==
  ASSUME TrackerInv, NEW f \in Fetches, StrayArrives(f)
  PROVE  TrackerInv'
BY MailStep DEF StrayArrives, Greetings, Datagrams

LEMMA StutterStep ==
  ASSUME TrackerInv, UNCHANGED vars
  PROVE  TrackerInv'
<1>1. UNCHANGED <<resolving, resolved, unknown, loop, round, included,
                  fetch, sent, mail, reply, swarm>>
  BY DEF vars, resolveVars, loopVars
<1>2. (TrackerTypeOK /\ FetchesFollowRounds /\ TurnHasBegun /\ IncludedIsPast)'
  BY <1>1 DEF TrackerInv, TrackerTypeOK, FetchesFollowRounds, TurnHasBegun, IncludedIsPast
<1>3. SocketsOK'
  BY <1>1 DEF TrackerInv, SocketsOK, SocketOK
<1> QED
  BY <1>1, <1>2, <1>3, SwarmKept DEF TrackerInv

LEMMA TrackerNext == TrackerInv /\ [Next]_vars => TrackerInv'
<1> SUFFICES ASSUME TrackerInv, [Next]_vars PROVE TrackerInv'
  OBVIOUS
<1>1. ASSUME NEW f \in Fetches, SendThrows(f) \/ ReceiveTimesOut(f) PROVE TrackerInv'
  BY <1>1, CloseStep DEF SendThrows, ReceiveTimesOut
<1>2. ASSUME NEW f \in Fetches,
             DeadlinePasses(f) \/ SendDone(f) \/ SendThrows(f) \/ Receive(f)
               \/ TrackerReplies(f) \/ StrayArrives(f)
      PROVE  TrackerInv'
  BY <1>1, <1>2, DeadlineStep, SendStep, ConnectStep, AnnounceStep, ReplyStep, StrayStep
     DEF Receive
<1> QED
  BY <1>2, ResolveStep, LoopStep, StartRoundStep, StutterStep DEF Next

(* The invariant holds in every state, whatever the network does. *)
THEOREM TrackerInvariant == Spec => []TrackerInv
  BY TrackerInit, TrackerNext, PTL DEF Spec

(* No stray, duplicated or late datagram adds an endpoint to a swarm: all  *)
(* were listed by the tracker that was asked, in this turn, except the     *)
(* text of a long Error (Tracker::fetch_udp_swarm).                        *)
THEOREM SwarmOnlyHasListedPeers == Spec => []OnlyListedPeers
<1>1. TrackerInv => OnlyListedPeers
  BY DEF TrackerInv
<1> QED
  BY <1>1, TrackerInvariant, PTL

(* The connection_id of an announce is one that came to the same socket.   *)
THEOREM AnnouncesUseIssuedIds == Spec => []AnnounceUsesIssuedId
<1>1. TrackerInv => AnnounceUsesIssuedId
  BY DEF TrackerInv, SocketsOK, SocketOK, AnnounceUsesIssuedId
<1> QED
  BY <1>1, TrackerInvariant, PTL

(* Nothing but the two narrowing conversions and an endpoint without an    *)
(* address loses a tracker that the DNS knows, or a listed endpoint.       *)
THEOREM LossesHaveACause == Spec => []LostForACause
<1>1. TrackerInv => LostForACause
  BY DEF TrackerInv
<1> QED
  BY <1>1, TrackerInvariant, PTL

(* A fetch that outlives its turn adds nothing to the swarm that include() *)
(* was given (the weak_ptr of fetch_udp_swarm).                            *)
THEOREM IncludedSwarmsAreFinal == Spec => SwarmIsFinal
<1>1. TrackerInv /\ [Next]_vars => [\A r \in included : swarm'[r] = swarm[r]]_vars
  <2> SUFFICES ASSUME TrackerInv, Next, NEW r \in included PROVE swarm'[r] = swarm[r]
    OBVIOUS
  <2>1. ASSUME NEW f \in Fetches, NEW d, AnnounceReceived(f, d), swarm' # swarm
        PROVE  swarm'[r] = swarm[r]
    <3>1. loop = "waiting" /\ round = f[2]
      BY <2>1 DEF AnnounceReceived, Lock
    <3>2. r # f[2]
      BY <3>1 DEF TrackerInv, IncludedIsPast
    <3>3. PICK found : swarm' = [swarm EXCEPT ![f[2]] = @ \cup found]
      BY <2>1 DEF AnnounceReceived
    <3> QED
      BY <3>2, <3>3
  <2>2. ASSUME NEW f \in Fetches, Receive(f) PROVE swarm'[r] = swarm[r]
    BY <2>1, <2>2 DEF Receive, ReceiveTimesOut, ConnectReceived
  <2>3. ASSUME NEW f \in Fetches,
               DeadlinePasses(f) \/ SendDone(f) \/ SendThrows(f)
                 \/ TrackerReplies(f) \/ StrayArrives(f)
        PROVE  swarm' = swarm
    BY <2>3 DEF DeadlinePasses, SendDone, SendThrows, TrackerReplies, StrayArrives
  <2>4. ASSUME (\E u \in Urls : Resolve(u)) \/ StartDownload \/ StartRound \/ DownloadDone
                 \/ TimerEnds
        PROVE  swarm' = swarm
    BY <2>4 DEF Resolve, StartDownload, StartRound, DownloadDone, TimerEnds
  <2> QED
    BY <2>2, <2>3, <2>4 DEF Next
<1> QED
  BY <1>1, TrackerInvariant, PTL DEF Spec, SwarmIsFinal

=============================================================================
