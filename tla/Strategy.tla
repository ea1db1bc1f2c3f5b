------------------------------ MODULE Strategy ------------------------------
(***************************************************************************)
(* RandomPieceStrategy (source/client/reactor/strategy/strategy.hpp), the  *)
(* two loops of Reactor::download that drive it (reactor.hpp) and the      *)
(* FileDirectoryStorage they store pieces in (storage.cpp).                *)
(*                                                                         *)
(* The loops are coroutines of one single-threaded io_context:             *)
(*   R  wait; assign; forever (wait; revoke; assign; is_done); merge       *)
(*   T  while not is_done (ask the trackers, wait, include)                *)
(* They share the strategy, and either may be suspended inside assign() or *)
(* is_done() while the other runs.  A program counter in Running is a      *)
(* coroutine that has the thread: nothing else takes a step.  Downloaders  *)
(* are what Downloader shows of them: a piece asked for is being worked on *)
(* until it is Complete or Corrupt, for as long as the connection lasts.   *)
(***************************************************************************)
EXTENDS Naturals, Sequences, FiniteSets

CONSTANTS
  PieceCount,
  Addresses,    \* the addresses the trackers know
  MaxConnects,  \* bound: how many Peers are made for an address
  Bitfields,    \* the sets of pieces a remote peer may have
  MaxLosses,    \* bound: connections lost
  MaxCorrupt,   \* bound: pieces that arrive corrupt
  MaxFaults     \* bound: failed writes and crashes of the process

Pieces == 0..(PieceCount - 1)

(* A Downloader: the address of its Peer and which one for that address. *)
Downloaders == Addresses \X (1..MaxConnects)

ASSUME StrategyAssumption ==
  /\ PieceCount \in Nat \ {0}
  /\ MaxConnects \in Nat
  /\ Bitfields \subseteq SUBSET Pieces
  /\ MaxLosses \in Nat
  /\ MaxCorrupt \in Nat
  /\ MaxFaults \in Nat

VARIABLES
  m_missing_pieces,
  m_piece_downloaders,   \* index -> vector of downloaders; no entry is <<>>
  m_peer_pool,           \* downloader -> vector of assigned pieces
  m_active_connections,  \* contacts, which are compared by address alone
  peer,                  \* the Downloader objects
  files,                 \* the piece files in the vault
  task,                  \* the frames of the coroutines R and T
  torn,                  \* pieces whose file was left half-written
  undefined,             \* the program ran into undefined behaviour
  budget                 \* what is left of the bounds

strategyVars ==
  <<m_missing_pieces, m_piece_downloaders, m_peer_pool, m_active_connections>>
vars == <<strategyVars, peer, files, task, torn, undefined, budget>>

Running   == {"assigning", "polling", "pushed"}
Suspended == {"waiting", "downloading", "pushing", "repeating", "merging"}
Ended     == {"finished", "failed"}

(* pc; first: R's assign() before its loop; todo: what assign() has yet to *)
(* look at; in is_done(): the entry and the position in its vector the two *)
(* loops are at, the end they took, the indexes completed, and what others *)
(* did to that vector meanwhile, the downloaders they put in or took out   *)
(* and whether they freed it; downloader: the one being awaited.           *)
Frame(pc, first) ==
  [pc |-> pc, first |-> first, todo |-> <<>>, index |-> 0, pos |-> 1, end |-> 0,
   completed |-> {}, moved |-> {}, freed |-> FALSE, downloader |-> <<>>]

NoPeer == [conn |-> "none", has |-> {}, got |-> [p \in Pieces |-> "none"]]

TypeOK ==
  /\ m_missing_pieces \subseteq Pieces
  /\ m_piece_downloaders \in [Pieces -> Seq(Downloaders)]
  /\ DOMAIN m_peer_pool \subseteq Downloaders
  /\ \A d \in DOMAIN m_peer_pool : m_peer_pool[d] \in Seq(Pieces)
  /\ m_active_connections \subseteq Addresses
  /\ peer \in [Downloaders ->
       [conn : {"none", "connecting", "connected", "lost", "ended", "zombie"},
        has : SUBSET Pieces,
        got : [Pieces -> {"none", "working", "Complete", "Corrupt"}]]]
  /\ files \in [Pieces -> {"absent", "partial", "whole"}]
  /\ DOMAIN task = {"R", "T"}
  /\ \A x \in {"R", "T"} :
       task[x] \in [pc : Running \cup Suspended \cup Ended, first : BOOLEAN,
                    todo : Seq(Pieces), index : 0..PieceCount, pos : Nat,
                    end : Nat, completed : SUBSET Pieces,
                    moved : SUBSET Downloaders, freed : BOOLEAN,
                    downloader : Downloaders \cup {<<>>}]
  /\ torn \subseteq Pieces
  /\ undefined \in BOOLEAN
  /\ budget \in [losses : 0..MaxLosses, corrupt : 0..MaxCorrupt, faults : 0..MaxFaults]

(* FileDirectoryStorage: exists(), which asks for any file, and pull_piece *)
(* of a whole piece, whose read throws on a short file.                    *)
exists(vault, p) == vault[p] # "absent"

pull_piece(p) == files[p] = "whole"

StartOverAgain(vault) ==
  /\ m_missing_pieces' = Pieces
  /\ m_piece_downloaders' = [p \in Pieces |-> <<>>]
  /\ m_peer_pool' = [d \in {} |-> <<>>]
  /\ m_active_connections' = {}
  /\ task' = [x \in {"R", "T"} |->
                IF x = "R" THEN Frame("waiting", TRUE) ELSE Frame("polling", FALSE)]

(* The strategy's constructor, on the files it finds, and co_spawn of T. *)
Start(vault) ==
  /\ m_missing_pieces' = {p \in Pieces : ~exists(vault, p)}
  /\ m_piece_downloaders' = [p \in Pieces |-> <<>>]
  /\ m_peer_pool' = [d \in {} |-> <<>>]
  /\ m_active_connections' = {}
  /\ task' = [x \in {"R", "T"} |->
                IF x = "R" THEN Frame("waiting", TRUE) ELSE Frame("polling", FALSE)]

InitOffByOne ==
  /\ files = [p \in Pieces |-> "absent"]
  /\ m_missing_pieces = 0..PieceCount
  /\ m_piece_downloaders = [p \in 0..PieceCount |-> <<>>]
  /\ m_peer_pool = [d \in {} |-> <<>>]
  /\ m_active_connections = {}
  /\ peer = [d \in Downloaders |-> NoPeer]
  /\ task = [x \in {"R", "T"} |->
               IF x = "R" THEN Frame("waiting", TRUE) ELSE Frame("polling", FALSE)]
  /\ torn = {}
  /\ undefined = FALSE
  /\ budget = [losses |-> MaxLosses, corrupt |-> MaxCorrupt, faults |-> MaxFaults]

Init ==
  /\ files = [p \in Pieces |-> "absent"]
  /\ m_missing_pieces = Pieces
  /\ m_piece_downloaders = [p \in Pieces |-> <<>>]
  /\ m_peer_pool = [d \in {} |-> <<>>]
  /\ m_active_connections = {}
  /\ peer = [d \in Downloaders |-> NoPeer]
  /\ task = [x \in {"R", "T"} |->
               IF x = "R" THEN Frame("waiting", TRUE) ELSE Frame("polling", FALSE)]
  /\ torn = {}
  /\ undefined = FALSE
  /\ budget = [losses |-> MaxLosses, corrupt |-> MaxCorrupt, faults |-> MaxFaults]

Free == ~undefined /\ \A x \in {"R", "T"} : task[x].pc \notin Running

HasThread(x) ==
  ~undefined /\ \A y \in {"R", "T"} \ {x} : task[y].pc \notin Running

-----------------------------------------------------------------------------
(* include() *)

MadeFor(a) == {n \in 1..MaxConnects : peer[<<a, n>>].conn # "none"}

(* T's timer ends: the swarm as far as it is known becomes connections.    *)
(* The first contact of an address is taken, and only while there is no    *)
(* connection to that address.                                             *)
KnownIgnored(swarm) == swarm

NewContacts(swarm) == swarm \ m_active_connections

include(swarm) ==
  LET fresh == {<<a, Cardinality(MadeFor(a)) + 1>> : a \in NewContacts(swarm)}
  IN  /\ \A a \in NewContacts(swarm) : Cardinality(MadeFor(a)) < MaxConnects
      /\ m_active_connections' = m_active_connections \cup swarm
      /\ m_peer_pool' = [d \in DOMAIN m_peer_pool \cup fresh |->
                           IF d \in fresh THEN <<>> ELSE m_peer_pool[d]]
      /\ peer' = [d \in Downloaders |->
                    IF d \in fresh THEN [NoPeer EXCEPT !.conn = "connecting"]
                                   ELSE peer[d]]

(* The first turn of is_done()'s loops. *)
StartPolling(frame, downloaders) ==
  [frame EXCEPT !.pc = "polling", !.index = 0, !.pos = 1,
                !.end = Len(downloaders[0]), !.completed = {}, !.moved = {},
                !.freed = FALSE, !.downloader = <<>>, !.todo = <<>>]

TrackerWakes(swarm) ==
  /\ Free
  /\ task["T"].pc = "waiting"
  /\ include(swarm)
  /\ task' = [task EXCEPT !["T"] = StartPolling(@, m_piece_downloaders)]
  /\ UNCHANGED <<m_missing_pieces, m_piece_downloaders, files, torn, undefined, budget>>

-----------------------------------------------------------------------------
(* revoke() and assign() *)

InSeq(s, e) == \E i \in DOMAIN s : s[i] = e

(* Frame f is suspended in is_done() at one of the entries. *)
UnderFoot(f, entries) == f.pc \in {"pushing", "repeating"} /\ f.index \in entries

(* std::remove: what is kept of s, in its order, without the members of S. *)
Without(s, S) ==
  LET kept[i \in 0..Len(s)] ==
        IF i = 0 THEN <<>>
        ELSE IF s[i] \in S THEN kept[i - 1] ELSE Append(kept[i - 1], s[i])
  IN  kept[Len(s)]

RevocableLost(d) == peer[d].conn \in {"lost", "ended"} /\ m_peer_pool[d] # <<>>

(* A connection that is over is found by the pieces assigned to it. *)
Revocable(d) == peer[d].conn = "ended" /\ m_peer_pool[d] # <<>>

RevokePoolOnly ==
  LET gone == {d \in DOMAIN m_peer_pool : Revocable(d)}
  IN  /\ m_peer_pool' = [d \in DOMAIN m_peer_pool \ gone |-> m_peer_pool[d]]
      /\ m_active_connections' = m_active_connections \ {d[1] : d \in gone}
      /\ UNCHANGED m_piece_downloaders

revoke ==
  LET gone == {d \in DOMAIN m_peer_pool : Revocable(d)}
  IN  /\ m_piece_downloaders' =
           [p \in Pieces |-> Without(m_piece_downloaders[p],
                                   {d \in gone : InSeq(m_peer_pool[d], p)})]
      /\ m_peer_pool' = [d \in DOMAIN m_peer_pool \ gone |-> m_peer_pool[d]]
      /\ m_active_connections' = m_active_connections \ {d[1] : d \in gone}

(* Those that revoke() takes out of the vector a suspended frame is at. *)
Withdrawn(f) ==
  {d \in DOMAIN m_peer_pool :
     /\ ~task["R"].first /\ Revocable(d)
     /\ UnderFoot(f, {p \in Pieces : /\ InSeq(m_peer_pool[d], p)
                                     /\ InSeq(m_piece_downloaders[p], d)})}

(* The missing pieces in a random order, gone through twice. *)
Shuffled ==
  {s \in [1..Cardinality(m_missing_pieces) -> m_missing_pieces] :
     \A i, j \in DOMAIN s : i # j => s[i] # s[j]}

(* R's timer ends. *)
ReactorWakes ==
  /\ Free
  /\ task["R"].pc = "waiting"
  /\ \/ task["R"].first /\ UNCHANGED <<m_piece_downloaders, m_peer_pool, m_active_connections>>
     \/ ~task["R"].first /\ revoke
  /\ \E s \in Shuffled :
       task' = [task EXCEPT !["R"].pc = "assigning", !["R"].todo = s \o s,
                            !["T"].moved = @ \cup Withdrawn(task["T"])]
  /\ UNCHANGED <<m_missing_pieces, peer, files, torn, undefined, budget>>

MayHaveUnbounded(p, d) ==
  /\ ~InSeq(m_piece_downloaders[p], d)
  /\ p \in peer[d].has

MayHaveActive(p, d) ==
  /\ ~InSeq(m_piece_downloaders[p], d)
  /\ p \in peer[d].has
  /\ Len(m_peer_pool[d]) < 2
  /\ peer[d].conn = "connected"

MayHave(p, d) ==
  /\ ~InSeq(m_piece_downloaders[p], d)
  /\ p \in peer[d].has
  /\ Len(m_peer_pool[d]) < 2

Candidates(p) ==
  IF Len(m_piece_downloaders[p]) < 2
  THEN {d \in DOMAIN m_peer_pool : MayHave(p, d)} ELSE {}

(* download_piece(p) of d, up to its first suspension. *)
download_piece(d, p) == peer' = [peer EXCEPT ![d].got[p] = "working"]

(* The first candidate gets the piece; the map's order is that of pointers.*)
AssignTurn ==
  /\ HasThread("R")
  /\ task["R"].pc = "assigning"
  /\ task["R"].todo # <<>>
  /\ LET p == Head(task["R"].todo) IN
     \/ /\ Candidates(p) = {}
        /\ task' = [task EXCEPT !["R"].todo = Tail(@)]
        /\ UNCHANGED peer
     \/ \E d \in Candidates(p) :
          /\ download_piece(d, p)
          /\ task' = [task EXCEPT !["R"].pc = "downloading", !["R"].downloader = d]
  /\ UNCHANGED <<strategyVars, files, torn, undefined, budget>>

(* download_piece returned true. *)
Assigned ==
  /\ Free
  /\ task["R"].pc = "downloading"
  /\ LET d == task["R"].downloader
         p == Head(task["R"].todo)
     IN  /\ m_peer_pool' = [m_peer_pool EXCEPT ![d] = Append(@, p)]
         /\ m_piece_downloaders' = [m_piece_downloaders EXCEPT ![p] = Append(@, d)]
         /\ task' = [task EXCEPT !["R"].pc = "assigning", !["R"].todo = Tail(@),
                                 !["R"].downloader = <<>>,
                                 !["T"].moved = @ \cup {e \in {d} : UnderFoot(task["T"], {p})}]
  /\ UNCHANGED <<m_missing_pieces, m_active_connections, peer, files, torn,
                 undefined, budget>>

(* assign() returns: to the wait before the loop, or to is_done(). *)
AssignReturns ==
  /\ HasThread("R")
  /\ task["R"].pc = "assigning"
  /\ task["R"].todo = <<>>
  /\ task' = [task EXCEPT !["R"] =
                IF @.first THEN Frame("waiting", FALSE)
                           ELSE StartPolling(@, m_piece_downloaders)]
  /\ UNCHANGED <<strategyVars, peer, files, torn, undefined, budget>>

(* download_piece threw, in assign() or for a Corrupt piece: its channel   *)
(* was reset.  The exception ends the loop it was called from.             *)
DownloadThrows(x) ==
  /\ Free
  /\ task[x].pc \in {"downloading", "repeating"}
  /\ peer[task[x].downloader].conn \in {"lost", "ended", "zombie"}
  /\ task' = [task EXCEPT ![x] = Frame("failed", FALSE)]
  /\ UNCHANGED <<strategyVars, peer, files, torn, undefined, budget>>

-----------------------------------------------------------------------------
(* is_done() *)

GoWrong == undefined' = TRUE /\ UNCHANGED <<strategyVars, peer, files, task, torn, budget>>

(* A suspended frame f holds iterators of its vector and a reference to    *)
(* the entry.  Those are no longer valid when another is_done() erased the *)
(* entry, revoke() erased elements, or assign() pushed one back.           *)
Moved(f) == f.freed \/ f.moved # {}

(* With them the loop may do anything; but where all it has yet to do is   *)
(* compare its position with the end it took, a build may find them equal, *)
(* and go on to the next entry.                                            *)
Astray(f) == Moved(f) /\ (f.freed \/ f.pos < f.end)

Advance(f) ==
  IF f.pos < f.end THEN [f EXCEPT !.pc = "polling", !.pos = @ + 1]
  ELSE [f EXCEPT !.pc = "polling", !.index = @ + 1, !.pos = 1,
                 !.end = IF f.index + 1 \in Pieces
                         THEN Len(m_piece_downloaders[f.index + 1]) ELSE 0,
                 !.moved = {}]

(* retrieve_piece finds nothing to hand out, or the vector was empty. *)
PollNothing(x) ==
  /\ HasThread(x)
  /\ task[x].pc = "polling"
  /\ task[x].index < PieceCount
  /\ \/ task[x].end = 0
     \/ LET d == m_piece_downloaders[task[x].index][task[x].pos]
        IN  task[x].end > 0 /\ peer[d].got[task[x].index] \in {"none", "working"}
  /\ task' = [task EXCEPT ![x] = Advance(@)]
  /\ UNCHANGED <<strategyVars, peer, files, torn, undefined, budget>>

PollCompleteDetached(x) ==
  /\ HasThread(x)
  /\ task[x].pc = "polling"
  /\ task[x].index < PieceCount
  /\ task[x].end > 0
  /\ LET p == task[x].index
         d == m_piece_downloaders[p][task[x].pos]
     IN  /\ peer[d].got[p] = "Complete"
         /\ peer' = [peer EXCEPT ![d].got[p] = "none"]
         /\ files' = [files EXCEPT ![p] = IF @ = "absent" THEN "partial" ELSE @]
         /\ task' = [task EXCEPT ![x].pc = "pushed", ![x].downloader = d]
  /\ UNCHANGED <<strategyVars, torn, undefined, budget>>

(* A Complete piece is extracted, and push_piece begins its file or finds  *)
(* it there.                                                               *)
PollComplete(x) ==
  /\ HasThread(x)
  /\ task[x].pc = "polling"
  /\ task[x].index < PieceCount
  /\ task[x].end > 0
  /\ LET p == task[x].index
         d == m_piece_downloaders[p][task[x].pos]
     IN  /\ peer[d].got[p] = "Complete"
         /\ peer' = [peer EXCEPT ![d].got[p] = "none"]
         /\ \/ /\ files[p] = "absent"
               /\ files' = [files EXCEPT ![p] = "partial"]
               /\ task' = [task EXCEPT ![x].pc = "pushing", ![x].downloader = d]
            \/ /\ files[p] # "absent"
               /\ task' = [task EXCEPT ![x].pc = "pushed", ![x].downloader = d]
               /\ UNCHANGED files
  /\ UNCHANGED <<strategyVars, torn, undefined, budget>>

(* push_piece's async_write ends, or throws. *)
WriteDone(x) ==
  /\ Free
  /\ task[x].pc = "pushing"
  /\ files' = [files EXCEPT ![task[x].index] = "whole"]
  /\ task' = [task EXCEPT ![x].pc = "pushed"]
  /\ UNCHANGED <<strategyVars, peer, torn, undefined, budget>>

WriteThrows(x) ==
  /\ Free
  /\ task[x].pc = "pushing"
  /\ budget.faults > 0
  /\ budget' = [budget EXCEPT !.faults = @ - 1]
  /\ torn' = torn \cup {task[x].index}
  /\ task' = [task EXCEPT ![x] = Frame("failed", FALSE)]
  /\ UNCHANGED <<strategyVars, peer, files, undefined>>

(* erase(remove(p)) with one iterator: it erases one element, the first    *)
(* after those that are kept.                                              *)
Kept(d, p) == Without(m_peer_pool[d], {p})

EraseNothing(d, p) == m_peer_pool[d]

EraseOne(d, p) ==
  Kept(d, p) \o SubSeq(m_peer_pool[d], Len(Kept(d, p)) + 2, Len(m_peer_pool[d]))

ErasesEnd(d, p) == d \in DOMAIN m_peer_pool => ~InSeq(m_peer_pool[d], p)

(* The piece is stored: it leaves its downloader's vector, and is no       *)
(* longer missing.                                                         *)
PieceStored(x) ==
  /\ HasThread(x)
  /\ task[x].pc = "pushed"
  /\ LET p == task[x].index
         d == task[x].downloader
         f == [task[x] EXCEPT !.completed = @ \cup {p}, !.downloader = <<>>]
     IN  \/ (ErasesEnd(d, p) \/ Moved(f)) /\ GoWrong
         \/ /\ ~(ErasesEnd(d, p) \/ Astray(f))
            /\ m_peer_pool' = [m_peer_pool EXCEPT ![d] = EraseOne(d, p)]
            /\ m_missing_pieces' = m_missing_pieces \ {p}
            /\ task' = [task EXCEPT ![x] = Advance(f)]
            /\ UNCHANGED <<m_piece_downloaders, m_active_connections, peer, files,
                           torn, undefined, budget>>

PollCorruptDropped(x) ==
  /\ HasThread(x)
  /\ task[x].pc = "polling"
  /\ task[x].index < PieceCount
  /\ task[x].end > 0
  /\ LET p == task[x].index
         d == m_piece_downloaders[p][task[x].pos]
     IN  /\ peer[d].got[p] = "Corrupt"
         /\ peer' = [peer EXCEPT ![d].got[p] = "none"]
         /\ task' = [task EXCEPT ![x] = Advance(@)]
  /\ UNCHANGED <<strategyVars, files, torn, undefined, budget>>

(* A Corrupt piece is extracted and asked for again. *)
PollCorrupt(x) ==
  /\ HasThread(x)
  /\ task[x].pc = "polling"
  /\ task[x].index < PieceCount
  /\ task[x].end > 0
  /\ LET p == task[x].index
         d == m_piece_downloaders[p][task[x].pos]
     IN  /\ peer[d].got[p] = "Corrupt"
         /\ download_piece(d, p)
         /\ task' = [task EXCEPT ![x].pc = "repeating", ![x].downloader = d]
  /\ UNCHANGED <<strategyVars, files, torn, undefined, budget>>

Repeated(x) ==
  /\ Free
  /\ task[x].pc = "repeating"
  /\ \/ Moved(task[x]) /\ GoWrong
     \/ /\ ~Astray(task[x])
        /\ task' = [task EXCEPT ![x] = Advance([@ EXCEPT !.downloader = <<>>])]
        /\ UNCHANGED <<strategyVars, peer, files, torn, undefined, budget>>

(* The entries of the completed pieces are erased, under the feet of a     *)
(* suspended is_done() that is at one of them; R goes on to the merge or   *)
(* to its wait.  T ends, or goes round; if it does so after download()     *)
(* ended, the executor it captured by reference is gone.                   *)
AfterPolling(x) ==
  IF m_missing_pieces = {}
  THEN Frame(IF x = "R" THEN "merging" ELSE "finished", FALSE)
  ELSE Frame("waiting", FALSE)

PollingReturns(x) ==
  /\ HasThread(x)
  /\ task[x].pc = "polling"
  /\ task[x].index = PieceCount
  /\ \/ /\ x = "T" /\ m_missing_pieces # {} /\ task["R"].pc \in Ended
        /\ GoWrong
     \/ /\ ~(x = "T" /\ m_missing_pieces # {} /\ task["R"].pc \in Ended)
        /\ m_piece_downloaders' =
             [p \in Pieces |-> IF p \in task[x].completed THEN <<>>
                               ELSE m_piece_downloaders[p]]
        /\ task' = [y \in {"R", "T"} |->
                      IF y = x THEN AfterPolling(x)
                      ELSE [task[y] EXCEPT !.freed =
                              @ \/ UnderFoot(task[y], task[x].completed)]]
        /\ UNCHANGED <<m_missing_pieces, m_peer_pool, m_active_connections, peer,
                       files, torn, undefined, budget>>

-----------------------------------------------------------------------------
(* The merge *)

MergeShortReads ==
  /\ Free
  /\ task["R"].pc = "merging"
  /\ \/ /\ task["R"].index < PieceCount
        /\ task' = [task EXCEPT !["R"].index = @ + 1]
     \/ /\ task["R"].index = PieceCount
        /\ task' = [task EXCEPT !["R"].pc = "finished"]
  /\ UNCHANGED <<strategyVars, peer, files, torn, undefined, budget>>

(* The next piece file is read and appended; a short one makes the read    *)
(* throw; and where there is none the loop ends.                           *)
MergePiece ==
  /\ Free
  /\ task["R"].pc = "merging"
  /\ \/ /\ task["R"].index < PieceCount
        /\ exists(files, task["R"].index)
        /\ pull_piece(task["R"].index)
        /\ task' = [task EXCEPT !["R"].index = @ + 1]
     \/ /\ task["R"].index < PieceCount
        /\ exists(files, task["R"].index)
        /\ ~pull_piece(task["R"].index)
        /\ task' = [task EXCEPT !["R"].pc = "failed"]
     \/ /\ task["R"].index < PieceCount => ~exists(files, task["R"].index)
        /\ task' = [task EXCEPT !["R"].pc = "finished"]
  /\ UNCHANGED <<strategyVars, peer, files, torn, undefined, budget>>

-----------------------------------------------------------------------------
(* What the downloaders, the network and the machine do *)

Connected(d) ==
  /\ Free
  /\ peer[d].conn = "connecting"
  /\ peer' = [peer EXCEPT ![d].conn = "connected"]
  /\ UNCHANGED <<strategyVars, files, task, torn, undefined, budget>>

(* Its BitField is read, and later a Have for what it got meanwhile: until *)
(* then the Peer is in the pool with no piece to its name.                 *)
Announced(d, S) ==
  /\ Free
  /\ peer[d].conn = "connected"
  /\ peer[d].has \subseteq S
  /\ peer[d].has # S
  /\ peer' = [peer EXCEPT ![d].has = S]
  /\ UNCHANGED <<strategyVars, files, task, torn, undefined, budget>>

(* The connection is lost, or was never made: then start_async has thrown  *)
(* and the Peer stays active for good.                                     *)
Lose(d) ==
  /\ Free
  /\ peer[d].conn \in {"connecting", "connected"}
  /\ budget.losses > 0
  /\ budget' = [budget EXCEPT !.losses = @ - 1]
  /\ peer' = [peer EXCEPT ![d].conn =
                 IF @ = "connected" THEN "lost" ELSE "zombie"]
  /\ UNCHANGED <<strategyVars, files, task, torn, undefined>>

(* The loops of a lost connection came to their end; start_async with      *)
(* them, or it threw.                                                      *)
PeerEnds(d) ==
  /\ Free
  /\ peer[d].conn = "lost"
  /\ \E conn \in {"ended", "zombie"} : peer' = [peer EXCEPT ![d].conn = conn]
  /\ UNCHANGED <<strategyVars, files, task, torn, undefined, budget>>

PieceArrives(d, p) ==
  /\ Free
  /\ peer[d].conn = "connected"
  /\ peer[d].got[p] = "working"
  /\ \/ /\ peer' = [peer EXCEPT ![d].got[p] = "Complete"]
        /\ UNCHANGED budget
     \/ /\ budget.corrupt > 0
        /\ budget' = [budget EXCEPT !.corrupt = @ - 1]
        /\ peer' = [peer EXCEPT ![d].got[p] = "Corrupt"]
  /\ UNCHANGED <<strategyVars, files, task, torn, undefined>>

(* The process dies and is started again on the files it left. *)
Crash ==
  /\ Free
  /\ budget.faults > 0
  /\ budget' = [budget EXCEPT !.faults = @ - 1]
  /\ torn' = torn \cup {p \in Pieces : files[p] = "partial"}
  /\ peer' = [d \in Downloaders |-> NoPeer]
  /\ Start(files)
  /\ UNCHANGED <<files, undefined>>

-----------------------------------------------------------------------------
Poll(x) ==
  \/ PollNothing(x)
  \/ PollComplete(x)
  \/ PollCorrupt(x)
  \/ PieceStored(x)
  \/ PollingReturns(x)

Network ==
  \/ \E d \in Downloaders : Connected(d) \/ Lose(d) \/ PeerEnds(d)
  \/ \E d \in Downloaders, S \in Bitfields : Announced(d, S)
  \/ \E d \in Downloaders, p \in Pieces : PieceArrives(d, p)

Next ==
  \/ \E swarm \in SUBSET Addresses : TrackerWakes(swarm)
  \/ ReactorWakes
  \/ AssignTurn
  \/ Assigned
  \/ AssignReturns
  \/ \E x \in {"R", "T"} :
       Poll(x) \/ WriteDone(x) \/ WriteThrows(x) \/ Repeated(x) \/ DownloadThrows(x)
  \/ MergePiece
  \/ Network
  \/ Crash

Spec == Init /\ [][Next]_vars

(***************************************************************************)
(* Timers end, the thread returns to every coroutine and handler that is   *)
(* ready, writes end, the trackers answer, and connected peers say what    *)
(* they have and deliver what they were asked for, which is never without  *)
(* end.  A Peer that ended takes what it is given into its channel, which  *)
(* holds more than the requests and Interested messages of two pieces;     *)
(* while it comes to its end, or where it stays active for good, a         *)
(* coroutine that waits for it may wait for good.                          *)
(***************************************************************************)
Answering(x) == peer[task[x].downloader].conn \in {"connected", "ended"}

TrackerResumes ==
  \/ WriteDone("T")
  \/ task["T"].pc = "repeating" /\ Answering("T") /\ Repeated("T")

ReactorResumes ==
  \/ ReactorWakes
  \/ task["R"].pc = "downloading" /\ Answering("R") /\ Assigned
  \/ WriteDone("R")
  \/ task["R"].pc = "repeating" /\ Answering("R") /\ Repeated("R")
  \/ MergePiece

PeersDeliver ==
  \/ \E d \in Downloaders : Connected(d)
  \/ \E d \in Downloaders, S \in Bitfields : Announced(d, S)
  \/ \E d \in Downloaders, p \in Pieces : PieceArrives(d, p)

Fairness ==
  /\ WF_vars(AssignTurn \/ AssignReturns \/ \E x \in {"R", "T"} : Poll(x))
  /\ SF_vars(TrackerWakes(Addresses))
  /\ SF_vars(TrackerResumes)
  /\ SF_vars(ReactorResumes)
  /\ SF_vars(PeersDeliver)

FairSpec == Spec /\ Fairness

-----------------------------------------------------------------------------
(* Properties.  An undefined program has stopped where it went wrong.      *)

(* m_missing_pieces is what the vault lacks, although is_done() runs in    *)
(* two coroutines and the process may die during a write: a piece that is  *)
(* not missing has a file, and one that is missing has none, save while it *)
(* is being stored or after its write failed (strategy.hpp:48-52, 143-152).*)
Storing(x, p) == task[x].pc \in {"pushing", "pushed"} /\ task[x].index = p

MissingMatchesVault ==
  \A p \in Pieces :
    /\ p \notin m_missing_pieces => files[p] # "absent"
    /\ p \in m_missing_pieces /\ files[p] # "absent" =>
         p \in torn \/ \E x \in {"R", "T"} : Storing(x, p)

(* When the merge reads the vault every piece file is whole, unless the    *)
(* tracker loop is still writing it (push_piece of a second copy returned  *)
(* because the file existed) or it was torn by a crash or a failed write   *)
(* (storage.cpp:24-26, reactor.hpp:111-115).                               *)
MergeReadsWholeFiles ==
  task["R"].pc = "merging" =>
    \A p \in Pieces :
      \/ files[p] = "whole"
      \/ p \in torn
      \/ task["T"].pc = "pushing" /\ task["T"].index = p

(* The two maps of the strategy agree on every missing piece, whatever     *)
(* happened between the check in assign() and the push_backs after its     *)
(* co_await.  What m_peer_pool holds beyond that are slots of stored       *)
(* pieces, which their second downloader never gets back                   *)
(* (strategy.hpp:95-97, 113-121, 146-149, 166-168).                        *)
MapsAgreeOnMissing ==
  \A p \in m_missing_pieces, d \in Downloaders :
    InSeq(m_piece_downloaders[p], d)
      <=> d \in DOMAIN m_peer_pool /\ InSeq(m_peer_pool[d], p)

(* A piece has at most two downloaders, each one once, and a downloader at *)
(* most two pieces, although assign() checks before it is suspended and    *)
(* enters the pair afterwards (strategy.hpp:84-97).                        *)
AtMostTwo ==
  /\ \A p \in Pieces :
       /\ Len(m_piece_downloaders[p]) <= 2
       /\ \A i, j \in DOMAIN m_piece_downloaders[p] :
            i # j => m_piece_downloaders[p][i] # m_piece_downloaders[p][j]
  /\ \A d \in DOMAIN m_peer_pool : Len(m_peer_pool[d]) <= 2

(* One downloader per address, through losses, revocations and repeated    *)
(* announcements: the pool and m_active_connections never part             *)
(* (strategy.hpp:61-66, 126-129, context.hpp:90).                          *)
PoolMatchesConnections ==
  /\ m_active_connections = {d[1] : d \in DOMAIN m_peer_pool}
  /\ \A d, e \in DOMAIN m_peer_pool : d[1] = e[1] => d = e

(* Undefined behaviour has one of four causes and no other: T outlived a   *)
(* download() that failed; or an is_done() came back to the entry it was   *)
(* at after the other one had stored the piece and erased the entry; or T  *)
(* came back to a vector out of which revoke() had taken a connection that *)
(* ended, or into which assign() had put another one, for which nothing    *)
(* has to go wrong at all.  R, whose own assign() and revoke() cannot run  *)
(* meanwhile, only finds entries erased                                    *)
(* (strategy.hpp:97, 116-129, 138-149, 166-168, reactor.hpp:43-57, 123).   *)
EntryErased(f) == f.freed /\ f.index \notin m_missing_pieces

MemberRevoked(f) ==
  \E d \in f.moved : peer[d].conn = "ended" /\ d \notin DOMAIN m_peer_pool

MemberAdded(f) ==
  \E d \in f.moved :
    d \in DOMAIN m_peer_pool /\ InSeq(m_piece_downloaders[f.index], d)

UndefinedHasACause ==
  undefined =>
    \/ /\ task["R"].pc = "failed"
       /\ task["T"].pc = "polling" /\ task["T"].index = PieceCount
    \/ \E x \in {"R", "T"} :
         /\ task[x].pc \in {"pushed", "repeating"}
         /\ task[x].index \in Pieces
         /\ \/ EntryErased(task[x])
            \/ x = "T" /\ (MemberRevoked(task[x]) \/ MemberAdded(task[x]))

(* Slots lost to second copies never add up to a standstill while the      *)
(* connections last: some downloader has a free slot or is at work on a    *)
(* missing piece (strategy.hpp:93, 146-149).  After a loss that fails, for *)
(* the slots of the one that remains may all be lost, and so it does with  *)
(* peers that lack pieces which others have.                               *)
NeverClogged ==
  m_missing_pieces # {} /\ DOMAIN m_peer_pool # {} =>
    \E d \in DOMAIN m_peer_pool :
      Len(m_peer_pool[d]) < 2 \/ \E p \in m_missing_pieces : InSeq(m_peer_pool[d], p)

(* revoke() finds a connection that ended by the pieces assigned to it.    *)
(* One that has none loses its place all the same when it announced a      *)
(* missing piece with room for another downloader: assign() gives it that  *)
(* piece, for it looks at what the Peer has and not at whether it is there,*)
(* and the next revoke() takes both back; unless the other connections     *)
(* finish the download first, or the loop waits for good in a              *)
(* download_piece.  One that ended before its BitField was read, or that   *)
(* lacks what is missing, keeps its place for good                         *)
(* (strategy.hpp:84-98, 108-131, peer.cpp:43-53).                          *)
Findable(d) ==
  \/ m_peer_pool[d] # <<>>
  \/ \E p \in peer[d].has \cap m_missing_pieces : Len(m_piece_downloaders[p]) < 2

WaitsForGood ==
  /\ task["R"].pc \in {"downloading", "repeating"}
  /\ peer[task["R"].downloader].conn \in {"lost", "zombie"}

EndedIsRevoked ==
  []<>(\/ \A d \in DOMAIN m_peer_pool : peer[d].conn = "ended" => ~Findable(d)
       \/ task["R"].pc \in Ended \cup {"merging"}
       \/ undefined \/ WaitsForGood)

(* The strategy asks no more of its downloaders than they promise: it      *)
(* takes a piece only when it is Complete, once, and a Corrupt one only by *)
(* asking for it again, whichever of the two loops comes first.            *)
Work == INSTANCE PieceWork WITH
  Items <- Downloaders \X Pieces, Again <- TRUE,
  got <- [i \in Downloaders \X Pieces |-> peer[i[1]].got[i[2]]]

UsesPieceWork == Work!Spec

(* The vault only ever gains whole pieces, through failed writes and       *)
(* crashes at any moment too.  The merge loop ends at the first missing    *)
(* file, and that is the end of the download: still none is left out of    *)
(* the output, and none that is torn gets into it                          *)
(* (storage.cpp:24-33, reactor.hpp:93-122).                                *)
Promise == INSTANCE Download WITH
  stored <- {p \in Pieces : files[p] = "whole"},
  outcome <- IF task["R"].pc \in Ended THEN task["R"].pc ELSE "running"

ImplementsDownload == Promise!Spec

(* Connections that last bring the download to its end, slots lost to      *)
(* second copies and loops that overlap notwithstanding.  After a loss     *)
(* that fails: the slots of a connection that remains may all be lost.     *)
Lost(d) == peer[d].conn \in {"lost", "ended", "zombie"}

DownloadFinishes ==
  <>(task["R"].pc = "finished" \/ undefined \/ \E d \in Downloaders : Lost(d))

=============================================================================
