--------------------------- MODULE PollLoopProofs ---------------------------
(***************************************************************************)
(* Proofs about PollLoop, for any number of peers and descriptors.  The    *)
(* inductive invariant is the conjunction of the type invariant and the    *)
(* two safety invariants: that tables agree needs the bounds of the scan   *)
(* index, that reports stay current needs that no two entries watch the    *)
(* same connection, and what is written to follows from current reports.   *)
(***************************************************************************)
EXTENDS PollLoop, ChannelLemmas

Inv == TypeOK /\ TablesAgree /\ ReportsAreCurrent

-----------------------------------------------------------------------------
(* Types.                                                                  *)

\* What poll reports fits an entry, and does not change its descriptor.
LEMMA ReportedType ==
  ASSUME TypeOK, NEW i \in DOMAIN fds
  PROVE  /\ Reported(fds[i]) \in Entry
         /\ Reported(fds[i]).fd = fds[i].fd
         /\ fds[i].fd # Listener =>
              /\ Reported(fds[i]).in = Readable(conn[fds[i].fd])
              /\ Reported(fds[i]).out = Writable(conn[fds[i].fd])
<1>1. fds[i] \in Entry
  BY DEF TypeOK
<1>2. /\ Readable(conn[fds[i].fd]) \in BOOLEAN /\ Writable(conn[fds[i].fd]) \in BOOLEAN
      /\ (backlog # <<>>) \in BOOLEAN
  BY Zenon DEF Readable, Writable
<1> HIDE DEF Readable, Writable
<1> QED
  BY <1>1, <1>2 DEF Reported, Entry

\* A step of the scan leaves the index within the vector.
LEMMA AdvanceType ==
  ASSUME TypeOK, Scanning, Advance, fds' \in Seq(Entry)
  PROVE  scan' \in 0..Len(fds')
BY DEF TypeOK, Advance, Scanning

\* The descriptor accept returns is a free one.
LEMMA LowestIsFree ==
  ASSUME fdLimit \in Fd, FreeFd # {}
  PROVE  Min(FreeFd) \in Fd /\ conn[Min(FreeFd)] = None
<1>1. FreeFd \in SUBSET Nat /\ FreeFd \subseteq Fd
  BY PollAssumption DEF FreeFd, Fd
<1>2. Min(FreeFd) \in FreeFd
  BY <1>1, MinIsLeast, Zenon
<1> QED
  BY <1>1, <1>2 DEF FreeFd

\* Every step of the system keeps the types.
LEMMA TypeStep ==
  ASSUME TypeOK, [Next]_vars
  PROVE  TypeOK'
<1>0. fdLimit' \in Fd
  BY DEF TypeOK, Next, PeerStep, ServerStep, vars
<1> USE <1>0
<1>1. CASE UNCHANGED vars
  BY <1>1 DEF vars, TypeOK
<1>2. CASE PeerStep
  <2>1. PICK p \in Peer : Connect(p) \/ Send(p) \/ Drain(p) \/ Close(p) \/ Reset(p)
    BY <1>2 DEF PeerStep
  <2>2. /\ backlog' \in Seq(Peer)
        /\ link' \in [Peer -> Link]
        /\ inbox' \in [Peer -> BOOLEAN]
        /\ room' \in [Peer -> BOOLEAN]
    <3>1. backlog' = backlog \/ backlog' = Append(backlog, p)
      BY <2>1 DEF Connect, Send, Drain, Close, Reset
    <3>2. link' = link \/ \E e \in Link : link' = [link EXCEPT ![p] = e]
      BY <2>1 DEF Connect, Send, Drain, Close, Reset, Link
    <3>3. inbox' = inbox \/ \E e \in BOOLEAN : inbox' = [inbox EXCEPT ![p] = e]
      BY <2>1 DEF Connect, Send, Drain, Close, Reset
    <3>4. room' = room \/ \E e \in BOOLEAN : room' = [room EXCEPT ![p] = e]
      BY <2>1 DEF Connect, Send, Drain, Close, Reset
    <3>5. /\ link \in [Peer -> Link]
          /\ inbox \in [Peer -> BOOLEAN]
          /\ room \in [Peer -> BOOLEAN]
      BY DEF TypeOK
    <3>6. link' \in [Peer -> Link]
      BY <3>2, <3>5, ExceptType, Zenon
    <3>7. inbox' \in [Peer -> BOOLEAN]
      BY <3>3, <3>5, ExceptType, Zenon
    <3>8. room' \in [Peer -> BOOLEAN]
      BY <3>4, <3>5, ExceptType, Zenon
    <3>9. backlog' \in Seq(Peer)
      <4>1. backlog \in Seq(Peer)
        BY DEF TypeOK
      <4> QED
        BY <3>1, <4>1
    <3> QED
      BY <3>6, <3>7, <3>8, <3>9
  <2>3. UNCHANGED <<conn, fds, clients, outBuf, scan, status>>
    BY <2>1 DEF Connect, Send, Drain, Close, Reset, serverVars
  <2> QED
    BY <2>2, <2>3 DEF TypeOK
<1>3. CASE Poll
  <2>1. fds' \in Seq(Entry) /\ Len(fds') = Len(fds) /\ Len(fds) >= 1
    <3>1. fds \in Seq(Entry) /\ DOMAIN fds = 1..Len(fds) /\ Len(fds) \in Nat
      BY DEF TypeOK
    <3>2. \A i \in 1..Len(fds) : Reported(fds[i]) \in Entry
      BY <3>1, ReportedType, Zenon
    <3>3. fds' = [i \in 1..Len(fds) |-> Reported(fds[i])]
      BY <1>3, <3>1 DEF Poll
    <3>4. 1..Len(fds) # {}
      BY <1>3, <3>1 DEF Poll
    <3> QED
      BY <3>1, <3>2, <3>3, <3>4
  <2>2. UNCHANGED <<backlog, link, inbox, room, conn, clients, outBuf, status>> /\ scan' = 1
    BY <1>3 DEF Poll, peerVars
  <2> QED
    BY <2>1, <2>2 DEF TypeOK
<1>4. CASE Interrupt \/ Leave
  BY <1>4 DEF Interrupt, Leave, peerVars, TypeOK, Status
<1>5. CASE Skip \/ AcceptFails
  <2>1. /\ UNCHANGED <<conn, link, inbox, room, fds, clients, outBuf, status>>
        /\ Scanning /\ Advance
        /\ backlog' \in {backlog, Tail(backlog)}
        /\ backlog = <<>> => backlog' = backlog
    BY <1>5 DEF Skip, AcceptFails, peerVars
  <2>2. backlog' \in Seq(Peer)
    <3>1. backlog \in Seq(Peer)
      BY DEF TypeOK
    <3> QED
      BY <2>1, <3>1
  <2>3. fds' \in Seq(Entry)
    BY <2>1 DEF TypeOK
  <2>4. scan' \in 0..Len(fds')
    BY <2>1, <2>3, AdvanceType
  <2> QED
    BY <2>1, <2>2, <2>4 DEF TypeOK
<1>6. CASE Accept
  <2>1. Min(FreeFd) \in Fd
    BY <1>6, LowestIsFree DEF Accept, TypeOK
  <2>2. NewEntry(Min(FreeFd)) \in Entry
    BY <2>1 DEF NewEntry, Entry
  <2>3. fds' \in Seq(Entry)
    BY <1>6, <2>2 DEF Accept, Accepted, TypeOK
  <2>4. scan' \in 0..Len(fds')
    BY <1>6, <2>3, AdvanceType DEF Accept
  <2>5. Head(backlog) \in Peer /\ Tail(backlog) \in Seq(Peer)
    BY <1>6 DEF Accept, TypeOK
  <2> QED
    BY <1>6, <2>1, <2>3, <2>4, <2>5 DEF Accept, TypeOK
<1>7. ASSUME NEW f \in Fd, ReadData(f) PROVE TypeOK'
  <2>1. outBuf' \in [Fd -> BOOLEAN]
    BY <1>7 DEF ReadData, TypeOK
  <2>2. UNCHANGED <<backlog, conn, link, room, fds, clients>>
        /\ inbox' \in [Peer -> BOOLEAN] /\ status' \in Status
    BY <1>7 DEF ReadData, TypeOK, Status
  <2>3. scan' \in 0..Len(fds')
    <3>1. fds' \in Seq(Entry) /\ scan \in 0..Len(fds')
      BY <2>2 DEF TypeOK
    <3> QED
      BY <1>7, <3>1, AdvanceType DEF ReadData, Reading
  <2> QED
    BY <2>1, <2>2, <2>3 DEF TypeOK
<1>8. ASSUME NEW f \in Fd, ReadEnd(f) PROVE TypeOK'
  <2>1. fds' \in Seq(Entry)
    BY <1>8, RemoveAtEntries DEF ReadEnd, Reading, Scanning, Removed, TypeOK
  <2>2. scan' \in 0..Len(fds')
    BY <1>8, <2>1, AdvanceType DEF ReadEnd, Reading
  <2> QED
    BY <1>8, <2>1, <2>2 DEF ReadEnd, peerVars, TypeOK
<1>9. ASSUME NEW f \in Fd, ReadError(f) PROVE TypeOK'
  <2>1. link' \in [Peer -> Link] /\ status' \in Status
    BY <1>9 DEF ReadError, TypeOK, Link, Status
  <2>2. UNCHANGED <<backlog, conn, inbox, room, fds, clients, outBuf>>
    BY <1>9 DEF ReadError
  <2>3. scan' \in 0..Len(fds')
    <3>1. fds' \in Seq(Entry) /\ scan \in 0..Len(fds')
      BY <2>2 DEF TypeOK
    <3> QED
      BY <1>9, <3>1, AdvanceType DEF ReadError, Reading
  <2> QED
    BY <2>1, <2>2, <2>3 DEF TypeOK
<1>10. ASSUME NEW f \in Fd, SendMessage(f) PROVE TypeOK'
  <2>1. /\ link' \in [Peer -> Link]
        /\ room' \in [Peer -> BOOLEAN]
        /\ status' \in Status
    <3>1. CASE outBuf[f]
      <4>1. Transmit(conn[f])
        BY <1>10, <3>1 DEF SendMessage
      <4>2. link' \in [Peer -> Link]
        BY <4>1 DEF Transmit, TypeOK, Link
      <4>3. room' \in [Peer -> BOOLEAN]
        BY <4>1 DEF Transmit, TypeOK
      <4>4. status' \in Status
        BY <4>1 DEF Transmit, TypeOK, Status
      <4> QED
        BY <4>2, <4>3, <4>4
    <3>2. CASE ~outBuf[f]
      BY <1>10, <3>2 DEF SendMessage, TypeOK
    <3> QED
      BY <3>1, <3>2
  <2> QED
    BY <1>10, <2>1, AdvanceType DEF SendMessage, Writing, TypeOK
<1> QED
  BY <1>1, <1>2, <1>3, <1>4, <1>5, <1>6, <1>7, <1>8, <1>9, <1>10 DEF Next, ServerStep

-----------------------------------------------------------------------------
(* Tables.                                                                 *)

\* Each descriptor is watched once and those of the open connections are.
Watched == EachWatchedOnce /\ OpenAreWatched

\* A step that opens and closes nothing does not disturb what is watched.
LEMMA WatchedStays ==
  ASSUME Watched, conn' = conn, DOMAIN fds' = DOMAIN fds,
         \A i \in DOMAIN fds : fds'[i].fd = fds[i].fd
  PROVE  Watched'
<1>1. fds' # <<>> /\ 1 \in DOMAIN fds
  BY DEF Watched, EachWatchedOnce
<1> QED
  BY <1>1 DEF Watched, EachWatchedOnce, OpenAreWatched, Open

\* An entry whose turn it is stands for an open connection.
LEMMA ServedIsOpen ==
  ASSUME TypeOK, Watched, Scanning, NEW f \in Fd, fds[scan].fd = f
  PROVE  scan \in DOMAIN fds /\ scan # 1 /\ f \in Open
<1>1. scan \in DOMAIN fds /\ f # Listener
  BY PollAssumption DEF TypeOK, Scanning, Fd, Listener
<1> QED
  BY <1>1 DEF Watched, EachWatchedOnce, OpenAreWatched

\* accept_client adds an entry that was not there.
LEMMA AcceptIsWatched ==
  ASSUME TypeOK, Watched, clients = conn, Accept
  PROVE  Watched' /\ clients' = conn'
<1> DEFINE f == Min(FreeFd)
<1>1. f \in Fd /\ conn[f] = None /\ f # Listener
  BY LowestIsFree, PollAssumption DEF Accept, TypeOK, Fd, Listener
<1> HIDE DEF f
<1>2. /\ conn' = [conn EXCEPT ![f] = Head(backlog)]
      /\ clients' = [clients EXCEPT ![f] = IF @ = None THEN Head(backlog) ELSE @]
      /\ fds' = Append(fds, NewEntry(f))
  BY Zenon DEF Accept, Accepted, f
<1>3. Head(backlog) \in Peer \ {None}
  BY PollAssumption DEF Accept, TypeOK
<1>4. clients' = conn'
  BY <1>1, <1>2
<1>5. /\ DOMAIN fds = 1..Len(fds) /\ Len(fds) \in Nat
      /\ DOMAIN fds' = 1..(Len(fds) + 1)
      /\ \A i \in 1..Len(fds) : fds'[i] = fds[i]
      /\ fds'[Len(fds) + 1].fd = f
  BY <1>2 DEF TypeOK, NewEntry
<1>6. Open' = Open \cup {f}
  BY <1>1, <1>2, <1>3 DEF Open, TypeOK
<1>7. \A i \in 1..Len(fds) : fds[i].fd # f
  BY <1>1, <1>5 DEF Watched, OpenAreWatched, Open
<1>8. fds # <<>> /\ fds[1].fd = Listener /\ Len(fds) >= 1
  BY <1>5 DEF Watched, EachWatchedOnce, TypeOK
<1>9. EachWatchedOnce'
  <2>1. fds' # <<>> /\ fds'[1].fd = Listener
    BY <1>5, <1>8
  <2>2. ASSUME NEW i \in DOMAIN fds', NEW j \in DOMAIN fds', fds'[i].fd = fds'[j].fd
        PROVE  i = j
    BY <1>5, <1>7, <2>2 DEF Watched, EachWatchedOnce
  <2> QED
    BY <2>1, <2>2 DEF EachWatchedOnce
<1>10. OpenAreWatched'
  <2>1. ASSUME NEW g \in Fd PROVE g \in Open' <=> \E i \in DOMAIN fds' : fds'[i].fd = g
    <3>1. CASE g = f
      BY <1>5, <1>6, <3>1
    <3>2. CASE g # f
      <4>1. (\E i \in DOMAIN fds' : fds'[i].fd = g) <=> \E i \in DOMAIN fds : fds[i].fd = g
        BY <1>5, <3>2
      <4> QED
        BY <1>6, <3>2, <4>1 DEF Watched, OpenAreWatched
    <3> QED
      BY <3>1, <3>2
  <2> QED
    BY <2>1 DEF OpenAreWatched
<1> QED
  BY <1>4, <1>9, <1>10 DEF Watched

\* client_disconnect takes out the entry of the connection it closes.
LEMMA EndIsUnwatched ==
  ASSUME TypeOK, Watched, clients = conn, NEW f \in Fd, ReadEnd(f)
  PROVE  Watched' /\ clients' = conn'
<1>1. scan \in DOMAIN fds /\ scan # 1 /\ f \in Open /\ fds[scan].fd = f
  BY ServedIsOpen DEF ReadEnd, Reading
<1>2. /\ conn' = [conn EXCEPT ![f] = None] /\ clients' = conn'
      /\ fds' = RemoveAt(fds, scan)
  BY DEF ReadEnd, Removed
<1>3. DOMAIN fds = 1..Len(fds) /\ Len(fds) \in Nat /\ fds \in Seq(Entry)
  BY DEF TypeOK
<1>4. /\ fds' \in Seq(Entry) /\ Len(fds') = Len(fds) - 1
      /\ \A i \in 1..Len(fds') : fds'[i] = fds[IF i < scan THEN i ELSE i + 1]
  BY <1>1, <1>2, <1>3, RemoveAtEntries, Zenon
<1>5. DOMAIN fds' = 1..(Len(fds) - 1)
  BY <1>3, <1>4
<1>6. Open' = Open \ {f}
  BY <1>2 DEF Open, TypeOK
<1>7. EachWatchedOnce'
  <2>1. fds' # <<>> /\ fds'[1].fd = Listener
    BY <1>1, <1>3, <1>4, <1>5 DEF Watched, EachWatchedOnce
  <2>2. ASSUME NEW i \in DOMAIN fds', NEW j \in DOMAIN fds', fds'[i].fd = fds'[j].fd
        PROVE  i = j
    BY <1>1, <1>3, <1>4, <1>5, <2>2, SMTT(30) DEF Watched, EachWatchedOnce
  <2> QED
    BY <2>1, <2>2 DEF EachWatchedOnce
<1>8. OpenAreWatched'
  <2>1. ASSUME NEW g \in Fd PROVE g \in Open' <=> \E i \in DOMAIN fds' : fds'[i].fd = g
    <3>1. ASSUME NEW i \in DOMAIN fds', fds'[i].fd = g PROVE g \in Open'
      <4>1. PICK k \in DOMAIN fds : fds[k].fd = g /\ k # scan
        BY <1>1, <1>3, <1>4, <1>5, <3>1
      <4> QED
        BY <1>1, <1>6, <4>1 DEF Watched, EachWatchedOnce, OpenAreWatched
    <3>2. ASSUME g \in Open' PROVE \E i \in DOMAIN fds' : fds'[i].fd = g
      <4>1. PICK k \in DOMAIN fds : fds[k].fd = g /\ k # scan
        BY <1>1, <1>6, <3>2 DEF Watched, OpenAreWatched
      <4>2. CASE k < scan
        BY <1>1, <1>3, <1>4, <1>5, <4>1, <4>2
      <4>3. CASE k > scan
        <5>1. k - 1 \in DOMAIN fds' /\ fds'[k - 1] = fds[k]
          BY <1>1, <1>3, <1>4, <1>5, <4>3
        <5> QED
          BY <4>1, <5>1
      <4> QED
        BY <1>1, <1>3, <4>1, <4>2, <4>3
    <3> QED
      BY <3>1, <3>2
  <2> QED
    BY <2>1 DEF OpenAreWatched
<1> QED
  BY <1>2, <1>7, <1>8 DEF Watched

\* The map of the Clients and the watched descriptors follow the connections.
LEMMA WatchedStep ==
  ASSUME TypeOK, Watched, clients = conn, [Next]_vars
  PROVE  Watched' /\ clients' = conn'
<1>1. CASE UNCHANGED vars \/ PeerStep \/ Interrupt \/ Leave \/ Skip \/ AcceptFails
  <2>1. UNCHANGED <<conn, clients, fds>>
    BY <1>1 DEF vars, PeerStep, Connect, Send, Drain, Close, Reset, serverVars,
                Interrupt, Leave, Skip, AcceptFails
  <2> QED
    BY <2>1, WatchedStays
<1>2. CASE Poll
  <2>1. /\ UNCHANGED <<conn, clients>>
        /\ fds' = [i \in DOMAIN fds |-> Reported(fds[i])]
    BY <1>2 DEF Poll
  <2> QED
    BY <2>1, WatchedStays, ReportedType
<1>3. CASE Accept
  BY <1>3, AcceptIsWatched
<1>4. ASSUME NEW f \in Fd, ReadEnd(f) PROVE Watched' /\ clients' = conn'
  BY <1>4, EndIsUnwatched
<1>5. ASSUME NEW f \in Fd, ReadData(f) \/ ReadError(f) PROVE Watched' /\ clients' = conn'
  <2>1. UNCHANGED <<conn, clients, fds>>
    BY <1>5 DEF ReadData, ReadError
  <2> QED
    BY <2>1, WatchedStays
<1>6. ASSUME NEW f \in Fd, SendMessage(f) PROVE Watched' /\ clients' = conn'
  <2>1. UNCHANGED <<conn, fds>>
    BY <1>6 DEF SendMessage
  <2>2. clients[f] # None
    BY <1>6, ServedIsOpen DEF SendMessage, Writing, Open
  <2>3. clients' = clients
    BY <1>6, <2>2 DEF SendMessage, TypeOK
  <2> QED
    BY <2>1, <2>3, WatchedStays
<1> QED
  BY <1>1, <1>2, <1>3, <1>4, <1>5, <1>6 DEF Next, ServerStep

\* Connections move from the backlog to a descriptor and end there.
LEMMA ConnectionsStep ==
  ASSUME TypeOK, OneConnectionEach, [Next]_vars
  PROVE  OneConnectionEach'
<1>0. backlog \in Seq(Peer) /\ conn \in [Fd -> Peer \cup {None}] /\ None \notin Peer
  BY PollAssumption DEF TypeOK
<1>1. CASE UNCHANGED <<conn, backlog>>
  BY <1>1 DEF OneConnectionEach, Open
<1>2. ASSUME NEW p \in Peer, Connect(p) PROVE OneConnectionEach'
  <2>1. backlog' = Append(backlog, p) /\ conn' = conn
    BY <1>2 DEF Connect
  <2>2. /\ \A i \in DOMAIN backlog : backlog[i] # p
        /\ \A f \in Fd : conn[f] # p
    BY <1>0, <1>2 DEF Connect, Connected, Range
  <2> QED
    BY <1>0, <2>1, <2>2 DEF OneConnectionEach, Open
<1>3. ASSUME backlog # <<>>, backlog' = Tail(backlog), conn' = conn
      PROVE  OneConnectionEach'
  BY <1>0, <1>3 DEF OneConnectionEach, Open
<1>4. CASE Accept
  <2>1. PICK f \in Fd : conn[f] = None /\ conn' = [conn EXCEPT ![f] = Head(backlog)]
    BY <1>4, LowestIsFree DEF Accept, TypeOK
  <2>2. backlog # <<>> /\ backlog' = Tail(backlog)
    BY <1>4 DEF Accept
  <2>3. Head(backlog) = backlog[1] /\ 1 \in DOMAIN backlog
    BY <1>0, <2>2
  <2>4. /\ DOMAIN backlog' = 1..(Len(backlog) - 1)
        /\ \A i \in 1..(Len(backlog) - 1) : backlog'[i] = backlog[i + 1]
    BY <1>0, <2>2
  <2>5. ASSUME NEW g \in Open'
        PROVE  \/ g = f /\ conn'[g] = backlog[1]
               \/ g \in Open /\ g # f /\ conn'[g] = conn[g]
    <3>1. g \in Fd /\ conn'[g] # None
      BY DEF Open
    <3>2. CASE g = f
      BY <1>0, <2>1, <2>3, <3>2
    <3>3. CASE g # f
      <4>1. conn'[g] = conn[g]
        BY <1>0, <2>1, <3>1, <3>3
      <4> QED
        BY <3>1, <3>3, <4>1 DEF Open
    <3> QED
      BY <3>2, <3>3
  <2>6. ASSUME NEW g \in Open', NEW h \in Open', conn'[g] = conn'[h] PROVE g = h
    BY <2>3, <2>5, <2>6 DEF OneConnectionEach
  <2>7. ASSUME NEW i \in DOMAIN backlog', NEW j \in DOMAIN backlog', backlog'[i] = backlog'[j]
        PROVE  i = j
    BY <1>0, <2>4, <2>7 DEF OneConnectionEach
  <2>8. ASSUME NEW i \in DOMAIN backlog', NEW g \in Open' PROVE backlog'[i] # conn'[g]
    <3>1. i + 1 \in DOMAIN backlog /\ i + 1 # 1 /\ backlog'[i] = backlog[i + 1]
      BY <1>0, <2>4
    <3> QED
      BY <2>3, <2>5, <3>1 DEF OneConnectionEach
  <2> QED
    BY <2>6, <2>7, <2>8 DEF OneConnectionEach
<1>5. ASSUME NEW f \in Fd, ReadEnd(f) PROVE OneConnectionEach'
  <2>1. conn' = [conn EXCEPT ![f] = None] /\ backlog' = backlog
    BY <1>5 DEF ReadEnd, peerVars
  <2>2. \A g \in Open' : g \in Open /\ conn'[g] = conn[g]
    BY <1>0, <2>1 DEF Open
  <2> QED
    BY <2>1, <2>2 DEF OneConnectionEach
<1>6. CASE AcceptFails
  BY <1>1, <1>3, <1>6 DEF AcceptFails
<1>7. CASE PeerStep
  <2>1. ASSUME NEW p \in Peer, Send(p) \/ Drain(p) \/ Close(p) \/ Reset(p)
        PROVE  UNCHANGED <<conn, backlog>>
    BY <2>1 DEF Send, Drain, Close, Reset
  <2> QED
    BY <1>1, <1>2, <1>7, <2>1 DEF PeerStep
<1>8. CASE UNCHANGED vars \/ Interrupt \/ Leave \/ Skip \/ Poll
  BY <1>1, <1>8 DEF vars, Interrupt, Leave, Skip, Poll, peerVars
<1>9. ASSUME NEW f \in Fd, ReadData(f) \/ ReadError(f) \/ SendMessage(f)
      PROVE  OneConnectionEach'
  BY <1>1, <1>9 DEF ReadData, ReadError, SendMessage
<1> QED
  BY <1>4, <1>5, <1>6, <1>7, <1>8, <1>9 DEF Next, ServerStep

-----------------------------------------------------------------------------
(* Reports.                                                                *)

\* A step that does not touch p's connection, or touches it as its peer may,
\* leaves what was reported of it current.
Undisturbed(p) ==
  /\ Readable(p) => Readable(p)'
  /\ link'[p] = "broken" => link[p] = "broken"

\* Reports stay current when the scan goes on, entries keep their reports and
\* the connections behind the entries to come are undisturbed.
LEMMA ReportsStay ==
  ASSUME ReportsAreCurrent, UNCHANGED <<fds, conn>>, Scanning' => Scanning /\ scan <= scan',
         TypeOK, TypeOK',
         \A i \in DOMAIN fds :
           Scanning' /\ scan' <= i /\ fds[i].fd \in Open => Undisturbed(conn[fds[i].fd])
  PROVE  ReportsAreCurrent'
<1> SUFFICES ASSUME NEW i \in DOMAIN fds, Scanning', scan' <= i, fds[i].fd \in Open
             PROVE  /\ fds[i].in => Readable(conn[fds[i].fd])'
                    /\ fds[i].out /\ ~fds[i].in => link'[conn[fds[i].fd]] # "broken"
  BY DEF ReportsAreCurrent, Open
<1>1. scan <= i
  BY DEF TypeOK
<1>2. /\ fds[i].in => Readable(conn[fds[i].fd])
      /\ fds[i].out /\ ~fds[i].in => link[conn[fds[i].fd]] # "broken"
  BY <1>1 DEF ReportsAreCurrent
<1>3. Undisturbed(conn[fds[i].fd])
  OBVIOUS
<1> QED
  BY <1>2, <1>3 DEF Undisturbed

\* The entries still to come stand for other connections than the one served.
LEMMA OthersAreElsewhere ==
  ASSUME TypeOK, TablesAgree, Scanning, NEW f \in Fd, fds[scan].fd = f,
         NEW i \in DOMAIN fds, i > scan, fds[i].fd \in Open
  PROVE  fds[i].fd # f /\ conn[fds[i].fd] # conn[f]
<1>1. scan \in DOMAIN fds /\ f \in Open /\ scan # i
  BY ServedIsOpen DEF TablesAgree, Watched, TypeOK
<1>2. fds[i].fd # f
  BY <1>1 DEF TablesAgree, EachWatchedOnce
<1> QED
  BY <1>1, <1>2 DEF TablesAgree, OneConnectionEach

\* The scan only goes on.
LEMMA ScanGoesOn ==
  ASSUME TypeOK, Advance
  PROVE  scan' = 0 \/ scan' = scan + 1
BY DEF Advance

\* Serving one connection does not disturb the entries to come.
LEMMA ServiceDisturbsNobody ==
  ASSUME TypeOK, TypeOK', TablesAgree, ReportsAreCurrent, UNCHANGED <<fds, conn>>,
         Scanning, NEW f \in Fd, fds[scan].fd = f, Scanning' => Advance,
         \A p \in Peer : p # conn[f] => inbox'[p] = inbox[p] /\ link'[p] = link[p]
  PROVE  ReportsAreCurrent'
<1>1. Scanning' => scan' = scan + 1
  BY ScanGoesOn DEF Scanning
<1>2. ASSUME NEW i \in DOMAIN fds, Scanning', scan' <= i, fds[i].fd \in Open
      PROVE  Undisturbed(conn[fds[i].fd])
  <2>1. i > scan
    BY <1>1, <1>2 DEF TypeOK
  <2>2. conn[fds[i].fd] # conn[f] /\ conn[fds[i].fd] \in Peer
    BY <1>2, <2>1, OthersAreElsewhere DEF Open, TypeOK
  <2> QED
    BY <2>2 DEF Undisturbed, Readable
<1>3. Scanning' => scan <= scan'
  BY <1>1 DEF TypeOK
<1> QED
  BY <1>2, <1>3, ReportsStay

\* What the peers do leaves the reports current: input does not go away, and
\* neither does an end or a reset.
LEMMA PeersDisturbNobody ==
  ASSUME TypeOK, TypeOK', ReportsAreCurrent, NEW p \in Peer,
         Connect(p) \/ Send(p) \/ Drain(p) \/ Close(p) \/ Reset(p)
  PROVE  ReportsAreCurrent'
<1>1. UNCHANGED <<fds, conn, scan, status>>
  BY DEF Connect, Send, Drain, Close, Reset, serverVars
<1>2. ASSUME NEW q \in Peer, \E f \in Fd : conn[f] = q PROVE Undisturbed(q)
  <2>1. CASE Connect(p)
    <3>1. p # q
      BY <1>2, <2>1 DEF Connect, Connected, Range, TypeOK
    <3> QED
      BY <2>1, <3>1 DEF Connect, Undisturbed, Readable, TypeOK
  <2>2. CASE Send(p)
    BY <2>2 DEF Send, Undisturbed, Readable, TypeOK
  <2>3. CASE Drain(p)
    BY <2>3 DEF Drain, Undisturbed, Readable, TypeOK
  <2>4. CASE Close(p)
    BY <2>4 DEF Close, Undisturbed, Readable, TypeOK
  <2>5. CASE Reset(p)
    BY <2>5 DEF Reset, Undisturbed, Readable, TypeOK
  <2> QED
    BY <2>1, <2>2, <2>3, <2>4, <2>5
<1>3. \A f \in Open : conn[f] \in Peer
  BY DEF Open, TypeOK
<1> QED
  BY <1>1, <1>2, <1>3, ReportsStay DEF Scanning, Open, TypeOK

\* A new connection has nothing reported of it.
LEMMA AcceptDisturbsNobody ==
  ASSUME TypeOK, TypeOK', TablesAgree, ReportsAreCurrent, Accept
  PROVE  ReportsAreCurrent'
<1>1. PICK f \in Fd : /\ conn[f] = None /\ conn' = [conn EXCEPT ![f] = Head(backlog)]
                      /\ fds' = Append(fds, NewEntry(f))
  BY LowestIsFree DEF Accept, Accepted, TypeOK
<1>2. UNCHANGED <<link, inbox, status>> /\ Scanning /\ Advance
  BY DEF Accept
<1>3. /\ DOMAIN fds = 1..Len(fds) /\ Len(fds) \in Nat
      /\ DOMAIN fds' = 1..(Len(fds) + 1)
      /\ \A i \in 1..Len(fds) : fds'[i] = fds[i]
      /\ ~fds'[Len(fds) + 1].in /\ ~fds'[Len(fds) + 1].out
  BY <1>1 DEF TypeOK, NewEntry
<1> SUFFICES ASSUME NEW i \in DOMAIN fds', Scanning', scan' <= i, fds'[i].fd \in Open'
             PROVE  /\ fds'[i].in => Readable(conn[fds[i].fd])'
                    /\ fds'[i].out /\ ~fds'[i].in => link'[conn'[fds'[i].fd]] # "broken"
  BY DEF ReportsAreCurrent, Open
<1>4. CASE i = Len(fds) + 1
  BY <1>3, <1>4
<1>5. CASE i \in DOMAIN fds
  <2>1. fds'[i] = fds[i] /\ scan <= i
    BY <1>2, <1>3, <1>5, ScanGoesOn DEF Scanning, TypeOK
  <2>2. fds[i].fd # f
    BY <1>1, <1>5 DEF TablesAgree, OpenAreWatched, Open
  <2>3. fds[i].fd \in Fd /\ conn'[fds[i].fd] = conn[fds[i].fd]
    BY <1>1, <2>1, <2>2 DEF Open, TypeOK
  <2>4. fds[i].fd \in Open
    BY <2>1, <2>3 DEF Open
  <2> QED
    BY <1>2, <1>5, <2>1, <2>3, <2>4 DEF ReportsAreCurrent, Readable
<1> QED
  BY <1>3, <1>4, <1>5

\* The entries behind one that is taken out move up with their reports.
LEMMA EndDisturbsNobody ==
  ASSUME TypeOK, TypeOK', TablesAgree, ReportsAreCurrent, NEW f \in Fd, ReadEnd(f)
  PROVE  ReportsAreCurrent'
<1>1. scan \in DOMAIN fds /\ fds[scan].fd = f
  BY ServedIsOpen DEF ReadEnd, Reading, TablesAgree, Watched
<1>2. /\ UNCHANGED <<link, inbox, status>> /\ Scanning /\ Advance
      /\ conn' = [conn EXCEPT ![f] = None] /\ fds' = RemoveAt(fds, scan)
  BY DEF ReadEnd, Reading, Removed, peerVars
<1>3. DOMAIN fds = 1..Len(fds) /\ Len(fds) \in Nat /\ fds \in Seq(Entry)
  BY DEF TypeOK
<1>4. /\ Len(fds') = Len(fds) - 1 /\ fds' \in Seq(Entry)
      /\ \A i \in 1..Len(fds') : fds'[i] = fds[IF i < scan THEN i ELSE i + 1]
  BY <1>1, <1>2, <1>3, RemoveAtEntries, Zenon
<1> SUFFICES ASSUME NEW i \in DOMAIN fds', Scanning', scan' <= i, fds'[i].fd \in Open'
             PROVE  /\ fds'[i].in => Readable(conn[fds[i].fd])'
                    /\ fds'[i].out /\ ~fds'[i].in => link'[conn'[fds'[i].fd]] # "broken"
  BY DEF ReportsAreCurrent, Open
<1>5. scan' = scan + 1
  BY <1>2, ScanGoesOn DEF Scanning
<1>6. i + 1 \in DOMAIN fds /\ fds'[i] = fds[i + 1] /\ scan < i + 1
  BY <1>1, <1>3, <1>4, <1>5
<1>7. fds[i + 1].fd # f
  BY <1>1, <1>6 DEF TablesAgree, EachWatchedOnce
<1>8. fds[i + 1].fd \in Open /\ conn'[fds[i + 1].fd] = conn[fds[i + 1].fd]
  BY <1>2, <1>6, <1>7 DEF Open, TypeOK
<1>9. scan <= i + 1
  BY <1>1, <1>3, <1>6
<1> QED
  BY <1>2, <1>6, <1>8, <1>9 DEF ReportsAreCurrent, Readable

\* No step makes a report out of date before its entry's turn has come.
LEMMA ReportsStep ==
  ASSUME TypeOK, TypeOK', TablesAgree, ReportsAreCurrent, [Next]_vars
  PROVE  ReportsAreCurrent'
<1>1. CASE UNCHANGED vars \/ Interrupt \/ Leave \/ Skip \/ AcceptFails
  <2>1. UNCHANGED <<fds, conn, link, inbox>>
    BY <1>1 DEF vars, Interrupt, Leave, Skip, AcceptFails, peerVars
  <2>2. Scanning' => Scanning /\ scan <= scan'
    <3>1. CASE UNCHANGED vars \/ Interrupt \/ Leave
      BY <1>1, <3>1 DEF vars, Interrupt, Leave, Scanning, TypeOK
    <3>2. CASE Skip \/ AcceptFails
      BY <1>1, <3>2, ScanGoesOn DEF Skip, AcceptFails, Scanning, TypeOK
    <3> QED
      BY <1>1, <3>1, <3>2
  <2>3. \A p \in Peer : Undisturbed(p)
    BY <2>1 DEF Undisturbed, Readable
  <2>4. \A f \in Open : conn[f] \in Peer
    BY DEF Open, TypeOK
  <2> QED
    BY <2>1, <2>2, <2>3, <2>4, ReportsStay
<1>2. CASE Poll
  <2>1. /\ UNCHANGED <<conn, link, inbox>>
        /\ fds' = [i \in DOMAIN fds |-> Reported(fds[i])]
    BY <1>2 DEF Poll, peerVars
  <2>2. ASSUME NEW i \in DOMAIN fds', fds'[i].fd \in Open'
        PROVE  /\ fds'[i].in = Readable(conn[fds[i].fd])
               /\ fds'[i].fd = fds[i].fd
    <3>1. i \in DOMAIN fds /\ fds'[i] = Reported(fds[i])
      BY <2>1
    <3>2. fds[i].fd # Listener
      BY <2>2, <3>1, ReportedType, PollAssumption DEF Open, Fd, Listener
    <3> QED
      BY <3>1, <3>2, ReportedType
  <2>3. ASSUME NEW p, ~Readable(p) PROVE link[p] # "broken"
    BY <2>3 DEF Readable
  <2> QED
    BY <2>1, <2>2, <2>3 DEF ReportsAreCurrent, Readable
<1>3. CASE Accept
  BY <1>3, AcceptDisturbsNobody
<1>4. ASSUME NEW f \in Fd, ReadEnd(f) PROVE ReportsAreCurrent'
  BY <1>4, EndDisturbsNobody
<1>5. CASE PeerStep
  BY <1>5, PeersDisturbNobody DEF PeerStep
<1>6. ASSUME NEW f \in Fd, ReadData(f) \/ ReadError(f) \/ SendMessage(f)
      PROVE  ReportsAreCurrent'
  <2>1. /\ UNCHANGED <<fds, conn>> /\ Scanning /\ fds[scan].fd = f
        /\ Scanning' => Advance
    BY <1>6 DEF ReadData, ReadError, SendMessage, Reading, Writing, Scanning
  <2>2. \A p \in Peer : p # conn[f] => inbox'[p] = inbox[p] /\ link'[p] = link[p]
    BY <1>6 DEF ReadData, ReadError, SendMessage, Transmit, TypeOK
  <2> QED
    BY <2>1, <2>2, ServiceDisturbsNobody
<1> QED
  BY <1>1, <1>2, <1>3, <1>4, <1>5, <1>6 DEF Next, ServerStep

\* A connection whose failure has been told is readable, and is read rather
\* than written to.
LEMMA PipeStep ==
  ASSUME TypeOK, TablesAgree, ReportsAreCurrent, [Next]_vars,
         status # "killed", status' = "killed"
  PROVE  link[conn[fds[scan].fd]] # "broken"
<1>1. PICK f \in Fd : SendMessage(f)
  <2>1. ~(UNCHANGED vars \/ PeerStep \/ Interrupt \/ Leave \/ Skip \/ AcceptFails
          \/ Poll \/ Accept)
    BY DEF vars, PeerStep, Connect, Send, Drain, Close, Reset, serverVars,
           Interrupt, Leave, Skip, AcceptFails, Poll, Accept
  <2>2. ASSUME NEW f \in Fd PROVE ~(ReadData(f) \/ ReadEnd(f) \/ ReadError(f))
    BY DEF ReadData, ReadEnd, ReadError
  <2> QED
    BY <2>1, <2>2 DEF Next, ServerStep
<1>2. /\ scan \in DOMAIN fds /\ fds[scan].fd \in Open /\ Scanning
      /\ fds[scan].out /\ ~fds[scan].in
  BY <1>1, ServedIsOpen DEF SendMessage, Writing, TablesAgree, Watched
<1>3. scan <= scan
  BY DEF TypeOK
<1> QED
  BY <1>2, <1>3 DEF ReportsAreCurrent

-----------------------------------------------------------------------------
(* The invariant.                                                          *)

\* Initially only the listening socket is watched.
LEMMA InitInv == Init => Inv
<1> SUFFICES ASSUME Init PROVE Inv
  OBVIOUS
<1>1. fds = <<NewEntry(Listener)>> /\ NewEntry(Listener) \in Entry
  BY DEF Init, NewEntry, Entry
<1>2. TypeOK
  BY <1>1 DEF Init, TypeOK, Link, Status
<1>3. Open = {}
  BY DEF Init, Open
<1>4. TablesAgree
  <2>1. EachWatchedOnce
    BY <1>1 DEF EachWatchedOnce, NewEntry
  <2>2. OpenAreWatched
    BY <1>1, <1>3, PollAssumption DEF OpenAreWatched, NewEntry, Fd, Listener
  <2> QED
    BY <1>3, <2>1, <2>2 DEF TablesAgree, OneConnectionEach, Init
<1>5. ReportsAreCurrent
  BY <1>3 DEF ReportsAreCurrent
<1> QED
  BY <1>2, <1>4, <1>5 DEF Inv

\* Every step keeps the invariant.
LEMMA NextInv == Inv /\ [Next]_vars => Inv'
<1> SUFFICES ASSUME Inv, [Next]_vars PROVE Inv'
  OBVIOUS
<1>1. TypeOK'
  BY TypeStep DEF Inv
<1>2. TablesAgree'
  <2>1. Watched /\ clients = conn /\ OneConnectionEach
    BY DEF Inv, TablesAgree, Watched
  <2>2. Watched' /\ clients' = conn'
    BY <2>1, WatchedStep DEF Inv
  <2>3. OneConnectionEach'
    BY <2>1, ConnectionsStep DEF Inv
  <2> QED
    BY <2>2, <2>3 DEF TablesAgree, Watched
<1>3. ReportsAreCurrent'
  BY <1>1, ReportsStep DEF Inv
<1> QED
  BY <1>1, <1>2, <1>3 DEF Inv

\* The invariant holds throughout every run of the loop.
LEMMA InvAlways == Spec => []Inv
BY InitInv, NextInv, PTL DEF Spec

\* The descriptor vector, the map of Clients and the scan index keep their types.
THEOREM LoopTypeCorrect == Spec => []TypeOK
<1>1. Inv => TypeOK
  BY DEF Inv
<1> QED
  BY <1>1, InvAlways, PTL

\* What poll watches, the map of Clients and the open sockets are always the
\* same, over any number of connections, ends and descriptors used again.
THEOREM TablesAlwaysAgree == Spec => []TablesAgree
<1>1. Inv => TablesAgree
  BY DEF Inv
<1> QED
  BY <1>1, InvAlways, PTL

\* What poll reported of an entry is still so when the scan comes to it.
THEOREM ReportsStayCurrent == Spec => []ReportsAreCurrent
<1>1. Inv => ReportsAreCurrent
  BY DEF Inv
<1> QED
  BY <1>1, InvAlways, PTL

\* What a call has found broken is never written to.
THEOREM FailedAreNotWrittenTo == Spec => FailedIsNotWrittenTo
<1>1. Inv /\ [Next]_vars =>
        [status # "killed" /\ status' = "killed" =>
           link[conn[fds[scan].fd]] # "broken"]_vars
  BY PipeStep DEF Inv
<1> QED
  BY <1>1, InvAlways, PTL DEF Spec, FailedIsNotWrittenTo

-----------------------------------------------------------------------------
(* Sessions.                                                               *)

AtTheirEnds == {p \in Peer : \E f \in Fd : conn[f] = p}

\* The peers in the server's tables are those with an accepted connection.
LEMMA ServingIsConnected ==
  ASSUME TypeOK, TablesAgree
  PROVE  Serving = AtTheirEnds
<1>1. ASSUME NEW p \in Peer, NEW f \in Fd, conn[f] = p
      PROVE  \E i \in DOMAIN fds : fds[i].fd = f
  BY <1>1, PollAssumption DEF TablesAgree, OpenAreWatched, Open
<1> QED
  BY <1>1 DEF TablesAgree, Serving, AtTheirEnds

\* So they are after a step.
LEMMA ServingIsConnectedNext ==
  ASSUME TypeOK', TablesAgree'
  PROVE  Serving' = AtTheirEnds'
<1>1. ASSUME NEW p \in Peer, NEW f \in Fd, conn'[f] = p
      PROVE  \E i \in DOMAIN fds' : fds'[i].fd = f
  BY <1>1, PollAssumption DEF TablesAgree, OpenAreWatched, Open
<1> QED
  BY <1>1 DEF TablesAgree, Serving, AtTheirEnds

\* A peer is known to the sessions if it has a connection.
LEMMA KnownIsConnected ==
  ASSUME TypeOK, TablesAgree, NEW p \in Peer
  PROVE  Service!Known(p) <=> Connected(p)
<1>1. p \in Range(conn) <=> \E f \in Fd : conn[f] = p
  BY DEF TypeOK, Range
<1>2. p \in Serving <=> p \in Range(conn)
  BY <1>1, ServingIsConnected DEF AtTheirEnds
<1> QED
  BY <1>2, Zenon DEF Service!Known, Service!Range, Range, Connected

\* What the sessions see of a step that leaves these variables alone.
LEMMA SessionsStutter ==
  ASSUME TypeOK, TablesAgree, TypeOK', TablesAgree', UNCHANGED <<backlog, conn, inbox>>,
         \A p \in Peer : link'[p] # "up" <=> link[p] # "up"
  PROVE  UNCHANGED Service!sessionVars
<1>1. Serving' = Serving
  <2>1. AtTheirEnds' = AtTheirEnds
    BY DEF AtTheirEnds
  <2>2. Serving' = AtTheirEnds'
    BY ServingIsConnectedNext
  <2> QED
    BY <2>1, <2>2, ServingIsConnected
<1> QED
  BY <1>1 DEF Service!sessionVars

\* What a peer does is what it does in Sessions.
LEMMA PeerSessions ==
  ASSUME TypeOK, TablesAgree, TypeOK', TablesAgree', PeerStep
  PROVE  [Service!Next]_(Service!sessionVars)
<1>1. PICK p \in Peer : Connect(p) \/ Send(p) \/ Drain(p) \/ Close(p) \/ Reset(p)
  BY DEF PeerStep
<1>2. conn' = conn
  BY <1>1 DEF Connect, Send, Drain, Close, Reset, serverVars
<1>3. Serving' = Serving
  <2>1. AtTheirEnds' = AtTheirEnds
    BY <1>2 DEF AtTheirEnds
  <2>2. Serving' = AtTheirEnds'
    BY ServingIsConnectedNext
  <2> QED
    BY <2>1, <2>2, ServingIsConnected
<1>4. CASE Connect(p)
  <2>1. Service!Come(p)
    <3>1. ~Service!Known(p)
      BY <1>4, KnownIsConnected DEF Connect
    <3>2. {q \in Peer : link'[q] # "up"} = {q \in Peer : link[q] # "up"} \ {p}
      BY <1>4 DEF Connect, TypeOK
    <3>3. {q \in Peer : inbox'[q]} = {q \in Peer : inbox[q]} \ {p}
      BY <1>4 DEF Connect, TypeOK
    <3> QED
      BY <1>3, <1>4, <3>1, <3>2, <3>3 DEF Service!Come, Connect
  <2> QED
    BY <2>1 DEF Service!Next
<1>5. CASE Send(p)
  <2>1. Service!Say(p)
    <3>1. Service!Known(p) /\ p \notin {q \in Peer : link[q] # "up"}
      BY <1>5, KnownIsConnected DEF Send
    <3>2. {q \in Peer : inbox'[q]} = {q \in Peer : inbox[q]} \cup {p}
      BY <1>5 DEF Send, TypeOK
    <3> QED
      BY <1>3, <1>5, <3>1, <3>2 DEF Service!Say, Send
  <2> QED
    BY <2>1 DEF Service!Next
<1>6. CASE Drain(p)
  <2>1. UNCHANGED <<backlog, conn, inbox, link>>
    BY <1>2, <1>6 DEF Drain
  <2> QED
    BY <2>1, SessionsStutter
<1>7. CASE Close(p) \/ Reset(p)
  <2>1. Service!Go(p)
    <3>1. Service!Known(p)
      BY <1>7, KnownIsConnected DEF Close, Reset
    <3>2. {q \in Peer : link'[q] # "up"} = {q \in Peer : link[q] # "up"} \cup {p}
      BY <1>7 DEF Close, Reset, TypeOK
    <3>3. UNCHANGED <<backlog, inbox>>
      BY <1>7 DEF Close, Reset
    <3> QED
      BY <1>3, <3>1, <3>2, <3>3 DEF Service!Go
  <2> QED
    BY <2>1 DEF Service!Next
<1> QED
  BY <1>1, <1>4, <1>5, <1>6, <1>7

\* accept_client takes the first in the queue on.
LEMMA AcceptTakesOn ==
  ASSUME TypeOK, TablesAgree, TypeOK', TablesAgree', Accept
  PROVE  Service!TakeOn
<1>1. PICK f \in Fd : conn[f] = None /\ conn' = [conn EXCEPT ![f] = Head(backlog)]
  BY LowestIsFree DEF Accept, TypeOK
<1>2. backlog # <<>> /\ backlog' = Tail(backlog) /\ UNCHANGED <<link, inbox>>
  BY DEF Accept
<1>3. Head(backlog) \in Peer
  BY <1>2 DEF TypeOK
<1>4. AtTheirEnds' = AtTheirEnds \cup {Head(backlog)}
  BY <1>1, <1>3, PollAssumption DEF AtTheirEnds, TypeOK
<1>5. Serving' = Serving \cup {Head(backlog)}
  <2>1. Serving' = AtTheirEnds'
    BY ServingIsConnectedNext
  <2> QED
    BY <1>4, <2>1, ServingIsConnected
<1> QED
  BY <1>2, <1>5 DEF Service!TakeOn

\* client_disconnect ends a session, of a peer that has left and been heard.
LEMMA EndParts ==
  ASSUME TypeOK, TablesAgree, TypeOK', TablesAgree', NEW f \in Fd, ReadEnd(f)
  PROVE  \E p \in Peer : Service!Part(p)
<1>1. f \in Open /\ conn[f] \in Peer
  BY ServedIsOpen DEF ReadEnd, Reading, TablesAgree, Watched, Open, TypeOK
<1>2. /\ ~inbox[conn[f]] /\ link[conn[f]] # "up"
      /\ conn' = [conn EXCEPT ![f] = None]
      /\ UNCHANGED <<backlog, link, inbox>>
  BY DEF ReadEnd, peerVars
<1>3. \A g \in Open : conn[g] = conn[f] => g = f
  BY <1>1 DEF TablesAgree, OneConnectionEach
<1>4. AtTheirEnds' = AtTheirEnds \ {conn[f]}
  <2>1. ASSUME NEW p \in Peer
        PROVE  (\E g \in Fd : conn'[g] = p) <=> p # conn[f] /\ \E g \in Fd : conn[g] = p
    <3>1. ASSUME NEW g \in Fd, conn'[g] = p PROVE p # conn[f] /\ conn[g] = p
      <4>1. g # f /\ conn[g] = p
        BY <1>2, <3>1, PollAssumption DEF TypeOK
      <4>2. g \in Open
        BY <4>1, PollAssumption DEF Open
      <4> QED
        BY <1>3, <4>1, <4>2
    <3>2. ASSUME NEW g \in Fd, conn[g] = p, p # conn[f] PROVE conn'[g] = p
      BY <1>2, <3>2 DEF TypeOK
    <3> QED
      BY <3>1, <3>2
  <2> QED
    BY <2>1 DEF AtTheirEnds
<1>5. Serving' = Serving \ {conn[f]} /\ conn[f] \in Serving
  <2>1. Serving' = AtTheirEnds'
    BY ServingIsConnectedNext
  <2>2. conn[f] \in AtTheirEnds
    BY <1>1 DEF AtTheirEnds
  <2> QED
    BY <1>4, <2>1, <2>2, ServingIsConnected
<1> QED
  BY <1>1, <1>2, <1>5 DEF Service!Part

\* A batch that is read is heard, whether or not the process survives it.
LEMMA DataIsHeard ==
  ASSUME TypeOK, TablesAgree, TypeOK', TablesAgree', NEW f \in Fd, ReadData(f)
  PROVE  \E p \in Peer : Service!Hear(p)
<1>1. f \in Open /\ conn[f] \in Peer
  BY ServedIsOpen DEF ReadData, Reading, TablesAgree, Watched, Open, TypeOK
<1>2. /\ inbox[conn[f]] /\ inbox' = [inbox EXCEPT ![conn[f]] = FALSE]
      /\ UNCHANGED <<backlog, conn, link>>
  BY DEF ReadData
<1>3. {p \in Peer : inbox'[p]} = {p \in Peer : inbox[p]} \ {conn[f]}
  BY <1>1, <1>2 DEF TypeOK
<1>4. Serving' = Serving /\ conn[f] \in Serving
  <2>1. AtTheirEnds' = AtTheirEnds /\ conn[f] \in AtTheirEnds
    BY <1>1, <1>2 DEF AtTheirEnds
  <2>2. Serving' = AtTheirEnds'
    BY ServingIsConnectedNext
  <2> QED
    BY <2>1, <2>2, ServingIsConnected
<1> QED
  BY <1>1, <1>2, <1>3, <1>4 DEF Service!Hear

\* Each step of the loop is a step of the sessions, or one they do not see.
LEMMA SessionsStep ==
  ASSUME TypeOK, TablesAgree, TypeOK', TablesAgree', [Next]_vars
  PROVE  [Service!Next]_(Service!sessionVars)
<1>1. CASE UNCHANGED vars \/ Interrupt \/ Leave \/ Skip \/ Poll
  <2>1. UNCHANGED <<backlog, conn, inbox, link>>
    BY <1>1 DEF vars, Interrupt, Leave, Skip, Poll, peerVars
  <2> QED
    BY <2>1, SessionsStutter
<1>2. CASE PeerStep
  BY <1>2, PeerSessions
<1>3. CASE Accept
  BY <1>3, AcceptTakesOn DEF Service!Next
<1>4. CASE AcceptFails
  <2>1. CASE backlog' = backlog
    <3>1. UNCHANGED <<backlog, conn, inbox, link>>
      BY <1>4, <2>1 DEF AcceptFails
    <3> QED
      BY <3>1, SessionsStutter
  <2>2. CASE backlog # <<>> /\ backlog' = Tail(backlog)
    <3>1. UNCHANGED <<conn, inbox, link>>
      BY <1>4 DEF AcceptFails
    <3>2. Serving' = Serving
      <4>1. AtTheirEnds' = AtTheirEnds
        BY <3>1 DEF AtTheirEnds
      <4>2. Serving' = AtTheirEnds'
        BY ServingIsConnectedNext
      <4> QED
        BY <4>1, <4>2, ServingIsConnected
    <3>3. Service!TurnAway
      BY <2>2, <3>1, <3>2 DEF Service!TurnAway
    <3> QED
      BY <3>3 DEF Service!Next
  <2> QED
    BY <1>4, <2>1, <2>2 DEF AcceptFails
<1>5. ASSUME NEW f \in Fd, ReadData(f) PROVE Service!Next
  BY <1>5, DataIsHeard DEF Service!Next
<1>6. ASSUME NEW f \in Fd, ReadEnd(f) PROVE Service!Next
  BY <1>6, EndParts DEF Service!Next
<1>7. ASSUME NEW f \in Fd, ReadError(f) \/ SendMessage(f)
      PROVE  [Service!Next]_(Service!sessionVars)
  <2>1. UNCHANGED <<backlog, conn, inbox>>
    BY <1>7 DEF ReadError, SendMessage
  <2>2. link' = link \/ link' = [link EXCEPT ![conn[f]] = IF @ = "reset" THEN "broken" ELSE @]
    BY <1>7 DEF ReadError, SendMessage, Transmit
  <2>3. \A p \in Peer : link'[p] # "up" <=> link[p] # "up"
    BY <2>2 DEF TypeOK
  <2> QED
    BY <2>1, <2>3, SessionsStutter
<1> QED
  BY <1>1, <1>2, <1>3, <1>4, <1>5, <1>6, <1>7 DEF Next, ServerStep

\* The poll loop implements the sessions: first come first served, and no
\* session ends but by its peer's leaving and after its last input.
THEOREM LoopImplementsSessions == Spec => ImplementsSessions
<1>1. Init => Service!Init
  <2> SUFFICES ASSUME Init PROVE Service!Init
    OBVIOUS
  <2>2. Serving = {}
    BY PollAssumption DEF Init, Serving, NewEntry, Fd, Listener
  <2>3. backlog = <<>> /\ {p \in Peer : link[p] # "up"} = {} /\ {p \in Peer : inbox[p]} = {}
    BY DEF Init
  <2> QED
    BY <2>2, <2>3 DEF Service!Init
<1>2. Inv /\ Inv' /\ [Next]_vars => [Service!Next]_(Service!sessionVars)
  BY SessionsStep DEF Inv
<1> QED
  BY <1>1, <1>2, InvAlways, PTL DEF Spec, ImplementsSessions, Service!Spec
=============================================================================
