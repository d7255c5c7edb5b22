------------------------------ MODULE PollLoop ------------------------------
(***************************************************************************)
(* Server::run: the one thread that polls all descriptors and serves, in   *)
(* one scan over the vector fds, those that poll has reported.  The world  *)
(* goes on while it scans: peers connect, send, close and reset, and what  *)
(* poll reported may be out of date when an entry's turn comes.            *)
(*                                                                         *)
(* Contents of lines and messages are left out.  A batch of input (what    *)
(* one recv takes) and a client's send buffer are there or not, and the    *)
(* handlers of a batch append output to any connected clients.  What       *)
(* becomes of the contents, and of those send() does not take, is the      *)
(* matter of Dialogue.                                                     *)
(*                                                                         *)
(* The kernel's part (fdLimit, backlog, conn, link, inbox, room and the    *)
(* Peer actions) is external: sockets as the loop uses them.               *)
(***************************************************************************)
EXTENDS Naturals, FiniteSets, SequencesExt

CONSTANTS
  Peer,   \* remote ends; each has at most one connection at a time
  MaxFd,  \* descriptors 1..MaxFd are those of connections
  None,   \* no connection, no Client
  Null    \* a null pointer in Server::clients

ASSUME PollAssumption ==
  /\ MaxFd \in Nat \ {0}
  /\ None \notin Peer
  /\ Null \notin Peer \cup {None}

Fd == 1..MaxFd
Listener == 0          \* Server::fd

VARIABLES
  fdLimit,  \* of them, the process may have 1..fdLimit open
  backlog,  \* established connections accept() has not returned yet
  conn,     \* the peer at the other end of each descriptor, or None
  link,     \* of each peer's connection, see Link
  inbox,    \* a batch of input has arrived and is unread
  room,     \* the socket takes more output
  fds,      \* Server::fds, with POLLIN and POLLOUT of revents
  clients,  \* Server::clients: the peer a Client was made for
  outBuf,   \* Client::send_buffer is not empty
  scan,     \* the loop variable i, counted from 1; 0 at the while test
  status    \* of the process

peerVars   == <<backlog, link, inbox, room>>
serverVars == <<fds, clients, outBuf, scan, status>>
vars == <<fdLimit, backlog, conn, link, inbox, room, fds, clients, outBuf, scan, status>>

\* "fin": the peer has closed its end.  "reset": the peer has reset the
\* connection and the socket holds the error.  "broken": a call has been told.
Link == {"up", "fin", "reset", "broken"}

Status == {"running", "interrupted", "ended", "killed"}

Entry == [fd : Fd \cup {Listener}, in : BOOLEAN, out : BOOLEAN]

TypeOK ==
  /\ fdLimit \in Fd
  /\ backlog \in Seq(Peer)
  /\ conn \in [Fd -> Peer \cup {None}]
  /\ link \in [Peer -> Link]
  /\ inbox \in [Peer -> BOOLEAN]
  /\ room \in [Peer -> BOOLEAN]
  /\ fds \in Seq(Entry)
  /\ clients \in [Fd -> Peer \cup {None, Null}]
  /\ outBuf \in [Fd -> BOOLEAN]
  /\ scan \in 0..Len(fds)
  /\ status \in Status

NewEntry(fd) == [fd |-> fd, in |-> FALSE, out |-> FALSE]

Init ==
  /\ fdLimit \in Fd
  /\ backlog = <<>>
  /\ conn = [f \in Fd |-> None]
  /\ link = [p \in Peer |-> "up"]
  /\ inbox = [p \in Peer |-> FALSE]
  /\ room = [p \in Peer |-> TRUE]
  /\ fds = <<NewEntry(Listener)>>
  /\ clients = [f \in Fd |-> None]
  /\ outBuf = [f \in Fd |-> FALSE]
  /\ scan = 0
  /\ status = "running"

-----------------------------------------------------------------------------
(* The peers and the kernel.                                               *)

Connected(p) == p \in Range(backlog) \cup Range(conn)

Connect(p) ==
  /\ ~Connected(p)
  /\ backlog' = Append(backlog, p)
  /\ link' = [link EXCEPT ![p] = "up"]
  /\ inbox' = [inbox EXCEPT ![p] = FALSE]
  /\ room' = [room EXCEPT ![p] = TRUE]
  /\ UNCHANGED <<conn, serverVars>>

Send(p) ==
  /\ Connected(p) /\ link[p] = "up" /\ ~inbox[p]
  /\ inbox' = [inbox EXCEPT ![p] = TRUE]
  /\ UNCHANGED <<backlog, conn, link, room, serverVars>>

Drain(p) ==
  /\ Connected(p) /\ ~room[p]
  /\ room' = [room EXCEPT ![p] = TRUE]
  /\ UNCHANGED <<backlog, conn, link, inbox, serverVars>>

Close(p) ==
  /\ Connected(p) /\ link[p] = "up"
  /\ link' = [link EXCEPT ![p] = "fin"]
  /\ UNCHANGED <<backlog, conn, inbox, room, serverVars>>

Reset(p) ==
  /\ Connected(p) /\ link[p] \in {"up", "fin"}
  /\ link' = [link EXCEPT ![p] = "reset"]
  /\ UNCHANGED <<backlog, conn, inbox, room, serverVars>>

\* What poll reports of a connection.  One that is closed or reset is always
\* readable; one that is reset is writable too.
Readable(p) == inbox[p] \/ link[p] # "up"
Writable(p) == room[p] \/ link[p] \in {"reset", "broken"}

-----------------------------------------------------------------------------
(* poll.                                                                   *)

\* The events each entry asked for: a client's POLLIN and POLLOUT, the
\* listener's POLLIN.
Reported_FaultReadOnly(e) ==
  [e EXCEPT !.in = IF e.fd = Listener THEN backlog # <<>> ELSE Readable(conn[e.fd])]
Reported_FaultListener(e) ==
  IF e.fd = Listener THEN e
  ELSE [e EXCEPT !.in = Readable(conn[e.fd]), !.out = Writable(conn[e.fd])]
Reported(e) ==
  IF e.fd = Listener
  THEN [e EXCEPT !.in = backlog # <<>>, !.out = FALSE]
  ELSE [e EXCEPT !.in = Readable(conn[e.fd]), !.out = Writable(conn[e.fd])]

\* poll without a timeout returns once there is something to report.
Poll ==
  /\ scan = 0 /\ status = "running"
  /\ \E i \in DOMAIN fds : Reported(fds[i]).in \/ Reported(fds[i]).out
  /\ fds' = [i \in DOMAIN fds |-> Reported(fds[i])]
  /\ scan' = 1
  /\ UNCHANGED <<peerVars, conn, clients, outBuf, status>>

\* SIGINT clears the flag the while loop tests.  (A poll it interrupts reports
\* nothing, and the scan that follows finds nothing to do.)
Interrupt ==
  /\ status = "running"
  /\ status' = "interrupted"
  /\ UNCHANGED <<peerVars, conn, fds, clients, outBuf, scan>>

Leave ==
  /\ scan = 0 /\ status = "interrupted"
  /\ status' = "ended"
  /\ UNCHANGED <<peerVars, conn, fds, clients, outBuf, scan>>

-----------------------------------------------------------------------------
(* The scan.                                                               *)

Scanning == scan # 0 /\ status \in {"running", "interrupted"}

Advance_FaultBreak ==
  scan' = IF scan < Len(fds') /\ ~fds[scan].in /\ ~fds[scan].out THEN scan + 1 ELSE 0
Advance_FaultStaleSize == scan' = IF scan < Len(fds) THEN scan + 1 ELSE 0

\* i++ and the test against the size the vector has now.
Advance == scan' = IF scan < Len(fds') THEN scan + 1 ELSE 0

Skip ==
  /\ Scanning /\ ~fds[scan].in /\ ~fds[scan].out
  /\ UNCHANGED <<peerVars, conn, fds, clients, outBuf, status>>
  /\ Advance

FreeFd == {f \in 1..fdLimit : conn[f] = None}

Accepted_FaultStaleEvents(f) == fds' = Append(fds, [fds[scan] EXCEPT !.fd = f])
Accepted(f) == fds' = Append(fds, NewEntry(f))

\* accept_client.  The kernel gives the lowest free descriptor.  insert does
\* not replace an entry clients has for it already.
Accept ==
  /\ Scanning /\ fds[scan].fd = Listener /\ fds[scan].in
  /\ backlog # <<>> /\ FreeFd # {}
  /\ backlog' = Tail(backlog)
  /\ LET f == Min(FreeFd) IN
     /\ conn' = [conn EXCEPT ![f] = Head(backlog)]
     /\ Accepted(f)
     /\ clients' = [clients EXCEPT ![f] = IF @ = None THEN Head(backlog) ELSE @]
     /\ outBuf' = [outBuf EXCEPT ![f] = IF clients[f] = None THEN FALSE ELSE @]
  /\ Advance
  /\ UNCHANGED <<link, inbox, room, status>>

\* accept returns nothing, for want of a descriptor, of memory or of a connection
\* that is still there, or it returns one that fcntl cannot handle and the server
\* closes.
AcceptFails ==
  /\ Scanning /\ fds[scan].fd = Listener /\ fds[scan].in
  /\ \/ UNCHANGED backlog
     \/ backlog # <<>> /\ FreeFd # {} /\ backlog' = Tail(backlog)
  /\ UNCHANGED <<conn, link, inbox, room, fds, clients, outBuf, status>>
  /\ Advance

\* The entry whose turn it is, when it is a client's and poll has reported it.
Reading(f) == Scanning /\ f \in Fd /\ fds[scan].fd = f /\ fds[scan].in
Writing_FaultOutFirst(f) == Scanning /\ f \in Fd /\ fds[scan].fd = f /\ fds[scan].out
Writing(f) == Scanning /\ f \in Fd /\ fds[scan].fd = f /\ fds[scan].out /\ ~fds[scan].in

\* recv returned data, and the handlers append to the buffers of any clients.
\* One of them may end the process: what_is_this dereferences tokens that do
\* not exist, parse_recieved throws on a segment of one byte.
ReadData(f) ==
  /\ Reading(f) /\ inbox[conn[f]]
  /\ UNCHANGED <<backlog, conn, link, room, fds, clients>>
  /\ inbox' = [inbox EXCEPT ![conn[f]] = FALSE]
  /\ \/ /\ clients[f] # Null
        /\ \E S \in SUBSET {g \in Fd : clients[g] \notin {None, Null}} :
             outBuf' = [g \in Fd |-> outBuf[g] \/ g \in S]
        /\ Advance
        /\ UNCHANGED status
     \/ status' = "ended" /\ UNCHANGED <<outBuf, scan>>

Removed_FaultKeepEntry(i) == UNCHANGED fds
Removed(i) == fds' = RemoveAt(fds, i)

ReadEnd_FaultUnread(f) ==
  /\ Reading(f) /\ link[conn[f]] # "up"
  /\ clients' = [clients EXCEPT ![f] = None]
  /\ conn' = [conn EXCEPT ![f] = None]
  /\ outBuf' = [outBuf EXCEPT ![f] = FALSE]
  /\ Removed(scan)
  /\ Advance
  /\ UNCHANGED <<peerVars, status>>

\* recv returned 0: client_disconnect(i), in the middle of the scan.  The
\* entry that moves up into the gap is passed over in this round.
ReadEnd(f) ==
  /\ Reading(f) /\ ~inbox[conn[f]] /\ link[conn[f]] # "up"
  /\ clients' = [clients EXCEPT ![f] = None]
  /\ conn' = [conn EXCEPT ![f] = None]
  /\ outBuf' = [outBuf EXCEPT ![f] = FALSE]
  /\ Removed(scan)
  /\ Advance
  /\ UNCHANGED <<peerVars, status>>

ReadError_FaultDropEntry(f) ==
  /\ Reading(f) /\ ~inbox[conn[f]] /\ link[conn[f]] \in {"up", "reset"}
  /\ fds' = RemoveAt(fds, scan)
  /\ Advance
  /\ UNCHANGED <<peerVars, conn, clients, outBuf, status>>

\* recv returned -1, because of a reset (it may also return 0 then, if the peer
\* had closed before) or because there was nothing to read.
\* It leaves the connection alone and writes a zero byte below its buffer.
ReadError(f) ==
  /\ Reading(f) /\ ~inbox[conn[f]] /\ link[conn[f]] \in {"up", "reset"}
  /\ UNCHANGED <<backlog, conn, inbox, room, fds, clients, outBuf>>
  /\ link' = [link EXCEPT ![conn[f]] = IF @ = "reset" THEN "broken" ELSE @]
  /\ \/ Advance /\ UNCHANGED status
     \/ status' = "ended" /\ UNCHANGED scan

\* send(): writing to a connection whose failure has been told raises SIGPIPE,
\* which nobody handles.  The first call after a reset may get an error instead
\* (that depends on the system, and on whether the peer had closed before).
Transmit(p) ==
  /\ \/ link[p] # "broken" /\ UNCHANGED status
     \/ link[p] \in {"reset", "broken"} /\ status' = "killed"
  /\ link' = [link EXCEPT ![p] = IF @ = "reset" THEN "broken" ELSE @]
  /\ \E more \in BOOLEAN : room' = [room EXCEPT ![p] = more]

\* send_message: operator[] makes an entry for a descriptor it does not know,
\* and the buffer is emptied whatever becomes of its contents.
SendMessage(f) ==
  /\ Writing(f)
  /\ UNCHANGED <<backlog, conn, inbox, fds>>
  /\ clients' = [clients EXCEPT ![f] = IF @ = None THEN Null ELSE @]
  /\ outBuf' = [outBuf EXCEPT ![f] = FALSE]
  /\ IF outBuf[f] THEN Transmit(conn[f]) ELSE UNCHANGED <<link, room, status>>
  /\ Advance

-----------------------------------------------------------------------------

PeerStep ==
  /\ \E p \in Peer : Connect(p) \/ Send(p) \/ Drain(p) \/ Close(p) \/ Reset(p)
  /\ UNCHANGED fdLimit

ServerStep ==
  /\ \/ Poll \/ Leave \/ Skip
     \/ Accept \/ AcceptFails
     \/ \E f \in Fd : ReadData(f) \/ ReadEnd(f) \/ ReadError(f) \/ SendMessage(f)
  /\ UNCHANGED fdLimit

Next == PeerStep \/ ServerStep \/ (Interrupt /\ UNCHANGED fdLimit)

Spec == Init /\ [][Next]_vars

\* The server's thread runs whenever it can; peers and signals owe nothing.
FairSpec == Spec /\ WF_vars(ServerStep)

-----------------------------------------------------------------------------
(* Safety.                                                                 *)

Open == {f \in Fd : conn[f] # None}

\* Each descriptor is watched once, the listening socket first.
EachWatchedOnce ==
  /\ fds # <<>> /\ fds[1].fd = Listener
  /\ \A i, j \in DOMAIN fds : fds[i].fd = fds[j].fd => i = j

\* Of the connections, those that are open are watched.
OpenAreWatched == \A f \in Fd : f \in Open <=> \E i \in DOMAIN fds : fds[i].fd = f

\* No peer has two connections (the kernel's part).
OneConnectionEach ==
  /\ \A f, g \in Open : conn[f] = conn[g] => f = g
  /\ \A i, j \in DOMAIN backlog : backlog[i] = backlog[j] => i = j
  /\ \A i \in DOMAIN backlog, f \in Open : backlog[i] # conn[f]

\* The descriptors poll watches, the Clients in the map and the open sockets
\* are the same, and a Client belongs to the connection it was made for: no
\* descriptor number that is given out again finds remains of its last holder.
TablesAgree ==
  EachWatchedOnce /\ OpenAreWatched /\ clients = conn /\ OneConnectionEach

\* What poll has reported of an entry still to come in this scan is so when its
\* turn comes.  Reported readable, it is readable: recv does not come back
\* empty-handed (and its -1 does not index the buffer) unless the peer has
\* reset the connection.  Reported writable only, it can still be written to.
ReportsAreCurrent ==
  \A i \in DOMAIN fds :
    Scanning /\ scan <= i /\ fds[i].fd \in Open =>
      /\ fds[i].in => Readable(conn[fds[i].fd])
      /\ fds[i].out /\ ~fds[i].in => link[conn[fds[i].fd]] # "broken"

\* The server ignores what send returns and has no handler for SIGPIPE, and yet
\* never writes to a connection that a call has found broken: such a connection
\* is always readable, and POLLIN is looked at before POLLOUT.  SIGPIPE can only
\* come of a reset that arrives after poll has reported the connection.
FailedIsNotWrittenTo ==
  [][status # "killed" /\ status' = "killed" =>
       link[conn[fds[scan].fd]] # "broken"]_vars

\* The peers the server knows: their descriptor is watched, and the Client in
\* the map is theirs.
Serving ==
  {p \in Peer : \E i \in DOMAIN fds : fds[i].fd \in Fd /\ clients[fds[i].fd] = p}

Service == INSTANCE Sessions WITH
  queue  <- backlog,
  served <- Serving,
  gone   <- {p \in Peer : link[p] # "up"},
  unread <- {p \in Peer : inbox[p]}

\* Peers are taken on in their order, and once taken on a peer is in the server's
\* tables until it has left and its last input is read: the server never drops
\* a healthy connection, nor one it still has something to hear from, whatever
\* is erased from the vector and given out again meanwhile.
ImplementsSessions == Service!Spec

-----------------------------------------------------------------------------
(* Liveness.                                                               *)

Stopped == status # "running"

\* accept fails although a descriptor is free.
FailsWithoutNeed == AcceptFails /\ FreeFd # {}

\* Every connection is accepted, or refused, if descriptors become free again and
\* again and accept does not fail for other reasons for ever: a connection that
\* has found none is not forgotten, and those that came later do not overtake it.
ConnectionsAreTaken ==
  \A p \in Peer :
    []<>(FreeFd # {}) /\ ~[]<><<FailsWithoutNeed>>_vars
      => (p \in Range(backlog) ~> p \notin Range(backlog) \/ Stopped)

\* Whatever a client sends is read, although a disconnection makes the scan
\* pass over the entry behind it.
InputIsRead ==
  \A p \in Peer : p \in Range(conn) /\ inbox[p] ~> ~inbox[p] \/ Stopped

\* A client that has closed or lost its connection is eventually removed, also
\* while the listener has a connection it cannot take.
DepartedAreDropped ==
  \A p \in Peer : p \in Range(conn) /\ link[p] # "up" ~> p \notin Range(conn) \/ Stopped

Pending(p) == \E f \in Fd : conn[f] = p /\ outBuf[f]

\* A client's output is sent if it stops sending and goes on reading.  (One
\* that keeps sending can be starved of its output: a readable descriptor is
\* never written to.)
OutputLeaves ==
  \A p \in Peer :
    <>[]~inbox[p] /\ []<>room[p] => (Pending(p) ~> ~Pending(p) \/ Stopped)
=============================================================================
