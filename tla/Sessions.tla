------------------------------ MODULE Sessions ------------------------------
(***************************************************************************)
(* What the poll loop promises its peers: they are taken on in the order   *)
(* they came in, and a session lasts until its peer has left and all that  *)
(* it has sent is read.                                                    *)
(***************************************************************************)
EXTENDS Sequences, Functions

CONSTANT Peer

VARIABLES
  queue,   \* peers that have not been taken on yet
  served,  \* those that have
  gone,    \* those that have closed or lost their connection
  unread   \* those that have sent something that has not been read

sessionVars == <<queue, served, gone, unread>>

Init == queue = <<>> /\ served = {} /\ gone = {} /\ unread = {}

Known(p) == p \in Range(queue) \cup served

Come(p) ==
  /\ ~Known(p)
  /\ queue' = Append(queue, p)
  /\ gone' = gone \ {p}
  /\ unread' = unread \ {p}
  /\ UNCHANGED served

Say(p) ==
  /\ Known(p) /\ p \notin gone
  /\ unread' = unread \cup {p}
  /\ UNCHANGED <<queue, served, gone>>

Go(p) ==
  /\ Known(p)
  /\ gone' = gone \cup {p}
  /\ UNCHANGED <<queue, served, unread>>

\* The first in the queue is taken on, or turned away.
TakeOn ==
  /\ queue # <<>>
  /\ queue' = Tail(queue)
  /\ served' = served \cup {Head(queue)}
  /\ UNCHANGED <<gone, unread>>

TurnAway ==
  /\ queue # <<>>
  /\ queue' = Tail(queue)
  /\ UNCHANGED <<served, gone, unread>>

Hear(p) ==
  /\ p \in served \cap unread
  /\ unread' = unread \ {p}
  /\ UNCHANGED <<queue, served, gone>>

\* The only way out of a session.
Part(p) ==
  /\ p \in (served \cap gone) \ unread
  /\ served' = served \ {p}
  /\ UNCHANGED <<queue, gone, unread>>

Next == TakeOn \/ TurnAway \/ \E p \in Peer : Come(p) \/ Say(p) \/ Go(p) \/ Hear(p) \/ Part(p)

Spec == Init /\ [][Next]_sessionVars
=============================================================================
