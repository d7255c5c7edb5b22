------------------------------- MODULE Roster ------------------------------
(***************************************************************************)
(* What the channel lists promise as long as nobody disconnects: each      *)
(* channel has a set of members and a set of operators, both sets of       *)
(* clients and not of nicknames.  Operators admit, remove, appoint and     *)
(* dismiss clients by identity, whatever they are called at the moment.    *)
(***************************************************************************)
CONSTANTS Client, ChannelName, PlusChannel

VARIABLES known, members, operators, closed

rosterVars == <<known, members, operators, closed>>

Init ==
  /\ known = {}
  /\ members = [ch \in ChannelName |-> {}]
  /\ operators = [ch \in ChannelName |-> {}]
  /\ closed = [ch \in ChannelName |-> FALSE]

\* The first to join is the operator; of a +channel it is not a member.
Found(c, ch) ==
  /\ ch \notin known
  /\ known' = known \cup {ch}
  /\ operators' = [operators EXCEPT ![ch] = {c}]
  /\ members' = [members EXCEPT ![ch] = IF ch \in PlusChannel THEN {} ELSE {c}]
  /\ closed' = [closed EXCEPT ![ch] = ch \in PlusChannel]

\* Anyone may enter a channel that is not closed.
Enter(c, ch) ==
  /\ ch \in known /\ ~closed[ch]
  /\ members' = [members EXCEPT ![ch] = @ \cup {c}]
  /\ UNCHANGED <<known, operators, closed>>

\* An operator, member or not, brings someone in ...
Invite(o, c, ch) ==
  /\ o \in operators[ch]
  /\ members' = [members EXCEPT ![ch] = @ \cup {c}]
  /\ UNCHANGED <<known, operators, closed>>

\* ... and puts someone else out.
Kick(o, c, ch) ==
  /\ o \in operators[ch] /\ o # c
  /\ members' = [members EXCEPT ![ch] = @ \ {c}]
  /\ UNCHANGED <<known, operators, closed>>

\* An operator that is a member decides which of the members are operators
\* (operators that are not members are out of its reach) and whether the
\* channel is closed.  A +channel stays as it was founded.
Govern(o, ch) ==
  /\ o \in operators[ch] \cap members[ch] /\ ch \notin PlusChannel
  /\ \E chosen \in SUBSET members[ch] :
       operators' = [operators EXCEPT ![ch] = (@ \ members[ch]) \cup chosen]
  /\ \E b \in BOOLEAN : closed' = [closed EXCEPT ![ch] = b]
  /\ UNCHANGED <<known, members>>

Next ==
  \E o, c \in Client, ch \in ChannelName :
    \/ Found(c, ch) \/ Enter(c, ch)
    \/ Invite(o, c, ch) \/ Kick(o, c, ch)
    \/ Govern(o, ch)

Spec == Init /\ [][Next]_rosterVars
=============================================================================
