----------------------------- MODULE MCChannels ----------------------------
(* Runs of Channels on small instances.                                     *)
EXTENDS SteadyChannels

Symmetry == Permutations(Client) \cup Permutations(Nick)

\* Every client is connected and has given its password, a nickname of its own
\* and the rest, and no channel exists yet.
AllConnected ==
  /\ ChannelsInit
  /\ live = Client
  /\ nick \in Injection(Client, Nick)
  /\ hasUser = [c \in Client |-> TRUE]
  /\ hasReal = [c \in Client |-> TRUE]
  /\ passOk = [c \in Client |-> TRUE]
  /\ running = TRUE

\* The clients are registered, too.
AllRegistered == AllConnected /\ registered = [c \in Client |-> TRUE]

\* The clients stay connected; they may change their nicknames.
Rename == ClientStep(\E c \in Client, n \in Nick : NickCommand(c, n))

StayConnected == AllRegistered /\ [][ChannelCommand \/ Rename]_allVars

\* The lines that touch the lists, or whether they may be joined.
ListCommand ==
  \E c \in Client, ch \in ChannelName :
    \/ Join(c, ch, NoKey)
    \/ UseFreed(c, ch)
    \/ \E n \in Nick :
       \/ Invite(c, n, ch)
       \/ Kick(c, ch, n, TRUE)
    \/ \E m \in Change : m.flag \in {"o", "i"} /\ ModeLine(c, ch, <<m>>)

\* The same clients in several channels, also with two flags in a line.
ManyChannels == AllRegistered /\ [][
  \/ ListCommand \/ Rename \/ Query
  \/ \E c \in Client, ch \in ChannelName :
     \/ ModeRefused(c, ch)
     \/ \E m, n \in Change : m.flag = "o" /\ n.flag = "o" /\ ModeLine(c, ch, <<m, n>>)]_allVars

\* Connections come and go.  A new session registers with the right password
\* and complete USER lines.
ComeAndGo ==
  \/ ClientStep(Connections)
  \/ ClientStep(\E c \in Client : Pass(c, TRUE) \/ User(c, TRUE))
  \/ Rename
  \/ ListCommand

NobodyYet == Init /\ ChannelsInit

Reconnect == NobodyYet /\ [][ComeAndGo]_allVars
=============================================================================
