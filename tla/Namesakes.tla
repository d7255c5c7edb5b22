----------------------------- MODULE Namesakes -----------------------------
(***************************************************************************)
(* What the channel lists promise although connections end: sets of        *)
(* entries, which outlive the clients they were made for, and of which     *)
(* whoever bears the entry's name has the use.  An entry is made for a     *)
(* client that is present, and taken out only by somebody with the name of *)
(* an operator's entry; nobody comes, goes or is renamed by what happens   *)
(* in a channel, nor do the entries change when somebody does.             *)
(***************************************************************************)
CONSTANTS Client, Name, Anonymous, ChannelName, PlusChannel

VARIABLES
  present,    \* the clients that are connected
  called,     \* what each client, or the entry it has left behind, is called
  known, members, operators, closed

worldVars     == <<present, called>>
channelVars   == <<known, members, operators, closed>>
namesakesVars == <<worldVars, channelVars>>

Init ==
  /\ present = {}
  /\ known = {}
  /\ members = [ch \in ChannelName |-> {}]
  /\ operators = [ch \in ChannelName |-> {}]
  /\ closed = [ch \in ChannelName |-> FALSE]

\* c has the name of one of these entries.
PassesFor(c, entries) == c \in present /\ \E e \in entries : called[e] = called[c]

-----------------------------------------------------------------------------
(* Those who come and go.                                                  *)

Arrive(c) ==
  /\ c \notin present
  /\ present' = present \cup {c}
  /\ called' = [called EXCEPT ![c] = Anonymous]

Leave(c) == c \in present /\ present' = present \ {c} /\ called' = called

Rename(c, n) ==
  /\ c \in present /\ \A d \in present : called[d] # n
  /\ called' = [called EXCEPT ![c] = n]
  /\ present' = present

\* The name of someone who has gone is lost.
Fade(c) ==
  /\ c \notin present
  /\ called'[c] \notin Name
  /\ called' = [called EXCEPT ![c] = called'[c]]
  /\ present' = present

World ==
  /\ \E c \in Client : Arrive(c) \/ Leave(c) \/ Fade(c) \/ \E n \in Name : Rename(c, n)
  /\ UNCHANGED channelVars

-----------------------------------------------------------------------------
(* Channels.                                                               *)

Found(c, ch) ==
  /\ c \in present /\ ch \notin known
  /\ known' = known \cup {ch}
  /\ operators' = [operators EXCEPT ![ch] = {c}]
  /\ members' = [members EXCEPT ![ch] = IF ch \in PlusChannel THEN {} ELSE {c}]
  /\ closed' = [closed EXCEPT ![ch] = ch \in PlusChannel]

Enter(c, ch) ==
  /\ c \in present /\ ch \in known /\ ~closed[ch]
  /\ members' = [members EXCEPT ![ch] = @ \cup {c}]
  /\ UNCHANGED <<known, operators, closed>>

\* Someone whose name is not on the list is put on it.
Invite(o, c, ch) ==
  /\ PassesFor(o, operators[ch])
  /\ c \in present /\ ~PassesFor(c, members[ch])
  /\ members' = [members EXCEPT ![ch] = @ \cup {c}]
  /\ UNCHANGED <<known, operators, closed>>

\* An entry is taken out by the name of someone present, another's than o's.
Kick(o, e, ch) ==
  /\ PassesFor(o, operators[ch]) /\ called[e] # called[o]
  /\ \E c \in present : called[c] = called[e]
  /\ members' = [members EXCEPT ![ch] = @ \ {e}]
  /\ UNCHANGED <<known, operators, closed>>

\* Those who pass for members are appointed, and the entries of their names
\* taken out.
Govern(o, ch) ==
  /\ PassesFor(o, operators[ch]) /\ PassesFor(o, members[ch]) /\ ch \notin PlusChannel
  /\ \E chosen \in SUBSET Client :
       /\ \A c \in chosen \ operators[ch] : PassesFor(c, members[ch])
       /\ \A e \in operators[ch] \ chosen :
            \E c \in present : PassesFor(c, members[ch]) /\ called[c] = called[e]
       /\ operators' = [operators EXCEPT ![ch] = chosen]
  /\ \E b \in BOOLEAN : closed' = [closed EXCEPT ![ch] = b]
  /\ UNCHANGED <<known, members>>

InChannel ==
  /\ \E o, c \in Client, ch \in ChannelName :
       \/ Found(c, ch) \/ Enter(c, ch)
       \/ Invite(o, c, ch) \/ Kick(o, c, ch)
       \/ Govern(o, ch)
  /\ UNCHANGED worldVars

Next == World \/ InChannel

Spec == Init /\ [][Next]_namesakesVars
=============================================================================
