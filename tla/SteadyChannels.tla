--------------------------- MODULE SteadyChannels --------------------------
(***************************************************************************)
(* Channels as long as every connection stays open.  The channel lists are *)
(* searched by nickname; here they are shown to behave as sets of clients, *)
(* the abstract specification Roster.  With disconnections they do not     *)
(* (see OperatorsWereAppointed in Channels).                               *)
(***************************************************************************)
EXTENDS Channels

SteadyNext ==
  \/ ClientStep(\E c \in Client : Accept(c))
  \/ ClientStep(Registration)
  \/ ChannelCommand
  \/ Query

SteadySpec == Init /\ ChannelsInit /\ [][SteadyNext]_allVars

\* Who passes for a member or an operator by its nickname is the very client
\* on the list: nobody gains or loses a place in a channel by NICK.
AuthorityIsIdentity ==
  \A ch \in ChannelName, c \in live :
    /\ IsOperator(ch, c) <=> c \in Range(op[ch])
    /\ IsInvited(ch, nick[c]) <=> c \in Members(ch)

\* Whoever WHO lists for a channel is listed once, and WHOIS with the name it
\* was listed under finds that very client, whatever names were changed and
\* whoever was invited, kicked or appointed under which name.
WhoAgreesWithWhoIs ==
  \A ch \in channels :
    /\ IsInjective(WhoList(ch))
    /\ \A i \in DOMAIN invited[ch] :
         {t \in Client : IsClient(t, WhoList(ch)[i])} = {invited[ch][i]}

-----------------------------------------------------------------------------
(* Refinement.                                                             *)

Sets == INSTANCE Roster WITH
  known     <- channels,
  members   <- [ch \in ChannelName |-> Members(ch)],
  operators <- [ch \in ChannelName |-> Range(op[ch])],
  closed    <- inviteOnly

\* The lists implement the sets of Roster.
ImplementsRoster == Sets!Spec
=============================================================================
