---------------------------- MODULE SteadyProofs ----------------------------
(***************************************************************************)
(* While connections stay open, searching the channel lists by nickname is *)
(* the same as searching them by identity, and the lists implement the     *)
(* sets of Roster.  The invariant that makes it so: whoever is listed is   *)
(* connected and has a nickname, and connected clients' nicknames differ.  *)
(***************************************************************************)
EXTENDS SteadyChannels, ChannelsProofs

Listed(ch) == Range(op[ch]) \cup Members(ch)

ListedAreNamed ==
  \A ch \in ChannelName : \A c \in Listed(ch) : c \in live /\ nick[c] # NoNick

SteadyInv ==
  /\ AllTyped
  /\ RegistrationInv
  /\ NickUnique
  /\ ListsHaveNoDuplicates
  /\ ListedAreNamed

\* Steady steps are steps of the full system.
LEMMA SteadyIsChannelsStep == [SteadyNext]_allVars => [ChannelsNext]_allVars
BY DEF SteadyNext, ChannelsNext, ClientStep, Next, Connections

\* In a steady step nobody disconnects and nobody loses its nickname.
LEMMA NamesStay ==
  ASSUME TypeOK, [SteadyNext]_allVars, NEW d \in live, nick[d] # NoNick
  PROVE  d \in live' /\ nick'[d] # NoNick
<1> USE NamesAssumption DEF TypeOK
<1>1. ASSUME UNCHANGED <<live, nick>> PROVE d \in live' /\ nick'[d] # NoNick
  BY <1>1
<1>2. ASSUME NEW c \in Client, Accept(c) PROVE d \in live' /\ nick'[d] # NoNick
  BY <1>2 DEF Accept
<1>3. ASSUME NEW c \in Client, NEW n \in Nick, NickCommand(c, n)
      PROVE  d \in live' /\ nick'[d] # NoNick
  BY <1>3 DEF NickCommand
<1>4. ASSUME Registration PROVE d \in live' /\ nick'[d] # NoNick
  BY <1>1, <1>3, <1>4 DEF Registration, Pass, User, UserShort, MissingToken
<1>5. ASSUME ChannelCommand PROVE UNCHANGED <<live, nick>>
  <2> USE DEF Refuse, Crash, clientVars
  <2>1. ASSUME NEW c \in Client, NEW ch \in ChannelName,
               \/ \E k \in Key \cup {NoKey} : Join(c, ch, k)
               \/ Part(c, ch) \/ UseFreed(c, ch)
        PROVE  UNCHANGED <<live, nick>>
    BY <2>1 DEF Join, JoinNew, JoinExisting, JoinDone, Part, UseFreed
  <2>2. ASSUME NEW c \in Client, NEW ch \in ChannelName,
               \/ \E n \in Nick : Invite(c, n, ch)
               \/ \E n \in Nick, comment \in BOOLEAN : Kick(c, ch, n, comment)
        PROVE  UNCHANGED <<live, nick>>
    BY <2>2 DEF Invite, InviteDone, Kick, KickDone
  <2>3. ASSUME NEW c \in Client, NEW ch \in ChannelName, Mode(c, ch)
        PROVE  UNCHANGED <<live, nick>>
    BY <2>3 DEF Mode, ModeList, ModeRefused, ModeLine, Settle
  <2>4. ASSUME NEW c \in Client, Quit(c) \/ PartMalformed(c) PROVE UNCHANGED <<live, nick>>
    BY <2>4 DEF Quit, PartMalformed, Tell
  <2> QED
    BY <1>5, <2>1, <2>2, <2>3, <2>4 DEF ChannelCommand
<1> QED
  BY <1>1, <1>2, <1>4, <1>5, QueryIsIdle DEF SteadyNext, ClientStep, allVars, clientVars

\* What a channel's lists contain after a step was there before, or has just
\* been found connected under a nickname.
LEMMA NewlyListed ==
  ASSUME SteadyInv, [ChannelsNext]_allVars, NEW d \in ChannelName, NEW m \in Listed(d)'
  PROVE  m \in live /\ nick[m] # NoNick
<1>0. /\ op \in [ChannelName -> Seq(Client)] /\ invited \in [ChannelName -> Seq(Client)]
      /\ live \subseteq Client /\ nick \in [Client -> Nick \cup {NoNick, Junk}]
      /\ \A c \in Listed(d) : c \in live /\ nick[c] # NoNick
      /\ \A c \in live : registered[c] => nick[c] # NoNick
  BY NamesAssumption
     DEF SteadyInv, AllTyped, TypeOK, ChannelsTypeOK, ListedAreNamed, RegistrationInv,
         RegisteredComplete
<1> DEFINE Fine(c) == c \in live /\ nick[c] # NoNick
<1>1. ASSUME Idle PROVE Fine(m)
  BY <1>0, <1>1 DEF Idle, channelVars, Listed, Members
<1>2. ASSUME NEW c \in live, NEW ch \in ChannelName, Founded(c, ch) PROVE Fine(m)
  <2>1. Range(<<c>>) = {c} /\ Range(<<>>) = {}
    BY DEF Range
  <2>2. Listed(d)' \subseteq Listed(d) \cup {c}
    BY <1>0, <1>2, <2>1 DEF Founded, JoinNew, Listed, Members
  <2> QED
    BY <1>0, <1>2, <2>2 DEF Founded
<1>3. ASSUME NEW c \in live, NEW ch \in ChannelName, Joined(c, ch) PROVE Fine(m)
  <2>1. Range(Admitted(ch, c)) \subseteq Members(ch) \cup {c}
    BY <1>0, PushNamedList DEF Admitted, Members
  <2>2. Listed(d)' \subseteq Listed(d) \cup {c}
    BY <1>0, <1>3, <2>1 DEF Joined, JoinDone, Listed, Members
  <2> QED
    BY <1>0, <1>3, <2>2 DEF Joined
<1>4. ASSUME NEW c \in live, NEW t \in live, NEW ch \in ChannelName, Invited(c, t, ch)
      PROVE  Fine(m)
  <2>1. Range(Append(invited[ch], t)) = Members(ch) \cup {t}
    BY <1>0, AppendList DEF Members
  <2>2. Listed(d)' \subseteq Listed(d) \cup {t}
    BY <1>0, <1>4, <2>1 DEF Invited, InviteDone, Listed, Members
  <2> QED
    BY <1>0, <1>4, <2>2, NamesAssumption DEF Invited
<1>5. ASSUME NEW c \in live, NEW n \in Nick, NEW ch \in ChannelName, Kicked(c, ch, n)
      PROVE  Fine(m)
  <2>1. Range(EraseNamed(invited[ch], nick, n)) \subseteq Members(ch)
    BY <1>0, EraseNamedList DEF Members
  <2>2. Listed(d)' \subseteq Listed(d)
    BY <1>0, <1>5, <2>1 DEF Kicked, KickDone, Listed, Members
  <2> QED
    BY <1>0, <2>2
<1>6. ASSUME NEW c \in live, NEW ch \in ChannelName, ModeMade(c, ch) PROVE Fine(m)
  <2>1. PICK list : Reaches(ch, op[ch], list) /\ op' = [op EXCEPT ![ch] = list]
    BY <1>6 DEF ModeMade
  <2>2. \A e \in Range(list) : e \in Range(op[ch]) \/ (e \in live /\ IsInvited(ch, nick[e]))
    BY <2>1, AppointedByMode DEF SteadyInv
  <2>3. \A e : IsInvited(ch, nick[e]) => nick[e] # NoNick
    BY <1>0 DEF IsInvited, Named, SteadyInv, ListedAreNamed, Listed, Members, Range
  <2>4. m \in Listed(d) \/ (m \in live /\ nick[m] # NoNick)
    BY <1>0, <1>6, <2>1, <2>2, <2>3 DEF ModeMade, Listed, Members
  <2> QED
    BY <1>0, <2>4
<1> QED
  BY <1>1, <1>2, <1>3, <1>4, <1>5, <1>6, StepKinds DEF ChannelChange, AllTyped, SteadyInv

\* The steady invariant is inductive.
LEMMA SteadyStep == SteadyInv /\ [SteadyNext]_allVars => SteadyInv'
<1> SUFFICES ASSUME SteadyInv, [SteadyNext]_allVars PROVE SteadyInv'
  OBVIOUS
<1>1. [ChannelsNext]_allVars
  BY SteadyIsChannelsStep
<1>2. [Next]_clientVars
  BY <1>1, ChannelsStepIsClientStep DEF SteadyInv
<1>3. AllTyped' /\ RegistrationInv' /\ NickUnique' /\ ListsHaveNoDuplicates'
  BY <1>1, <1>2, AllTypedStep, RegistrationStep, NickUniqueStep, ListsStep
     DEF SteadyInv, AllTyped
<1>4. ListedAreNamed'
  <2> SUFFICES ASSUME NEW ch \in ChannelName, NEW c \in Listed(ch)'
               PROVE  c \in live' /\ nick'[c] # NoNick
    BY DEF ListedAreNamed
  <2>1. c \in live /\ nick[c] # NoNick
    BY <1>1, NewlyListed
  <2> QED
    BY <2>1, NamesStay DEF SteadyInv, AllTyped
<1> QED
  BY <1>3, <1>4 DEF SteadyInv

\* Before anyone connects nobody is listed.
LEMMA SteadyStart == Init /\ ChannelsInit => SteadyInv
<1> SUFFICES ASSUME Init, ChannelsInit PROVE SteadyInv
  OBVIOUS
<1>1. AllTyped
  BY InitTyped
<1>2. RegistrationInv /\ NickUnique
  BY <1>1 DEF AllTyped, Init, RegistrationInv, RegisteredComplete, NickUnique, NamesProper
<1>3. ListsHaveNoDuplicates
  BY DEF ChannelsInit, ListsHaveNoDuplicates, ListedOnce, IsInjective
<1>4. ListedAreNamed
  <2>1. Range(<<>>) = {}
    BY DEF Range
  <2> QED
    BY <2>1 DEF ChannelsInit, ListedAreNamed, Listed, Members
<1> QED
  BY <1>1, <1>2, <1>3, <1>4 DEF SteadyInv

\* While connections stay open, everyone on a list is connected and named.
THEOREM SteadyInvariant == SteadySpec => []SteadyInv
BY SteadyStart, SteadyStep, PTL DEF SteadySpec

\* The invariant makes nicknames identities: an entry of a list that has the
\* nickname of a connected client is that client.
LEMMA NameIsIdentity ==
  ASSUME SteadyInv, NEW ch \in ChannelName, NEW e \in Listed(ch), NEW c \in live
  PROVE  nick[e] = nick[c] <=> e = c
BY DEF SteadyInv, ListedAreNamed, NickUnique

\* Searching a list by a connected client's nickname is searching for the client.
LEMMA SearchIsMembership ==
  ASSUME SteadyInv, NEW ch \in ChannelName, NEW c \in live
  PROVE  /\ IsOperator(ch, c) <=> c \in Range(op[ch])
         /\ IsInvited(ch, nick[c]) <=> c \in Members(ch)
<1>1. \A e \in Range(op[ch]) \cup Range(invited[ch]) : nick[e] = nick[c] <=> e = c
  BY NameIsIdentity DEF Listed, Members
<1> QED
  BY <1>1 DEF IsOperator, IsInvited, Named, Members, Range

\* Nobody gains or loses an operator's or a member's place by its nickname.
THEOREM AuthorityIsIdentityHolds == SteadySpec => []AuthorityIsIdentity
<1>1. SteadyInv => AuthorityIsIdentity
  BY SearchIsMembership DEF AuthorityIsIdentity
<1> QED
  BY <1>1, SteadyInvariant, PTL

\* WHO and WHOIS agree on who is in a channel.
THEOREM WhoAndWhoIsAgree == SteadySpec => []WhoAgreesWithWhoIs
<1>1. SteadyInv => WhoAgreesWithWhoIs
  <2> SUFFICES ASSUME SteadyInv, NEW ch \in channels
               PROVE  /\ IsInjective(WhoList(ch))
                      /\ \A i \in DOMAIN invited[ch] :
                           {t \in Client : IsClient(t, WhoList(ch)[i])} = {invited[ch][i]}
    BY DEF WhoAgreesWithWhoIs
  <2>1. /\ ch \in ChannelName /\ invited[ch] \in Seq(Client) /\ live \subseteq Client
        /\ ListedOnce(invited[ch])
    BY DEF SteadyInv, AllTyped, TypeOK, ChannelsTypeOK, ListsHaveNoDuplicates
  <2>2. ASSUME NEW i \in DOMAIN invited[ch]
        PROVE  /\ WhoList(ch)[i] = nick[invited[ch][i]]
               /\ invited[ch][i] \in Listed(ch) /\ invited[ch][i] \in live
    BY <2>1 DEF WhoList, Listed, Members, Range, SteadyInv, ListedAreNamed
  <2>3. ASSUME NEW i \in DOMAIN invited[ch]
        PROVE  {t \in Client : IsClient(t, WhoList(ch)[i])} = {invited[ch][i]}
    BY <2>1, <2>2, NameIsIdentity DEF IsClient
  <2>4. ASSUME NEW i \in DOMAIN invited[ch], NEW j \in DOMAIN invited[ch],
               WhoList(ch)[i] = WhoList(ch)[j]
        PROVE  i = j
    <3>1. invited[ch][i] = invited[ch][j]
      BY <2>1, <2>2, <2>4, NameIsIdentity
    <3> QED
      BY <2>1, <3>1 DEF ListedOnce, IsInjective
  <2>5. IsInjective(WhoList(ch))
    BY <2>4 DEF IsInjective, WhoList
  <2> QED
    BY <2>3, <2>5
<1> QED
  BY <1>1, SteadyInvariant, PTL

-----------------------------------------------------------------------------
(* The lists implement sets.                                               *)

\* A list without duplicates, of connected clients with nicknames.
Proper(list) ==
  list \in Seq(Client) /\ ListedOnce(list)
    /\ \A e \in Range(list) : e \in live /\ nick[e] # NoNick

\* The invariant says so of both lists of every channel.
LEMMA ListsAreProper ==
  ASSUME SteadyInv, NEW ch \in ChannelName
  PROVE  Proper(op[ch]) /\ Proper(invited[ch])
BY DEF SteadyInv, AllTyped, ChannelsTypeOK, ListsHaveNoDuplicates, ListedAreNamed,
       Listed, Members, Proper

\* With nicknames unique, pushing adds the client to the set of those listed,
\* and erasing takes exactly that client out.
LEMMA ListsActAsSets ==
  ASSUME NickUnique, live \subseteq Client, NEW list, Proper(list), NEW c \in live
  PROVE  /\ Range(PushNamed(list, nick, c)) = Range(list) \cup {c}
         /\ Range(EraseNamed(list, nick, nick[c])) = Range(list) \ {c}
<1>1. list \in Seq(Client) /\ ListedOnce(list) /\ c \in Client
  BY DEF Proper
<1>2. Names(list, nick, nick[c], c)
  BY DEF Names, Proper, NickUnique
<1>3. Named(list, nick, nick[c]) => c \in Range(list)
  BY <1>2 DEF Names, Named, Range
<1>4. Range(Append(list, c)) = Range(list) \cup {c}
  BY <1>1, AppendList
<1>5. Range(EraseNamed(list, nick, nick[c])) = Range(list) \ {c}
  BY <1>1, <1>2, EraseNamedExact
<1> QED
  BY <1>3, <1>4, <1>5 DEF PushNamed

\* One flag of a MODE line appoints or dismisses one member, or nobody.
LEMMA OneOpGoverns ==
  ASSUME SteadyInv, NEW ch \in ChannelName, NEW before, Proper(before),
         NEW after, OneOp(ch, before, after)
  PROVE  Proper(after) /\ Range(after) \ Members(ch) = Range(before) \ Members(ch)
<1>0. NickUnique /\ live \subseteq Client
  BY DEF SteadyInv, AllTyped, TypeOK
<1>1. ASSUME NEW t \in live, IsInvited(ch, nick[t]),
             \/ after = PushNamed(before, nick, t)
             \/ after = EraseNamed(before, nick, nick[t])
      PROVE  Proper(after) /\ Range(after) \ Members(ch) = Range(before) \ Members(ch)
  <2>1. t \in Members(ch)
    BY <1>1, SearchIsMembership
  <2>2. nick[t] # NoNick
    BY <2>1 DEF SteadyInv, ListedAreNamed, Listed
  <2>3. Range(after) = Range(before) \cup {t} \/ Range(after) = Range(before) \ {t}
    BY <1>0, <1>1, ListsActAsSets
  <2>4. after \in Seq(Client) /\ ListedOnce(after)
    BY <1>0, <1>1, OpsAfterMode DEF OneOp, Proper
  <2>5. Proper(after)
    BY <2>2, <2>3, <2>4 DEF Proper
  <2>6. Range(after) \ Members(ch) = Range(before) \ Members(ch)
    BY <2>1, <2>3
  <2> QED
    BY <2>5, <2>6
<1> QED
  BY <1>1 DEF OneOp

\* Every steady step is a step of Roster, or leaves the sets alone.
LEMMA RosterStep ==
  ASSUME SteadyInv, [SteadyNext]_allVars
  PROVE  [Sets!Next]_(Sets!rosterVars)
<1> DEFINE M == [ch \in ChannelName |-> Members(ch)]
           O == [ch \in ChannelName |-> Range(op[ch])]
<1>0. /\ op \in [ChannelName -> Seq(Client)] /\ invited \in [ChannelName -> Seq(Client)]
      /\ inviteOnly \in [ChannelName -> BOOLEAN]
      /\ live \subseteq Client /\ NickUnique
  BY DEF SteadyInv, AllTyped, TypeOK, ChannelsTypeOK
\* A list updated at one channel is the corresponding set updated there.
<1>1. ASSUME NEW ch \in ChannelName, NEW list, NEW S, Range(list) = S
      PROVE  /\ invited' = [invited EXCEPT ![ch] = list] => M' = [M EXCEPT ![ch] = S]
             /\ op' = [op EXCEPT ![ch] = list] => O' = [O EXCEPT ![ch] = S]
  <2>1. ASSUME invited' = [invited EXCEPT ![ch] = list] PROVE M' = [M EXCEPT ![ch] = S]
    <3>1. \A d \in ChannelName : Range(invited'[d]) = IF d = ch THEN S ELSE Range(invited[d])
      BY <1>0, <1>1, <2>1
    <3> QED
      BY <3>1 DEF Members
  <2>2. ASSUME op' = [op EXCEPT ![ch] = list] PROVE O' = [O EXCEPT ![ch] = S]
    <3>1. \A d \in ChannelName : Range(op'[d]) = IF d = ch THEN S ELSE Range(op[d])
      BY <1>0, <1>1, <2>2
    <3> QED
      BY <3>1
  <2> QED
    BY <2>1, <2>2
<1>2. /\ invited' = invited => M' = M
      /\ op' = op => O' = O
  BY DEF Members
<1>3. \A ch \in ChannelName : M[ch] = Range(invited[ch]) /\ O[ch] = Range(op[ch])
  BY DEF Members
<1>4. ASSUME UNCHANGED <<channels, inviteOnly>>, M' = M, O' = O
      PROVE  [Sets!Next]_(Sets!rosterVars)
  BY <1>4 DEF Sets!rosterVars
<1> HIDE DEF M, O
<1>5. ASSUME NEW c \in live, NEW ch \in ChannelName, Founded(c, ch)
      PROVE  Sets!Found(c, ch)
  <2>1. Range(<<c>>) = {c} /\ Range(<<>>) = {}
    BY DEF Range
  <2>2. PICK k \in Key \cup {NoKey} : JoinNew(c, ch, k)
    BY <1>5 DEF Founded
  <2>3. O' = [O EXCEPT ![ch] = {c}]
    BY <1>1, <2>1, <2>2 DEF JoinNew
  <2>4. M' = [M EXCEPT ![ch] = IF ch \in PlusChannel THEN {} ELSE {c}]
    BY <1>1, <2>1, <2>2 DEF JoinNew
  <2> QED
    BY <2>2, <2>3, <2>4 DEF M, O, JoinNew, Sets!Found
<1>6. ASSUME NEW c \in live, NEW ch \in ChannelName, Joined(c, ch)
      PROVE  [Sets!Next]_(Sets!rosterVars)
  <2>1. /\ ch \in channels /\ UNCHANGED <<channels, op, inviteOnly>>
        /\ invited' = [invited EXCEPT ![ch] = Admitted(ch, c)]
    BY <1>6 DEF Joined, JoinDone, flagVars
  <2>2. CASE inviteOnly[ch]
    <3>1. invited' = invited
      BY <1>0, <2>1, <2>2 DEF Admitted
    <3> QED
      BY <1>2, <1>4, <2>1, <3>1
  <2>3. CASE ~inviteOnly[ch]
    <3>1. Range(Admitted(ch, c)) = M[ch] \cup {c}
      BY <1>0, <1>3, <2>3, ListsAreProper, ListsActAsSets DEF Admitted
    <3>2. M' = [M EXCEPT ![ch] = M[ch] \cup {c}]
      BY <1>1, <2>1, <3>1
    <3>3. Sets!Enter(c, ch)
      BY <1>2, <2>1, <2>3, <3>2 DEF M, O, Sets!Enter
    <3> QED
      BY <1>0, <3>3 DEF Sets!Next
  <2> QED
    BY <2>2, <2>3
<1>7. ASSUME NEW c \in live, NEW t \in live, NEW ch \in ChannelName, Invited(c, t, ch)
      PROVE  Sets!Invite(c, t, ch)
  <2>1. c \in O[ch]
    BY <1>3, <1>7, SearchIsMembership DEF Invited
  <2>2. Range(Append(invited[ch], t)) = M[ch] \cup {t}
    BY <1>0, <1>3, AppendList
  <2>3. UNCHANGED <<channels, op, inviteOnly>> /\ invited' = [invited EXCEPT ![ch] = Append(invited[ch], t)]
    BY <1>7 DEF Invited, InviteDone, flagVars
  <2>4. M' = [M EXCEPT ![ch] = M[ch] \cup {t}]
    BY <1>1, <2>2, <2>3
  <2> QED
    BY <1>2, <2>1, <2>3, <2>4 DEF M, O, Sets!Invite
<1>8. ASSUME NEW c \in live, NEW n \in Nick, NEW ch \in ChannelName, Kicked(c, ch, n)
      PROVE  \E t \in Client : Sets!Kick(c, t, ch)
  <2>1. PICK t \in live : nick[t] = n
    BY <1>8 DEF Kicked, NickInUse
  <2>2. c # t /\ c \in O[ch]
    BY <1>3, <1>8, <2>1, SearchIsMembership DEF Kicked
  <2>3. Range(EraseNamed(invited[ch], nick, n)) = M[ch] \ {t}
    BY <1>0, <1>3, <2>1, ListsAreProper, ListsActAsSets
  <2>4. /\ UNCHANGED <<channels, op, inviteOnly>>
        /\ invited' = [invited EXCEPT ![ch] = EraseNamed(invited[ch], nick, n)]
    BY <1>8 DEF Kicked, KickDone, flagVars
  <2>5. M' = [M EXCEPT ![ch] = M[ch] \ {t}]
    BY <1>1, <2>3, <2>4
  <2>6. Sets!Kick(c, t, ch)
    BY <1>2, <2>2, <2>4, <2>5 DEF M, O, Sets!Kick
  <2> QED
    BY <1>0, <2>6
<1>9. ASSUME NEW c \in live, NEW ch \in ChannelName, ModeMade(c, ch)
      PROVE  Sets!Govern(c, ch)
  <2>1. /\ UNCHANGED <<channels, invited>> /\ M' = M
        /\ ch \notin PlusChannel /\ c \in O[ch] \cap M[ch]
    BY <1>2, <1>3, <1>9, SearchIsMembership DEF ModeMade, ModeAllowed, Members
  <2>2. PICK list : Reaches(ch, op[ch], list) /\ op' = [op EXCEPT ![ch] = list]
    BY <1>9 DEF ModeMade
  <2>3. Range(list) \ M[ch] = O[ch] \ M[ch]
    <3> DEFINE S == {l \in Seq(Client) :
                       Proper(l) /\ Range(l) \ Members(ch) = Range(op[ch]) \ Members(ch)}
    <3>1. op[ch] \in S
      BY ListsAreProper DEF Proper
    <3>2. ASSUME NEW before \in S, NEW after, OneOp(ch, before, after) PROVE after \in S
      BY <3>2, OneOpGoverns DEF Proper
    <3> HIDE DEF S
    <3>3. list \in S
      BY <2>2, <3>1, <3>2 DEF Reaches
    <3> QED
      BY <3>3 DEF S, M, O, Members
  <2>4. O' = [O EXCEPT ![ch] = Range(list)]
    BY <1>1, <2>2
  <2>5. PICK b \in BOOLEAN : inviteOnly' = [inviteOnly EXCEPT ![ch] = b]
    BY <1>9 DEF ModeMade
  <2> DEFINE chosen == Range(list) \cap M[ch]
  <2>6. Range(list) = (O[ch] \ M[ch]) \cup chosen /\ chosen \in SUBSET M[ch]
    BY <2>3
  <2> HIDE DEF chosen
  <2>7. O' = [O EXCEPT ![ch] = (O[ch] \ M[ch]) \cup chosen]
    BY <2>4, <2>6
  <2> QED
    BY <2>1, <2>5, <2>6, <2>7 DEF M, O, Sets!Govern
<1>10. ASSUME Idle PROVE [Sets!Next]_(Sets!rosterVars)
  BY <1>2, <1>4, <1>10 DEF Idle, channelVars
<1>11. [ChannelsNext]_allVars
  BY SteadyIsChannelsStep
<1>12. ASSUME NEW c \in live, NEW ch \in ChannelName, Founded(c, ch)
       PROVE  Sets!Next
  BY <1>0, <1>5, <1>12 DEF Sets!Next
<1>13. ASSUME NEW c \in live, NEW t \in live, NEW ch \in ChannelName, Invited(c, t, ch)
       PROVE  Sets!Next
  BY <1>0, <1>7, <1>13 DEF Sets!Next
<1>14. ASSUME NEW c \in live, NEW n \in Nick, NEW ch \in ChannelName, Kicked(c, ch, n)
       PROVE  Sets!Next
  BY <1>0, <1>8, <1>14 DEF Sets!Next
<1>15. ASSUME NEW c \in live, NEW ch \in ChannelName, ModeMade(c, ch) PROVE Sets!Next
  BY <1>0, <1>9, <1>15 DEF Sets!Next
<1> QED
  BY <1>6, <1>10, <1>11, <1>12, <1>13, <1>14, <1>15, StepKinds
     DEF ChannelChange, SteadyInv, AllTyped

\* While connections stay open the channel lists, searched by nickname,
\* implement sets of clients: every JOIN, INVITE, KICK and MODE does to the
\* sets what Roster says and nothing else.
THEOREM ListsImplementRoster == SteadySpec => ImplementsRoster
<1>1. Init /\ ChannelsInit => Sets!Init
  <2>1. Range(<<>>) = {}
    BY DEF Range
  <2> QED
    BY <2>1 DEF ChannelsInit, Sets!Init, Members
<1>2. SteadyInv /\ [SteadyNext]_allVars => [Sets!Next]_(Sets!rosterVars)
  BY RosterStep
<1> QED
  BY <1>1, <1>2, SteadyInvariant, PTL DEF SteadySpec, ImplementsRoster, Sets!Spec
=============================================================================
