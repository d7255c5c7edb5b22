------------------------------ MODULE Channels -----------------------------
(***************************************************************************)
(* The server's channels and the commands that change them: JOIN, PART,    *)
(* INVITE, KICK and MODE, and those that only ask: WHO, WHOIS, PING, CAP,  *)
(* on top of the connections of ClientTable.                               *)
(*                                                                         *)
(* A channel is created by the first JOIN and never deleted.  Membership   *)
(* is the list "invited"; operators are the list "op"; the two are changed *)
(* independently.  Nothing removes a client from either list when its      *)
(* connection ends, so both may hold pointers to freed objects.            *)
(*                                                                         *)
(* Key and limit: use_key holds exactly when the key is non-empty and      *)
(* limit_set exactly when a limit (at least 1) was stored, so NoKey and 0  *)
(* stand for the cleared flags.                                            *)
(* Output is kept for one step: queued[c] is the set of messages the last  *)
(* line appended to c's send buffer, "subject" the channel they name.      *)
(***************************************************************************)
EXTENDS ClientTable, Channel

CONSTANTS
  ChannelName, \* the tokens clients send as a channel; MODE serves those
               \* with a prefix # & ! or +, which all of these have
  PlusChannel, \* those that begin with '+'
  Key,         \* channel keys, never empty
  NoKey,       \* the empty key
  MaxLimit,    \* bound on the limits clients ask for with +l
  MaxFlags     \* bound on the flags a MODE line has carried out, any number

ASSUME ChannelAssumption ==
  /\ PlusChannel \subseteq ChannelName
  /\ NoKey \notin Key
  /\ MaxLimit \in Nat
  /\ MaxFlags \in Nat

VARIABLES
  channels,    \* keys of Server::channels
  op,          \* Channel::op, pointers to the operators
  invited,     \* Channel::invited, pointers to the members
  inviteOnly,  \* Channel::invite_only
  key,         \* Channel::key, NoKey when use_key is false
  limit,       \* Channel::limit, 0 when limit_set is false
  topicSet,    \* Channel::topic_set
  setmodes,    \* Channel::setmodes, the settings MODE lists: <<sign, flag>>
  queued,      \* messages the last line appended to each send buffer
  subject      \* the channel that line named

flagVars    == <<inviteOnly, key, limit, topicSet, setmodes>>
channelVars == <<channels, op, invited, inviteOnly, key, limit, topicSet, setmodes>>
outputVars  == <<queued, subject>>
allVars     == <<clientVars, channelVars, outputVars>>

Flag == {"o", "i", "k", "t", "l"}

Code == {"JOIN", "PART", "INVITE", "KICK", "MODE", "MODES", "NOMODE", "QUIT", "LEFT", "WHAT",
         "331", "341", "353", "366", "401", "403", "441", "442", "443",
         "451", "461", "471", "472", "473", "475", "482",
         "311", "312", "315", "318", "352", "502", "PONG", "CAP", "MODEUSER"}

ChannelsTypeOK ==
  /\ channels \in SUBSET ChannelName
  /\ op \in [ChannelName -> Seq(Client)]
  /\ invited \in [ChannelName -> Seq(Client)]
  /\ inviteOnly \in [ChannelName -> BOOLEAN]
  /\ key \in [ChannelName -> Key \cup {NoKey}]
  /\ limit \in [ChannelName -> Nat]
  /\ topicSet \in [ChannelName -> BOOLEAN]
  /\ setmodes \in [ChannelName -> SUBSET ({TRUE} \X Flag)]
  /\ queued \in [Client -> SUBSET Code]
  /\ subject \in ChannelName

ChannelsInit ==
  /\ channels = {}
  /\ op = [ch \in ChannelName |-> <<>>]
  /\ invited = [ch \in ChannelName |-> <<>>]
  /\ inviteOnly = [ch \in ChannelName |-> FALSE]
  /\ key = [ch \in ChannelName |-> NoKey]
  /\ limit = [ch \in ChannelName |-> 0]
  /\ topicSet = [ch \in ChannelName |-> FALSE]
  /\ setmodes = [ch \in ChannelName |-> {}]
  /\ queued = [c \in Client |-> {}]
  /\ subject \in ChannelName

-----------------------------------------------------------------------------
(* Lookups and output.                                                     *)

Members(ch)     == Range(invited[ch])
IsInvited(ch, n) == Named(invited[ch], nick, n)
IsOperator_FaultMember(ch, c) == Named(invited[ch], nick, nick[c])
IsOperator(ch, c) == Named(op[ch], nick, nick[c])

\* Server::getClient: the connected client with this nickname.
IsClient(t, n) == t \in live /\ nick[t] = n

\* One line's output: "own" to one client, "cast" to everyone in "audience"
\* (send_message_to_channel).
Output(ch, c, own, audience, cast) ==
  /\ subject' = ch
  /\ queued' = [d \in Client |-> (IF d = c THEN own ELSE {})
                                 \cup (IF d \in audience THEN cast ELSE {})]

Reply(ch, c, own) == Output(ch, c, own, {}, {})

\* An early return: a reply to the sender, and nothing else.
Refuse(ch, c, code) == Reply(ch, c, {code}) /\ UNCHANGED <<clientVars, channelVars>>

\* A reply that is about no channel.
Tell(c, own) ==
  /\ queued' = [d \in Client |-> IF d = c THEN own ELSE {}]
  /\ UNCHANGED <<clientVars, channelVars, subject>>

\* The process dies of undefined behaviour.
Crash ==
  /\ running' = FALSE
  /\ UNCHANGED <<live, nick, sessionVars, channelVars, outputVars>>

-----------------------------------------------------------------------------
(* JOIN.                                                                   *)

\* What addClient sends to the client that joined.
JoinReplies == {"331", "353", "366"}

\* joinChannel on an unknown name.  addClient runs before the channel is put
\* into the map, so its JOIN notice finds no channel and reaches nobody.  A
\* channel named +... is invite-only from the start and its founder is not
\* entered as a member.
JoinNew(c, ch, k) ==
  /\ ch \notin channels
  /\ channels' = channels \cup {ch}
  /\ op' = [op EXCEPT ![ch] = <<c>>]
  /\ invited' = [invited EXCEPT ![ch] = IF ch \in PlusChannel THEN <<>> ELSE <<c>>]
  /\ inviteOnly' = [inviteOnly EXCEPT ![ch] = ch \in PlusChannel]
  /\ key' = [key EXCEPT ![ch] = k]
  /\ UNCHANGED <<limit, topicSet, setmodes, clientVars>>
  /\ Reply(ch, c, JoinReplies)

LimitReached_FaultOffByOne(ch) == limit[ch] # 0 /\ Len(invited[ch]) > limit[ch]
LimitReached(ch) == limit[ch] # 0 /\ Len(invited[ch]) >= limit[ch]

\* The member list once addClient has let c in.  The invite-only branch enters
\* nobody: it lets in who is listed already, and anyone if the list is empty.
Admitted(ch, c) ==
  IF inviteOnly[ch] THEN invited[ch] ELSE PushNamed(invited[ch], nick, c)

JoinDone_FaultSetOperator(c, ch) ==
  /\ invited' = [invited EXCEPT ![ch] = Admitted(ch, c)]
  /\ op' = [op EXCEPT ![ch] = PushNamed(@, nick, c)]
  /\ UNCHANGED <<channels, flagVars, clientVars>>
  /\ Output(ch, c, JoinReplies, Members(ch)', {"JOIN"})

JoinDone_FaultNoticeFirst(c, ch) ==
  /\ invited' = [invited EXCEPT ![ch] = Admitted(ch, c)]
  /\ UNCHANGED <<channels, op, flagVars, clientVars>>
  /\ Output(ch, c, JoinReplies, Members(ch), {"JOIN"})

\* The end of addClient: c is in, and every member is told.
JoinDone(c, ch) ==
  /\ invited' = [invited EXCEPT ![ch] = Admitted(ch, c)]
  /\ UNCHANGED <<channels, op, flagVars, clientVars>>
  /\ Output(ch, c, JoinReplies, Members(ch)', {"JOIN"})

\* joinChannel and addClient on a known name, in the order of their tests.
JoinExisting(c, ch, k) ==
  /\ ch \in channels
  /\ \/ /\ key[ch] # NoKey /\ k # key[ch]
        /\ Refuse(ch, c, "475")
     \/ /\ key[ch] = NoKey \/ k = key[ch]
        /\ LimitReached(ch)
        /\ Refuse(ch, c, "471")
     \/ /\ key[ch] = NoKey \/ k = key[ch]
        /\ ~LimitReached(ch)
        /\ inviteOnly[ch] /\ InviteOnlyRefuses(invited[ch], nick, nick[c])
        /\ Refuse(ch, c, "473")
     \/ /\ key[ch] = NoKey \/ k = key[ch]
        /\ ~LimitReached(ch)
        /\ ~(inviteOnly[ch] /\ InviteOnlyRefuses(invited[ch], nick, nick[c]))
        /\ JoinDone(c, ch)

\* cmd_join with a channel and possibly a key.
Join(c, ch, k) ==
  /\ Handling(c)
  /\ \/ ~registered[c] /\ Refuse(ch, c, "451")
     \/ registered[c] /\ (JoinNew(c, ch, k) \/ JoinExisting(c, ch, k))

-----------------------------------------------------------------------------
(* PART, QUIT.                                                             *)

\* cmd_part: the departure is announced, but the list is not touched.  An
\* unregistered sender is told so and served all the same.
Part(c, ch) ==
  /\ Handling(c)
  /\ UNCHANGED <<clientVars, channelVars>>
  /\ LET own == IF registered[c] THEN {} ELSE {"451"} IN
     \/ ch \notin channels /\ Reply(ch, c, own \cup {"403"})
     \/ ch \in channels /\ ~IsInvited(ch, nick[c]) /\ Reply(ch, c, own \cup {"442"})
     \/ ch \in channels /\ IsInvited(ch, nick[c])
        /\ Output(ch, c, own \cup {"LEFT"}, Members(ch), {"PART"})

\* cmd_part with any other number of tokens than a channel's.
PartMalformed(c) ==
  Handling(c) /\ Tell(c, {"461"} \cup IF registered[c] THEN {} ELSE {"451"})

\* cmd_quit: the sender is told; the connection stays.
Quit(c) == Handling(c) /\ Tell(c, {"QUIT"})

-----------------------------------------------------------------------------
(* INVITE, KICK.                                                           *)

\* The invited client becomes a member; it and every other member are told.
InviteDone(t, ch) ==
  /\ invited' = [invited EXCEPT ![ch] = Append(@, t)]
  /\ UNCHANGED <<channels, op, flagVars, clientVars>>
  /\ Output(ch, t, {"341"}, Members(ch)', {"INVITE"})

\* cmd_invite: the invited client becomes a member at once, whatever the
\* limit, and the inviting operator need not be one.
Invite(c, n, ch) ==
  /\ Handling(c)
  /\ \/ ch \notin channels /\ Refuse(ch, c, "403")
     \/ ch \in channels /\ ~NickInUse(n) /\ Refuse(ch, c, "401")
     \/ /\ ch \in channels /\ NickInUse(n) /\ ~IsOperator(ch, c)
        /\ Refuse(ch, c, "482")
     \/ /\ ch \in channels /\ NickInUse(n) /\ IsOperator(ch, c) /\ IsInvited(ch, n)
        /\ Refuse(ch, c, "443")
     \/ \E t \in Client :
        /\ ch \in channels /\ IsClient(t, n) /\ IsOperator(ch, c) /\ ~IsInvited(ch, n)
        /\ InviteDone(t, ch)

KickDone_FaultEraseFirst(c, ch, n) ==
  /\ invited' = [invited EXCEPT ![ch] = EraseNamed(@, nick, n)]
  /\ UNCHANGED <<channels, op, flagVars, clientVars>>
  /\ Output(ch, c, {}, Range(invited'[ch]), {"KICK"})

\* The notice goes out while the kicked client is still listed; then the first
\* entry with its nickname is erased.  An operator entry of it stays.
KickDone(c, ch, n) ==
  /\ invited' = [invited EXCEPT ![ch] = EraseNamed(@, nick, n)]
  /\ UNCHANGED <<channels, op, flagVars, clientVars>>
  /\ Output(ch, c, {}, Members(ch), {"KICK"})

\* cmd_kick.  Without a comment the handler reads tokens[3], which
\* does not exist: it may go on with whatever it read, be stopped by an
\* exception, or the process may die.
Kick(c, ch, n, comment) ==
  /\ Handling(c)
  /\ \/ ch \notin channels /\ Refuse(ch, c, "403")
     \/ ch \in channels /\ ~NickInUse(n) /\ Refuse(ch, c, "401")
     \/ ch \in channels /\ NickInUse(n) /\ ~IsInvited(ch, n) /\ Refuse(ch, c, "441")
     \/ /\ ch \in channels /\ NickInUse(n) /\ IsInvited(ch, n)
        /\ ~IsOperator(ch, c) \/ nick[c] = n
        /\ Refuse(ch, c, "482")
     \/ /\ ch \in channels /\ NickInUse(n) /\ IsInvited(ch, n)
        /\ IsOperator(ch, c) /\ nick[c] # n
        /\ \/ KickDone(c, ch, n)
           \/ ~comment /\ Refuse(ch, c, "WHAT")
           \/ ~comment /\ Crash

-----------------------------------------------------------------------------
(* MODE on a channel: a string of flags and their parameters, handled one  *)
(* after the other until the string ends or a flag makes the handler       *)
(* return.                                                                 *)

\* A flag with its sign and its parameter, NoNick, NoKey and 0 for one that is
\* missing or (the limit) below 1; "x" is a letter MODE does not know.  (Which
\* word of the line becomes whose parameter is left open; the flag e, which
\* does nothing at all, is left out.)
Change ==
  [flag : {"o"}, pos : BOOLEAN, arg : Nick \cup {NoNick}]
    \cup [flag : {"i", "t"}, pos : BOOLEAN, arg : {TRUE}]
    \cup [flag : {"k"}, pos : BOOLEAN, arg : Key \cup {NoKey}]
    \cup [flag : {"l"}, pos : BOOLEAN, arg : 0..MaxLimit]
    \cup [flag : {"x"}, pos : {TRUE}, arg : {TRUE}]

\* -k too insists on a parameter, -l does not.
ParameterMissing(m) ==
  \/ m.flag = "o" /\ m.arg = NoNick
  \/ m.flag = "k" /\ m.arg = NoKey
  \/ m.flag = "l" /\ m.arg = 0 /\ m.pos

NotListed(ch, m) == m.flag = "o" /\ ~IsInvited(ch, m.arg)

\* The nickname is on the member list, but getClient does not find it among
\* the connected clients, and the handler uses a null pointer.  (If the flags
\* before it have emptied op there is nothing to compare it with: -o does no
\* harm, and +o leaves the null pointer for the next search to die of.  Here
\* that process dies at once.)
NullClient(ch, m) ==
  m.flag = "o" /\ m.arg # NoNick /\ IsInvited(ch, m.arg) /\ ~NickInUse(m.arg)

Stops(ch, m) ==
  ParameterMissing(m) \/ NotListed(ch, m) \/ NullClient(ch, m) \/ m.flag = "x"

Rejection(m) ==
  IF ParameterMissing(m) THEN "461" ELSE IF m.flag = "x" THEN "472" ELSE "441"

\* The error replies of the flags at which the handler returns.
Rejections(ch) ==
  {Rejection(bad) : bad \in {m \in Change : Stops(ch, m) /\ ~NullClient(ch, m)}}

\* What MODE can change.  (+t and -t both also empty the topic, which no command
\* ever fills.)
Settings(ch) ==
  [op |-> op[ch], inviteOnly |-> inviteOnly[ch], key |-> key[ch], limit |-> limit[ch],
   topicSet |-> topicSet[ch]]

OpAfter(list, m) ==
  IF m.pos THEN PushNamed(list, nick, CHOOSE t \in live : nick[t] = m.arg)
  ELSE EraseNamed(list, nick, m.arg)

\* The settings once a flag that does not stop the handler is carried out.
After(s, m) ==
  CASE m.flag = "o" -> [s EXCEPT !.op = OpAfter(@, m)]
    [] m.flag = "i" -> [s EXCEPT !.inviteOnly = m.pos]
    [] m.flag = "k" -> [s EXCEPT !.key = IF m.pos THEN m.arg ELSE NoKey]
    [] m.flag = "l" -> [s EXCEPT !.limit = IF m.pos THEN m.arg ELSE 0]
    [] m.flag = "t" -> [s EXCEPT !.topicSet = m.pos]
    [] OTHER -> s

\* The flags of the line are carried out one after the other.
Settled(ch, line) ==
  LET made[i \in 0..Len(line)] == IF i = 0 THEN Settings(ch) ELSE After(made[i - 1], line[i])
  IN made[Len(line)]

Settle(ch, line) ==
  LET new == Settled(ch, line)
  IN /\ op' = [op EXCEPT ![ch] = new.op]
     /\ inviteOnly' = [inviteOnly EXCEPT ![ch] = new.inviteOnly]
     /\ key' = [key EXCEPT ![ch] = new.key]
     /\ limit' = [limit EXCEPT ![ch] = new.limit]
     /\ topicSet' = [topicSet EXCEPT ![ch] = new.topicSet]
     /\ UNCHANGED <<channels, invited, clientVars>>

\* The tests of cmd_mode_channel before it looks at the flags.
ModeRefused(c, ch) ==
  /\ Handling(c)
  /\ \/ ch \notin channels /\ Refuse(ch, c, "403")
     \/ /\ ch \in channels \cap PlusChannel
        /\ Output(ch, c, {}, Members(ch), {"NOMODE"})
        /\ UNCHANGED <<clientVars, channelVars>>
     \/ /\ ch \in channels \ PlusChannel
        /\ ~IsInvited(ch, nick[c])
        /\ Refuse(ch, c, "441")
     \/ /\ ch \in channels \ PlusChannel
        /\ IsInvited(ch, nick[c]) /\ ~IsOperator(ch, c)
        /\ Refuse(ch, c, "482")

\* They are made once, whatever the flags do to the sender.
ModeAllowed(c, ch) ==
  /\ Handling(c)
  /\ ch \in channels \ PlusChannel
  /\ IsInvited(ch, nick[c])
  /\ IsOperator(ch, c)

\* The flags the line has set, for the listing.
FlagsSet_FaultUnset(line) == {<<line[i].pos, line[i].flag>> : i \in DOMAIN line}
FlagsSet(line) == {<<TRUE, line[i].flag>> : i \in {j \in DOMAIN line : line[j].pos}}

ModeDone_FaultExceptMyself(c, ch, line) ==
  /\ setmodes' = [setmodes EXCEPT ![ch] = @ \cup FlagsSet(line)]
  /\ Output(ch, c, {}, Members(ch) \ {c}, {"MODE"})

ModeDone_FaultCopy(c, ch, line) ==
  /\ UNCHANGED setmodes
  /\ Output(ch, c, {}, Members(ch), {"MODE"})

\* The string has ended: flags that were set are remembered for the listing
\* (those that were cleared are not forgotten) and the changes are announced.
ModeDone(c, ch, line) ==
  /\ setmodes' = [setmodes EXCEPT ![ch] = @ \cup FlagsSet(line)]
  /\ Output(ch, c, {}, Members(ch), {"MODE"})

\* The handler returns at a flag that stops it: what the flags before it have
\* changed stays changed, and is neither remembered nor announced.
ModeStopped(c, ch, code) ==
  /\ UNCHANGED setmodes
  /\ Reply(ch, c, {code})

ModeLine(c, ch, line) ==
  /\ ModeAllowed(c, ch)
  /\ \A i \in DOMAIN line : ~Stops(ch, line[i])
  /\ \/ Settle(ch, line) /\ ModeDone(c, ch, line)
     \/ Settle(ch, line) /\ \E code \in Rejections(ch) : ModeStopped(c, ch, code)
     \/ (\E bad \in Change : NullClient(ch, bad)) /\ Crash

\* MODE without flags lists setmodes, of an unknown channel through a null
\* pointer.
ModeList(c, ch) ==
  /\ Handling(c)
  /\ \/ ch \in channels /\ Refuse(ch, c, "MODES")
     \/ ch \notin channels /\ Crash

Mode(c, ch) ==
  \/ ModeList(c, ch)
  \/ ModeRefused(c, ch)
  \/ \E line \in SeqOf(Change, MaxFlags) : ModeLine(c, ch, line)

-----------------------------------------------------------------------------
(* Queries.  Anyone connected may ask, registered or not.                  *)

\* The nicknames cmd_who lists, one 352 each.
WhoList(ch) == [i \in DOMAIN invited[ch] |-> nick[invited[ch][i]]]

\* cmd_who.
Who(c, ch) ==
  /\ Handling(c)
  /\ \/ ch \notin channels /\ Refuse(ch, c, "403")
     \/ /\ ch \in channels
        /\ Reply(ch, c, {"315"} \cup IF WhoList(ch) = <<>> THEN {} ELSE {"352"})
        /\ UNCHANGED <<clientVars, channelVars>>

\* cmd_whois, for the names of a list split at commas (one of them may be empty).
WhoIs(c, names) ==
  /\ Handling(c)
  /\ Tell(c, UNION {IF \E t \in Client : IsClient(t, n)
                    THEN {"311", "312", "318"}
                    ELSE {"401", "318"} : n \in names})

\* cmd_ping (which has no answer to two names) and cmd_cap (which answers LS).
Ping(c) == Handling(c) /\ \E own \in {{"461"}, {"PONG"}, {}} : Tell(c, own)
Cap(c)  == Handling(c) /\ \E own \in {{"CAP"}, {}} : Tell(c, own)

\* cmd_mode_user: the flag is sent back, to the client of that name only.
ModeUser(c, n) == Handling(c) /\ Tell(c, {IF nick[c] = n THEN "MODEUSER" ELSE "502"})

\* WHO, WHOIS and MODE without a name.
NoName(c) == Handling(c) /\ Tell(c, {"461"})

Query ==
  \E c \in Client :
    \/ \E ch \in ChannelName : Who(c, ch)
    \/ \E names \in SUBSET (Nick \cup {NoNick}) : WhoIs(c, names)
    \/ \E n \in Nick : ModeUser(c, n)
    \/ NoName(c) \/ Ping(c) \/ Cap(c)

-----------------------------------------------------------------------------
(* Pointers to freed objects.                                              *)

Ghosts(ch) == (Range(op[ch]) \cup Members(ch)) \ live

\* A search or a broadcast in a channel goes through a pointer to a freed
\* object (c may send WHO or PART for any channel), and the process dies.
\* When it survives, the search sees the bytes that are left: "nick".
UseFreed(c, ch) ==
  /\ Handling(c)
  /\ ch \in channels
  /\ Ghosts(ch) # {}
  /\ Crash

-----------------------------------------------------------------------------

\* Steps of ClientTable: no channel changes, no channel output.
ClientStep(A) ==
  /\ A
  /\ queued' = [c \in Client |-> {}]
  /\ UNCHANGED <<channelVars, subject>>

ChannelCommand ==
  \E c \in Client :
    \/ Quit(c) \/ PartMalformed(c)
    \/ \E ch \in ChannelName :
       \/ \E k \in Key \cup {NoKey} : Join(c, ch, k)
       \/ Part(c, ch)
       \/ \E n \in Nick : Invite(c, n, ch)
       \/ \E n \in Nick, comment \in BOOLEAN : Kick(c, ch, n, comment)
       \/ Mode(c, ch)
       \/ UseFreed(c, ch)

ChannelsNext == ClientStep(Next) \/ ChannelCommand \/ Query

ChannelsSpec == Init /\ ChannelsInit /\ [][ChannelsNext]_allVars
-----------------------------------------------------------------------------
(* Properties.                                                             *)

\* The lists hold each client once: every admission goes through a search by
\* nickname, every erasure takes out one entry only.
ListsHaveNoDuplicates ==
  \A ch \in ChannelName : ListedOnce(op[ch]) /\ ListedOnce(invited[ch])

\* In this step c comes to pass for an operator.
GainsAuthority(ch, c) == IsOperator(ch, c)' /\ ~(c \in live /\ IsOperator(ch, c))

\* It founds the channel, or ...
HasFounded(ch, c) == ch \notin channels /\ op'[ch] = <<c>>

\* ... it passes for a member, and a line of somebody who passes for an operator
\* and a member appoints it, or ...
IsAppointed(ch, c) ==
  /\ subject' = ch
  /\ c \in live /\ IsInvited(ch, nick[c])
  /\ \E o \in live : IsOperator(ch, o) /\ IsInvited(ch, nick[o])

\* ... it gets the name, or the address, of an operator that has disconnected.
\* (Operators have names.  But an address that is used again makes an entry of
\* the list one without, and with it everybody else who has none.)
Inherits(ch, c) ==
  \E e \in Range(op[ch]) :
    nick'[e] = nick'[c] /\ (e \notin live \/ nick'[c] = NoNick)

\* Authority does not come from nowhere: there is no other way to pass for an
\* operator of a channel, whatever its members do and whoever comes and goes.
AuthorityIsAppointedOrInherited ==
  [][\A ch \in ChannelName : \A c \in live' :
       GainsAuthority(ch, c) =>
         HasFounded(ch, c) \/ IsAppointed(ch, c) \/ Inherits(ch, c)]_allVars

\* Whoever becomes a member of a known channel hears of it, and so does every
\* other member.  (The founder does not: its JOIN finds no channel yet.)
ArrivalIsAnnounced ==
  [][\A ch \in channels, c \in Client :
       c \in Members(ch)' \ Members(ch) =>
         /\ subject' = ch
         /\ \A d \in Members(ch)' : queued'[d] \cap {"JOIN", "INVITE"} # {}]_allVars

\* A client becomes a member of a known channel only by an operator's INVITE,
\* or by a JOIN with the right key that leaves the channel within its limit
\* and finds it not invite-only.
AdmissionControl ==
  [][\A ch \in channels, c \in Client :
       c \in Members(ch)' \ Members(ch) =>
         \/ \E o \in live, n \in Nick : IsOperator(ch, o) /\ Invite(o, n, ch) /\ nick[c] = n
         \/ /\ \E k \in Key \cup {NoKey} : Join(c, ch, k) /\ key[ch] \in {k, NoKey}
            /\ ~inviteOnly[ch]
            /\ limit[ch] = 0 \/ Len(invited'[ch]) <= limit[ch]]_allVars

\* Nobody who is connected bears the name of any entry on the operator list.
Abandoned(ch) == \A c \in live, o \in Range(op[ch]) : nick[o] # nick[c]

\* While nobody bears an operator's name, the channel's modes, operators and
\* members' places are fixed: nobody can promote anyone, and nobody can be
\* kicked or invited.  Once the last operator has been taken off the list that is
\* so for good; where operators have disconnected, until their name, or their
\* address, is somebody's again.
AbandonedChannelIsFrozen ==
  [][\A ch \in channels : Abandoned(ch) =>
       /\ op'[ch] = op[ch]
       /\ UNCHANGED <<inviteOnly[ch], key[ch], limit[ch], topicSet[ch], setmodes[ch]>>
       /\ IsPrefix(invited[ch], invited'[ch])]_allVars

\* Whoever loses its place in a channel is told by a KICK notice, and so is
\* every other member.
RemovalIsAnnounced ==
  [][\A ch \in ChannelName, c \in Client :
       c \in Members(ch) \ Members(ch)' =>
         subject' = ch /\ \A d \in Members(ch) : "KICK" \in queued'[d]]_allVars

\* The step is a line of somebody who passes for an operator and a member, and
\* who is told of an error in it.
OperatorIsTold(ch) ==
  \E o \in live : /\ IsOperator(ch, o) /\ IsInvited(ch, nick[o])
                  /\ queued'[o] \cap {"461", "441", "472"} # {}

\* A channel's modes and operators change only while somebody passes for an
\* operator and a member of it, and not silently: every member is told of the
\* change, or that operator of an error in its line.
ModeChangeIsReported ==
  [][\A ch \in channels :
       <<op[ch], inviteOnly[ch], key[ch], limit[ch], topicSet[ch]>>'
         # <<op[ch], inviteOnly[ch], key[ch], limit[ch], topicSet[ch]>> =>
         /\ subject' = ch
         /\ \E o \in live : IsOperator(ch, o) /\ IsInvited(ch, nick[o])
         /\ (\A d \in Members(ch) : "MODE" \in queued'[d]) \/ OperatorIsTold(ch)]_allVars

\* MODE without flags lists this flag.
IsShown(ch, f) == <<TRUE, f>> \in setmodes[ch]

\* The step switches a flag on in a channel, or gives it another parameter.
SwitchesOn(ch, f) ==
  \/ f = "o" /\ ~ (Range(op'[ch]) \subseteq Range(op[ch]))
  \/ f = "i" /\ inviteOnly'[ch] /\ ~inviteOnly[ch]
  \/ f = "k" /\ key'[ch] \notin {key[ch], NoKey}
  \/ f = "t" /\ topicSet'[ch] /\ ~topicSet[ch]
  \/ f = "l" /\ limit'[ch] \notin {limit[ch], 0}

\* What the JOIN that founds a channel switches on: its operator, the key it
\* gives, and +i if the name begins with '+'.
FoundingFlags(ch) == {"o", "k"} \cup IF ch \in PlusChannel THEN {"i"} ELSE {}

\* It is listed from then on, unless the channel is founded with it or the
\* operator who set it is told of an error.
ListKeepsUp ==
  \A ch \in ChannelName, f \in Flag :
    /\ SwitchesOn(ch, f) =>
         \/ IsShown(ch, f)'
         \/ ch \notin channels /\ f \in FoundingFlags(ch)
         \/ OperatorIsTold(ch)
    /\ IsShown(ch, f) => IsShown(ch, f)'

\* The list that MODE shows is kept apart from the modes.  It never misses one
\* that came into force by a MODE line that was carried out to its end, though
\* it never shows what a channel was founded with: a key given with the first
\* JOIN is in force and not on the list.
ModeSetIsListed == [][ListKeepsUp]_allVars

-----------------------------------------------------------------------------
(* Refinement.                                                             *)

Entries == INSTANCE Namesakes WITH
  Name      <- Nick,
  Anonymous <- NoNick,
  present   <- live,
  called    <- nick,
  known     <- channels,
  members   <- [ch \in ChannelName |-> Members(ch)],
  operators <- [ch \in ChannelName |-> Range(op[ch])],
  closed    <- inviteOnly

\* Also where clients disconnect, and their names and addresses are others'
\* afterwards, the lists are sets of entries that only those who bear the name of
\* an operator's entry change, one member at a time, and those who join by
\* entering themselves.
ImplementsNamesakes == Entries!Spec

-----------------------------------------------------------------------------
(* Statements of the sources' own comments, which the code contradicts.    *)

\* part.cpp:36: PART "causes the user sending the message to be removed from
\* the list of active members".
PartLeavesChannel ==
  [][\A c \in Client : "LEFT" \in queued'[c] => c \notin Range(invited'[subject'])]_allVars

\* join.cpp:29-33: a member "receives information about all commands his server
\* receives affecting the channel.  This includes JOIN, MODE": nothing MODE
\* changes is kept from a member.
ModeChangesAreSeen ==
  [][\A ch \in channels, d \in Client :
       /\ d \in Members(ch)
       /\ <<op[ch], inviteOnly[ch], key[ch], limit[ch], topicSet[ch]>>'
            # <<op[ch], inviteOnly[ch], key[ch], limit[ch], topicSet[ch]>>
       => "MODE" \in queued'[d]]_allVars

\* invite.cpp:55: "if the channel exists, only members of the channel are
\* allowed to invite other users".
OnlyMembersInvite ==
  [][\A c \in live, n \in Nick, ch \in channels :
       Invite(c, n, ch) /\ invited'[ch] # invited[ch] => c \in Members(ch)]_allVars

\* mode.cpp:287-288: MODE +o is the "command to give 'chanop' privileges": a
\* connected client that passes for an operator is on the operator list.
OperatorsWereAppointed ==
  \A ch \in channels, c \in live : IsOperator(ch, c) => c \in Range(op[ch])
=============================================================================
