# A TLA+ verification of the IRC server

`src/` is an IRC server in C++98: one process, one thread, one `poll` loop.
Clients connect over TCP, register with PASS, NICK and USER, form channels and
talk; a channel may have a bot that masks banned words. There is no
persistence, no second thread and no connection to other servers. What is hard
about the program is not parallelism inside it but

* the **order in which clients' lines arrive**, and long sequences of legal lines,
* **raw pointers** to `Client` objects in channels, with objects that are deleted,
* lookups by **nickname**, which a client may change at any time,
* the **sockets**, which change state while the loop scans what `poll` reported,
* **TCP segmentation**, which cuts lines anywhere,
* **early returns and missing ones** half way through a handler.

This directory holds TLA+ models of these parts, TLC runs that check them on
small instances, and TLAPS proofs that hold for every value of the constants.
`PROJECT.json` lists components, runs, mutants, the source lines behind every
definition, hazards, findings and theorems.

## 1. Inventory of the program

| Component | Source | State | Operations | Modelled in |
|---|---|---|---|---|
| Connection table and registration | `Server.cpp`, `Client.*`, `command/pass.cpp`, `nick.cpp`, `user.cpp` | `Server::clients`; per client nickname, user name, real name, password flag, registration flag | `accept_client`, `client_disconnect`, PASS, NICK, USER, `registrate` | `ClientTable`, abstract: `Directory` |
| Channels and channel commands | `Channel.*`, `Client::joinChannel`, `command/join.cpp`, `part.cpp`, `invite.cpp`, `kick.cpp`, `mode.cpp`, `quit.cpp` | `Server::channels`; per channel `op`, `invited` (the members), `invite_only`, key, limit, `topic_set`, `setmodes` | JOIN, PART, INVITE, KICK, MODE, QUIT | `Channel`, `Channels`, `SteadyChannels`, abstract: `Roster`, `Namesakes` |
| Messages and the ban bot | `command/privmsg.cpp`, `Bot.*`, `getChannelset` | per channel `bot_set`, the bot's `banlist` | PRIVMSG, `:!bot create`, `:!bot destroy`, `:!ban` | `Messages` |
| Topic | `command/topic.cpp` | per channel `topic` | TOPIC | `Messages` |
| Poll loop | `Server::run`, `accept_client`, `read_client_data`, `client_disconnect`, `send_message`, `signal_handler` | `fds`, `clients`, `send_buffer`, the scan index | poll, accept, read, disconnect, write, interrupt | `PollLoop`, abstract: `Sessions` |
| Line framing and output | `parse_recieved`, `utils.cpp`, `send_message`, `Client::append_send_buffer` and `get_send_buffer_and_flush` | per client `recv_buffer`, `send_buffer` | receive a segment, queue a message, send a part of what is queued | `LineFraming`, `Dialogue`, abstract: `LineStream` |
| Command dispatch | `Parser.*` | none | `what_is_this`, CAP | `Registration` of `ClientTable`, `ChannelCommand` and `Query` of `Channels`, `MessageCommand` of `Messages` |
| Queries | `command/who.cpp`, `whois.cpp`, `ping.cpp`, `cmd_mode_user` | none | replies to the sender (`cmd_time` is never called) | `Query` of `Channels`, `SteadyChannels` |
| Start-up | `main.cpp`, `init_socket`, … | none afterwards | once | not modelled |
| Unused functions | `client_disconnect_from_channel`, `addChannel`, `deleteChannel`, `setTopic`, prints | – | never called | not modelled |

How they interact: the poll loop gives the bytes it reads to line framing; each
line that comes out is dispatched to one handler, which runs to its end before
anything else happens; handlers read and change the connection table and the
channels, and append to the send buffers of any clients; the poll loop writes
the buffers out. Channels point to clients and to nothing else; clients are
deleted by the poll loop without a word to the channels. That last interaction
is where most of the trouble comes from.

What makes each component correct, and what could break it:

* *Registration*: nicknames are unique among connected clients (everything else
  looks clients up by them); nobody is registered without the password and a
  nickname; whoever has given everything is registered. Lines come in every
  order, and `registrate` is called from NICK and USER but not from PASS.
* *Channels*: members are admitted only as key, limit, invite-only flag or an
  operator allow; authority belongs to clients and not to names; lists hold
  nobody twice (erasure takes one entry); changes are reported to those they
  concern. Handlers return early; a MODE line can be carried out in part.
* *Messages*: what is banned is not heard; bots obey operators; what happens to
  a bot is announced. The bot consulted is not always that of the target.
* *Poll loop*: the three tables (descriptors, clients, sockets) agree although
  `fds` is pushed to and erased from inside the scan over it; what poll said is
  still true when used; everything that becomes ready is eventually served.
* *Line framing and output*: a line is served whole, once, in order, however it
  is cut; its answer comes back the same way, whatever other clients' handlers
  append to the same buffer and as far as `send` takes it.
* *Queries*: what WHO shows and what WHOIS finds are the same clients.

## 2. The modules

| Module | What it is |
|---|---|
| `ClientTable` | connections and registration; refines `Directory` |
| `Directory` | abstract: who is present, trusted and welcomed, and who bears which name |
| `Channel` | the searches and edits of class Channel's lists, as operators |
| `Channels` | the channels and their commands; EXTENDS `ClientTable` and `Channel`; refines `Namesakes` |
| `SteadyChannels` | `Channels` without disconnections, and its refinement of `Roster` |
| `Roster` | abstract: members and operators as sets of clients |
| `Namesakes` | abstract: members and operators as sets of entries that outlive their clients |
| `Messages` | PRIVMSG, the bot and TOPIC; EXTENDS `Channels` |
| `PollLoop` | the poll loop with the kernel's sockets as environment; refines `Sessions` |
| `Sessions` | abstract: peers are taken on in order and leave only of their own accord |
| `LineFraming` | segments to lines, as actions for `Dialogue` |
| `Dialogue` | one connection end to end: segments in, handler, send buffer, partial sends out; refines `LineStream` twice |
| `LineStream` | abstract: what is sent is served whole, once, in order |
| `MC…` | constants and smaller next-state relations for TLC |
| `ClientTableProofs`, `ChannelLemmas`, `ChannelsProofs`, `SteadyProofs`, `PollLoopProofs`, `MessagesProofs`, `DialogueProofs` | theorems |
| `SequenceLemmas` | facts about sequences, `FlattenSeq` and recursive functions that `DialogueProofs` needs |

**ClientTable.** A `Client` object is named by its heap address (`Client`),
because channels keep pointers. `live` is the set of addresses in
`Server::clients`; `nick` also remembers what a freed object's bytes still say
(`ReuseFreedMemory` overwrites them with `Junk`). User and real name are kept
as "non-empty", which is all the code asks. PASS with too many tokens or from a
registered client sets the flag all the same, as in the code (461 and 462 do
not return). `UserShort` is USER with fewer than four parameters, whose handler
goes on and reads `tokens[4]`; `MissingToken` is the death of the process at
such a read (`running`). One line is one action, since the thread serves it
without interruption.

**Directory.** What the rest of the server, and the clients, may take for
granted of the table: a name has one bearer, only its bearer gives it up, nobody
is welcomed without the password and a name, nobody who has been welcomed is
turned out again while present, and whoever arrives starts with nothing. It knows
no addresses that are freed, no `Junk` and no `running`. `ImplementsDirectory`
maps it to the objects that are live; what the freed ones still contain
does not show, which is what the constructor in `Accept` is needed for.

**Channels.** `op` and `invited` are sequences of addresses, and every search
goes through `nick`: `Named`, `EraseNamed`, `PushNamed` and
`InviteOnlyRefuses` of `Channel` translate the loops of class Channel, with
their first-match behaviour. Each command is one action with one disjunct per
return of its handler. `queued` holds the messages the last line appended to
each send buffer, so that a property can say who is told. A MODE line is a
sequence of flags, carried out one after the other on the channel's settings
(`After`, `Settled`), and then, maybe, one that makes the handler return
(`Stops`): what the first ones changed stays changed. There may be any number
of them (`MaxFlags`).
`UseFreed` is the death of the process at a search through a freed pointer;
surviving, the search sees `nick`. `Query` holds the lines that only ask, as
replies to their sender: WHO goes through the member list, WHOIS through the
map of connections. `IsShown` is what MODE without flags lists, which is kept
apart from the modes (`setmodes`).

**SteadyChannels and Roster.** `Roster` says what the lists promise: sets of
clients, changed by operators. `SteadyChannels` is `Channels` where connections
are accepted but do not end, and `ImplementsRoster` is the refinement: members
are `Range(invited)`, operators are `Range(op)`. With disconnections the
promise does not hold (finding `inherited_operator`).

**Namesakes.** The weaker promise that holds with disconnections, reused
addresses and freed names too. The lists are sets of entries, each an address;
`called` is the name an entry still has, whether its client is there or
gone, and whoever is present and bears it has the use of the entry
(`PassesFor`). An entry is made only for somebody present; it is taken out by its
name, and at one name a KICK takes out one entry and no other; only who passes for an
operator takes out or appoints; and what happens to clients (`World`) leaves the
lists alone. The name of one who is gone may become `Junk`, but never a nickname
(`Fade`). `ImplementsNamesakes`, in `Channels`, maps the entries to `Range(invited)`
and `Range(op)`.

**Messages.** A text is a short sequence of words; `PartOf` is the substring
relation the bot asks about. A banned word is replaced by a row of asterisks two
longer (`MaskOf`), which may have a part that is banned itself. `Consulted` is `getChannelset`: the target if it is
a channel, else the first channel by name. `Message` is what comes out of the
bot, and both what is delivered and what is compared with the bot's commands.

**PollLoop.** `fds`, `clients`, `outBuf`, `scan` and `status` are the server's;
`backlog`, `conn`, `link`, `inbox` and `room` and the actions of `PeerStep` are
the kernel's and the peers'. Poll fills in every entry at once; then each entry
has its turn, one action per call of `accept_client`, `read_client_data`,
`client_disconnect` or `send_message`, and the peers may act between any two.
`fdLimit` is how many descriptors the process may have, chosen at the start and
fixed: with fewer than peers, connections wait in the backlog while every round
reports the listener and `accept` fails. `accept` may also fail with descriptors
free, and leave the connection where it is (`AcceptFails`).
`Advance` is `i++` and the test against the size the vector has *now*.
`operator[]` and `insert` of `std::map` are as in the library: the one inserts
a null pointer for an unknown key, the other does not replace.

**Sessions.** What a peer may rely on: it is taken on in its turn (or turned away
in its turn, with `accept` failing), and its session ends only after it has left
and everything it sent has been read. `ImplementsSessions` maps the queue to
`backlog` and those served to the peers both `fds` and `clients` hold, so a
descriptor erased under the wrong index, or a map entry that survives its
connection, would be a session that ends or begins by itself.

**LineFraming.** Bytes are CR, LF or other; `Receive` takes as much as has
arrived, up to `RecvMax`; `Split`, `Kept` and `Lines` are `split` and
`parse_recieved`. `split` is a function of its input, a byte at a time
(`Cutting`): the pieces that have got their LF, and the rest. `proper`, fixed at the start, says whether this client sends
LF only after CR.

**Dialogue.** `EXTENDS LineFraming` with the way back. The client's lines are
PINGs with none, one or more parameters (an error, a PONG, no answer at all:
`cmd_ping`), so each message queued is the answer to a numbered line, or a notice
another client's handler appended (`OthersNotify`). A message is two pieces, and
`SendMessage` passes on any non-empty beginning of the buffer and drops the rest,
as the code does. `roomy`, fixed at the start, says whether the socket always
takes everything. `LineStream` is implemented twice: by the lines served
(`ImplementsLineStream`) and by the answers heard (`ImplementsConversation`).

Definitions called `X_Fault…` stand before the definition `X`: each is a
plausible slip in that piece of code. No specification uses them; they are there
to show that the properties notice such slips.

## 3. The runs

| Run | Instance | Checks |
|---|---|---|
| `registration` | 3 addresses, 3 nicknames, one erroneous | `TypeOK`, `NickUnique`, `RegisteredComplete`, `OnlyLatePassStalls`, `ImplementsDirectory` |
| `modes` | 2 registered clients, 3 nicknames, 1 channel, 1 key, limits 0..1, one flag in force and one in error per MODE line | `AdmissionControl`, `AbandonedChannelIsFrozen`, `ModeChangeIsReported`, `ModeSetIsListed` |
| `roster` | 2 registered clients, 3 nicknames, a channel and a +channel; two +o/-o flags in one line; queries | `ChannelsTypeOK`, `AuthorityIsIdentity`, `WhoAgreesWithWhoIs`, `ImplementsRoster`, `RemovalIsAnnounced`, `ArrivalIsAnnounced` |
| `reconnect` | 2 addresses from the empty server, connections come and go, 3 nicknames, 1 channel | `ListsHaveNoDuplicates`, `AuthorityIsAppointedOrInherited`, `AbandonedChannelIsFrozen`, `ImplementsNamesakes` |
| `poll` | 2 peers; 1 descriptor, or 2 | `TypeOK`, `TablesAgree`, `ReportsAreCurrent`, `FailedIsNotWrittenTo`, `ImplementsSessions`, and the liveness properties `ConnectionsAreTaken`, `InputIsRead`, `DepartedAreDropped`, `OutputLeaves` |
| `dialogue` | every sequence of up to 6 bytes of 3 kinds, segments of up to 4, one notice from others | `DialogueTypeOK`, `ContentIsKept`, `TornOnlyAtTheEnd`, `NothingStaysBehind`, `ImplementsLineStream`, `ImplementsConversation`, and the liveness properties `CompleteLinesAreServed`, `LinesAreAnswered` |
| `talk` | 2 clients, one maybe unregistered, one maybe named like a channel; 2 channels, one with topics; 6 words, one of them an asterisk | `MessagesTypeOK`, `BannedWordsAreMasked`, `BotsObeyOperators`, `BotChangesAreAnnounced` |

What they show, beyond the types:

* `NickUnique`: one search in `cmd_nick` is enough, whatever the order of
  connects, renames and disconnects.
* `OnlyLatePassStalls`: a client that has given everything is registered in that
  step, except when PASS comes last or the line is a USER cut short.
* `ImplementsDirectory`: through all reuse of addresses and all orders of lines
  the table is a directory. A newcomer inherits nothing from the object that was
  at its address, and a registration is not lost.
* `AdmissionControl`: nobody gets onto a member list except by an operator's
  INVITE, or by a JOIN with the right key, within the limit, when the channel
  is not invite-only. (INVITE may exceed the limit; see section 6.)
* `AbandonedChannelIsFrozen`: while nobody who is connected bears the name of an
  entry on its operator list, a channel stays as it is, but for clients that join:
  for good where the list is empty (`modes`); where its operators have
  disconnected (`reconnect`), until their name or address is somebody's again.
* `ImplementsNamesakes`: although connections end unnoticed by the channels, a list
  changes only by its channel's commands, by one entry at a JOIN, an INVITE or a
  KICK; nobody who does not pass for an operator takes an entry out.
* `ModeChangeIsReported`: modes and operators change only while somebody passes
  for an operator and a member, and the change is announced to every member, or
  such an operator got an error in reply. The second half is
  a weakness of the code (finding `mode_unseen`); that there is no third case is
  what is checked.
* `ModeSetIsListed`: the list MODE shows never misses a mode that came into force,
  with two exceptions the property names: the line it came in ended in an error,
  or the channel was founded with it (`FoundingFlags`: the founder, the key of the
  first JOIN, the +i of a +channel). Nothing that is on the list leaves it, also
  when the mode is cleared. Both are told in section 6.
* `RemovalIsAnnounced`, `ArrivalIsAnnounced`: whoever is removed, or enters a known
  channel, hears of it, and so does every other member; the notice must precede
  the erasure and follow the entry.
* `AuthorityIsIdentity`, `ImplementsRoster`: while nobody disconnects, searching
  by nickname is searching by identity, through all renames.
* `WhoAgreesWithWhoIs`: in the same conditions WHO lists each member once, and
  WHOIS, or the `getClient` of a MODE line, finds that very client by the name
  listed. So +o finds no null pointer while connections stay open.
* `ListsHaveNoDuplicates`: also with freed and reused addresses.
* `AuthorityIsAppointedOrInherited`: where authority comes from, and how far
  finding `inherited_operator` goes. Whoever comes to pass for an operator founds
  the channel; or passes for a member in a step about that channel, with an
  operator among its members (an INVITE, a KICK or a JOIN appoints nobody); or
  takes the name, or the address, of an operator that has disconnected.
  Nothing else does it: no renaming, no admission, no line about another
  channel. (An address that is used again makes the entry one without a name;
  then everyone who has none yet passes, `Inherits`.)
* `TablesAgree`: no descriptor number that is reused finds remains of its last
  holder, so `insert` and `operator[]` on the map are harmless.
* `ReportsAreCurrent`: erasing from `fds` in the scan skips an entry but never
  applies one entry's report to another; so `recv` does not return -1, and index
  the buffer with it, unless the peer reset the connection.
* `FailedIsNotWrittenTo`: POLLIN is looked at before POLLOUT, and a broken
  connection is always readable; a second write, which would raise SIGPIPE, does
  not happen. A reset between poll and the first write may still raise it on
  some systems; the model has that outcome and nothing excludes it.
* `ImplementsSessions`: the server takes peers on in order, and never drops one
  that is still connected or from which something is unread.
* `InputIsRead`, `DepartedAreDropped`, `ConnectionsAreTaken`, `OutputLeaves`: the
  passed-over entry comes up in the next round; a connection whose `recv` failed
  is dropped by a later read; a connection that finds no descriptor is taken once
  one is free, and those that have one are served meanwhile; output leaves if its
  client stops sending and goes
  on reading. The last premise is needed: one that keeps sending is never written
  to.
* `ContentIsKept`, `ImplementsLineStream`, `CompleteLinesAreServed`: the kept
  piece and the test of the segment's end fit together. Not for a LF without CR,
  where two lines may become one, and not for a segment of one byte, where
  `substr(length - 2)` throws and the server ends (`running`).
* `ImplementsConversation`, `LinesAreAnswered`: with room in the socket a client
  that ends its lines properly hears the answers to its lines, whole, once and in
  their order, and hears them all once it stops sending.
* `NothingStaysBehind`: once everything that was sent has been read, no complete
  line is held back in `recv_buffer`; and once the send buffer is empty too, no
  answer. It is the part of the two liveness properties that is safety: what
  remains of them is that the loop gets that far.
* `TornOnlyAtTheEnd`: without room, what is lost is always the end of what was in
  the buffer: no message arrives without its beginning, and none twice. This is
  all that is left when `send` takes a part, since its result is ignored.
* `BannedWordsAreMasked`: whatever is heard in a channel with a bot and has a part
  that is banned there is a row of asterisks. (Asterisks are heard even where
  they are banned; see section 6.)
* `BotsObeyOperators`: a bot comes and goes only by a line of an operator, and
  while it is there no ban is forgotten.
* `BotChangesAreAnnounced`: what a line to the channel does to its bot every member
  is told. A line to a nickname, or to nobody, is filtered by the first channel's
  bot, and can change that unannounced: the property asks of such a silent change
  that no PRIVMSG to the channel is the step, and that the channel is the first.

Five more runs are expected to end in a violation; each checks a statement of the
sources' own comments, see section 6.

### Bounds

* *Clients and names.* Two clients and three nicknames give every pair of roles
  (operator and member, remover and removed, holder of a name and its next
  holder) and a free name to move to. Three clients are used in `registration`
  (two compete for a name while a third address is freed) and in the violation
  runs that need a bystander. Symmetry is used only where no liveness property
  is checked, and the initial states and actions treat all clients and nicknames
  alike.
* `MaxFlags` bounds the flags a MODE line carries out before it ends or stops, in
  the runs to one: one flag and an error after it is the shortest partial line. The
  proofs are about any `MaxFlags`. In `roster` two
  operator flags show that the second sees the effect of the first.
* `MaxLimit = 1` is reached by the founder alone, exceeded by INVITE.
* In `modes` and `roster` all clients are registered at the start, with every
  assignment of nicknames; `registration` and `reconnect` start from nothing, and
  `talk` starts with some registered and some not. The
  proofs start from the empty server, and hold for every value of `MaxFlags`,
  `MaxLimit`, `MaxFd`, `MaxWords` and of the bounds that follow.
* `MaxFd = 2` with two peers: an entry can be erased before, at and behind
  another, and descriptor numbers are reused. Where `fdLimit` is 1, the second
  peer finds no descriptor as long as the first is connected.
* `MaxSent = 6`, `RecvMax = 4` (1023 in the code): two full lines with a piece
  each, segments that end in every place, and one that fills the buffer. Three
  empty lines, or two with a parameter, give several answers of different kinds.
  `MaxNotices = 1`: a notice before, between or behind them, or while a part of
  the buffer is lost.
* `MaxWords = 2`: a command to the bot, or a ban and the word. In `talk` a text is
  empty, a word, a command to the bot, or a ban of "bot" (a part of the commands) or
  of "*" (a part of every mask); only the first channel by name gets +t, by which
  TOPIC differs.

### Fairness

`PollLoop` assumes `WF(ServerStep)`: the process is scheduled whenever `poll` has
something to report or the scan goes on. Each server step is one call that
does not block (the sockets are non-blocking). Peers, the kernel's buffers and SIGINT are not
assumed to do anything; `OutputLeaves` names what it needs of the peer as a
premise, and `ConnectionsAreTaken` what it needs of the kernel: that again and again
a descriptor is free, and that `accept` does not fail for ever although one is. `Dialogue` assumes `WF` of its server step, one turn of the loop as one
connection sees it: poll, then a read or a write. `PollLoop` shows that the loop
gives every connection its turns. `ClientTable`, `Channels` and
`Messages` have only safety properties and no fairness.

`CHECK_DEADLOCK FALSE` stands in every configuration: the process may end
(`running`, `status`), and with nobody connected the server waits for ever.

## 4. What is proved

The theorems hold for every set of clients, names, channels, keys, peers and for
every number of descriptors, under the named assumptions on constants
(`NamesAssumption`, `ChannelAssumption`, `PollAssumption`, `MessagesAssumption`,
`FramingAssumption`, `NoticesAssumption`: special values differ from ordinary
ones, `MaxFd` and `RecvMax` are positive, `MaxSent`, `MaxNotices`, `MaxWords`,
`MaxLimit` and `MaxFlags` are any numbers, `ChannelOrder` lists every channel name;
of `PartOf` only that a word is a part of itself, of `MaskOf` nothing). TLC
evaluates the assumptions in the runs.

| Theorem | Of | Says |
|---|---|---|
| `TypeCorrect`, `NicknamesAreUnique`, `RegistrationIsComplete`, `NobodyElseStalls` | `Spec` of `ClientTable` | the safety and action properties of `registration` |
| `TableIsDirectory` | `Spec` of `ClientTable` | the refinement of `Directory` |
| `ChannelsTypeCorrect` | `ChannelsSpec` | types |
| `ChannelsKeepClientTable`, `NicknamesAreUniqueInChannels`, `ChannelsKeepDirectory` | `ChannelsSpec` | every step of `Channels` is a step or stutter of `ClientTable`, which carries its theorems over |
| `NobodyIsListedTwice`, `AbandonedAreFrozen`, `RemovalsAreAnnounced`, `ArrivalsAreAnnounced`, `ModeChangesAreReported`, `ModesSetAreListed`, `AdmissionIsControlled`, `AuthorityIsAccountedFor` | `ChannelsSpec`, disconnections included | the properties of the runs `reconnect`, `modes`, `roster` |
| `ListsImplementNamesakes` | `ChannelsSpec`, disconnections included | the refinement of `Namesakes` |
| `AuthorityIsIdentityHolds`, `WhoAndWhoIsAgree`, `ListsImplementRoster` | `SteadySpec` | identity, WHO and WHOIS, and the refinement of `Roster` |
| `LoopTypeCorrect`, `TablesAlwaysAgree`, `ReportsStayCurrent`, `FailedAreNotWrittenTo` | `Spec` of `PollLoop` | the safety properties of `poll` |
| `LoopImplementsSessions` | `Spec` of `PollLoop` | the refinement of `Sessions` |
| `MessagesKeepChannels` | `MessagesSpec` | every step of `Messages` is a step or stutter of `Channels`, which carries all theorems about `ChannelsSpec` over |
| `MessagesTypeCorrect`, `BansHold`, `BotsObeyTheirOperators`, `BotChangesAreTold` | `MessagesSpec` | the four properties of `talk` |
| `DialogueTyped`, `ContentKept`, `NotTornInside`, `QuietIsDone` | `DialogueSpec` | the invariants of `dialogue` |
| `LinesServedAsSent`, `LinesAnsweredInOrder` | `DialogueSpec` | the two refinements of `LineStream` |

The inductive invariants:

* *Registration.* `RegisteredComplete` is not inductive: USER registers a client
  with the nickname it has, and nothing says that an unregistered client's
  nickname is well formed. `RegistrationInv` adds `NamesProper`.
* *Channels.* `StepKinds` shows once that every step either leaves the channels
  alone (`Idle`), or is one of five changes (`Founded`, `Joined`, `Invited`,
  `Kicked`, `ModeMade`) with the facts that matter. Each invariant and action
  property is then proved by these six cases. What is not yet a channel has
  empty lists and no modes (`UnknownIsEmpty`), needed where a channel is founded.
  `ChannelLemmas` holds the facts about `EraseNamed` and `PushNamed`: what they
  keep, add and remove, and that they do not introduce duplicates.
  A MODE line has any number of flags. What holds of the settings before it, and is
  kept by every flag, holds after it (`SettledUnfolds`, by counting up the flags as
  described below); what a line switches on, one of its flags does (`LineSwitches`).
* *Steady channels.* `SteadyInv`: nicknames are unique, nobody is listed twice,
  and whoever is listed is connected and has a nickname (`ListedAreNamed`). The
  last part is exactly what a disconnection breaks. From it a search by nickname
  finds its client and no other, and each `Channels` step maps to a step of
  `Roster` or a stutter.
* *Namesakes.* The types and `ListsHaveNoDuplicates`, again by `StepKinds`: an entry
  that is erased is gone from the set because it stood in the list only once
  (`EraseNamedOne`: of the entries of that name one leaves, all others stay). A MODE line is
  one step although it may carry many operator flags: `OneOpReaches` says whom
  one flag reaches, and any number of them reach no others (`Reaches`), since the
  member list by which they search does not change.
* *Poll loop.* `Inv` is `TypeOK`, `TablesAgree` and `ReportsAreCurrent` together:
  none is inductive alone. That the scanned entry's descriptor is open comes from
  `TablesAgree`, that a read of nothing can only follow a reset from
  `ReportsAreCurrent`, and that the accepted descriptor is not watched already
  from both kinds of step keeping `fds` and the open sockets together. The same
  `Inv` carries the refinement of `Sessions`: that an end of input is the end of
  that peer's session and nobody else's needs `TablesAgree` at the scanned entry.
* *Authority.* `AuthorityIsAppointedOrInherited` follows from the types,
  `NickUnique` and `RegisteredComplete` (a founder has a name, which nobody else
  bears) by `StepKinds`. Where the table changes, the entry that makes somebody
  pass is one that was on the list before: if its client is connected and the
  name is not `NoNick`, it is that very client, which passed already
  (`AuthorityOfTable`). A MODE line reaches only who passes for a
  member (`AppointedByMode`), and the other commands leave `op` alone.
* *Messages.* `TalkInv` is the types of all variables. `RouteKinds` says what one
  PRIVMSG can do to a bot (nothing, make it, destroy it, add bans), and `ConsultedIsFirst`
  that the bot asked is the target's or the first channel's; the three action
  properties follow from these by cases. `MessageWords` says that what comes out
  of a bot has no part that is banned, or is a mask. That a line to the channel does
  nothing to it in silence is `LineToChannelTells`, for any PRIVMSG that explains the
  step, since the step does not say who sent it.

* *Directory.* `RegistrationInv` again. Each action of the table is one of the
  directory or none: that `Accept` is `Arrive` needs every field the constructor
  sets, that NICK is `Take` needs the search of `NickInUse`, and that USER
  welcomes only the bearers of names needs `NamesProper`.
* *Framing.* `ContentIsKept` needs to be joined by the types (`FramingInv`): that
  neither the lines served nor the buffer have a LF is what lets a segment be cut
  by itself (`CuttingConcat`: bytes that arrive in two parts are cut as if they
  had arrived at once).
* *Lines.* `ServedInv`, for a client that sends LF only after CR: what has been
  received has been cut into the lines served, and the buffer, except that lines
  behind a line without a word are lost when such a line ends the process. With
  it a segment's end is a line's end exactly when `EndsLine` says so, which is
  where `proper` is needed (`ProperLines`).
* *What goes out.* `TornInv` adds to `TornOnlyAtTheEnd` that the pieces out so far
  belong to messages already queued, so that the next ones come behind them.
* *Answers.* `AnswersInv`: the messages queued answer, in order, the lines served
  that have an answer; and while there is room, what the client has heard and
  what is in the send buffer make up all of them. Together with `ServedInv` it
  gives the second refinement of `LineStream`, and `NothingStaysBehind`.

The proofs about the bytes need what the provers offer no induction for: facts
about all sequences. They are had from the well-foundedness of `<` on the
numbers in its plain form, that a set of numbers which is not empty has a least
element (`LeastElement`): a set of numbers that contains 0, and with each number
the next, contains all (`CountingUp`), and a set of sequences that contains the
empty one, and with each the longer ones, contains all (`GrowingAtTheEnd`). The
statement to be shown is the definition of such a set. That a recursive
function obeys its definition (`Recursion`, `RecursionUpTo`) is proved the same
way, from the partial functions that obey it up to a number; from it follow the
equations of `Only`, `Cutting` and of the library's `FlattenSeq`.

Only model-checked are the liveness properties, which are out of the prover's
reach: `ConnectionsAreTaken`, `InputIsRead`, `DepartedAreDropped`, `OutputLeaves`,
`CompleteLinesAreServed` and `LinesAreAnswered`. Every invariant, action
property and refinement of the passing runs is a theorem.

## 5. What is not modelled

* Start-up (`main.cpp`, `init_socket`, the host name): it runs once before the loop
  and nothing later depends on how. The destructors that run after the loop.
* Functions that nothing calls: `client_disconnect_from_channel`, `addChannel`,
  `deleteChannel`, `check_channel`, `setTopic`, `cmd_time`, `send_system_message`,
  `Parser::setString`, the print functions.
* The contents of a buffer in `PollLoop`, which keeps only whether it is empty; they
  are in `Dialogue`, for one connection.
* What `poll` reports when SIGINT interrupts it: on Linux nothing, which is assumed.
* `poll` failing, NUL bytes in input, several channels in one JOIN (the code does
  not split the list), the flag `e` of MODE (does nothing).
* Out of memory, exceptions of the allocator, hosts that cannot be looked up.
* What a crash leaves behind: nothing is persisted.
* The exact words of replies; a reply is its number, a notice its command.

## 6. Where code and comments disagree

The only documentation is the comments, which quote the IRC RFCs below each
handler. With a run that shows it (`findings` in `PROJECT.json`):

| Run | Property | What TLC finds |
|---|---|---|
| `part_stays` | `PartLeavesChannel` | PART answers "Left channel" and announces it, and the client is still a member |
| `mode_unseen` | `ModeChangesAreSeen` | a MODE line with an error at its end changes the channel and no member is told |
| `outsider_invites` | `OnlyMembersInvite` | an operator that was kicked goes on inviting |
| `inherited_operator` | `OperatorsWereAppointed` | an operator disconnects; whoever takes its nickname passes for an operator |
| `bot_stays` | `BotCanBeDestroyed` | a ban of a part of `:!bot` or `destroy` masks the command that would destroy the bot |

Read off the models without a run of their own:

* `registrate` needs PASS, although `pass.cpp:22` calls it not required; and a
  PASS that comes last does not register the client.
* The founder of a channel gets no JOIN confirmation (`JoinNew`; `join.cpp:35`),
  and the founder of a +channel is not on the list of names it is sent
  (`join.cpp:37`).
* MODE without flags lists modes that have been cleared since (`FlagsSet`;
  `mode.cpp:260`), and does not list the key a channel was founded with: the
  constructor sets `use_key` (`Channel.cpp:5-6`) and `setmodes` stays empty. Nor
  does it list the +i of a +channel (`FoundingFlags`).
* `:!ban *` is accepted (`Bot.cpp:13`), and from then on every word that is masked is
  delivered as asterisks, which contain what is banned (`Filtered`;
  `privmsg.cpp:26-29`).
* QUIT does not end the session (`quit.cpp:15`).
* An INVITE is announced to the whole channel (`invite.cpp:58`) and ignores the
  limit (`mode.cpp:303`).
* A private message passes through the first channel's bot, and `:!ban` in it
  bans there (`Consulted`; `privmsg.cpp:88`).
* A nickname equal to a channel's name draws the channel's messages to its owner
  (`Deliver`; `privmsg.cpp:88`).
* TOPIC stores nothing (`topic.cpp:52`).
* MODE without flags for an unknown channel dereferences a null pointer, and so
  may +o for a member that has disconnected.

## 7. What could follow

1. *Server.* A composition of `PollLoop` with `ClientTable`: `Accept` and
   `ReadEnd` as the only steps that change `live`, and `ReadData` as a batch of
   commands; the refinement of `ClientTable` by hiding the loop. The two meet in
   one place, the map of clients, and `TablesAgree` and `ImplementsSessions`
   already say of it what `ClientTable` assumes: an address is live from its
   `Accept` to its `Disconnect`, and nothing else ends it.
2. *Identity under disconnections.* `Namesakes` says that the use of an entry goes
   with its name. What a repaired program would promise is `Roster` with a
   departure that takes the client's entries along; the refinement would show
   which lines `client_disconnect` lacks.
