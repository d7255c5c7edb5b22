------------------------------ MODULE Messages ------------------------------
(***************************************************************************)
(* PRIVMSG with the ban bot, and TOPIC, on top of Channels.                *)
(*                                                                         *)
(* A line's text is the sequence of its words after the target.  Before    *)
(* anything is delivered cmd_privmsg passes the words through the bot of   *)
(* the channel getChannelset returns; that is the first channel by name    *)
(* when the target is not a channel.  The text that comes out of the bot   *)
(* is both what is delivered and what is searched for a command to it.     *)
(*                                                                         *)
(* Output is kept for one step: heard[c] are the messages, notices[c] the  *)
(* other replies and notices, that the last line appended to c's buffer.   *)
(***************************************************************************)
EXTENDS Channels

CONSTANTS
  Word,         \* the words of texts, never empty
  MaskOf,       \* the row of asterisks, two longer, each word is hidden behind
  PartOf,       \* the pairs <<v, w>> where v is a substring of the word or row w
  MaxWords,     \* bound on the words of a text
  ChannelOrder  \* the channel names in the order of std::map

Masks == {MaskOf[w] : w \in Word}

ASSUME MessagesAssumption ==
  /\ {":!bot", "create", "destroy", ":!ban"} \subseteq Word
  /\ DOMAIN MaskOf = Word
  /\ PartOf \in SUBSET (Word \X (Word \cup Masks))
  /\ \A w \in Word : <<w, w>> \in PartOf
  /\ MaxWords \in Nat
  /\ ChannelOrder \in Seq(ChannelName)
  /\ Range(ChannelOrder) = ChannelName

VARIABLES
  bots,     \* the channels with Channel::bot_set
  banlist,  \* Bot::banlist of the channel's bot
  topic,    \* the channels whose Channel::topic is not empty
  heard,    \* see above
  notices

botVars == <<bots, banlist, topic>>
messageVars == <<allVars, botVars, heard, notices>>

Text == SeqOf(Word, MaxWords)

Notice == {"451", "481", "403", "331", "482", "WHAT", "TOPIC", "ban", "created", "destroyed"}

MessagesTypeOK ==
  /\ bots \in SUBSET channels
  /\ banlist \in [ChannelName -> SUBSET Word]
  /\ topic \in SUBSET channels
  /\ DOMAIN heard = Client
  /\ \A c \in Client : \A m \in heard[c] :
       m.to \in ChannelName \cup Nick /\ Range(m.text) \subseteq Word \cup Masks
  /\ notices \in [Client -> SUBSET Notice]

MessagesInit ==
  /\ bots = {}
  /\ banlist = [ch \in ChannelName |-> {}]
  /\ topic = {}
  /\ heard = [c \in Client |-> {}]
  /\ notices = [c \in Client |-> {}]

-----------------------------------------------------------------------------
(* Output.                                                                 *)

\* A line that Channels knows nothing of.
NoChannelChange ==
  /\ UNCHANGED <<clientVars, channelVars, subject>>
  /\ queued' = [c \in Client |-> {}]

Quiet == heard' = [c \in Client |-> {}]

\* "codes" to everyone in "audience".
Notify(audience, codes) ==
  notices' = [c \in Client |-> IF c \in audience THEN codes ELSE {}]

\* send_message_to_channel: an unknown name has no audience.
Audience(t) == IF t \in channels THEN Members(t) ELSE {}

\* The client called t, or the other members of the channel called t.
Deliver(c, t, text) ==
  LET to == IF NickInUse(t) THEN {d \in live : nick[d] = t} ELSE Audience(t) \ {c}
  IN heard' = [d \in Client |-> IF d \in to THEN {[to |-> t, text |-> text]} ELSE {}]

-----------------------------------------------------------------------------
(* The ban bot.                                                            *)

Filtered_FaultWholeWord(ch, w) == IF ch \in bots /\ w \in banlist[ch] THEN MaskOf[w] ELSE w

\* Bot::checkmessage on one word.
Filtered(ch, w) ==
  IF ch \in bots /\ \E v \in banlist[ch] : <<v, w>> \in PartOf THEN MaskOf[w] ELSE w

IsBan(ch, text) == ch \in bots /\ text # <<>> /\ text[1] = ":!ban"

\* What comes out of the bot.  The words a ban names are left out.
Message(ch, text) ==
  IF IsBan(ch, text) THEN <<Filtered(ch, text[1])>>
  ELSE [i \in DOMAIN text |-> Filtered(ch, text[i])]

\* addban on each of them: anyone may ban.
Ban(ch, text) ==
  /\ banlist' = IF IsBan(ch, text)
                THEN [banlist EXCEPT ![ch] = @ \cup Range(Tail(text))]
                ELSE banlist
  /\ UNCHANGED bots

Creates(message)  == message = <<":!bot", "create">>
Destroys(message) == message = <<":!bot", "destroy">>

MayCommand_FaultMember(c, ch) == IsInvited(ch, nick[c])
MayCommand(c, ch) == IsOperator(ch, c)

\* A new Bot has an empty list.
Create(c, t, ch) ==
  \/ ~MayCommand(c, ch) /\ Notify({c}, {"481"}) /\ UNCHANGED <<bots, banlist>>
  \/ MayCommand(c, ch) /\ ch \in bots /\ Notify({c}, {"403"}) /\ UNCHANGED <<bots, banlist>>
  \/ /\ MayCommand(c, ch) /\ ch \notin bots
     /\ bots' = bots \cup {ch}
     /\ banlist' = [banlist EXCEPT ![ch] = {}]
     /\ Notify(Audience(t), {"created"})

Destroy(c, t, ch) ==
  \/ ~MayCommand(c, ch) /\ Notify({c}, {"481"}) /\ UNCHANGED <<bots, banlist>>
  \/ MayCommand(c, ch) /\ ch \notin bots /\ Notify({c}, {"403"}) /\ UNCHANGED <<bots, banlist>>
  \/ /\ MayCommand(c, ch) /\ ch \in bots
     /\ bots' = bots \ {ch}
     /\ banlist' = [banlist EXCEPT ![ch] = {}]
     /\ Notify(Audience(t), {"destroyed"})

-----------------------------------------------------------------------------
(* PRIVMSG.                                                                *)

\* getChannelset.
Consulted(t) ==
  IF t \in channels THEN t
  ELSE ChannelOrder[Min({i \in DOMAIN ChannelOrder : ChannelOrder[i] \in channels})]

\* Who is told of a ban.
BanAudience_FaultExceptMyself(c, t) == Audience(t) \ {c}
BanAudience(c, t) == Audience(t)

\* cmd_privmsg: the bans, the delivery, and (unless the target was a client)
\* the command to the bot.
Route(c, t, text) ==
  LET ch == Consulted(t)
      message == Message(ch, text)
      isCommand == ~NickInUse(t) /\ (Creates(message) \/ Destroys(message))
  IN /\ Deliver(c, t, message)
     /\ \/ isCommand /\ Creates(message) /\ Create(c, t, ch)
        \/ isCommand /\ Destroys(message) /\ Destroy(c, t, ch)
        \/ /\ ~isCommand
           /\ Ban(ch, text)
           /\ IF IsBan(ch, text) /\ Len(text) > 1
              THEN Notify(BanAudience(c, t), {"ban"})
              ELSE Notify({}, {})

\* As long as there is no channel at all, getChannelset returns what stands
\* behind the end of the map.  That may look like a channel without a bot and
\* without operators, or the process may die.
RouteNowhere(c, t, text) ==
  \/ /\ NoChannelChange
     /\ Deliver(c, t, text)
     /\ Notify({c}, IF ~NickInUse(t) /\ (Creates(text) \/ Destroys(text)) THEN {"481"} ELSE {})
     /\ UNCHANGED <<bots, banlist>>
  \/ text # <<>> /\ Crash /\ Quiet /\ Notify({}, {}) /\ UNCHANGED <<bots, banlist>>

PrivMsg(c, t, text) ==
  /\ Handling(c)
  /\ \/ /\ ~registered[c]
        /\ NoChannelChange /\ Quiet /\ Notify({c}, {"451"})
        /\ UNCHANGED <<bots, banlist>>
     \/ registered[c] /\ channels # {} /\ NoChannelChange /\ Route(c, t, text)
     \/ registered[c] /\ channels = {} /\ RouteNowhere(c, t, text)
  /\ UNCHANGED topic

-----------------------------------------------------------------------------
(* TOPIC.                                                                  *)

Topic_FaultSetFirst(c, ch, given) ==
  /\ Handling(c)
  /\ IF given THEN topic' = topic \cup {ch} ELSE UNCHANGED topic
  /\ Notify(Audience(ch), {"TOPIC"})
  /\ NoChannelChange /\ Quiet
  /\ UNCHANGED <<bots, banlist>>

\* cmd_topic: the text goes to the channel, and is stored nowhere.  Without a
\* text, substr throws before the channel is even looked up.
Topic(c, ch, given) ==
  /\ Handling(c)
  /\ \/ ~given /\ Notify({c}, {"WHAT"})
     \/ given /\ ch \notin channels /\ Notify({c}, {"403"})
     \/ given /\ ch \in channels /\ ~topicSet[ch] /\ Notify({c}, {"331"})
     \/ given /\ ch \in channels /\ topicSet[ch] /\ ~IsOperator(ch, c) /\ Notify({c}, {"482"})
     \/ /\ given /\ ch \in channels /\ topicSet[ch] /\ IsOperator(ch, c)
        /\ Notify(Members(ch), {"TOPIC"})
  /\ NoChannelChange /\ Quiet
  /\ UNCHANGED botVars

-----------------------------------------------------------------------------

\* Steps of Channels: the bots do not change.  (No MODE line changes a topic
\* either: +t and -t empty one that is empty.)
ChannelsStep(A) ==
  /\ A
  /\ Quiet /\ Notify({}, {})
  /\ UNCHANGED botVars

MessageCommand ==
  \E c \in Client :
    \/ \E t \in ChannelName \cup Nick, text \in Text : PrivMsg(c, t, text)
    \/ \E ch \in ChannelName, given \in BOOLEAN : Topic(c, ch, given)

MessagesNext == ChannelsStep(ChannelsNext) \/ MessageCommand

MessagesSpec == Init /\ ChannelsInit /\ MessagesInit /\ [][MessagesNext]_messageVars

-----------------------------------------------------------------------------
(* Properties.                                                             *)

\* What has been banned in a channel, also as a part of a longer word, is heard
\* by no member in plain until the bot is destroyed.  (Asterisks are heard in
\* place of the word, also where they have been banned themselves.)
BannedWordsAreMasked ==
  [][\A c \in Client : \A m \in heard'[c] : m.to \in bots =>
       \A i \in DOMAIN m.text :
         (\E v \in banlist[m.to] : <<v, m.text[i]>> \in PartOf) => m.text[i] \in Masks]_messageVars

\* A channel gets or loses its bot only by a line of one of its operators, and
\* while it has one no ban is forgotten.
BotsObeyOperators ==
  [][\A ch \in ChannelName :
       /\ (ch \in bots) # (ch \in bots)' =>
            \E o \in live, t \in ChannelName \cup Nick, text \in Text :
              IsOperator(ch, o) /\ PrivMsg(o, t, text)
       /\ ch \in bots /\ ch \in bots' => banlist[ch] \subseteq banlist'[ch]]_messageVars

\* Nothing about a channel's bot changes behind its members' backs, unless no line
\* to the channel did it, and the channel comes first by name.
BotChangesAreAnnounced ==
  [][\A ch \in ChannelName :
       <<ch \in bots, banlist[ch]>>' # <<ch \in bots, banlist[ch]>> =>
         \/ \A d \in Members(ch) : notices'[d] \cap {"ban", "created", "destroyed"} # {}
         \/ /\ \A c \in live, text \in Text : ~PrivMsg(c, ch, text)
            /\ \A d \in Client : notices'[d] = {}
            /\ \A i \in DOMAIN ChannelOrder :
                 ChannelOrder[i] \in channels =>
                   \E j \in 1..i : ChannelOrder[j] = ch]_messageVars

-----------------------------------------------------------------------------
(* A statement of the sources' own comments, which the code contradicts.   *)

\* Bot.cpp:36: "!bot destroy": an operator of a channel can destroy its bot.
BotCanBeDestroyed ==
  [][\A ch \in bots, o \in live :
       IsOperator(ch, o) /\ PrivMsg(o, ch, <<":!bot", "destroy">>) => ch \notin bots']_messageVars
=============================================================================
