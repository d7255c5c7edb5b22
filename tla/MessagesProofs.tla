---------------------------- MODULE MessagesProofs ---------------------------
(***************************************************************************)
(* Safety of PRIVMSG, the ban bot and TOPIC, for any words, any relation   *)
(* "is a part of" between them, and any order of the channels' names.      *)
(* Messages is also shown to do nothing to clients and channels that       *)
(* Channels does not, so that the theorems of ChannelsProofs hold of it.   *)
(***************************************************************************)
EXTENDS Messages, ChannelsProofs

-----------------------------------------------------------------------------
(* Texts and the bot that is asked.                                        *)

\* A text is a sequence of words, and so is what follows its first word.
LEMMA TextWords ==
  ASSUME NEW text \in Text
  PROVE  /\ text \in Seq(Word)
         /\ \A i \in DOMAIN text : text[i] \in Word
         /\ text # <<>> => 1 \in DOMAIN text /\ Range(Tail(text)) \subseteq Word
<1>1. PICK n \in 0..MaxWords : text \in [1..n -> Word]
  BY DEF Text, SeqOf
<1>2. n \in Nat /\ text \in Seq(Word) /\ Len(text) = n
  BY <1>1, MessagesAssumption
<1>3. ASSUME text # <<>> PROVE 1 \in DOMAIN text /\ Range(Tail(text)) \subseteq Word
  <2>1. Tail(text) \in Seq(Word)
    BY <1>2, <1>3, HeadTailProperties
  <2>2. n # 0
    BY <1>2, <1>3, EmptySeq
  <2>3. Range(Tail(text)) \subseteq Word
    BY <2>1, RangeOfSeq
  <2> QED
    BY <1>1, <2>2, <2>3
<1> QED
  BY <1>1, <1>2, <1>3

\* What comes out of the bot are words and masks, and what has a part that is
\* banned is a mask.
LEMMA MessageWords ==
  ASSUME NEW ch, NEW text \in Text
  PROVE  /\ Range(Message(ch, text)) \subseteq Word \cup Masks
         /\ ch \in bots =>
              \A i \in DOMAIN Message(ch, text) : \A v \in banlist[ch] :
                <<v, Message(ch, text)[i]>> \in PartOf => Message(ch, text)[i] \in Masks
<1>1. ASSUME NEW w \in Word
      PROVE  /\ Filtered(ch, w) \in Word \cup Masks
             /\ ch \in bots => \A v \in banlist[ch] :
                  <<v, Filtered(ch, w)>> \in PartOf => Filtered(ch, w) \in Masks
  <2>1. MaskOf[w] \in Masks
    BY DEF Masks
  <2> QED
    BY <2>1 DEF Filtered
<1>2. ASSUME NEW i \in DOMAIN Message(ch, text)
      PROVE  \E w \in Word : Message(ch, text)[i] = Filtered(ch, w)
  <2>1. CASE IsBan(ch, text)
    <3>1. text # <<>> /\ Message(ch, text) = <<Filtered(ch, text[1])>>
      BY <2>1, Zenon DEF IsBan, Message
    <3>2. i = 1
      BY <3>1
    <3> QED
      BY <3>1, <3>2, TextWords
  <2>2. CASE ~IsBan(ch, text)
    BY <2>2, TextWords DEF Message
  <2> QED
    BY <2>1, <2>2
<1> QED
  BY <1>1, <1>2 DEF Range

\* The bot asked for an unknown target is that of the first channel by name.
LEMMA ConsultedIsFirst ==
  ASSUME channels # {}, channels \subseteq ChannelName, NEW t, t \notin channels
  PROVE  /\ Consulted(t) \in channels
         /\ \A i \in DOMAIN ChannelOrder :
              ChannelOrder[i] \in channels => \E j \in 1..i : ChannelOrder[j] = Consulted(t)
<1> DEFINE T == {i \in DOMAIN ChannelOrder : ChannelOrder[i] \in channels}
<1>1. /\ DOMAIN ChannelOrder = 1..Len(ChannelOrder) /\ Len(ChannelOrder) \in Nat
      /\ \A ch \in ChannelName : \E i \in DOMAIN ChannelOrder : ChannelOrder[i] = ch
  BY MessagesAssumption DEF Range
<1>2. T \in SUBSET Nat /\ T # {}
  BY <1>1
<1>3. Min(T) \in T /\ \A y \in T : Min(T) <= y
  BY <1>2, MinIsLeast
<1>4. Consulted(t) = ChannelOrder[Min(T)]
  BY DEF Consulted
<1> HIDE DEF T
<1>5. Min(T) \in DOMAIN ChannelOrder /\ ChannelOrder[Min(T)] \in channels
  BY <1>3 DEF T
<1>6. ASSUME NEW i \in DOMAIN ChannelOrder, ChannelOrder[i] \in channels
      PROVE  Min(T) \in 1..i
  <2>1. i \in T
    BY <1>6 DEF T
  <2> QED
    BY <1>1, <1>3, <1>5, <2>1
<1> QED
  BY <1>4, <1>5, <1>6

-----------------------------------------------------------------------------
(* Messages leaves clients and channels to Channels.                       *)

\* A line of PRIVMSG or TOPIC is, for clients and channels, one without effect.
LEMMA NoChangeIsClientStep ==
  ASSUME TypeOK, NEW c \in Client, Handling(c), NoChannelChange
  PROVE  ChannelsNext
<1>1. Pass(c, FALSE)
  BY DEF Pass, NoChannelChange, clientVars, TypeOK
<1>2. Next
  BY <1>1 DEF Next, Registration
<1> QED
  BY <1>2 DEF ChannelsNext, ClientStep, NoChannelChange

\* Before there is any channel the server may die as it does of a MODE query.
LEMMA CrashNowhere ==
  ASSUME NEW c \in Client, NEW ch \in ChannelName, Handling(c), channels = {}, Crash
  PROVE  ChannelsNext
<1>1. Mode(c, ch)
  BY DEF Mode, ModeList
<1> QED
  BY <1>1 DEF ChannelsNext, ChannelCommand

\* Every step of Messages is one of Channels.
LEMMA MessagesStepIsChannelsStep ==
  AllTyped /\ [MessagesNext]_messageVars => [ChannelsNext]_allVars
<1> SUFFICES ASSUME AllTyped, [MessagesNext]_messageVars PROVE [ChannelsNext]_allVars
  OBVIOUS
<1> USE DEF AllTyped
<1>1. CASE UNCHANGED messageVars
  BY <1>1 DEF messageVars
<1>2. CASE ChannelsStep(ChannelsNext)
  BY <1>2 DEF ChannelsStep
<1>3. ASSUME NEW c \in Client, NEW t, NEW text, PrivMsg(c, t, text) PROVE ChannelsNext
  <2>1. subject \in ChannelName
    BY DEF ChannelsTypeOK
  <2>2. CASE NoChannelChange
    BY <1>3, <2>2, NoChangeIsClientStep DEF PrivMsg
  <2>3. CASE channels = {} /\ Crash
    BY <1>3, <2>1, <2>3, CrashNowhere DEF PrivMsg
  <2> QED
    BY <1>3, <2>2, <2>3 DEF PrivMsg, RouteNowhere
<1>4. ASSUME NEW c \in Client, NEW ch, NEW given, Topic(c, ch, given) PROVE ChannelsNext
  BY <1>4, NoChangeIsClientStep DEF Topic
<1> QED
  BY <1>1, <1>2, <1>3, <1>4 DEF MessagesNext, MessageCommand

\* With bots and messages the channels and the clients still do only what
\* Channels says, so that everything proved of ChannelsSpec holds here.
THEOREM MessagesKeepChannels == MessagesSpec => ChannelsSpec
BY InitTyped, AllTypedStep, MessagesStepIsChannelsStep, PTL DEF MessagesSpec, ChannelsSpec

-----------------------------------------------------------------------------
(* What a step does to the bots, and what it says.                         *)

\* No bot changes, and no message is heard.
Silent == UNCHANGED botVars /\ heard' = [c \in Client |-> {}]

\* A registered client's PRIVMSG, when there is a channel.
Routed(c, t, text) ==
  /\ PrivMsg(c, t, text)
  /\ channels # {}
  /\ NoChannelChange
  /\ Route(c, t, text)
  /\ UNCHANGED topic

\* The same, when there is none.
Unrouted(c, t, text) ==
  /\ channels = {}
  /\ Deliver(c, t, text)
  /\ UNCHANGED botVars

\* A step is silent, or a PRIVMSG that says something.
LEMMA MessageKinds ==
  ASSUME [MessagesNext]_messageVars
  PROVE  \/ UNCHANGED messageVars
         \/ Silent
         \/ \E c \in live, t \in ChannelName \cup Nick, text \in Text :
              Routed(c, t, text) \/ Unrouted(c, t, text)
<1>1. CASE ChannelsStep(ChannelsNext)
  BY <1>1 DEF ChannelsStep, Quiet, Silent
<1>2. ASSUME NEW c, NEW t, NEW text, PrivMsg(c, t, text)
      PROVE  c \in live /\ (Silent \/ Routed(c, t, text) \/ Unrouted(c, t, text))
  BY <1>2 DEF PrivMsg, RouteNowhere, Quiet, Silent, Routed, Unrouted, botVars, Handling
<1>3. ASSUME NEW c, NEW ch, NEW given, Topic(c, ch, given) PROVE Silent
  BY <1>3 DEF Topic, Quiet, Silent
<1> QED
  BY <1>1, <1>2, <1>3 DEF MessagesNext, MessageCommand

\* What is delivered is the text, under the name it was sent to.
LEMMA Delivered ==
  ASSUME NEW c, NEW t, NEW text, Deliver(c, t, text)
  PROVE  /\ DOMAIN heard' = Client
         /\ \A d \in Client : \A m \in heard'[d] : m.to = t /\ m.text = text
BY DEF Deliver

\* Only the bot that was asked changes: it is made or destroyed by an operator
\* of its channel, or learns the words of a ban, of which there are some.
Changed(c, t, ch, text) ==
  \/ UNCHANGED <<bots, banlist>>
  \/ /\ MayCommand(c, ch) /\ ch \notin bots
     /\ bots' = bots \cup {ch} /\ banlist' = [banlist EXCEPT ![ch] = {}]
     /\ Notify(Audience(t), {"created"})
  \/ /\ MayCommand(c, ch) /\ ch \in bots
     /\ bots' = bots \ {ch} /\ banlist' = [banlist EXCEPT ![ch] = {}]
     /\ Notify(Audience(t), {"destroyed"})
  \/ /\ ch \in bots /\ UNCHANGED bots
     /\ text # <<>>
     /\ banlist' = [banlist EXCEPT ![ch] = @ \cup Range(Tail(text))]
     /\ IF Len(text) > 1 THEN Notify(Audience(t), {"ban"}) ELSE Notify({}, {})

\* That is all Route does besides delivering the bot's message.
LEMMA RouteKinds ==
  ASSUME NEW c, NEW t, NEW text, Routed(c, t, text)
  PROVE  /\ Deliver(c, t, Message(Consulted(t), text))
         /\ Changed(c, t, Consulted(t), text)
         /\ \E audience, codes : Notify(audience, codes) /\ codes \subseteq Notice
<1> DEFINE ch == Consulted(t)
           message == Message(ch, text)
<1>1. /\ Deliver(c, t, message)
      /\ \/ Create(c, t, ch)
         \/ Destroy(c, t, ch)
         \/ /\ Ban(ch, text)
            /\ IF IsBan(ch, text) /\ Len(text) > 1
               THEN Notify(Audience(t), {"ban"})
               ELSE Notify({}, {})
  BY DEF Routed, Route, BanAudience
<1> HIDE DEF ch, message
<1>2. {} \subseteq Notice /\ {"481"} \subseteq Notice /\ {"403"} \subseteq Notice
      /\ {"created"} \subseteq Notice /\ {"destroyed"} \subseteq Notice /\ {"ban"} \subseteq Notice
  BY DEF Notice
<1>3. \E audience, codes : Notify(audience, codes) /\ codes \subseteq Notice
  BY <1>1, <1>2 DEF Create, Destroy
<1>4. ASSUME Create(c, t, ch) PROVE Changed(c, t, ch, text)
  BY <1>4 DEF Create, Changed
<1>5. ASSUME Destroy(c, t, ch) PROVE Changed(c, t, ch, text)
  BY <1>5 DEF Destroy, Changed
<1>6. ASSUME Ban(ch, text),
             IF IsBan(ch, text) /\ Len(text) > 1
             THEN Notify(Audience(t), {"ban"})
             ELSE Notify({}, {})
      PROVE  Changed(c, t, ch, text)
  <2>1. IsBan(ch, text) => ch \in bots /\ text # <<>>
    BY Zenon DEF IsBan
  <2> QED
    BY <1>6, <2>1 DEF Ban, Changed
<1> QED
  BY <1>1, <1>3, <1>4, <1>5, <1>6 DEF ch, message

-----------------------------------------------------------------------------
(* Type correctness.                                                       *)

\* No channel is ever forgotten.
LEMMA ChannelsGrow == AllTyped /\ [ChannelsNext]_allVars => channels \subseteq channels'
<1> SUFFICES ASSUME AllTyped, [ChannelsNext]_allVars PROVE channels \subseteq channels'
  OBVIOUS
<1>1. ASSUME Idle PROVE channels \subseteq channels'
  BY <1>1 DEF Idle, channelVars
<1>2. ASSUME NEW c \in live, NEW ch \in ChannelName,
             \/ Founded(c, ch) \/ Joined(c, ch)
             \/ \E t \in live : Invited(c, t, ch)
             \/ \E n \in Nick : Kicked(c, ch, n)
             \/ ModeMade(c, ch)
      PROVE  channels \subseteq channels'
  BY <1>2 DEF Founded, JoinNew, Joined, JoinDone, Invited, InviteDone, Kicked, KickDone, ModeMade
<1> QED
  BY <1>1, <1>2, StepKinds DEF ChannelChange, AllTyped

\* The asked bot is that of an existing channel.
LEMMA ConsultedExists ==
  ASSUME ChannelsTypeOK, channels # {}, NEW t
  PROVE  Consulted(t) \in channels
<1>1. CASE t \in channels
  BY <1>1 DEF Consulted
<1>2. CASE t \notin channels
  BY <1>2, ConsultedIsFirst DEF ChannelsTypeOK
<1> QED
  BY <1>1, <1>2

BotsTyped == bots \in SUBSET channels /\ banlist \in [ChannelName -> SUBSET Word]

HeardTyped ==
  /\ DOMAIN heard = Client
  /\ \A c \in Client : \A m \in heard[c] :
       m.to \in ChannelName \cup Nick /\ Range(m.text) \subseteq Word \cup Masks

\* What is delivered, filtered or not, is typed.
LEMMA DeliveredTyped ==
  ASSUME NEW c, NEW t \in ChannelName \cup Nick, NEW text,
         Range(text) \subseteq Word \cup Masks, Deliver(c, t, text)
  PROVE  HeardTyped'
BY Delivered DEF HeardTyped

\* A PRIVMSG keeps bots and bans in their types.
LEMMA RoutedTyped ==
  ASSUME ChannelsTypeOK, BotsTyped, NEW c, NEW t, NEW text \in Text, Routed(c, t, text)
  PROVE  bots' \in SUBSET channels /\ banlist' \in [ChannelName -> SUBSET Word]
<1> DEFINE ch == Consulted(t)
<1>1. ch \in channels /\ ch \in ChannelName
  BY ConsultedExists DEF Routed, ChannelsTypeOK
<1>2. Changed(c, t, ch, text)
  BY RouteKinds
<1> HIDE DEF ch
<1>3. text # <<>> => banlist[ch] \cup Range(Tail(text)) \in SUBSET Word
  BY <1>1, TextWords DEF BotsTyped
<1> QED
  BY <1>1, <1>2, <1>3 DEF Changed, BotsTyped

\* Notify fills the buffers with notices only, and nothing else fills them.
LEMMA NoticesTyped ==
  ASSUME notices \in [Client -> SUBSET Notice], [MessagesNext]_messageVars
  PROVE  notices' \in [Client -> SUBSET Notice]
<1>1. {} \subseteq Notice /\ {"451"} \subseteq Notice /\ {"481"} \subseteq Notice
      /\ {"WHAT"} \subseteq Notice /\ {"403"} \subseteq Notice /\ {"331"} \subseteq Notice
      /\ {"482"} \subseteq Notice /\ {"TOPIC"} \subseteq Notice
  BY DEF Notice
<1>2. ASSUME NEW audience, NEW codes, Notify(audience, codes), codes \subseteq Notice
      PROVE  notices' \in [Client -> SUBSET Notice]
  BY <1>2 DEF Notify
<1>3. CASE UNCHANGED messageVars
  BY <1>3 DEF messageVars
<1>4. CASE ChannelsStep(ChannelsNext)
  BY <1>1, <1>2, <1>4 DEF ChannelsStep
<1>5. ASSUME NEW c, NEW t, NEW text, PrivMsg(c, t, text)
      PROVE  notices' \in [Client -> SUBSET Notice]
  <2>1. CASE Notify({c}, {"451"})
    BY <1>1, <1>2, <2>1
  <2>2. CASE Routed(c, t, text)
    BY <1>2, <2>2, RouteKinds
  <2>3. CASE RouteNowhere(c, t, text)
    BY <1>1, <1>2, <2>3 DEF RouteNowhere
  <2> QED
    BY <1>5, <2>1, <2>2, <2>3 DEF PrivMsg, Routed
<1>6. ASSUME NEW c, NEW ch, NEW given, Topic(c, ch, given)
      PROVE  notices' \in [Client -> SUBSET Notice]
  BY <1>1, <1>2, <1>6 DEF Topic
<1> QED
  BY <1>3, <1>4, <1>5, <1>6 DEF MessagesNext, MessageCommand

\* Every step keeps the types.
LEMMA MessagesTypeStep ==
  AllTyped /\ MessagesTypeOK /\ [MessagesNext]_messageVars => MessagesTypeOK'
<1> SUFFICES ASSUME AllTyped, MessagesTypeOK, [MessagesNext]_messageVars
             PROVE  MessagesTypeOK'
  OBVIOUS
<1>0. BotsTyped /\ HeardTyped /\ topic \in SUBSET channels /\ ChannelsTypeOK
      /\ notices \in [Client -> SUBSET Notice]
  BY DEF MessagesTypeOK, BotsTyped, HeardTyped, AllTyped
<1>1. channels \subseteq channels'
  BY ChannelsGrow, MessagesStepIsChannelsStep
<1>2. ASSUME UNCHANGED messageVars PROVE (BotsTyped /\ HeardTyped)' /\ topic' = topic
  BY <1>0, <1>2 DEF messageVars, botVars, allVars, channelVars, BotsTyped, HeardTyped
<1>3. ASSUME Silent PROVE (BotsTyped /\ HeardTyped)' /\ topic' = topic
  BY <1>0, <1>1, <1>3 DEF Silent, botVars, BotsTyped, HeardTyped
<1>4. ASSUME NEW c \in live, NEW t \in ChannelName \cup Nick, NEW text \in Text,
             Routed(c, t, text)
      PROVE  (BotsTyped /\ HeardTyped)' /\ topic' = topic
  <2>1. BotsTyped'
    BY <1>0, <1>1, <1>4, RoutedTyped DEF BotsTyped
  <2>2. HeardTyped'
    BY <1>4, RouteKinds, MessageWords, DeliveredTyped
  <2> QED
    BY <1>4, <2>1, <2>2 DEF Routed
<1>5. ASSUME NEW c \in live, NEW t \in ChannelName \cup Nick, NEW text \in Text,
             Unrouted(c, t, text)
      PROVE  (BotsTyped /\ HeardTyped)' /\ topic' = topic
  <2>1. Range(text) \subseteq Word \cup Masks
    BY TextWords, RangeOfSeq
  <2>2. HeardTyped'
    BY <1>5, <2>1, DeliveredTyped DEF Unrouted
  <2> QED
    BY <1>0, <1>1, <1>5, <2>2 DEF Unrouted, botVars, BotsTyped
<1>6. (BotsTyped /\ HeardTyped)' /\ topic' = topic
  BY <1>2, <1>3, <1>4, <1>5, MessageKinds
<1>7. notices' \in [Client -> SUBSET Notice]
  BY <1>0, NoticesTyped
<1> QED
  BY <1>0, <1>1, <1>6, <1>7 DEF MessagesTypeOK, BotsTyped, HeardTyped

\* Before anyone has spoken.
LEMMA MessagesStart == MessagesInit => MessagesTypeOK
BY DEF MessagesInit, MessagesTypeOK

TalkInv == AllTyped /\ MessagesTypeOK

\* The two type invariants are inductive together.
LEMMA TalkStep == TalkInv /\ [MessagesNext]_messageVars => TalkInv'
BY MessagesStepIsChannelsStep, AllTypedStep, MessagesTypeStep DEF TalkInv

\* Bots stay in channels that exist, and whatever is heard is made of words and
\* masks.
THEOREM MessagesTypeCorrect == MessagesSpec => []MessagesTypeOK
BY InitTyped, MessagesStart, TalkStep, PTL DEF MessagesSpec, TalkInv

-----------------------------------------------------------------------------

\* Only a filtered text is heard from a channel with a bot.
LEMMA MaskedStep ==
  ASSUME TalkInv, [MessagesNext]_messageVars,
         NEW d \in Client, NEW m \in heard'[d], m.to \in bots,
         ~UNCHANGED messageVars,
         NEW i \in DOMAIN m.text, NEW v \in banlist[m.to], <<v, m.text[i]>> \in PartOf
  PROVE  m.text[i] \in Masks
<1>0. m.to \in bots /\ bots \subseteq channels
  BY DEF TalkInv, MessagesTypeOK
<1>1. ASSUME Silent PROVE FALSE
  BY <1>1 DEF Silent
<1>2. ASSUME NEW c, NEW t, NEW text \in Text, Routed(c, t, text)
      PROVE  m.text[i] \in Masks
  <2>1. m.to = t /\ m.text = Message(Consulted(t), text)
    BY <1>2, RouteKinds, Delivered
  <2>2. Consulted(t) = t
    BY <1>0, <2>1 DEF Consulted
  <2> QED
    BY <1>0, <2>1, <2>2, MessageWords
<1>3. ASSUME NEW c, NEW t, NEW text, Unrouted(c, t, text) PROVE FALSE
  BY <1>0, <1>3 DEF Unrouted
<1> QED
  BY <1>1, <1>2, <1>3, MessageKinds

\* No member of a channel with a bot hears anything banned but asterisks that
\* hide a word.
THEOREM BansHold == MessagesSpec => BannedWordsAreMasked
<1> DEFINE Masked == \A c \in Client : \A m \in heard'[c] : m.to \in bots =>
       \A i \in DOMAIN m.text :
         (\E v \in banlist[m.to] : <<v, m.text[i]>> \in PartOf) => m.text[i] \in Masks
<1>1. TalkInv /\ [MessagesNext]_messageVars => [Masked]_messageVars
  BY MaskedStep
<1> QED
  BY <1>1, InitTyped, MessagesStart, TalkStep, PTL
     DEF MessagesSpec, TalkInv, BannedWordsAreMasked

-----------------------------------------------------------------------------

OnlyByOperators(ch) ==
  /\ (ch \in bots) # (ch \in bots)' =>
       \E o \in live, t \in ChannelName \cup Nick, text \in Text :
         IsOperator(ch, o) /\ PrivMsg(o, t, text)
  /\ ch \in bots /\ ch \in bots' => banlist[ch] \subseteq banlist'[ch]

\* Only an operator of the channel makes or destroys its bot, and only
\* that empties the list of bans.
LEMMA ObeyStep ==
  ASSUME TalkInv, [MessagesNext]_messageVars, NEW d \in ChannelName
  PROVE  OnlyByOperators(d)
<1>0. banlist \in [ChannelName -> SUBSET Word]
  BY DEF TalkInv, MessagesTypeOK
<1>1. ASSUME UNCHANGED <<bots, banlist>> PROVE OnlyByOperators(d)
  BY <1>1 DEF OnlyByOperators
<1>2. CASE UNCHANGED messageVars \/ Silent
  BY <1>1, <1>2 DEF Silent, messageVars, botVars
<1>3. ASSUME NEW c \in live, NEW t \in ChannelName \cup Nick, NEW text \in Text,
             Routed(c, t, text)
      PROVE  OnlyByOperators(d)
  <2> DEFINE ch == Consulted(t)
  <2>1. Changed(c, t, ch, text) /\ PrivMsg(c, t, text)
    BY <1>3, RouteKinds DEF Routed
  <2> HIDE DEF ch
  <2>2. CASE ch = d
    BY <1>0, <2>1, <2>2 DEF Changed, MayCommand, OnlyByOperators
  <2>3. CASE ch # d
    BY <1>0, <2>1, <2>3 DEF Changed, OnlyByOperators
  <2> QED
    BY <2>2, <2>3
<1>4. ASSUME NEW c, NEW t, NEW text, Unrouted(c, t, text) PROVE OnlyByOperators(d)
  BY <1>1, <1>4 DEF Unrouted, botVars
<1> QED
  BY <1>2, <1>3, <1>4, MessageKinds

\* Bots come and go by their channel's operators alone.
THEOREM BotsObeyTheirOperators == MessagesSpec => BotsObeyOperators
<1> DEFINE Obeyed == \A ch \in ChannelName :
       /\ (ch \in bots) # (ch \in bots)' =>
            \E o \in live, t \in ChannelName \cup Nick, text \in Text :
              IsOperator(ch, o) /\ PrivMsg(o, t, text)
       /\ ch \in bots /\ ch \in bots' => banlist[ch] \subseteq banlist'[ch]
<1>1. TalkInv /\ [MessagesNext]_messageVars => [Obeyed]_messageVars
  BY ObeyStep DEF OnlyByOperators
<1> QED
  BY <1>1, InitTyped, MessagesStart, TalkStep, PTL
     DEF MessagesSpec, TalkInv, BotsObeyOperators

-----------------------------------------------------------------------------

Announced(ch) ==
  \A d \in Members(ch) : notices'[d] \cap {"ban", "created", "destroyed"} # {}

FirstByName(ch) ==
  \A i \in DOMAIN ChannelOrder :
    ChannelOrder[i] \in channels => \E j \in 1..i : ChannelOrder[j] = ch

ChangesBot(ch) == <<ch \in bots, banlist[ch]>>' # <<ch \in bots, banlist[ch]>>

\* The line that changes a bot asks it, and says so to whom it is addressed to.
LEMMA ChangeIsTold ==
  ASSUME TalkInv, NEW d \in ChannelName, ChangesBot(d),
         NEW c, NEW t, NEW text \in Text, Routed(c, t, text)
  PROVE  /\ d = Consulted(t)
         /\ \E code \in {"ban", "created", "destroyed"} : Notify(Audience(t), {code})
<1> DEFINE ch == Consulted(t)
<1>0. banlist \in [ChannelName -> SUBSET Word]
  BY DEF TalkInv, MessagesTypeOK
<1>1. ASSUME UNCHANGED <<bots, banlist>> PROVE FALSE
  BY <1>1 DEF ChangesBot
<1>2. Changed(c, t, ch, text)
  BY RouteKinds
<1>3. ch = d
  <2> HIDE DEF ch
  <2> QED
    BY <1>0, <1>1, <1>2 DEF Changed, ChangesBot
<1>4. ASSUME text # <<>>, ~(Len(text) > 1),
             banlist' = [banlist EXCEPT ![ch] = @ \cup Range(Tail(text))], UNCHANGED bots
      PROVE  FALSE
  <2>1. Tail(text) = <<>>
    BY <1>4, TextWords
  <2>2. Range(Tail(text)) = {}
    BY <2>1 DEF Range
  <2> QED
    BY <1>0, <1>1, <1>3, <1>4, <2>2
<1>5. \E code \in {"ban", "created", "destroyed"} : Notify(Audience(t), {code})
  <2> HIDE DEF ch
  <2> QED
    BY <1>1, <1>2, <1>4 DEF Changed
<1> QED
  BY <1>3, <1>5

\* Only a registered client's line, to be routed, changes a bot.
LEMMA ChangeIsRouted ==
  ASSUME [MessagesNext]_messageVars, NEW d \in ChannelName, ChangesBot(d)
  PROVE  /\ \E c \in live, t \in ChannelName \cup Nick, text \in Text : Routed(c, t, text)
         /\ \A c, t, text : PrivMsg(c, t, text) => Routed(c, t, text)
<1>1. ASSUME UNCHANGED <<bots, banlist>> PROVE FALSE
  BY <1>1 DEF ChangesBot
<1>2. ASSUME NEW c, NEW t, NEW text, PrivMsg(c, t, text) PROVE Routed(c, t, text)
  BY <1>1, <1>2 DEF PrivMsg, RouteNowhere, Routed
<1> QED
  BY <1>1, <1>2, MessageKinds DEF Silent, Unrouted, messageVars, botVars

\* A line to a channel tells its members.
LEMMA LineToChannelTells ==
  ASSUME TalkInv, NEW d \in ChannelName, ChangesBot(d),
         NEW c, NEW t, NEW text \in Text, Routed(c, t, text), t \in channels
  PROVE  t = d /\ Announced(d)
<1>1. invited \in [ChannelName -> Seq(Client)]
  BY DEF TalkInv, AllTyped, ChannelsTypeOK
<1>2. t = d /\ Audience(t) = Members(d)
  BY ChangeIsTold DEF Consulted, Audience
<1>3. Members(d) \subseteq Client
  BY <1>1, RangeOfSeq DEF Members
<1> QED
  BY <1>2, <1>3, ChangeIsTold DEF Notify, Announced

\* The members of the target are told; the asked channel is another only when
\* the target is unknown, and then it is the first.
LEMMA TellStep ==
  ASSUME TalkInv, [MessagesNext]_messageVars, NEW d \in ChannelName, ChangesBot(d),
         ~Announced(d)
  PROVE  /\ \A c \in live, text \in Text : ~PrivMsg(c, d, text)
         /\ \A e \in Client : notices'[e] = {}
         /\ FirstByName(d)
<1>0. channels \subseteq ChannelName
  BY DEF TalkInv, AllTyped, ChannelsTypeOK
<1>1. PICK c \in live, t \in ChannelName \cup Nick, text \in Text : Routed(c, t, text)
  BY ChangeIsRouted
<1>2. t \notin channels
  BY <1>1, LineToChannelTells
<1>3. \A e \in Client : notices'[e] = {}
  BY <1>1, <1>2, ChangeIsTold DEF Notify, Audience
<1>4. channels # {} /\ d = Consulted(t)
  BY <1>1, ChangeIsTold DEF Routed
<1>5. d \in channels /\ FirstByName(d)
  BY <1>0, <1>2, <1>4, ConsultedIsFirst DEF FirstByName
<1>6. ASSUME NEW b \in live, NEW line \in Text, PrivMsg(b, d, line) PROVE FALSE
  <2>1. Routed(b, d, line)
    BY <1>6, ChangeIsRouted
  <2> QED
    BY <1>5, <2>1, LineToChannelTells
<1> QED
  BY <1>3, <1>5, <1>6

\* Nothing about a bot changes unseen by a line to its channel; what changes
\* unseen is the bot of the first channel.
THEOREM BotChangesAreTold == MessagesSpec => BotChangesAreAnnounced
<1> DEFINE Told ==
      \A ch \in ChannelName : ChangesBot(ch) =>
        \/ Announced(ch)
        \/ /\ \A c \in live, text \in Text : ~PrivMsg(c, ch, text)
           /\ \A d \in Client : notices'[d] = {}
           /\ FirstByName(ch)
<1>1. TalkInv /\ [MessagesNext]_messageVars => [Told]_messageVars
  BY TellStep
<1> QED
  BY <1>1, InitTyped, MessagesStart, TalkStep, PTL
     DEF MessagesSpec, TalkInv, BotChangesAreAnnounced, ChangesBot, Announced, FirstByName
=============================================================================
