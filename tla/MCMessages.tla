----------------------------- MODULE MCMessages ----------------------------
(* Runs of Messages: registered clients, one of which has the name of a     *)
(* channel for a nickname, form channels and talk.                          *)
EXTENDS Messages, MCChannels

MessageSymmetry == Permutations(Client)

MCOrder == SetToSeq(ChannelName)

MCMaskOf ==
  [w \in Word |-> CASE w = "*" -> "***"
                   [] w = "bot" -> "*****"
                   [] w \in {":!bot", ":!ban"} -> "*******"
                   [] w = "create" -> "********"
                   [] w = "destroy" -> "*********"]

\* Every word is a part of itself, "bot" of ":!bot", and "*" of every mask.
MCPartOf ==
  {<<w, w>> : w \in Word} \cup ({"bot"} \cap Word) \X {":!bot"}
    \cup ({"*"} \cap Word) \X {MCMaskOf[w] : w \in Word}

\* Lines that form channels, one of them with topics.
Formation ==
  ChannelsStep(\E c \in Client :
    \/ \E ch \in ChannelName : Join(c, ch, NoKey)
    \/ \E m \in Change : m.flag = "t" /\ m.pos /\ ModeLine(c, ChannelOrder[1], <<m>>))

\* A word, a command to the bot, or a ban.
SomeText ==
  {<<>>} \cup {<<w>> : w \in Word \ {"create", "destroy"}} \cup {":!bot"} \X {"create", "destroy"}
         \cup {":!ban"} \X ({"bot", "*"} \cap Word)

SomeMessage ==
  \E c \in Client :
    \/ \E t \in ChannelName \cup Nick, text \in SomeText : PrivMsg(c, t, text)
    \/ \E ch \in ChannelName, given \in BOOLEAN : Topic(c, ch, given)

\* A client that gave its password last is not registered.
SomeRegistered ==
  AllConnected /\ MessagesInit /\ registered \in [Client -> BOOLEAN]

Talk == SomeRegistered /\ [][Formation \/ SomeMessage]_messageVars
=============================================================================
