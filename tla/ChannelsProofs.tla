--------------------------- MODULE ChannelsProofs ---------------------------
(***************************************************************************)
(* Safety of Channels for any sets of clients, nicknames, channels and     *)
(* keys.  The commands are first summarised: StepKinds says which steps    *)
(* change a channel, and how.  Everything else is proved from that.        *)
(***************************************************************************)
EXTENDS Channels, ChannelLemmas, SequenceLemmas, ClientTableProofs

USE DEF Handling, sessionVars

-----------------------------------------------------------------------------
(* What a step does to the channels.                                       *)

Founded(c, ch) == registered[c] /\ \E k \in Key \cup {NoKey} : JoinNew(c, ch, k)

Joined(c, ch) ==
  /\ registered[c]
  /\ ch \in channels
  /\ ~LimitReached(ch)
  /\ JoinDone(c, ch)
  /\ \E k \in Key \cup {NoKey} : Join(c, ch, k) /\ key[ch] \in {k, NoKey}

Invited(c, t, ch) ==
  /\ ch \in channels
  /\ IsOperator(ch, c)
  /\ ~IsInvited(ch, nick[t])
  /\ InviteDone(t, ch)
  /\ Invite(c, nick[t], ch) /\ nick[t] \in Nick

Kicked(c, ch, n) ==
  /\ ch \in channels
  /\ IsOperator(ch, c)
  /\ nick[c] # n
  /\ NickInUse(n)
  /\ KickDone(c, ch, n)

\* What one flag can make of a list of operators: nothing, or a client is
\* appointed or dismissed whose nickname is among the members'.
OneOp(ch, before, after) ==
  \/ after = before
  \/ \E t \in live :
       /\ IsInvited(ch, nick[t])
       /\ \/ after = PushNamed(before, nick, t)
          \/ after = EraseNamed(before, nick, nick[t])

\* What a line of flags can make of it: whatever set of lists has the one before
\* it and is closed under what one flag can do has the one after it.
Reaches(ch, list, end) ==
  \A S : /\ list \in S
         /\ \A before \in S : \A after : OneOp(ch, before, after) => after \in S
         => end \in S

\* MODE: operators and flags of one channel change; everyone is told, or the
\* sender is told that its line was cut short.
ModeMade(c, ch) ==
  /\ ModeAllowed(c, ch)
  /\ UNCHANGED <<channels, invited, clientVars>>
  /\ subject' = ch
  /\ \/ \A d \in Members(ch) : "MODE" \in queued'[d]
     \/ queued'[c] \cap {"461", "441", "472"} # {}
  /\ \/ \A f \in Flag : SwitchesOn(ch, f) => <<TRUE, f>> \in setmodes'[ch]
     \/ queued'[c] \cap {"461", "441", "472"} # {}
  /\ \E list : Reaches(ch, op[ch], list) /\ op' = [op EXCEPT ![ch] = list]
  /\ \E b \in BOOLEAN : inviteOnly' = [inviteOnly EXCEPT ![ch] = b]
  /\ \E k \in Key \cup {NoKey} : key' = [key EXCEPT ![ch] = k]
  /\ \E l \in Nat : limit' = [limit EXCEPT ![ch] = l]
  /\ \E b \in BOOLEAN : topicSet' = [topicSet EXCEPT ![ch] = b]
  /\ \E made \in SUBSET ({TRUE} \X Flag) :
       setmodes[ch] \subseteq made /\ setmodes' = [setmodes EXCEPT ![ch] = made]

AllTyped == TypeOK /\ ChannelsTypeOK

Idle == UNCHANGED channelVars /\ [Next]_clientVars

ChannelChange ==
  \E c \in live, ch \in ChannelName :
    \/ Founded(c, ch)
    \/ Joined(c, ch)
    \/ \E t \in live : Invited(c, t, ch)
    \/ \E n \in Nick : Kicked(c, ch, n)
    \/ ModeMade(c, ch)

\* A refusal leaves the channels alone.
LEMMA RefuseIsIdle ==
  ASSUME NEW ch, NEW c, NEW code, Refuse(ch, c, code)
  PROVE  Idle
BY DEF Refuse, Idle

\* The process dies with its channels as they were: the step is one of
\* ClientTable's.
LEMMA CrashIsIdle ==
  ASSUME NEW c \in Client, Handling(c), Crash
  PROVE  Idle
<1>1. MissingToken(c)
  BY DEF Crash, MissingToken
<1> QED
  BY <1>1 DEF Crash, Idle, Next, Registration, channelVars

\* WHO, WHOIS, PING and CAP only fill send buffers.
LEMMA QueryIsIdle == ASSUME Query PROVE Idle /\ UNCHANGED clientVars
<1>1. ASSUME NEW c \in Client, NEW ch \in ChannelName, Who(c, ch)
      PROVE  UNCHANGED <<clientVars, channelVars>>
  BY <1>1 DEF Who, Refuse
<1>2. ASSUME NEW c, NEW own, Tell(c, own) PROVE UNCHANGED <<clientVars, channelVars>>
  BY <1>2 DEF Tell
<1> QED
  BY <1>1, <1>2 DEF Query, WhoIs, ModeUser, NoName, Ping, Cap, Idle

\* JOIN founds a channel, lets its sender in, or does nothing.
LEMMA JoinKinds ==
  ASSUME NEW c \in Client, NEW ch \in ChannelName, NEW k \in Key \cup {NoKey},
         Join(c, ch, k)
  PROVE  Idle \/ Founded(c, ch) \/ Joined(c, ch)
<1>1. CASE \E code : Refuse(ch, c, code)
  BY <1>1, RefuseIsIdle
<1>2. CASE registered[c] /\ JoinNew(c, ch, k)
  BY <1>2 DEF Founded
<1>3. CASE registered[c] /\ JoinDone(c, ch) /\ ch \in channels /\ ~LimitReached(ch)
           /\ (key[ch] = NoKey \/ k = key[ch])
  BY <1>3 DEF Joined
<1> QED
  BY <1>1, <1>2, <1>3 DEF Join, JoinExisting

\* INVITE adds a connected client that was not listed, or does nothing.
LEMMA InviteKinds ==
  ASSUME NEW c \in Client, NEW ch \in ChannelName, NEW n \in Nick, Invite(c, n, ch)
  PROVE  Idle \/ \E t \in live : Invited(c, t, ch)
<1>1. CASE \E code : Refuse(ch, c, code)
  BY <1>1, RefuseIsIdle
<1>2. ASSUME NEW t \in Client,
             ch \in channels, IsClient(t, n), IsOperator(ch, c), ~IsInvited(ch, n),
             InviteDone(t, ch)
      PROVE  t \in live /\ Invited(c, t, ch)
  BY <1>2 DEF Invited, IsClient
<1> QED
  BY <1>1, <1>2 DEF Invite

\* KICK erases an entry, does nothing, or crashes.
LEMMA KickKinds ==
  ASSUME NEW c \in Client, NEW ch \in ChannelName, NEW n \in Nick,
         NEW comment \in BOOLEAN, Kick(c, ch, n, comment)
  PROVE  Idle \/ Kicked(c, ch, n)
<1>1. CASE \E code : Refuse(ch, c, code)
  BY <1>1, RefuseIsIdle
<1>2. CASE Crash
  BY <1>2, CrashIsIdle DEF Kick
<1>3. CASE ch \in channels /\ IsOperator(ch, c) /\ nick[c] # n /\ NickInUse(n)
           /\ KickDone(c, ch, n)
  BY <1>3 DEF Kicked
<1> QED
  BY <1>1, <1>2, <1>3 DEF Kick

\* The settings of a channel.
Setting ==
  [op : Seq(Client), inviteOnly : BOOLEAN, key : Key \cup {NoKey}, limit : Nat,
   topicSet : BOOLEAN]

\* Carrying out a flag keeps every setting in its type.
LEMMA AfterType ==
  ASSUME live \subseteq Client, NEW m \in Change, NEW s \in Setting,
         m.flag = "o" => NickInUse(m.arg)
  PROVE  After(s, m) \in Setting
<1>1. /\ m.flag \in {"i", "t"} => m.pos \in BOOLEAN
      /\ m.flag = "k" => m.arg \in Key \cup {NoKey}
      /\ m.flag = "l" => m.arg \in Nat
  <2>1. m.flag \in {"i", "t"} => m.pos \in BOOLEAN
    BY DEF Change
  <2>2. m.flag = "k" => m.arg \in Key \cup {NoKey}
    BY DEF Change
  <2>3. m.flag = "l" => m.arg \in 0..MaxLimit
    BY DEF Change
  <2> QED
    BY <2>1, <2>2, <2>3, ChannelAssumption
<1>2. s.op \in Seq(Client)
  BY DEF Setting
<1>3. CASE m.flag = "o"
  <2> DEFINE t == CHOOSE t \in live : nick[t] = m.arg
  <2>1. t \in Client
    BY <1>3 DEF NickInUse
  <2> HIDE DEF t
  <2>2. PushNamed(s.op, nick, t) \in Seq(Client) /\ EraseNamed(s.op, nick, m.arg) \in Seq(Client)
    BY <1>2, <2>1, PushNamedList, EraseNamedList
  <2>3. OpAfter(s.op, m) \in Seq(Client)
    BY <2>2 DEF OpAfter, t
  <2> QED
    BY <1>3, <2>3 DEF After, Setting
<1>4. CASE m.flag = "i"
  BY <1>1, <1>4 DEF After, Setting
<1>5. CASE m.flag = "k"
  BY <1>1, <1>5 DEF After, Setting
<1>6. CASE m.flag = "l"
  BY <1>1, <1>6 DEF After, Setting
<1>7. CASE m.flag = "t"
  BY <1>1, <1>7 DEF After, Setting
<1> QED
  BY <1>3, <1>4, <1>5, <1>6, <1>7 DEF After

\* An o that does not stop the handler names a member who is connected.
LEMMA OpFlag ==
  ASSUME NEW ch \in ChannelName, NEW m \in Change, ~Stops(ch, m), m.flag = "o"
  PROVE  IsInvited(ch, m.arg) /\ NickInUse(m.arg)
BY DEF Stops, ParameterMissing, NotListed, NullClient

\* A flag that does not stop the handler appoints or dismisses one client at most.
LEMMA AfterOps ==
  ASSUME NEW ch \in ChannelName, NEW m \in Change, ~Stops(ch, m), NEW s \in Setting
  PROVE  OneOp(ch, s.op, After(s, m).op)
<1>1. CASE m.flag = "o"
  <2> DEFINE t == CHOOSE t \in live : nick[t] = m.arg
  <2>1. IsInvited(ch, m.arg) /\ NickInUse(m.arg)
    BY <1>1, OpFlag
  <2>2. t \in live /\ nick[t] = m.arg
    BY <2>1 DEF NickInUse
  <2>3. OpAfter(s.op, m) = IF m.pos THEN PushNamed(s.op, nick, t)
                           ELSE EraseNamed(s.op, nick, nick[t])
    BY <2>2 DEF OpAfter
  <2>4. After(s, m).op = OpAfter(s.op, m)
    BY <1>1 DEF After, Setting
  <2> HIDE DEF t
  <2> QED
    BY <2>1, <2>2, <2>3, <2>4 DEF OneOp
<1>2. CASE m.flag # "o"
  <2>1. After(s, m).op = s.op
    BY <1>2 DEF After, Setting
  <2> QED
    BY <1>2, <2>1 DEF OneOp
<1> QED
  BY <1>1, <1>2

\* made[n] are the settings after the first n flags of the line.
Makes(made, ch, line) ==
  /\ made \in [0..Len(line) -> Setting]
  /\ made[0] = Settings(ch)
  /\ \A n \in 1..Len(line) : made[n] = After(made[n - 1], line[n])
  /\ Settled(ch, line) = made[Len(line)]

\* The handler does carry out the flags of a line one after the other.
LEMMA SettledUnfolds ==
  ASSUME AllTyped, NEW ch \in ChannelName, NEW line \in Seq(Change),
         \A i \in DOMAIN line : line[i].flag = "o" => NickInUse(line[i].arg)
  PROVE  \E made : Makes(made, ch, line)
<1> DEFINE N == Len(line)
           step == [n \in Nat |-> [s \in Setting |->
                      IF n \in 1..N THEN After(s, line[n]) ELSE s]]
           Body(g) == [i \in 0..Len(line) |-> IF i = 0 THEN Settings(ch)
                                              ELSE After(g[i - 1], line[i])]
           made == CHOOSE g : g = Body(g)
<1>1. step \in [Nat -> [Setting -> Setting]]
  <2>1. ASSUME NEW n \in Nat, NEW s \in Setting, n \in 1..N PROVE After(s, line[n]) \in Setting
    <3>1. line[n] \in Change /\ (line[n].flag = "o" => NickInUse(line[n].arg))
      BY <2>1
    <3>2. live \subseteq Client
      BY DEF AllTyped, TypeOK
    <3> QED
      BY <3>1, <3>2, AfterType
  <2> QED
    BY <2>1
<1>2. N \in Nat /\ Settings(ch) \in Setting
  BY DEF AllTyped, ChannelsTypeOK, Settings, Setting
<1> HIDE DEF step
<1>3. PICK f : RunsUpTo(f, N, Setting, Settings(ch), step)
  BY <1>1, <1>2, RecursionUpTo
<1>4. f \in [0..N -> Setting] /\ f[0] = Settings(ch)
  BY <1>2, <1>3 DEF RunsUpTo
<1>5. ASSUME NEW n \in 1..N PROVE f[n] = After(f[n - 1], line[n])
  <2>1. n \in 0..N /\ n # 0 /\ n \in Nat /\ n - 1 \in 0..N
    BY <1>2
  <2>2. f[n] = step[n][f[n - 1]]
    BY <1>3, <2>1 DEF RunsUpTo
  <2>3. f[n - 1] \in Setting
    BY <1>4, <2>1
  <2> QED
    BY <2>1, <2>2, <2>3 DEF step
<1>6. f = Body(f)
  <2>1. ASSUME NEW n \in 0..N PROVE f[n] = Body(f)[n]
    <3>1. CASE n = 0
      BY <1>2, <1>4, <3>1
    <3>2. CASE n # 0
      <4>1. n \in 1..N
        BY <1>2, <3>2
      <4> QED
        BY <1>5, <3>2, <4>1
    <3> QED
      BY <3>1, <3>2
  <2>2. f = [n \in 0..N |-> f[n]] /\ Body(f) = [n \in 0..N |-> Body(f)[n]]
    BY <1>4
  <2> QED
    BY <2>1, <2>2
<1>7. made = Body(made)
  <2> HIDE DEF Body
  <2> QED
    BY <1>6, Zenon
<1>8. Settled(ch, line) = made[N]
  BY DEF Settled
<1> HIDE DEF made
<1>9. f[N] = made[N]
  <2>1. f[0] = made[0]
    BY <1>2, <1>4, <1>7
  <2>2. ASSUME NEW n \in Nat, n < N, f[n] = made[n] PROVE f[n + 1] = made[n + 1]
    <3>1. n + 1 \in 0..N /\ n + 1 \in 1..N /\ n + 1 # 0 /\ (n + 1) - 1 = n
      BY <1>2, <2>2
    <3>2. made[n + 1] = After(made[n], line[n + 1])
      BY <1>7, <3>1
    <3>3. f[n + 1] = After(f[n], line[n + 1])
      BY <1>5, <3>1
    <3> QED
      BY <2>2, <3>2, <3>3
  <2> QED
    BY <1>2, <2>1, <2>2, SameRecursion
<1> QED
  BY <1>4, <1>5, <1>8, <1>9 DEF Makes

\* What every flag of a line keeps, from the settings on, the line keeps.
LEMMA LineKeeps ==
  ASSUME NEW ch, NEW line \in Seq(Change), NEW made, Makes(made, ch, line),
         NEW S, Settings(ch) \in S,
         \A s \in Setting : \A i \in DOMAIN line : s \in S => After(s, line[i]) \in S
  PROVE  Settled(ch, line) \in S
<1> DEFINE N == Len(line)
           K == {n \in Nat : n <= N => made[n] \in S}
<1>1. N \in Nat /\ DOMAIN line = 1..N
  OBVIOUS
<1>2. 0 \in K
  BY DEF Makes
<1>3. ASSUME NEW n \in Nat, n \in K PROVE n + 1 \in K
  <2> SUFFICES ASSUME n + 1 <= N PROVE made[n + 1] \in S
    OBVIOUS
  <2>1. n + 1 \in 1..N /\ n \in 0..N /\ (n + 1) - 1 = n /\ made[n] \in S
    BY <1>1, <1>3
  <2>2. made[n + 1] = After(made[n], line[n + 1]) /\ made[n] \in Setting
    BY <2>1 DEF Makes
  <2> QED
    BY <1>1, <2>1, <2>2
<1> HIDE DEF K
<1>4. Nat \subseteq K
  BY <1>2, <1>3, CountingUp
<1> QED
  BY <1>1, <1>4 DEF K, Makes

\* The flags of a line.
LEMMA LineIsSeq ==
  ASSUME NEW line \in SeqOf(Change, MaxFlags)
  PROVE  line \in Seq(Change)
<1>1. PICK n \in 0..MaxFlags : line \in [1..n -> Change]
  BY DEF SeqOf
<1> QED
  BY <1>1, ChannelAssumption

\* A line keeps the settings in their types, and appoints and dismisses one
\* client after the other.
LEMMA LineKinds ==
  ASSUME AllTyped, NEW ch \in ChannelName, NEW line \in SeqOf(Change, MaxFlags),
         \A i \in DOMAIN line : ~Stops(ch, line[i]), Settle(ch, line)
  PROVE  /\ UNCHANGED <<channels, invited, clientVars>>
         /\ \E list : Reaches(ch, op[ch], list) /\ op' = [op EXCEPT ![ch] = list]
         /\ \E b \in BOOLEAN : inviteOnly' = [inviteOnly EXCEPT ![ch] = b]
         /\ \E k \in Key \cup {NoKey} : key' = [key EXCEPT ![ch] = k]
         /\ \E l \in Nat : limit' = [limit EXCEPT ![ch] = l]
         /\ \E b \in BOOLEAN : topicSet' = [topicSet EXCEPT ![ch] = b]
<1> DEFINE new == Settled(ch, line)
<1>1. line \in Seq(Change) /\ \A i \in DOMAIN line : line[i] \in Change
  BY LineIsSeq
<1>2. PICK made : Makes(made, ch, line)
  BY <1>1, OpFlag, SettledUnfolds
<1>3. new \in Setting
  BY <1>1, <1>2 DEF Makes
<1>4. Reaches(ch, op[ch], new.op)
  <2> SUFFICES ASSUME NEW S, op[ch] \in S,
                      \A before \in S : \A after : OneOp(ch, before, after) => after \in S
               PROVE  new.op \in S
    BY DEF Reaches
  <2> DEFINE T == {s \in Setting : s.op \in S}
  <2>1. Settings(ch) \in T
    <3>1. Settings(ch).op = op[ch]
      BY DEF Settings
    <3>2. Settings(ch) \in Setting
      BY <1>2 DEF Makes
    <3> QED
      BY <3>1, <3>2
  <2>2. ASSUME NEW s \in Setting, NEW i \in DOMAIN line, s \in T PROVE After(s, line[i]) \in T
    <3>1. OneOp(ch, s.op, After(s, line[i]).op) /\ (line[i].flag = "o" => NickInUse(line[i].arg))
      BY <1>1, AfterOps, OpFlag
    <3>2. live \subseteq Client
      BY DEF AllTyped, TypeOK
    <3>3. After(s, line[i]) \in Setting
      BY <1>1, <3>1, <3>2, AfterType
    <3> QED
      BY <2>2, <3>1, <3>3
  <2> HIDE DEF T
  <2>3. new \in T
    BY <1>1, <1>2, <2>1, <2>2, LineKeeps
  <2> QED
    BY <2>3 DEF T
<1>5. /\ UNCHANGED <<channels, invited, clientVars>>
      /\ op' = [op EXCEPT ![ch] = new.op]
      /\ inviteOnly' = [inviteOnly EXCEPT ![ch] = new.inviteOnly]
      /\ key' = [key EXCEPT ![ch] = new.key]
      /\ limit' = [limit EXCEPT ![ch] = new.limit]
      /\ topicSet' = [topicSet EXCEPT ![ch] = new.topicSet]
  BY DEF Settle
<1>6. /\ new.inviteOnly \in BOOLEAN /\ new.key \in Key \cup {NoKey}
      /\ new.limit \in Nat /\ new.topicSet \in BOOLEAN
  BY <1>3 DEF Setting
<1> HIDE DEF new
<1> QED
  BY <1>4, <1>5, <1>6

Raises(m, f) == m.flag = f /\ m.pos

\* The settings without what has been switched on since "s".
Below(s, f) ==
  {v \in Setting :
     /\ f = "o" => Range(v.op) \subseteq Range(s.op)
     /\ f = "i" => (v.inviteOnly => s.inviteOnly)
     /\ f = "k" => v.key \in {s.key, NoKey}
     /\ f = "t" => (v.topicSet => s.topicSet)
     /\ f = "l" => v.limit \in {s.limit, 0}}

\* A flag that is not f with a plus does not switch f on.
LEMMA FlagSwitches ==
  ASSUME NEW m \in Change, NEW f \in Flag, NEW s, NEW v \in Below(s, f), ~Raises(m, f),
         After(v, m) \in Setting
  PROVE  After(v, m) \in Below(s, f)
<1>0. v \in Setting /\ m.pos \in BOOLEAN
  BY DEF Below, Change
<1>1. CASE m.flag # f
  <2>1. CASE f = "o"
    <3>1. After(v, m).op = v.op
      BY <1>0, <1>1, <2>1 DEF After, Setting
    <3> QED
      BY <2>1, <3>1 DEF Below
  <2>2. CASE f = "i"
    <3>1. After(v, m).inviteOnly = v.inviteOnly
      BY <1>0, <1>1, <2>2 DEF After, Setting
    <3> QED
      BY <2>2, <3>1 DEF Below
  <2>3. CASE f = "k"
    <3>1. After(v, m).key = v.key
      BY <1>0, <1>1, <2>3 DEF After, Setting
    <3> QED
      BY <2>3, <3>1 DEF Below
  <2>4. CASE f = "t"
    <3>1. After(v, m).topicSet = v.topicSet
      BY <1>0, <1>1, <2>4 DEF After, Setting
    <3> QED
      BY <2>4, <3>1 DEF Below
  <2>5. CASE f = "l"
    <3>1. After(v, m).limit = v.limit
      BY <1>0, <1>1, <2>5 DEF After, Setting
    <3> QED
      BY <2>5, <3>1 DEF Below
  <2> QED
    BY <2>1, <2>2, <2>3, <2>4, <2>5 DEF Flag
<1>2. CASE m.flag = f
  <2>0. ~m.pos
    BY <1>2 DEF Raises
  <2>1. CASE f = "o"
    <3>1. After(v, m).op = EraseNamed(v.op, nick, m.arg) /\ v.op \in Seq(Client)
      BY <1>0, <1>2, <2>0, <2>1 DEF After, Setting, OpAfter
    <3>2. Range(EraseNamed(v.op, nick, m.arg)) \subseteq Range(v.op)
      BY <3>1, EraseNamedList
    <3> QED
      BY <2>1, <3>1, <3>2 DEF Below
  <2>2. CASE f = "i"
    <3>1. ~After(v, m).inviteOnly
      BY <1>0, <1>2, <2>0, <2>2 DEF After, Setting
    <3> QED
      BY <2>2, <3>1 DEF Below
  <2>3. CASE f = "k"
    <3>1. After(v, m).key = NoKey
      BY <1>0, <1>2, <2>0, <2>3 DEF After, Setting
    <3> QED
      BY <2>3, <3>1 DEF Below
  <2>4. CASE f = "t"
    <3>1. ~After(v, m).topicSet
      BY <1>0, <1>2, <2>0, <2>4 DEF After, Setting
    <3> QED
      BY <2>4, <3>1 DEF Below
  <2>5. CASE f = "l"
    <3>1. After(v, m).limit = 0
      BY <1>0, <1>2, <2>0, <2>5 DEF After, Setting
    <3> QED
      BY <2>5, <3>1 DEF Below
  <2> QED
    BY <2>1, <2>2, <2>3, <2>4, <2>5 DEF Flag
<1> QED
  BY <1>1, <1>2

\* What a line switches on, one of its flags does.
LEMMA LineSwitches ==
  ASSUME AllTyped, NEW ch \in ChannelName, NEW line \in SeqOf(Change, MaxFlags),
         \A i \in DOMAIN line : ~Stops(ch, line[i]),
         Settle(ch, line), NEW f \in Flag, SwitchesOn(ch, f)
  PROVE  \E i \in DOMAIN line : Raises(line[i], f)
<1> SUFFICES ASSUME \A i \in DOMAIN line : ~Raises(line[i], f)
             PROVE  FALSE
  OBVIOUS
<1> DEFINE new == Settled(ch, line)
           S == Below(Settings(ch), f)
<1>1. line \in Seq(Change) /\ \A i \in DOMAIN line : line[i] \in Change
  BY LineIsSeq
<1>2. PICK made : Makes(made, ch, line)
  BY <1>1, OpFlag, SettledUnfolds
<1>3. Settings(ch) \in S
  BY <1>2 DEF Makes, Below
<1>4. ASSUME NEW s \in Setting, NEW i \in DOMAIN line, s \in S PROVE After(s, line[i]) \in S
  <2>1. line[i] \in Change /\ (line[i].flag = "o" => NickInUse(line[i].arg))
    BY <1>1, OpFlag
  <2>2. live \subseteq Client
    BY DEF AllTyped, TypeOK
  <2>3. After(s, line[i]) \in Setting
    BY <2>1, <2>2, AfterType
  <2> QED
    BY <1>4, <2>1, <2>3, FlagSwitches
<1> HIDE DEF S
<1>5. new \in S
  BY <1>1, <1>2, <1>3, <1>4, LineKeeps
<1>6. /\ ch \in DOMAIN op /\ ch \in DOMAIN inviteOnly /\ ch \in DOMAIN key
      /\ ch \in DOMAIN topicSet /\ ch \in DOMAIN limit
  BY DEF AllTyped, ChannelsTypeOK
<1>7. /\ op'[ch] = new.op /\ inviteOnly'[ch] = new.inviteOnly /\ key'[ch] = new.key
      /\ limit'[ch] = new.limit /\ topicSet'[ch] = new.topicSet
  BY <1>6 DEF Settle
<1>8. /\ Settings(ch).op = op[ch] /\ Settings(ch).inviteOnly = inviteOnly[ch]
      /\ Settings(ch).key = key[ch] /\ Settings(ch).limit = limit[ch]
      /\ Settings(ch).topicSet = topicSet[ch]
  BY DEF Settings
<1> HIDE DEF new
<1> QED
  BY <1>5, <1>7, <1>8 DEF S, Below, SwitchesOn

\* MODE changes settings and operators of the channel and tells every member,
\* or its sender that the line was cut short, or it does nothing, or crashes.
LEMMA ModeKinds ==
  ASSUME AllTyped, NEW c \in Client, NEW ch \in ChannelName, Mode(c, ch)
  PROVE  Idle \/ ModeMade(c, ch)
<1>0. /\ invited \in [ChannelName -> Seq(Client)]
      /\ setmodes \in [ChannelName -> SUBSET ({TRUE} \X Flag)]
  BY DEF AllTyped, ChannelsTypeOK
<1>1. CASE \E code : Refuse(ch, c, code)
  BY <1>1, RefuseIsIdle
<1>2. CASE Crash /\ Handling(c)
  BY <1>2, CrashIsIdle
<1>3. CASE UNCHANGED <<clientVars, channelVars>>
  BY <1>3 DEF Idle
<1>4. ASSUME NEW line \in SeqOf(Change, MaxFlags), ModeAllowed(c, ch),
             \A i \in DOMAIN line : ~Stops(ch, line[i]),
             Settle(ch, line), ModeDone(c, ch, line)
      PROVE  ModeMade(c, ch)
  <2>1. subject' = ch /\ \A d \in Members(ch) : "MODE" \in queued'[d]
    <3>1. Members(ch) \subseteq Client
      BY <1>0, RangeOfSeq DEF Members
    <3> QED
      BY <1>4, <3>1 DEF ModeDone, Output
  <2>2. \E made \in SUBSET ({TRUE} \X Flag) :
          setmodes[ch] \subseteq made /\ setmodes' = [setmodes EXCEPT ![ch] = made]
    <3> DEFINE made == setmodes[ch] \cup FlagsSet(line)
    <3>1. setmodes[ch] \in SUBSET ({TRUE} \X Flag)
      BY <1>0
    <3>2. FlagsSet(line) \in SUBSET ({TRUE} \X Flag)
      <4>1. PICK n \in 0..MaxFlags : line \in [1..n -> Change]
        BY DEF SeqOf
      <4>2. \A i \in DOMAIN line : line[i].flag \in Flag
        <5> SUFFICES ASSUME NEW i \in DOMAIN line PROVE line[i].flag \in Flag
          OBVIOUS
        <5>1. line[i] \in Change /\ line[i].flag # "x"
          BY <1>4, <4>1 DEF Stops
        <5> QED
          BY <5>1 DEF Change, Flag
      <4>3. ASSUME NEW e \in FlagsSet(line) PROVE e \in {TRUE} \X Flag
        <5>1. PICK i \in DOMAIN line : e = <<TRUE, line[i].flag>>
          BY <4>3 DEF FlagsSet
        <5> QED
          BY <4>2, <5>1
      <4> QED
        BY <4>3
    <3>3. setmodes' = [setmodes EXCEPT ![ch] = made] /\ setmodes[ch] \subseteq made
      BY <1>4 DEF ModeDone
    <3>4. made \in SUBSET ({TRUE} \X Flag)
      BY <3>1, <3>2
    <3> HIDE DEF made
    <3> QED
      BY <3>3, <3>4
  <2>3. \A f \in Flag : SwitchesOn(ch, f) => <<TRUE, f>> \in setmodes'[ch]
    <3> SUFFICES ASSUME NEW f \in Flag, SwitchesOn(ch, f) PROVE <<TRUE, f>> \in setmodes'[ch]
      OBVIOUS
    <3>1. PICK i \in DOMAIN line : line[i].flag = f /\ line[i].pos
      BY <1>4, LineSwitches DEF Raises
    <3>2. <<TRUE, f>> \in FlagsSet(line)
      BY <3>1 DEF FlagsSet
    <3>3. setmodes'[ch] = setmodes[ch] \cup FlagsSet(line)
      BY <1>0, <1>4 DEF ModeDone
    <3> QED
      BY <3>2, <3>3
  <2> QED
    BY <1>4, <2>1, <2>2, <2>3, LineKinds DEF ModeMade
<1>5. ASSUME NEW line \in SeqOf(Change, MaxFlags), ModeAllowed(c, ch),
             \A i \in DOMAIN line : ~Stops(ch, line[i]),
             Settle(ch, line), NEW code \in Rejections(ch), ModeStopped(c, ch, code)
      PROVE  ModeMade(c, ch)
  <2>1. subject' = ch /\ queued'[c] \cap {"461", "441", "472"} # {}
    <3>1. subject' = ch /\ code \in queued'[c]
      BY <1>5 DEF ModeStopped, Reply, Output
    <3>2. code \in {"461", "441", "472"}
      BY DEF Rejections, Rejection
    <3> QED
      BY <3>1, <3>2
  <2>2. \E made \in SUBSET ({TRUE} \X Flag) :
          setmodes[ch] \subseteq made /\ setmodes' = [setmodes EXCEPT ![ch] = made]
    <3>1. setmodes = [setmodes EXCEPT ![ch] = setmodes[ch]]
          /\ setmodes[ch] \in SUBSET ({TRUE} \X Flag)
      BY <1>0
    <3> QED
      BY <1>5, <3>1 DEF ModeStopped
  <2> QED
    BY <1>5, <2>1, <2>2, LineKinds DEF ModeMade
<1>6. ASSUME NEW line \in SeqOf(Change, MaxFlags), ModeLine(c, ch, line)
      PROVE  Idle \/ ModeMade(c, ch)
  BY <1>2, <1>4, <1>5, <1>6 DEF ModeLine, ModeAllowed
<1>7. CASE ModeList(c, ch)
  BY <1>1, <1>2, <1>7 DEF ModeList
<1>8. CASE ModeRefused(c, ch)
  BY <1>1, <1>3, <1>8 DEF ModeRefused
<1> QED
  BY <1>6, <1>7, <1>8 DEF Mode

\* Appointing and dismissing keeps a list of clients one, nobody is listed
\* twice, and whoever is new on it has a member's nickname.
LEMMA OpsAfterMode ==
  ASSUME live \subseteq Client, NEW ch, NEW before \in Seq(Client), NEW after,
         OneOp(ch, before, after)
  PROVE  /\ after \in Seq(Client)
         /\ ListedOnce(before) => ListedOnce(after)
         /\ \A e \in Range(after) :
              e \in Range(before) \/ (e \in live /\ IsInvited(ch, nick[e]))
BY PushNamedList, EraseNamedList DEF OneOp

\* A step changes at most one channel, and only in one of five ways.
LEMMA StepKinds ==
  ASSUME TypeOK, ChannelsTypeOK, [ChannelsNext]_allVars
  PROVE  Idle \/ (UNCHANGED clientVars /\ ChannelChange)
<1>1. CASE UNCHANGED allVars
  BY <1>1 DEF Idle, allVars
<1>2. CASE ClientStep(Next)
  BY <1>2 DEF Idle, ClientStep
<1>3. ASSUME NEW c \in Client, Quit(c) \/ PartMalformed(c) PROVE Idle
  BY <1>3 DEF Quit, PartMalformed, Tell, Idle
<1>4. ASSUME NEW c \in Client, NEW ch \in ChannelName, Part(c, ch) PROVE Idle
  BY <1>4 DEF Part, Idle
<1>5. ASSUME NEW c \in Client, NEW ch \in ChannelName, UseFreed(c, ch) PROVE Idle
  BY <1>5, CrashIsIdle DEF UseFreed
<1>6. ASSUME NEW c \in Client, NEW ch \in ChannelName,
             NEW k \in Key \cup {NoKey}, Join(c, ch, k)
      PROVE  Idle \/ (c \in live /\ (Founded(c, ch) \/ Joined(c, ch)))
  BY <1>6, JoinKinds DEF Join
<1>7. ASSUME NEW c \in Client, NEW ch \in ChannelName, NEW n \in Nick, Invite(c, n, ch)
      PROVE  Idle \/ (c \in live /\ \E t \in live : Invited(c, t, ch))
  BY <1>7, InviteKinds DEF Invite
<1>8. ASSUME NEW c \in Client, NEW ch \in ChannelName, NEW n \in Nick,
             NEW comment \in BOOLEAN, Kick(c, ch, n, comment)
      PROVE  Idle \/ (c \in live /\ Kicked(c, ch, n))
  BY <1>8, KickKinds DEF Kick
<1>9. ASSUME NEW c \in Client, NEW ch \in ChannelName, Mode(c, ch)
      PROVE  Idle \/ (c \in live /\ ModeMade(c, ch))
  BY <1>9, ModeKinds DEF ModeMade, ModeAllowed, AllTyped
<1>10. ASSUME NEW c \in live, NEW ch \in ChannelName,
              \/ Founded(c, ch) \/ Joined(c, ch)
              \/ \E t \in live : Invited(c, t, ch)
              \/ \E n \in Nick : Kicked(c, ch, n)
              \/ ModeMade(c, ch)
       PROVE  UNCHANGED clientVars /\ ChannelChange
  <2>1. UNCHANGED clientVars
    BY <1>10 DEF Founded, JoinNew, Joined, JoinDone, Invited, InviteDone, Kicked, KickDone,
                 ModeMade
  <2> QED
    BY <1>10, <2>1 DEF ChannelChange
<1>11. CASE ChannelCommand
  BY <1>3, <1>4, <1>5, <1>6, <1>7, <1>8, <1>9, <1>10, <1>11 DEF ChannelCommand
<1> QED
  BY <1>1, <1>2, <1>11, QueryIsIdle DEF ChannelsNext

-----------------------------------------------------------------------------
(* Type correctness.                                                       *)

\* Output fills the send buffers with message codes only.
LEMMA OutputType ==
  ASSUME NEW ch \in ChannelName, NEW c, NEW own \in SUBSET Code,
         NEW audience, NEW cast \in SUBSET Code, Output(ch, c, own, audience, cast)
  PROVE  queued' \in [Client -> SUBSET Code] /\ subject' \in ChannelName
BY DEF Output

OutputTyped == queued \in [Client -> SUBSET Code] /\ subject \in ChannelName

\* So does a refusal.
LEMMA RefuseType ==
  ASSUME NEW ch \in ChannelName, NEW c, NEW code \in Code, Refuse(ch, c, code)
  PROVE  OutputTyped'
BY OutputType DEF Refuse, Reply, OutputTyped

\* And a reply that is about no channel.
LEMMA TellType ==
  ASSUME subject \in ChannelName, NEW c, NEW own \in SUBSET Code, Tell(c, own)
  PROVE  OutputTyped'
BY DEF Tell, OutputTyped

\* And every query.
LEMMA QueryType ==
  ASSUME subject \in ChannelName, Query
  PROVE  OutputTyped'
<1>1. /\ {"311", "312", "315", "318", "352", "401", "403", "461", "PONG", "CAP"} \subseteq Code
      /\ {"502", "MODEUSER"} \subseteq Code
      /\ {"311", "312", "318"} \subseteq Code /\ {"401", "318"} \subseteq Code
  BY DEF Code
<1>2. ASSUME NEW c \in Client, NEW ch \in ChannelName, Who(c, ch)
      PROVE  OutputTyped'
  <2> DEFINE own == {"315"} \cup IF WhoList(ch) = <<>> THEN {} ELSE {"352"}
  <2>1. own \in SUBSET Code
    BY <1>1
  <2>2. CASE Refuse(ch, c, "403")
    BY <1>1, <2>2, RefuseType
  <2>3. CASE Reply(ch, c, own)
    BY <2>1, <2>3, OutputType DEF Reply, OutputTyped
  <2> QED
    BY <1>2, <2>2, <2>3 DEF Who
<1>3. ASSUME NEW c \in Client, NEW names, WhoIs(c, names) PROVE OutputTyped'
  <2> DEFINE own == UNION {IF \E t \in Client : IsClient(t, n)
                           THEN {"311", "312", "318"}
                           ELSE {"401", "318"} : n \in names}
  <2>1. own \in SUBSET Code
    BY <1>1
  <2>2. Tell(c, own)
    BY <1>3 DEF WhoIs
  <2> HIDE DEF own
  <2> QED
    BY <2>1, <2>2, TellType
<1>4. ASSUME NEW c \in Client, NoName(c) \/ Ping(c) \/ Cap(c) PROVE OutputTyped'
  <2>1. PICK own \in {{"461"}, {"PONG"}, {"CAP"}, {}} : Tell(c, own)
    BY <1>4 DEF NoName, Ping, Cap
  <2>2. own \in SUBSET Code
    BY <1>1, <2>1
  <2> QED
    BY <2>1, <2>2, TellType
<1>5. ASSUME NEW c \in Client, NEW n \in Nick, ModeUser(c, n) PROVE OutputTyped'
  <2>1. PICK own \in {{"502"}, {"MODEUSER"}} : Tell(c, own)
    BY <1>5 DEF ModeUser
  <2> QED
    BY <1>1, <2>1, TellType
<1> QED
  BY <1>2, <1>3, <1>4, <1>5 DEF Query

\* Every step keeps the output variables in their types.
LEMMA OutputStep ==
  ASSUME ChannelsTypeOK, [ChannelsNext]_allVars
  PROVE  OutputTyped'
<1> USE DEF OutputTyped
<1>0. OutputTyped
  BY DEF ChannelsTypeOK
<1>1. CASE UNCHANGED outputVars
  BY <1>0, <1>1 DEF outputVars
<1>2. CASE ClientStep(Next)
  BY <1>0, <1>2 DEF ClientStep
<1>3. ASSUME NEW c \in Client, Quit(c) \/ PartMalformed(c) PROVE OutputTyped'
  <2>1. CASE Quit(c)
    BY <1>0, <2>1 DEF Quit, Tell, Code
  <2>2. CASE PartMalformed(c)
    <3> DEFINE own == {"461"} \cup IF registered[c] THEN {} ELSE {"451"}
    <3>1. own \in SUBSET Code
      BY DEF Code
    <3>2. Tell(c, own)
      BY <2>2 DEF PartMalformed
    <3> HIDE DEF own
    <3> QED
      BY <1>0, <3>1, <3>2, TellType
  <2> QED
    BY <1>3, <2>1, <2>2
<1>4. /\ {"403", "451", "442", "LEFT", "PART", "JOIN", "341", "INVITE", "KICK"} \subseteq Code
      /\ {"475", "471", "473", "401", "482", "443", "441", "WHAT", "461"} \subseteq Code
      /\ {"NOMODE", "MODE", "MODES"} \subseteq Code
      /\ JoinReplies \subseteq Code
  BY DEF Code, JoinReplies
<1>5. ASSUME NEW c \in Client, NEW ch \in ChannelName, Part(c, ch)
      PROVE  OutputTyped'
  <2>1. ASSUME NEW own \in SUBSET Code, Reply(ch, c, own) PROVE OutputTyped'
    BY <2>1, OutputType DEF Reply
  <2>2. ASSUME NEW own \in SUBSET Code, Output(ch, c, own, Members(ch), {"PART"})
        PROVE  OutputTyped'
    BY <1>4, <2>2, OutputType
  <2> DEFINE own == IF registered[c] THEN {} ELSE {"451"}
  <2>3. /\ own \cup {"403"} \in SUBSET Code
        /\ own \cup {"442"} \in SUBSET Code
        /\ own \cup {"LEFT"} \in SUBSET Code
    BY <1>4
  <2>4. \/ Reply(ch, c, own \cup {"403"})
        \/ Reply(ch, c, own \cup {"442"})
        \/ Output(ch, c, own \cup {"LEFT"}, Members(ch), {"PART"})
    BY <1>5 DEF Part
  <2> QED
    BY <2>1, <2>2, <2>3, <2>4
<1>6. ASSUME NEW c \in Client, NEW ch \in ChannelName, UseFreed(c, ch)
      PROVE  OutputTyped'
  BY <1>1, <1>6 DEF UseFreed, Crash
<1>7. ASSUME NEW c \in Client, NEW ch \in ChannelName, NEW k, Join(c, ch, k)
      PROVE  OutputTyped'
  <2>1. CASE \E code \in Code : Refuse(ch, c, code)
    BY <2>1, RefuseType
  <2>2. CASE JoinNew(c, ch, k)
    BY <1>4, <2>2, OutputType DEF JoinNew, Reply
  <2>3. CASE JoinDone(c, ch)
    BY <1>4, <2>3, OutputType DEF JoinDone
  <2> QED
    BY <1>4, <1>7, <2>1, <2>2, <2>3 DEF Join, JoinExisting
<1>8. ASSUME NEW c \in Client, NEW ch \in ChannelName, NEW n, Invite(c, n, ch)
      PROVE  OutputTyped'
  <2>1. CASE \E code \in Code : Refuse(ch, c, code)
    BY <2>1, RefuseType
  <2>2. ASSUME NEW t \in Client, InviteDone(t, ch) PROVE OutputTyped'
    BY <1>4, <2>2, OutputType DEF InviteDone
  <2> QED
    BY <1>4, <1>8, <2>1, <2>2 DEF Invite
<1>9. ASSUME NEW c \in Client, NEW ch \in ChannelName, NEW n, NEW comment,
             Kick(c, ch, n, comment)
      PROVE  OutputTyped'
  <2>1. CASE \E code \in Code : Refuse(ch, c, code)
    BY <2>1, RefuseType
  <2>2. CASE KickDone(c, ch, n)
    BY <1>4, <2>2, OutputType DEF KickDone
  <2>3. CASE Crash
    BY <1>1, <2>3 DEF Crash
  <2> QED
    BY <1>4, <1>9, <2>1, <2>2, <2>3 DEF Kick
<1>10. ASSUME NEW c \in Client, NEW ch \in ChannelName, Mode(c, ch)
       PROVE  OutputTyped'
  <2>1. CASE \E code \in Code : Refuse(ch, c, code)
    BY <2>1, RefuseType
  <2>2. ASSUME NEW line, ModeDone(c, ch, line) PROVE OutputTyped'
    BY <1>4, <2>2, OutputType DEF ModeDone
  <2>6. ASSUME NEW code \in Rejections(ch), ModeStopped(c, ch, code) PROVE OutputTyped'
    <3>1. code \in Code
      BY DEF Rejections, Rejection, Code
    <3> QED
      BY <2>6, <3>1, OutputType DEF ModeStopped, Reply
  <2>3. CASE Crash
    BY <1>1, <2>3 DEF Crash
  <2>4. CASE ModeRefused(c, ch)
    BY <1>4, <2>1, <2>4, OutputType DEF ModeRefused
  <2>5. CASE ModeList(c, ch)
    BY <1>4, <2>1, <2>3, <2>5 DEF ModeList
  <2> QED
    BY <1>4, <1>10, <2>2, <2>3, <2>4, <2>5, <2>6 DEF Mode, ModeLine
<1>11. CASE ChannelCommand
  BY <1>3, <1>5, <1>6, <1>7, <1>8, <1>9, <1>10, <1>11 DEF ChannelCommand
<1> QED
  BY <1>0, <1>1, <1>2, <1>11, QueryType DEF ChannelsNext, allVars, outputVars

\* Every step keeps the channels in their types.
LEMMA ChannelsTypeStep ==
  ASSUME TypeOK, ChannelsTypeOK, [ChannelsNext]_allVars
  PROVE  ChannelsTypeOK'
<1> DEFINE ListsTyped == op \in [ChannelName -> Seq(Client)]
                         /\ invited \in [ChannelName -> Seq(Client)]
           FlagsTyped == /\ channels \in SUBSET ChannelName
                         /\ inviteOnly \in [ChannelName -> BOOLEAN]
                         /\ key \in [ChannelName -> Key \cup {NoKey}]
                         /\ limit \in [ChannelName -> Nat]
                         /\ topicSet \in [ChannelName -> BOOLEAN]
                         /\ setmodes \in [ChannelName -> SUBSET ({TRUE} \X Flag)]
<1>0. ListsTyped /\ FlagsTyped /\ live \subseteq Client
  BY DEF ChannelsTypeOK, TypeOK
<1>1. ASSUME Idle PROVE (ListsTyped /\ FlagsTyped)'
  BY <1>0, <1>1 DEF Idle, channelVars
<1>2. ASSUME NEW c \in live, NEW ch \in ChannelName, Founded(c, ch)
      PROVE  (ListsTyped /\ FlagsTyped)'
  <2>1. <<c>> \in Seq(Client) /\ <<>> \in Seq(Client)
    BY <1>0
  <2>2. ListsTyped'
    BY <1>0, <1>2, <2>1 DEF Founded, JoinNew
  <2>3. PICK k \in Key \cup {NoKey} : JoinNew(c, ch, k)
    BY <1>2 DEF Founded
  <2>4. key' \in [ChannelName -> Key \cup {NoKey}]
    <3>1. key' = [key EXCEPT ![ch] = k]
      BY <2>3 DEF JoinNew
    <3> QED
      BY <1>0, <3>1, ExceptType, Zenon
  <2>5. inviteOnly' \in [ChannelName -> BOOLEAN]
    <3>1. inviteOnly' = [inviteOnly EXCEPT ![ch] = ch \in PlusChannel]
      BY <2>3 DEF JoinNew
    <3>2. (ch \in PlusChannel) \in BOOLEAN
      OBVIOUS
    <3> QED
      BY <1>0, <3>1, <3>2, ExceptType, Zenon
  <2>6. /\ channels' = channels \cup {ch}
        /\ UNCHANGED <<limit, topicSet, setmodes>>
    BY <2>3 DEF JoinNew
  <2>7. channels' \subseteq ChannelName
    BY <1>0, <2>6
  <2> QED
    BY <1>0, <2>2, <2>4, <2>5, <2>6, <2>7
<1>3. ASSUME NEW c \in live, NEW ch \in ChannelName, Joined(c, ch)
      PROVE  (ListsTyped /\ FlagsTyped)'
  <2>1. Admitted(ch, c) \in Seq(Client)
    BY <1>0, PushNamedList DEF Admitted
  <2> QED
    BY <1>0, <1>3, <2>1 DEF Joined, JoinDone, flagVars
<1>4. ASSUME NEW c \in live, NEW t \in live, NEW ch \in ChannelName, Invited(c, t, ch)
      PROVE  (ListsTyped /\ FlagsTyped)'
  BY <1>0, <1>4, AppendList DEF Invited, InviteDone, flagVars
<1>5. ASSUME NEW c \in live, NEW n \in Nick, NEW ch \in ChannelName, Kicked(c, ch, n)
      PROVE  (ListsTyped /\ FlagsTyped)'
  BY <1>0, <1>5, EraseNamedList DEF Kicked, KickDone, flagVars
<1>6. ASSUME NEW c \in live, NEW ch \in ChannelName, ModeMade(c, ch)
      PROVE  (ListsTyped /\ FlagsTyped)'
  <2>1. \A before \in Seq(Client) : \A after :
          OneOp(ch, before, after) => after \in Seq(Client)
    BY <1>0, OpsAfterMode
  <2>2. invited' = invited /\ channels' = channels
    BY <1>6 DEF ModeMade
  <2>3. op' \in [ChannelName -> Seq(Client)]
    <3>1. PICK list : Reaches(ch, op[ch], list) /\ op' = [op EXCEPT ![ch] = list]
      BY <1>6 DEF ModeMade
    <3>2. list \in Seq(Client)
      BY <1>0, <2>1, <3>1 DEF Reaches
    <3> QED
      BY <1>0, <3>1, <3>2, ExceptType
  <2>4. inviteOnly' \in [ChannelName -> BOOLEAN] /\ topicSet' \in [ChannelName -> BOOLEAN]
    BY <1>0, <1>6 DEF ModeMade
  <2>5. key' \in [ChannelName -> Key \cup {NoKey}]
    <3>1. PICK k \in Key \cup {NoKey} : key' = [key EXCEPT ![ch] = k]
      BY <1>6 DEF ModeMade
    <3> QED
      BY <1>0, <3>1, ExceptType, Zenon
  <2>6. limit' \in [ChannelName -> Nat]
    BY <1>0, <1>6 DEF ModeMade
  <2>7. setmodes' \in [ChannelName -> SUBSET ({TRUE} \X Flag)]
    <3>1. PICK made \in SUBSET ({TRUE} \X Flag) : setmodes' = [setmodes EXCEPT ![ch] = made]
      BY <1>6 DEF ModeMade
    <3> QED
      BY <1>0, <3>1, ExceptType, Zenon
  <2> QED
    BY <1>0, <2>2, <2>3, <2>4, <2>5, <2>6, <2>7
<1>7. (ListsTyped /\ FlagsTyped)'
  BY <1>1, <1>2, <1>3, <1>4, <1>5, <1>6, StepKinds DEF ChannelChange
<1> QED
  BY <1>7, OutputStep DEF ChannelsTypeOK, OutputTyped

\* Every step of the composed system is a step of the client table: commands
\* on channels leave it alone, or crash like a command with a missing token.
LEMMA ChannelsStepIsClientStep ==
  AllTyped /\ [ChannelsNext]_allVars => [Next]_clientVars
BY StepKinds DEF AllTyped, Idle

LEMMA AllTypedStep == AllTyped /\ [ChannelsNext]_allVars => AllTyped'
BY ChannelsStepIsClientStep, TypeStep, ChannelsTypeStep DEF AllTyped

\* The initial states are typed.
LEMMA InitTyped == Init /\ ChannelsInit => AllTyped
<1> SUFFICES ASSUME Init, ChannelsInit PROVE AllTyped
  OBVIOUS
<1>1. TypeOK
  BY NamesAssumption DEF Init, TypeOK
<1>2. <<>> \in Seq(Client)
  OBVIOUS
<1>3. ChannelsTypeOK
  BY <1>2 DEF ChannelsInit, ChannelsTypeOK
<1> QED
  BY <1>1, <1>3 DEF AllTyped

\* Type correctness of clients and channels together.
THEOREM ChannelsTypeCorrect == ChannelsSpec => [](TypeOK /\ ChannelsTypeOK)
BY InitTyped, AllTypedStep, PTL DEF ChannelsSpec, AllTyped

\* With channels the client table still does only what ClientTable says, so
\* that everything proved of Spec holds of ChannelsSpec.
THEOREM ChannelsKeepClientTable == ChannelsSpec => Spec
BY InitTyped, AllTypedStep, ChannelsStepIsClientStep, PTL DEF ChannelsSpec, Spec

\* Nicknames stay unique among connected clients whatever happens in channels.
THEOREM NicknamesAreUniqueInChannels == ChannelsSpec => []NickUnique
BY ChannelsKeepClientTable, NicknamesAreUnique, PTL

\* Nor does anything that happens in channels make the table less of a
\* directory.
THEOREM ChannelsKeepDirectory == ChannelsSpec => ImplementsDirectory
BY ChannelsKeepClientTable, TableIsDirectory, PTL

-----------------------------------------------------------------------------
(* No duplicates.                                                          *)

\* Every admission searches first, every erasure removes one entry: the lists
\* stay free of duplicates.
LEMMA ListsStep ==
  AllTyped /\ ListsHaveNoDuplicates /\ [ChannelsNext]_allVars => ListsHaveNoDuplicates'
<1> SUFFICES ASSUME AllTyped, ListsHaveNoDuplicates, [ChannelsNext]_allVars,
                    NEW d \in ChannelName
             PROVE  ListedOnce(op[d])' /\ ListedOnce(invited[d])'
  BY DEF ListsHaveNoDuplicates
<1>0. /\ op \in [ChannelName -> Seq(Client)] /\ invited \in [ChannelName -> Seq(Client)]
      /\ live \subseteq Client
      /\ ListedOnce(op[d]) /\ ListedOnce(invited[d])
  BY DEF AllTyped, TypeOK, ChannelsTypeOK, ListsHaveNoDuplicates
<1> DEFINE Kept == ListedOnce(op'[d]) /\ ListedOnce(invited'[d])
<1>1. ASSUME Idle PROVE Kept
  BY <1>0, <1>1 DEF Idle, channelVars
<1>2. ASSUME NEW c \in live, NEW ch \in ChannelName, Founded(c, ch) PROVE Kept
  <2>1. ListedOnce(<<>>) /\ ListedOnce(<<c>>)
    BY DEF ListedOnce, IsInjective
  <2> QED
    BY <1>0, <1>2, <2>1 DEF Founded, JoinNew
<1>3. ASSUME NEW c \in live, NEW ch \in ChannelName, Joined(c, ch) PROVE Kept
  <2>1. d = ch => ListedOnce(Admitted(ch, c))
    BY <1>0, PushNamedList DEF Admitted
  <2> QED
    BY <1>0, <1>3, <2>1 DEF Joined, JoinDone
<1>4. ASSUME NEW c \in live, NEW t \in live, NEW ch \in ChannelName, Invited(c, t, ch)
      PROVE  Kept
  <2>1. t \notin Range(invited[ch])
    BY <1>0, <1>4, NotNamed DEF Invited, IsInvited
  <2>2. d = ch => ListedOnce(Append(invited[ch], t))
    BY <1>0, <2>1, AppendList
  <2> QED
    BY <1>0, <1>4, <2>2 DEF Invited, InviteDone
<1>5. ASSUME NEW c \in live, NEW n \in Nick, NEW ch \in ChannelName, Kicked(c, ch, n)
      PROVE  Kept
  BY <1>0, <1>5, EraseNamedList DEF Kicked, KickDone
<1>6. ASSUME NEW c \in live, NEW ch \in ChannelName, ModeMade(c, ch) PROVE Kept
  <2>1. \A before \in Seq(Client) : \A after :
          OneOp(ch, before, after) =>
            after \in Seq(Client) /\ (ListedOnce(before) => ListedOnce(after))
    BY <1>0, OpsAfterMode
  <2>2. PICK list : Reaches(ch, op[ch], list) /\ op' = [op EXCEPT ![ch] = list]
    BY <1>6 DEF ModeMade
  <2> DEFINE S == {before \in Seq(Client) : ListedOnce(before)}
  <2>3. \A before \in S : \A after : OneOp(ch, before, after) => after \in S
    BY <2>1
  <2> HIDE DEF S
  <2>4. op[ch] \in S => list \in S
    BY <2>2, <2>3 DEF Reaches
  <2>5. d = ch => ListedOnce(list)
    BY <1>0, <2>4 DEF S
  <2> QED
    BY <1>0, <1>6, <2>2, <2>5 DEF ModeMade
<1> QED
  BY <1>1, <1>2, <1>3, <1>4, <1>5, <1>6, StepKinds DEF ChannelChange, AllTyped

\* No client is ever listed twice in a channel, disconnections included.
THEOREM NobodyIsListedTwice == ChannelsSpec => []ListsHaveNoDuplicates
<1>1. ChannelsInit => ListsHaveNoDuplicates
  BY DEF ChannelsInit, ListsHaveNoDuplicates, ListedOnce, IsInjective
<1> QED
  BY <1>1, InitTyped, AllTypedStep, ListsStep, PTL DEF ChannelsSpec

-----------------------------------------------------------------------------
(* What a step may do to a channel.                                        *)

\* A list is a prefix of itself and of what it becomes by Append.
LEMMA PrefixFacts ==
  ASSUME NEW S, NEW list \in Seq(S), NEW c \in S
  PROVE  IsPrefix(list, list) /\ IsPrefix(list, Append(list, c))
<1>1. Len(list) \in Nat
  OBVIOUS
<1> DEFINE more == Append(list, c)
<1>2. more \in Seq(S) /\ Len(more) = Len(list) + 1 /\ \A i \in 1..Len(list) : more[i] = list[i]
  BY AppendProperties
<1> HIDE DEF more
<1>3. SubSeq(list, 1, Len(list)) = list
  BY SubSeqFull
<1>4. /\ SubSeq(more, 1, Len(list)) \in Seq(S)
      /\ Len(SubSeq(more, 1, Len(list))) = Len(list)
      /\ \A i \in 1..Len(list) : SubSeq(more, 1, Len(list))[i] = list[i]
  <2>1. \A i \in 1..Len(list) : more[i] \in S
    BY <1>1, <1>2, ElementOfSeq
  <2> QED
    BY <1>1, <1>2, <2>1, SubSeqProperties
<1>5. SubSeq(more, 1, Len(list)) = list
  BY <1>4, SeqEqual
<1> QED
  BY <1>1, <1>2, <1>3, <1>5 DEF IsPrefix, more

Frozen(ch) ==
  /\ op'[ch] = op[ch]
  /\ UNCHANGED <<inviteOnly[ch], key[ch], limit[ch], topicSet[ch], setmodes[ch]>>
  /\ IsPrefix(invited[ch], invited'[ch])

\* While nobody bears an operator's name nobody passes for one.
LEMMA NoOperator ==
  ASSUME NEW ch, NEW c \in live, Abandoned(ch) PROVE ~IsOperator(ch, c)
BY DEF IsOperator, Named, Abandoned, Range

\* A step leaves a known channel that is abandoned as it is, except for a
\* member that joins at the end of the list.
LEMMA FrozenStep ==
  ASSUME AllTyped, [ChannelsNext]_allVars, NEW d \in channels, Abandoned(d)
  PROVE  Frozen(d)
<1>0. /\ op \in [ChannelName -> Seq(Client)] /\ invited \in [ChannelName -> Seq(Client)]
      /\ inviteOnly \in [ChannelName -> BOOLEAN]
      /\ key \in [ChannelName -> Key \cup {NoKey}]
      /\ limit \in [ChannelName -> Nat]
      /\ topicSet \in [ChannelName -> BOOLEAN]
      /\ setmodes \in [ChannelName -> SUBSET ({TRUE} \X Flag)]
      /\ live \subseteq Client /\ d \in ChannelName
  BY DEF AllTyped, TypeOK, ChannelsTypeOK
<1> HIDE DEF Frozen
\* A step in another channel, or in none.
<1>1. ASSUME op'[d] = op[d], invited'[d] = invited[d],
             UNCHANGED <<inviteOnly[d], key[d], limit[d], topicSet[d], setmodes[d]>>
      PROVE  Frozen(d)
  <2>1. IsPrefix(invited[d], invited[d])
    <3>1. CASE invited[d] = <<>>
      BY <3>1 DEF IsPrefix
    <3>2. CASE invited[d] # <<>>
      BY <1>0, <3>2, PrefixFacts
    <3> QED
      BY <3>1, <3>2
  <2> QED
    BY <1>1, <2>1 DEF Frozen
<1>2. ASSUME Idle PROVE Frozen(d)
  BY <1>1, <1>2 DEF Idle, channelVars
<1>3. ASSUME NEW c \in live, NEW ch \in ChannelName, Founded(c, ch) PROVE Frozen(d)
  <2>1. ch # d
    BY <1>3 DEF Founded, JoinNew
  <2> QED
    BY <1>0, <1>1, <1>3, <2>1 DEF Founded, JoinNew
<1>4. ASSUME NEW c \in live, NEW ch \in ChannelName, Joined(c, ch) PROVE Frozen(d)
  <2>1. op' = op /\ UNCHANGED flagVars /\ invited' = [invited EXCEPT ![ch] = Admitted(ch, c)]
    BY <1>4 DEF Joined, JoinDone
  <2>2. invited'[d] = invited[d] \/ invited'[d] = Append(invited[d], c)
    BY <1>0, <2>1 DEF Admitted, PushNamed
  <2>3. CASE invited'[d] = Append(invited[d], c)
    <3>1. IsPrefix(invited[d], invited'[d])
      BY <1>0, <2>3, PrefixFacts
    <3>2. /\ op'[d] = op[d]
          /\ UNCHANGED <<inviteOnly[d], key[d], limit[d], topicSet[d], setmodes[d]>>
      BY <2>1 DEF flagVars
    <3> QED
      BY <3>1, <3>2 DEF Frozen
  <2> QED
    BY <1>1, <2>1, <2>2, <2>3 DEF flagVars
<1>5. ASSUME NEW c \in live, NEW ch \in ChannelName,
             \/ \E t \in live : Invited(c, t, ch)
             \/ \E n \in Nick : Kicked(c, ch, n)
      PROVE  Frozen(d)
  <2>1. ch # d
    BY <1>5, NoOperator DEF Invited, Kicked
  <2> QED
    BY <1>0, <1>1, <1>5, <2>1 DEF Invited, InviteDone, Kicked, KickDone, flagVars
<1>6. ASSUME NEW c \in live, NEW ch \in ChannelName, ModeMade(c, ch) PROVE Frozen(d)
  <2>1. ch # d
    BY <1>6, NoOperator DEF ModeMade, ModeAllowed
  <2>2. /\ op'[d] = op[d] /\ invited'[d] = invited[d]
        /\ inviteOnly'[d] = inviteOnly[d] /\ key'[d] = key[d]
        /\ limit'[d] = limit[d] /\ topicSet'[d] = topicSet[d]
        /\ setmodes'[d] = setmodes[d]
    BY <1>0, <1>6, <2>1 DEF ModeMade
  <2> QED
    BY <1>1, <2>2
<1> QED
  BY <1>2, <1>3, <1>4, <1>5, <1>6, StepKinds DEF ChannelChange, AllTyped

\* A channel is fixed while nobody bears an operator's name, also with dangling
\* pointers and reused addresses: nobody else can act for an operator.
THEOREM AbandonedAreFrozen == ChannelsSpec => AbandonedChannelIsFrozen
<1>1. AllTyped /\ [ChannelsNext]_allVars =>
        [\A ch \in channels : Abandoned(ch) => Frozen(ch)]_allVars
  BY FrozenStep
<1> QED
  BY <1>1, InitTyped, AllTypedStep, PTL
     DEF ChannelsSpec, AbandonedChannelIsFrozen, Frozen

-----------------------------------------------------------------------------

\* RemovalIsAnnounced needs one more fact: a channel that does not exist yet
\* has nobody on its lists for its founder to replace.
UnknownIsEmpty == \A ch \in ChannelName \ channels : invited[ch] = <<>>

\* Only founding a channel puts anything on its lists.
LEMMA UnknownStep ==
  AllTyped /\ UnknownIsEmpty /\ [ChannelsNext]_allVars => UnknownIsEmpty'
<1> SUFFICES ASSUME AllTyped, UnknownIsEmpty, [ChannelsNext]_allVars,
                    NEW d \in ChannelName, d \notin channels'
             PROVE  invited'[d] = <<>>
  BY DEF UnknownIsEmpty
<1>0. channels \subseteq ChannelName /\ invited \in [ChannelName -> Seq(Client)]
  BY DEF AllTyped, ChannelsTypeOK
<1>1. ASSUME Idle PROVE invited'[d] = <<>>
  BY <1>1 DEF Idle, channelVars, UnknownIsEmpty
<1>2. ASSUME NEW c \in live, NEW ch \in ChannelName,
             \/ Founded(c, ch) \/ Joined(c, ch)
             \/ \E t \in live : Invited(c, t, ch)
             \/ \E n \in Nick : Kicked(c, ch, n)
             \/ ModeMade(c, ch)
      PROVE  invited'[d] = <<>>
  <2>1. ch \in channels' /\ d \notin channels
    BY <1>2 DEF Founded, JoinNew, Joined, JoinDone, Invited, InviteDone, Kicked, KickDone,
                ModeMade, ModeAllowed
  <2>2. invited'[d] = invited[d]
    BY <1>0, <1>2, <2>1
       DEF Founded, JoinNew, Joined, JoinDone, Invited, InviteDone, Kicked, KickDone, ModeMade
  <2> QED
    BY <2>1, <2>2 DEF UnknownIsEmpty
<1> QED
  BY <1>1, <1>2, StepKinds DEF ChannelChange, AllTyped

\* Members disappear from a list only by KICK, and with a notice to everyone.
LEMMA RemovalStep ==
  ASSUME AllTyped, UnknownIsEmpty, [ChannelsNext]_allVars, NEW d \in ChannelName,
         NEW m \in Client, m \in Members(d) \ Members(d)'
  PROVE  subject' = d /\ \A e \in Members(d) : "KICK" \in queued'[e]
<1> DEFINE Announced == subject' = d /\ \A e \in Members(d) : "KICK" \in queued'[e]
<1>0. /\ invited \in [ChannelName -> Seq(Client)] /\ live \subseteq Client
      /\ invited[d] \in Seq(Client)
  BY DEF AllTyped, TypeOK, ChannelsTypeOK
<1>1. invited'[d] # invited[d]
  BY DEF Members
<1>2. ASSUME Idle PROVE FALSE
  BY <1>1, <1>2 DEF Idle, channelVars
<1>3. ASSUME NEW c \in live, NEW ch \in ChannelName, Founded(c, ch) PROVE FALSE
  <2>1. ch = d
    BY <1>0, <1>1, <1>3 DEF Founded, JoinNew
  <2>2. invited[d] = <<>>
    BY <1>3, <2>1 DEF Founded, JoinNew, UnknownIsEmpty
  <2> QED
    BY <2>2 DEF Members, Range
<1>4. ASSUME NEW c \in live, NEW ch \in ChannelName, Joined(c, ch) PROVE FALSE
  <2>1. invited' = [invited EXCEPT ![ch] = Admitted(ch, c)]
    BY <1>4 DEF Joined, JoinDone
  <2>2. ch = d /\ invited'[d] = PushNamed(invited[d], nick, c)
    BY <1>0, <1>1, <2>1 DEF Admitted
  <2>3. Range(invited[d]) \subseteq Range(PushNamed(invited[d], nick, c))
    BY <1>0, PushNamedList
  <2> QED
    BY <2>2, <2>3 DEF Members
<1>5. ASSUME NEW c \in live, NEW t \in live, NEW ch \in ChannelName, Invited(c, t, ch)
      PROVE  FALSE
  <2>1. invited' = [invited EXCEPT ![ch] = Append(@, t)]
    BY <1>5 DEF Invited, InviteDone
  <2>2. invited'[d] = Append(invited[d], t)
    BY <1>0, <1>1, <2>1
  <2>3. Range(Append(invited[d], t)) = Range(invited[d]) \cup {t}
    BY <1>0, AppendList
  <2> QED
    BY <2>2, <2>3 DEF Members
<1>6. ASSUME NEW c \in live, NEW n \in Nick, NEW ch \in ChannelName, Kicked(c, ch, n)
      PROVE  Announced
  <2>1. invited' = [invited EXCEPT ![ch] = EraseNamed(@, nick, n)]
    BY <1>6 DEF Kicked, KickDone
  <2>2. ch = d
    BY <1>0, <1>1, <2>1
  <2>3. Members(d) \subseteq Client
    BY <1>0, RangeOfSeq DEF Members
  <2> QED
    BY <1>6, <2>2, <2>3 DEF Kicked, KickDone, Output
<1>7. ASSUME NEW c \in live, NEW ch \in ChannelName, ModeMade(c, ch) PROVE FALSE
  BY <1>1, <1>7 DEF ModeMade
<1> QED
  BY <1>2, <1>3, <1>4, <1>5, <1>6, <1>7, StepKinds DEF ChannelChange, AllTyped

\* Nobody loses its place in a channel without being told.
THEOREM RemovalsAreAnnounced == ChannelsSpec => RemovalIsAnnounced
<1> DEFINE Told == \A ch \in ChannelName, c \in Client :
                     c \in Members(ch) \ Members(ch)' =>
                       subject' = ch /\ \A d \in Members(ch) : "KICK" \in queued'[d]
<1>1. AllTyped /\ UnknownIsEmpty /\ [ChannelsNext]_allVars => [Told]_allVars
  BY RemovalStep
<1>2. ChannelsInit => UnknownIsEmpty
  BY DEF ChannelsInit, UnknownIsEmpty
<1> QED
  BY <1>1, <1>2, InitTyped, AllTypedStep, UnknownStep, PTL
     DEF ChannelsSpec, RemovalIsAnnounced

-----------------------------------------------------------------------------

Reported(ch) ==
  /\ subject' = ch
  /\ \E o \in live : IsOperator(ch, o) /\ IsInvited(ch, nick[o])
  /\ (\A d \in Members(ch) : "MODE" \in queued'[d]) \/ OperatorIsTold(ch)

ModesChange(d) ==
  <<op[d], inviteOnly[d], key[d], limit[d], topicSet[d]>>'
    # <<op[d], inviteOnly[d], key[d], limit[d], topicSet[d]>>

\* Only MODE changes the modes and operators of a known channel.
LEMMA OnlyMode ==
  ASSUME AllTyped, [ChannelsNext]_allVars, NEW d \in channels, ModesChange(d)
  PROVE  \E c \in live : ModeMade(c, d)
<1>0. /\ op \in [ChannelName -> Seq(Client)]
      /\ inviteOnly \in [ChannelName -> BOOLEAN]
      /\ key \in [ChannelName -> Key \cup {NoKey}]
      /\ limit \in [ChannelName -> Nat]
      /\ topicSet \in [ChannelName -> BOOLEAN]
      /\ d \in ChannelName
  BY DEF AllTyped, ChannelsTypeOK
<1>1. ASSUME UNCHANGED <<op[d], inviteOnly[d], key[d], limit[d], topicSet[d]>> PROVE FALSE
  BY <1>1 DEF ModesChange
<1>2. ASSUME Idle PROVE FALSE
  BY <1>1, <1>2 DEF Idle, channelVars
<1>3. ASSUME NEW c \in live, NEW ch \in ChannelName, Founded(c, ch) PROVE FALSE
  <2>1. ch # d
    BY <1>3 DEF Founded, JoinNew
  <2> QED
    BY <1>0, <1>1, <1>3, <2>1 DEF Founded, JoinNew
<1>4. ASSUME NEW c \in live, NEW ch \in ChannelName,
             \/ Joined(c, ch)
             \/ \E t \in live : Invited(c, t, ch)
             \/ \E n \in Nick : Kicked(c, ch, n)
      PROVE  FALSE
  BY <1>1, <1>4 DEF Joined, JoinDone, Invited, InviteDone, Kicked, KickDone, flagVars
<1>5. ASSUME NEW c \in live, NEW ch \in ChannelName, ModeMade(c, ch) PROVE ch = d
  <2>1. ASSUME ch # d
        PROVE  /\ op'[d] = op[d] /\ inviteOnly'[d] = inviteOnly[d] /\ key'[d] = key[d]
               /\ limit'[d] = limit[d] /\ topicSet'[d] = topicSet[d]
    BY <1>0, <1>5, <2>1 DEF ModeMade
  <2> QED
    BY <1>1, <2>1
<1> QED
  BY <1>2, <1>3, <1>4, <1>5, StepKinds DEF ChannelChange, AllTyped

\* And it reports them.
LEMMA ReportedStep ==
  ASSUME AllTyped, [ChannelsNext]_allVars, NEW d \in channels, ModesChange(d)
  PROVE  Reported(d)
BY OnlyMode DEF ModeMade, ModeAllowed, Reported, OperatorIsTold

\* No change of modes or operators goes unreported: the members see it, or the
\* operator who made it gets an error for the rest of its line.
THEOREM ModeChangesAreReported == ChannelsSpec => ModeChangeIsReported
<1> DEFINE Told == \A ch \in channels :
       <<op[ch], inviteOnly[ch], key[ch], limit[ch], topicSet[ch]>>'
         # <<op[ch], inviteOnly[ch], key[ch], limit[ch], topicSet[ch]>> =>
         Reported(ch)
<1>1. AllTyped /\ [ChannelsNext]_allVars => [Told]_allVars
  BY ReportedStep DEF ModesChange
<1> QED
  BY <1>1, InitTyped, AllTypedStep, PTL DEF ChannelsSpec, ModeChangeIsReported, Reported

-----------------------------------------------------------------------------

Accounted(ch, f) ==
  /\ SwitchesOn(ch, f) =>
       \/ IsShown(ch, f)'
       \/ ch \notin channels /\ f \in FoundingFlags(ch)
       \/ OperatorIsTold(ch)
  /\ IsShown(ch, f) => IsShown(ch, f)'

\* What a step does not touch it does not switch on.
LEMMA NothingSwitched ==
  ASSUME NEW ch, NEW f,
         UNCHANGED <<op[ch], inviteOnly[ch], key[ch], limit[ch], topicSet[ch], setmodes[ch]>>
  PROVE  Accounted(ch, f)
BY DEF Accounted, SwitchesOn, IsShown

\* MODE keeps the list, JOIN switches on what a channel is founded with, and
\* nothing else switches anything on.
LEMMA ListedStep ==
  ASSUME AllTyped, [ChannelsNext]_allVars, NEW d \in ChannelName, NEW f \in Flag
  PROVE  Accounted(d, f)
<1>0. /\ op \in [ChannelName -> Seq(Client)]
      /\ inviteOnly \in [ChannelName -> BOOLEAN]
      /\ key \in [ChannelName -> Key \cup {NoKey}]
      /\ limit \in [ChannelName -> Nat]
      /\ topicSet \in [ChannelName -> BOOLEAN]
      /\ setmodes \in [ChannelName -> SUBSET ({TRUE} \X Flag)]
  BY DEF AllTyped, ChannelsTypeOK
<1>1. ASSUME Idle PROVE Accounted(d, f)
  BY <1>1, NothingSwitched DEF Idle, channelVars
<1>2. ASSUME NEW c \in live, NEW ch \in ChannelName, Founded(c, ch) PROVE Accounted(d, f)
  <2>1. PICK k \in Key \cup {NoKey} : JoinNew(c, ch, k)
    BY <1>2 DEF Founded
  <2>2. CASE ch # d
    <3>1. UNCHANGED <<op[d], inviteOnly[d], key[d], limit[d], topicSet[d], setmodes[d]>>
      BY <1>0, <2>1, <2>2 DEF JoinNew
    <3> QED
      BY <3>1, NothingSwitched
  <2>3. CASE ch = d
    <3>1. /\ d \notin channels /\ UNCHANGED <<limit, topicSet, setmodes>>
          /\ inviteOnly'[d] <=> d \in PlusChannel
      BY <1>0, <2>1, <2>3 DEF JoinNew
    <3> QED
      BY <3>1 DEF Accounted, SwitchesOn, IsShown, FoundingFlags, Flag
  <2> QED
    BY <2>2, <2>3
<1>3. ASSUME NEW c \in live, NEW ch \in ChannelName,
             \/ Joined(c, ch)
             \/ \E t \in live : Invited(c, t, ch)
             \/ \E n \in Nick : Kicked(c, ch, n)
      PROVE  Accounted(d, f)
  <2>1. UNCHANGED <<op, flagVars>>
    BY <1>3 DEF Joined, JoinDone, Invited, InviteDone, Kicked, KickDone
  <2> QED
    BY <2>1, NothingSwitched DEF flagVars
<1>4. ASSUME NEW c \in live, NEW ch \in ChannelName, ModeMade(c, ch) PROVE Accounted(d, f)
  <2>1. CASE ch # d
    <3>1. UNCHANGED <<op[d], inviteOnly[d], key[d], limit[d], topicSet[d], setmodes[d]>>
      BY <1>0, <1>4, <2>1 DEF ModeMade
    <3> QED
      BY <3>1, NothingSwitched
  <2>2. CASE ch = d
    <3>1. setmodes[d] \subseteq setmodes'[d]
      BY <1>0, <1>4, <2>2 DEF ModeMade
    <3>2. SwitchesOn(d, f) => IsShown(d, f)' \/ OperatorIsTold(d)
      BY <1>4, <2>2 DEF ModeMade, ModeAllowed, OperatorIsTold, IsShown
    <3> QED
      BY <3>1, <3>2 DEF Accounted, IsShown
  <2> QED
    BY <2>1, <2>2
<1> QED
  BY <1>1, <1>2, <1>3, <1>4, StepKinds DEF ChannelChange, AllTyped

\* What MODE lists never misses a mode that came into force by a line carried
\* out to its end, though always what a channel was founded with.
THEOREM ModesSetAreListed == ChannelsSpec => ModeSetIsListed
<1>1. AllTyped /\ [ChannelsNext]_allVars => [ListKeepsUp]_allVars
  BY ListedStep DEF ListKeepsUp, Accounted
<1> QED
  BY <1>1, InitTyped, AllTypedStep, PTL DEF ChannelsSpec, ModeSetIsListed

-----------------------------------------------------------------------------

Admissible(ch, c) ==
  \/ \E o \in live, n \in Nick : IsOperator(ch, o) /\ Invite(o, n, ch) /\ nick[c] = n
  \/ /\ \E k \in Key \cup {NoKey} : Join(c, ch, k) /\ key[ch] \in {k, NoKey}
     /\ ~inviteOnly[ch]
     /\ limit[ch] = 0 \/ Len(invited'[ch]) <= limit[ch]

\* Only JOIN and INVITE add members, each under its conditions.
LEMMA AdmissionStep ==
  ASSUME AllTyped, [ChannelsNext]_allVars, NEW d \in channels,
         NEW m \in Client, m \in Members(d)' \ Members(d)
  PROVE  Admissible(d, m)
<1>0. /\ invited \in [ChannelName -> Seq(Client)] /\ live \subseteq Client
      /\ d \in ChannelName /\ invited[d] \in Seq(Client)
      /\ limit[d] \in Nat
  BY DEF AllTyped, TypeOK, ChannelsTypeOK
<1>1. invited'[d] # invited[d]
  BY DEF Members
<1>2. ASSUME Idle PROVE FALSE
  BY <1>1, <1>2 DEF Idle, channelVars
<1>3. ASSUME NEW c \in live, NEW ch \in ChannelName, Founded(c, ch) PROVE FALSE
  BY <1>0, <1>1, <1>3 DEF Founded, JoinNew
<1>4. ASSUME NEW c \in live, NEW ch \in ChannelName, Joined(c, ch) PROVE Admissible(d, m)
  <2>1. invited' = [invited EXCEPT ![ch] = Admitted(ch, c)]
    BY <1>4 DEF Joined, JoinDone
  <2>2. ch = d /\ ~inviteOnly[d] /\ invited'[d] = Append(invited[d], c)
    BY <1>0, <1>1, <2>1 DEF Admitted, PushNamed
  <2>3. /\ Range(Append(invited[d], c)) = Range(invited[d]) \cup {c}
        /\ Len(Append(invited[d], c)) = Len(invited[d]) + 1
    BY <1>0, AppendList
  <2>4. c = m
    BY <2>2, <2>3 DEF Members
  <2>5. limit[d] = 0 \/ Len(invited'[d]) <= limit[d]
    <3>1. limit[d] = 0 \/ ~(Len(invited[d]) >= limit[d])
      BY <1>4, <2>2 DEF Joined, LimitReached
    <3>2. Len(invited[d]) \in Nat
      BY <1>0
    <3> QED
      BY <1>0, <2>2, <2>3, <3>1, <3>2
  <2> QED
    BY <1>4, <2>2, <2>4, <2>5 DEF Joined, Admissible
<1>5. ASSUME NEW c \in live, NEW t \in live, NEW ch \in ChannelName, Invited(c, t, ch)
      PROVE  Admissible(d, m)
  <2>1. invited' = [invited EXCEPT ![ch] = Append(@, t)]
    BY <1>5 DEF Invited, InviteDone
  <2>2. ch = d /\ invited'[d] = Append(invited[d], t)
    BY <1>0, <1>1, <2>1
  <2>3. Range(Append(invited[d], t)) = Range(invited[d]) \cup {t}
    BY <1>0, AppendList
  <2>4. t = m
    BY <2>2, <2>3 DEF Members
  <2> QED
    BY <1>5, <2>2, <2>4 DEF Invited, Admissible
<1>6. ASSUME NEW c \in live, NEW n \in Nick, NEW ch \in ChannelName, Kicked(c, ch, n)
      PROVE  FALSE
  <2>1. invited' = [invited EXCEPT ![ch] = EraseNamed(@, nick, n)]
    BY <1>6 DEF Kicked, KickDone
  <2>2. invited'[d] = EraseNamed(invited[d], nick, n)
    BY <1>0, <1>1, <2>1
  <2>3. Range(EraseNamed(invited[d], nick, n)) \subseteq Range(invited[d])
    BY <1>0, EraseNamedList
  <2> QED
    BY <2>2, <2>3 DEF Members
<1>7. ASSUME NEW c \in live, NEW ch \in ChannelName, ModeMade(c, ch) PROVE FALSE
  BY <1>1, <1>7 DEF ModeMade
<1> QED
  BY <1>2, <1>3, <1>4, <1>5, <1>6, <1>7, StepKinds DEF ChannelChange, AllTyped

\* Nobody enters a known channel past its operators, its key, its limit or
\* its invite-only flag.
THEOREM AdmissionIsControlled == ChannelsSpec => AdmissionControl
<1> DEFINE Allowed == \A ch \in channels, c \in Client :
                        c \in Members(ch)' \ Members(ch) => Admissible(ch, c)
<1>1. AllTyped /\ [ChannelsNext]_allVars => [Allowed]_allVars
  BY AdmissionStep
<1> QED
  BY <1>1, InitTyped, AllTypedStep, PTL DEF ChannelsSpec, AdmissionControl, Admissible

-----------------------------------------------------------------------------

Welcomed(ch) ==
  /\ subject' = ch
  /\ \A d \in Members(ch)' : queued'[d] \cap {"JOIN", "INVITE"} # {}

\* Only JOIN and INVITE add members, and the notice is sent after the entry.
LEMMA ArrivalStep ==
  ASSUME AllTyped, [ChannelsNext]_allVars, NEW d \in channels,
         NEW m \in Client, m \in Members(d)' \ Members(d)
  PROVE  Welcomed(d)
<1>0. /\ invited \in [ChannelName -> Seq(Client)] /\ d \in ChannelName
      /\ invited' \in [ChannelName -> Seq(Client)]
  BY AllTypedStep DEF AllTyped, ChannelsTypeOK
<1>1. invited'[d] # invited[d]
  BY DEF Members
<1>2. \A e \in Members(d)' : e \in Client
  BY <1>0, RangeOfSeq DEF Members
<1>3. ASSUME Idle PROVE FALSE
  BY <1>1, <1>3 DEF Idle, channelVars
<1>4. ASSUME NEW c \in live, NEW ch \in ChannelName, Founded(c, ch) PROVE FALSE
  BY <1>0, <1>1, <1>4 DEF Founded, JoinNew
<1>5. ASSUME NEW c \in live, NEW ch \in ChannelName, Joined(c, ch) PROVE Welcomed(d)
  <2>1. ch = d
    BY <1>0, <1>1, <1>5 DEF Joined, JoinDone
  <2> QED
    BY <1>2, <1>5, <2>1 DEF Joined, JoinDone, Output, Welcomed
<1>6. ASSUME NEW c \in live, NEW t \in live, NEW ch \in ChannelName, Invited(c, t, ch)
      PROVE  Welcomed(d)
  <2>1. ch = d
    BY <1>0, <1>1, <1>6 DEF Invited, InviteDone
  <2> QED
    BY <1>2, <1>6, <2>1 DEF Invited, InviteDone, Output, Welcomed
<1>7. ASSUME NEW c \in live, NEW n \in Nick, NEW ch \in ChannelName, Kicked(c, ch, n)
      PROVE  FALSE
  <2>1. invited'[d] = EraseNamed(invited[d], nick, n)
    BY <1>0, <1>1, <1>7 DEF Kicked, KickDone
  <2>2. Range(EraseNamed(invited[d], nick, n)) \subseteq Range(invited[d])
    BY <1>0, EraseNamedList
  <2> QED
    BY <2>1, <2>2 DEF Members
<1>8. ASSUME NEW c \in live, NEW ch \in ChannelName, ModeMade(c, ch) PROVE FALSE
  BY <1>1, <1>8 DEF ModeMade
<1> QED
  BY <1>3, <1>4, <1>5, <1>6, <1>7, <1>8, StepKinds DEF ChannelChange, AllTyped

\* Nobody becomes a member of a known channel unnoticed by it or by the others.
THEOREM ArrivalsAreAnnounced == ChannelsSpec => ArrivalIsAnnounced
<1> DEFINE Told == \A ch \in channels, c \in Client :
                     c \in Members(ch)' \ Members(ch) => Welcomed(ch)
<1>1. AllTyped /\ [ChannelsNext]_allVars => [Told]_allVars
  BY ArrivalStep
<1> QED
  BY <1>1, InitTyped, AllTypedStep, PTL DEF ChannelsSpec, ArrivalIsAnnounced, Welcomed

-----------------------------------------------------------------------------

\* Who passes for an operator bears the name of an entry on the list.
LEMMA OperatorEntry ==
  ASSUME NEW ch, NEW c
  PROVE  /\ IsOperator(ch, c) <=> \E e \in Range(op[ch]) : nick[e] = nick[c]
         /\ IsOperator(ch, c)' <=> \E e \in Range(op'[ch]) : nick'[e] = nick'[c]
BY DEF IsOperator, Named, Range

\* Where nothing but connections and names change, an operator's name, or its
\* address, has gone to somebody else.
LEMMA AuthorityOfTable ==
  ASSUME TypeOK, Next, UNCHANGED op, NEW ch \in ChannelName, NEW c \in live',
         GainsAuthority(ch, c)
  PROVE  Inherits(ch, c)
<1>1. PICK e \in Range(op[ch]) : nick'[e] = nick'[c]
  BY OperatorEntry DEF GainsAuthority
<1>2. c \in live => nick[e] # nick[c]
  BY OperatorEntry DEF GainsAuthority
<1>3. CASE e \notin live \/ nick'[c] = NoNick
  BY <1>1, <1>3 DEF Inherits
<1>4. CASE e \in live /\ nick'[c] # NoNick
  <2>0. nick \in [Client -> Nick \cup {NoNick, Junk}] /\ live \subseteq Client
    BY DEF TypeOK
  <2>1. ASSUME NEW d \in Client, Accept(d) PROVE FALSE
    <3>1. live' = live \cup {d} /\ nick' = [nick EXCEPT ![d] = NoNick]
      BY <2>1 DEF Accept
    <3> QED
      BY <1>1, <1>2, <1>4, <2>0, <3>1
  <2>2. ASSUME NEW d \in Client, Disconnect(d) PROVE FALSE
    BY <1>1, <1>2, <2>2 DEF Disconnect
  <2>3. ASSUME NEW d \in Client, ReuseFreedMemory(d) PROVE FALSE
    <3>1. d \notin live /\ live' = live /\ nick' = [nick EXCEPT ![d] = Junk]
      BY <2>3 DEF ReuseFreedMemory
    <3> QED
      BY <1>1, <1>2, <1>4, <2>0, <3>1
  <2>4. ASSUME NEW d \in Client, NEW n \in Nick, NickCommand(d, n) PROVE FALSE
    <3>1. live' = live /\ nick' = [nick EXCEPT ![d] = n] /\ d \in live
          /\ \A b \in live : nick[b] # n
      BY <2>4 DEF NickCommand, NickInUse
    <3>2. CASE c = d
      <4>1. e = d
        BY <1>1, <1>4, <2>0, <3>1, <3>2
      <4> QED
        BY <1>2, <3>1, <3>2, <4>1
    <3>3. CASE c # d
      <4>1. nick'[c] = nick[c] /\ c \in live /\ nick[c] # n
        BY <2>0, <3>1, <3>3
      <4> QED
        BY <1>1, <1>2, <2>0, <3>1, <4>1
    <3> QED
      BY <3>2, <3>3
  <2>5. ASSUME UNCHANGED <<live, nick>> PROVE FALSE
    BY <1>1, <1>2, <2>5
  <2>6. ASSUME NEW d \in Client,
               \/ \E right \in BOOLEAN : Pass(d, right)
               \/ \E real \in BOOLEAN : User(d, real)
               \/ UserShort(d) \/ MissingToken(d)
        PROVE  UNCHANGED <<live, nick>>
    BY <2>6 DEF Pass, User, UserShort, MissingToken
  <2> QED
    BY <2>1, <2>2, <2>3, <2>4, <2>5, <2>6 DEF Next, Connections, Registration
<1> QED
  BY <1>3, <1>4

\* A line of flags appoints only who passes for a member.
LEMMA AppointedByMode ==
  ASSUME AllTyped, NEW ch \in ChannelName, NEW list, Reaches(ch, op[ch], list),
         NEW e \in Range(list), e \notin Range(op[ch])
  PROVE  e \in live /\ IsInvited(ch, nick[e])
<1> DEFINE S == {l \in Seq(Client) :
                   \A d \in Range(l) :
                     d \in Range(op[ch]) \/ (d \in live /\ IsInvited(ch, nick[d]))}
<1>1. op[ch] \in S
  BY DEF AllTyped, ChannelsTypeOK
<1>2. ASSUME NEW before \in S, NEW after, OneOp(ch, before, after) PROVE after \in S
  <2>1. before \in Seq(Client) /\ live \subseteq Client
    BY DEF AllTyped, TypeOK
  <2>2. /\ after \in Seq(Client)
        /\ \A d \in Range(after) :
             d \in Range(before) \/ (d \in live /\ IsInvited(ch, nick[d]))
    BY <1>2, <2>1, OpsAfterMode
  <2> QED
    BY <2>2
<1> HIDE DEF S
<1>3. list \in S
  BY <1>1, <1>2 DEF Reaches
<1> QED
  BY <1>3 DEF S

\* Whatever the step, there are three ways to come to pass for an operator.
LEMMA AuthorityStep ==
  ASSUME AllTyped, NickUnique, RegisteredComplete, [ChannelsNext]_allVars,
         NEW ch \in ChannelName, NEW c \in live', GainsAuthority(ch, c)
  PROVE  HasFounded(ch, c) \/ IsAppointed(ch, c) \/ Inherits(ch, c)
<1>0. op \in [ChannelName -> Seq(Client)]
  BY DEF AllTyped, ChannelsTypeOK
<1>1. PICK e \in Range(op'[ch]) : nick'[e] = nick'[c]
  BY OperatorEntry DEF GainsAuthority
<1>2. CASE Idle
  <2>1. CASE UNCHANGED clientVars
    BY <1>2, <2>1, OperatorEntry DEF Idle, channelVars, clientVars, GainsAuthority
  <2>2. CASE Next
    BY <1>2, <2>2, AuthorityOfTable DEF Idle, channelVars, AllTyped
  <2> QED
    BY <1>2, <2>1, <2>2 DEF Idle
<1>3. CASE UNCHANGED clientVars /\ ChannelChange
  <2>1. c \in live /\ nick' = nick
    BY <1>3 DEF clientVars
  <2>2. op'[ch] # op[ch]
    BY <2>1, OperatorEntry DEF GainsAuthority
  <2>3. ASSUME NEW b \in live, NEW d \in ChannelName, Founded(b, d) PROVE HasFounded(ch, c)
    <3>1. d = ch /\ op'[ch] = <<b>> /\ ch \notin channels /\ registered[b]
      BY <1>0, <2>2, <2>3 DEF Founded, JoinNew
    <3>2. e = b
      BY <3>1 DEF Range
    <3>3. nick[b] # NoNick
      BY <3>1, NamesAssumption DEF RegisteredComplete
    <3>4. b = c
      BY <1>1, <2>1, <3>2, <3>3 DEF NickUnique
    <3> QED
      BY <3>1, <3>4 DEF HasFounded
  <2>4. ASSUME NEW b \in live, NEW d \in ChannelName, ModeMade(b, d)
        PROVE  IsAppointed(ch, c)
    <3>1. PICK list : Reaches(d, op[d], list) /\ op' = [op EXCEPT ![d] = list]
      BY <2>4 DEF ModeMade
    <3>2. d = ch /\ op'[ch] = list
      BY <1>0, <2>2, <3>1
    <3>3. e \notin Range(op[ch])
      BY <1>1, <2>1, OperatorEntry DEF GainsAuthority
    <3>4. IsInvited(ch, nick[e])
      BY <1>1, <3>1, <3>2, <3>3, AppointedByMode
    <3>5. nick[e] = nick[c]
      BY <1>1, <2>1
    <3> QED
      BY <2>1, <2>4, <3>2, <3>4, <3>5 DEF ModeMade, ModeAllowed, IsAppointed
  <2>5. ASSUME NEW b \in live, NEW d \in ChannelName,
               \/ Joined(b, d)
               \/ \E t \in live : Invited(b, t, d)
               \/ \E n \in Nick : Kicked(b, d, n)
        PROVE  FALSE
    BY <2>2, <2>5 DEF Joined, JoinDone, Invited, InviteDone, Kicked, KickDone
  <2> QED
    BY <1>3, <2>3, <2>4, <2>5 DEF ChannelChange
<1> QED
  BY <1>2, <1>3, StepKinds DEF AllTyped

\* However clients come, go, change their names and are appointed and dismissed,
\* nobody comes to pass for an operator but by founding the channel, by being
\* appointed as a member, or by taking over the name or address of an operator
\* that has gone.
THEOREM AuthorityIsAccountedFor == ChannelsSpec => AuthorityIsAppointedOrInherited
<1> DEFINE Sound == AllTyped /\ NickUnique /\ RegisteredComplete
           Explained == \A ch \in ChannelName : \A c \in live' :
                          GainsAuthority(ch, c) =>
                            HasFounded(ch, c) \/ IsAppointed(ch, c) \/ Inherits(ch, c)
<1>1. Sound /\ [ChannelsNext]_allVars => [Explained]_allVars
  BY AuthorityStep
<1>2. ChannelsSpec => []RegisteredComplete
  BY ChannelsKeepClientTable, RegistrationIsComplete
<1>3. ChannelsSpec => []AllTyped
  BY InitTyped, AllTypedStep, PTL DEF ChannelsSpec
<1> QED
  BY <1>1, <1>2, <1>3, NicknamesAreUniqueInChannels, PTL
     DEF ChannelsSpec, AuthorityIsAppointedOrInherited

-----------------------------------------------------------------------------
(* The lists as sets of entries, disconnections included.                  *)

MemberSets   == [ch \in ChannelName |-> Members(ch)]
OperatorSets == [ch \in ChannelName |-> Range(op[ch])]

\* A list updated at one channel is the corresponding set updated there.
LEMMA SetsUpdate ==
  ASSUME AllTyped, NEW ch \in ChannelName, NEW list, NEW S, Range(list) = S
  PROVE  /\ invited' = [invited EXCEPT ![ch] = list] => MemberSets' = [MemberSets EXCEPT ![ch] = S]
         /\ op' = [op EXCEPT ![ch] = list] => OperatorSets' = [OperatorSets EXCEPT ![ch] = S]
<1>0. op \in [ChannelName -> Seq(Client)] /\ invited \in [ChannelName -> Seq(Client)]
  BY DEF AllTyped, ChannelsTypeOK
<1>1. ASSUME invited' = [invited EXCEPT ![ch] = list]
      PROVE  MemberSets' = [MemberSets EXCEPT ![ch] = S]
  <2>1. \A d \in ChannelName : Range(invited'[d]) = IF d = ch THEN S ELSE Range(invited[d])
    BY <1>0, <1>1
  <2> QED
    BY <2>1 DEF MemberSets, Members
<1>2. ASSUME op' = [op EXCEPT ![ch] = list]
      PROVE  OperatorSets' = [OperatorSets EXCEPT ![ch] = S]
  <2>1. \A d \in ChannelName : Range(op'[d]) = IF d = ch THEN S ELSE Range(op[d])
    BY <1>0, <1>2
  <2> QED
    BY <2>1 DEF OperatorSets
<1> QED
  BY <1>1, <1>2

\* What the two sets are, and that they change with their lists only.
LEMMA SetsAre ==
  /\ \A ch \in ChannelName : MemberSets[ch] = Members(ch) /\ OperatorSets[ch] = Range(op[ch])
  /\ invited' = invited => MemberSets' = MemberSets
  /\ op' = op => OperatorSets' = OperatorSets
BY DEF MemberSets, OperatorSets, Members

\* What the handlers ask of a list of nicknames: whether somebody passes for one
\* of its entries.
LEMMA SearchIsPassing ==
  ASSUME NEW c \in live, NEW ch \in ChannelName
  PROVE  /\ IsOperator(ch, c) <=> Entries!PassesFor(c, Range(op[ch]))
         /\ IsInvited(ch, nick[c]) <=> Entries!PassesFor(c, Members(ch))
BY DEF IsOperator, IsInvited, Named, Members, Range, Entries!PassesFor

\* The steps of ClientTable.
LEMMA TableIsWorld ==
  ASSUME TypeOK, [Next]_clientVars
  PROVE  \/ UNCHANGED <<live, nick>>
         \/ \E c \in Client :
              \/ Entries!Arrive(c) \/ Entries!Leave(c) \/ Entries!Fade(c)
              \/ \E n \in Nick : Entries!Rename(c, n)
<1>1. ASSUME NEW c \in Client, Accept(c) PROVE Entries!Arrive(c)
  BY <1>1 DEF Accept, Entries!Arrive
<1>2. ASSUME NEW c \in Client, Disconnect(c) PROVE Entries!Leave(c)
  BY <1>2 DEF Disconnect, Entries!Leave
<1>3. ASSUME NEW c \in Client, ReuseFreedMemory(c) PROVE Entries!Fade(c)
  BY <1>3, NamesAssumption DEF ReuseFreedMemory, Entries!Fade, TypeOK
<1>4. ASSUME NEW c \in Client, NEW n \in Nick, NickCommand(c, n) PROVE Entries!Rename(c, n)
  BY <1>4 DEF NickCommand, NickInUse, Entries!Rename
<1>5. ASSUME NEW c \in Client,
             \/ \E right \in BOOLEAN : Pass(c, right)
             \/ \E real \in BOOLEAN : User(c, real)
             \/ UserShort(c) \/ MissingToken(c)
      PROVE  UNCHANGED <<live, nick>>
  BY <1>5 DEF Pass, User, UserShort, MissingToken
<1>6. CASE UNCHANGED clientVars
  BY <1>6 DEF clientVars
<1> QED
  BY <1>1, <1>2, <1>3, <1>4, <1>5, <1>6 DEF Next, Connections, Registration

\* The channel steps that change a member list, one at a time.
LEMMA FoundedIsFound ==
  ASSUME AllTyped, NEW c \in live, NEW ch \in ChannelName, Founded(c, ch)
  PROVE  Entries!Found(c, ch) /\ UNCHANGED <<live, nick>>
<1>1. PICK k \in Key \cup {NoKey} : JoinNew(c, ch, k)
  BY DEF Founded
<1>2. Range(<<c>>) = {c} /\ Range(<<>>) = {}
  BY DEF Range
<1>3. OperatorSets' = [OperatorSets EXCEPT ![ch] = {c}]
  BY <1>1, <1>2, SetsUpdate DEF JoinNew
<1>4. MemberSets' = [MemberSets EXCEPT ![ch] = IF ch \in PlusChannel THEN {} ELSE {c}]
  BY <1>1, <1>2, SetsUpdate DEF JoinNew
<1> QED
  BY <1>1, <1>3, <1>4 DEF MemberSets, OperatorSets, JoinNew, Entries!Found, clientVars

\* A JOIN of a known channel enters its client, or finds its name listed.
LEMMA JoinedIsEnter ==
  ASSUME AllTyped, NEW c \in live, NEW ch \in ChannelName, Joined(c, ch)
  PROVE  /\ UNCHANGED <<live, nick>>
         /\ Entries!Enter(c, ch) \/ UNCHANGED Entries!channelVars
<1>0. invited \in [ChannelName -> Seq(Client)] /\ c \in Client
  BY DEF AllTyped, TypeOK, ChannelsTypeOK
<1>1. /\ ch \in channels /\ UNCHANGED <<channels, op, inviteOnly, live, nick>>
      /\ invited' = [invited EXCEPT ![ch] = Admitted(ch, c)]
  BY DEF Joined, JoinDone, flagVars, clientVars
<1>2. CASE Admitted(ch, c) = invited[ch]
  <2>1. invited' = invited
    BY <1>0, <1>1, <1>2
  <2>2. UNCHANGED <<channels, MemberSets, OperatorSets, inviteOnly>>
    BY <1>1, <2>1, SetsAre
  <2> QED
    BY <1>1, <2>2 DEF Entries!channelVars, MemberSets, OperatorSets
<1>3. CASE ~inviteOnly[ch] /\ Admitted(ch, c) = Append(invited[ch], c)
  <2>1. Range(Append(invited[ch], c)) = MemberSets[ch] \cup {c}
    BY <1>0, AppendList, SetsAre DEF Members
  <2>2. MemberSets' = [MemberSets EXCEPT ![ch] = MemberSets[ch] \cup {c}]
    <3> DEFINE list == Append(invited[ch], c)
               S    == MemberSets[ch] \cup {c}
    <3>1. Range(list) = S /\ invited' = [invited EXCEPT ![ch] = list]
      BY <1>1, <1>3, <2>1
    <3> HIDE DEF list, S
    <3>2. MemberSets' = [MemberSets EXCEPT ![ch] = S]
      BY <3>1, SetsUpdate
    <3> QED
      BY <3>2 DEF S
  <2>3. OperatorSets' = OperatorSets
    BY <1>1, SetsAre
  <2> QED
    BY <1>1, <1>3, <2>2, <2>3 DEF Entries!Enter, MemberSets, OperatorSets
<1> QED
  BY <1>1, <1>2, <1>3 DEF Admitted, PushNamed

\* An INVITE enters a client whose name is not listed.
LEMMA InvitedIsInvite ==
  ASSUME AllTyped, NEW c \in live, NEW t \in live, NEW ch \in ChannelName, Invited(c, t, ch)
  PROVE  Entries!Invite(c, t, ch) /\ UNCHANGED <<live, nick>>
<1>0. invited \in [ChannelName -> Seq(Client)] /\ t \in Client
  BY DEF AllTyped, TypeOK, ChannelsTypeOK
<1>1. /\ UNCHANGED <<channels, op, inviteOnly, live, nick>>
      /\ invited' = [invited EXCEPT ![ch] = Append(invited[ch], t)]
  BY DEF Invited, InviteDone, flagVars, clientVars
<1>2. Range(Append(invited[ch], t)) = MemberSets[ch] \cup {t}
  BY <1>0, AppendList, SetsAre DEF Members
<1>3. MemberSets' = [MemberSets EXCEPT ![ch] = MemberSets[ch] \cup {t}]
  BY <1>1, <1>2, SetsUpdate
<1>4. Entries!PassesFor(c, OperatorSets[ch]) /\ ~Entries!PassesFor(t, MemberSets[ch])
  BY SearchIsPassing, SetsAre DEF Invited
<1>5. OperatorSets' = OperatorSets
  BY <1>1, SetsAre
<1> QED
  BY <1>1, <1>3, <1>4, <1>5 DEF Entries!Invite, MemberSets, OperatorSets

\* A KICK takes out one entry of the name it gives, or none.
LEMMA KickedIsKick ==
  ASSUME AllTyped, ListsHaveNoDuplicates,
         NEW c \in live, NEW n \in Nick, NEW ch \in ChannelName, Kicked(c, ch, n)
  PROVE  /\ UNCHANGED <<live, nick>>
         /\ (\E e \in Client : Entries!Kick(c, e, ch)) \/ UNCHANGED Entries!channelVars
<1>0. /\ invited \in [ChannelName -> Seq(Client)] /\ invited[ch] \in Seq(Client)
      /\ ListedOnce(invited[ch])
  BY DEF AllTyped, ChannelsTypeOK, ListsHaveNoDuplicates
<1>1. /\ UNCHANGED <<channels, op, inviteOnly, live, nick>>
      /\ invited' = [invited EXCEPT ![ch] = EraseNamed(invited[ch], nick, n)]
  BY DEF Kicked, KickDone, flagVars, clientVars
<1>2. OperatorSets' = OperatorSets
  BY <1>1, SetsAre
<1>3. CASE EraseNamed(invited[ch], nick, n) = invited[ch]
  <2>1. invited' = invited
    BY <1>0, <1>1, <1>3
  <2>2. UNCHANGED <<channels, MemberSets, OperatorSets, inviteOnly>>
    BY <1>1, <2>1, SetsAre
  <2> QED
    BY <1>1, <2>2 DEF Entries!channelVars, MemberSets, OperatorSets
<1>4. ASSUME NEW e \in Range(invited[ch]), nick[e] = n,
             Range(EraseNamed(invited[ch], nick, n)) = Range(invited[ch]) \ {e}
      PROVE  e \in Client /\ Entries!Kick(c, e, ch)
  <2>1. e \in Client
    BY <1>0 DEF Range
  <2>2. MemberSets' = [MemberSets EXCEPT ![ch] = MemberSets[ch] \ {e}]
    <3> DEFINE list == EraseNamed(invited[ch], nick, n)
               S    == MemberSets[ch] \ {e}
    <3>1. MemberSets[ch] = Range(invited[ch])
      BY SetsAre DEF Members
    <3>2. Range(list) = S /\ invited' = [invited EXCEPT ![ch] = list]
      BY <1>1, <1>4, <3>1
    <3> HIDE DEF list, S
    <3>3. MemberSets' = [MemberSets EXCEPT ![ch] = S]
      BY <3>2, SetsUpdate
    <3> QED
      BY <3>3 DEF S
  <2>3. Entries!PassesFor(c, OperatorSets[ch])
    BY SearchIsPassing, SetsAre DEF Kicked
  <2>4. nick[e] # nick[c] /\ \E d \in live : nick[d] = nick[e]
    BY <1>4 DEF Kicked, NickInUse
  <2> QED
    BY <1>1, <1>2, <2>1, <2>2, <2>3, <2>4 DEF Entries!Kick, MemberSets, OperatorSets
<1> QED
  BY <1>0, <1>1, <1>3, <1>4, EraseNamedOne

\* One flag of a MODE line appoints or dismisses nobody but those who pass for
\* members, and those who share their names.
LEMMA OneOpReaches ==
  ASSUME AllTyped, NEW ch \in ChannelName, NEW before \in Seq(Client), NEW after,
         OneOp(ch, before, after)
  PROVE  /\ after \in Seq(Client)
         /\ \A c \in Range(after) \ Range(before) : Entries!PassesFor(c, Members(ch))
         /\ \A e \in Range(before) \ Range(after) : \E c \in live :
              Entries!PassesFor(c, Members(ch)) /\ nick[c] = nick[e]
<1>0. live \subseteq Client
  BY DEF AllTyped, TypeOK
<1>1. CASE after = before
  BY <1>1
<1>2. ASSUME NEW t \in live, IsInvited(ch, nick[t]), after = PushNamed(before, nick, t)
      PROVE  /\ after \in Seq(Client)
             /\ Range(before) \subseteq Range(after)
             /\ Range(after) \subseteq Range(before) \cup {t}
             /\ Entries!PassesFor(t, Members(ch))
  BY <1>0, <1>2, PushNamedList, SearchIsPassing
<1>3. ASSUME NEW t \in live, IsInvited(ch, nick[t]), after = EraseNamed(before, nick, nick[t])
      PROVE  /\ after \in Seq(Client)
             /\ Range(after) \subseteq Range(before)
             /\ \A e \in Range(before) : e \in Range(after) \/ nick[e] = nick[t]
             /\ Entries!PassesFor(t, Members(ch))
  BY <1>3, EraseNamedList, SearchIsPassing
<1> QED
  BY <1>1, <1>2, <1>3 DEF OneOp

\* A MODE line appoints and dismisses by names of members, all its flags together.
LEMMA ModeIsGovern ==
  ASSUME AllTyped, NEW c \in live, NEW ch \in ChannelName, ModeMade(c, ch)
  PROVE  Entries!Govern(c, ch) /\ UNCHANGED <<live, nick>>
<1>0. op \in [ChannelName -> Seq(Client)] /\ op[ch] \in Seq(Client)
  BY DEF AllTyped, ChannelsTypeOK
<1>1. UNCHANGED <<channels, invited, live, nick>>
  BY DEF ModeMade, clientVars
<1>2. PICK list : Reaches(ch, op[ch], list) /\ op' = [op EXCEPT ![ch] = list]
  BY DEF ModeMade
<1> DEFINE Governed(l) ==
             /\ \A d \in Range(l) \ Range(op[ch]) : Entries!PassesFor(d, Members(ch))
             /\ \A e \in Range(op[ch]) \ Range(l) : \E d \in live :
                  Entries!PassesFor(d, Members(ch)) /\ nick[d] = nick[e]
           S == {l \in Seq(Client) : Governed(l)}
<1>3. ASSUME NEW before \in S, NEW after, OneOp(ch, before, after) PROVE after \in S
  <2>1. before \in Seq(Client) /\ Governed(before)
    OBVIOUS
  <2>2. /\ after \in Seq(Client)
        /\ \A d \in Range(after) \ Range(before) : Entries!PassesFor(d, Members(ch))
        /\ \A e \in Range(before) \ Range(after) : \E d \in live :
             Entries!PassesFor(d, Members(ch)) /\ nick[d] = nick[e]
    BY <1>3, <2>1, OneOpReaches
  <2> QED
    BY <2>1, <2>2
<1>4. op[ch] \in S
  BY <1>0
<1> HIDE DEF S
<1>5. list \in S
  BY <1>2, <1>3, <1>4 DEF Reaches
<1> DEFINE chosen == Range(list)
<1>6. chosen \in SUBSET Client
  BY <1>5 DEF Range, S
<1>7. /\ \A d \in chosen \ OperatorSets[ch] : Entries!PassesFor(d, MemberSets[ch])
      /\ \A e \in OperatorSets[ch] \ chosen : \E d \in live :
           Entries!PassesFor(d, MemberSets[ch]) /\ nick[d] = nick[e]
  BY <1>5, SetsAre DEF S
<1>8. OperatorSets' = [OperatorSets EXCEPT ![ch] = chosen]
  BY <1>2, SetsUpdate
<1>9. MemberSets' = MemberSets
  BY <1>1, SetsAre
<1>10. PICK b \in BOOLEAN : inviteOnly' = [inviteOnly EXCEPT ![ch] = b]
  BY DEF ModeMade
<1>11. /\ Entries!PassesFor(c, OperatorSets[ch]) /\ Entries!PassesFor(c, MemberSets[ch])
       /\ ch \notin PlusChannel
  BY SearchIsPassing, SetsAre DEF ModeMade, ModeAllowed
<1> HIDE DEF chosen
<1> QED
  BY <1>1, <1>6, <1>7, <1>8, <1>9, <1>10, <1>11 DEF Entries!Govern, MemberSets, OperatorSets

\* Every step of Channels is one of Namesakes, or none.
LEMMA NamesakesStep ==
  ASSUME AllTyped, ListsHaveNoDuplicates, [ChannelsNext]_allVars
  PROVE  [Entries!Next]_(Entries!namesakesVars)
<1>0. live \subseteq Client
  BY DEF AllTyped, TypeOK
<1>1. CASE Idle
  <2>1. UNCHANGED Entries!channelVars
    <3>1. UNCHANGED <<channels, MemberSets, OperatorSets, inviteOnly>>
      BY <1>1, SetsAre DEF Idle, channelVars, flagVars
    <3> QED
      BY <3>1 DEF Entries!channelVars, MemberSets, OperatorSets
  <2> QED
    BY <1>1, <2>1, TableIsWorld
       DEF Idle, AllTyped, Entries!Next, Entries!World, Entries!namesakesVars, Entries!worldVars
<1>2. ASSUME NEW c \in live, NEW ch \in ChannelName,
             \/ Founded(c, ch) \/ Joined(c, ch)
             \/ \E t \in live : Invited(c, t, ch)
             \/ \E n \in Nick : Kicked(c, ch, n)
             \/ ModeMade(c, ch)
      PROVE  /\ UNCHANGED <<live, nick>>
             /\ \/ UNCHANGED Entries!channelVars
                \/ \E e \in Client :
                     \/ Entries!Found(c, ch) \/ Entries!Enter(c, ch)
                     \/ Entries!Invite(c, e, ch) \/ Entries!Kick(c, e, ch)
                     \/ Entries!Govern(c, ch)
  BY <1>0, <1>2, FoundedIsFound, JoinedIsEnter, InvitedIsInvite, KickedIsKick, ModeIsGovern
<1>3. ASSUME NEW c \in live, NEW ch \in ChannelName, NEW e \in Client,
             \/ Entries!Found(c, ch) \/ Entries!Enter(c, ch)
             \/ Entries!Invite(c, e, ch) \/ Entries!Kick(c, e, ch)
             \/ Entries!Govern(c, ch),
             UNCHANGED <<live, nick>>
      PROVE  Entries!Next
  <2>1. c \in Client
    BY <1>0
  <2> QED
    BY <1>3, <2>1 DEF Entries!Next, Entries!InChannel, Entries!worldVars
<1> QED
  BY <1>1, <1>2, <1>3, StepKinds
     DEF ChannelChange, AllTyped, Entries!namesakesVars, Entries!worldVars

\* With disconnections, reused addresses and renames too, the lists searched by
\* nickname implement sets of entries that outlive their clients, and only those
\* who bear the name of an operator's entry change what is not their own.
THEOREM ListsImplementNamesakes == ChannelsSpec => ImplementsNamesakes
<1>1. Init /\ ChannelsInit => Entries!Init
  <2>1. Range(<<>>) = {}
    BY DEF Range
  <2> QED
    BY <2>1 DEF Init, ChannelsInit, Entries!Init, Members
<1>2. AllTyped /\ ListsHaveNoDuplicates /\ [ChannelsNext]_allVars =>
        [Entries!Next]_(Entries!namesakesVars)
  BY NamesakesStep
<1> QED
  BY <1>1, <1>2, InitTyped, AllTypedStep, NobodyIsListedTwice, PTL
     DEF ChannelsSpec, ImplementsNamesakes, Entries!Spec
=============================================================================
