-------------------------- MODULE ClientTableProofs -------------------------
(***************************************************************************)
(* The safety properties of ClientTable, for any number of addresses and   *)
(* any set of nicknames.  Each is inductive together with TypeOK; what the *)
(* steps do to the table is proved once, for every action, and carried     *)
(* over to the composed specification in ChannelsProofs.                   *)
(***************************************************************************)
EXTENDS ClientTable, TLAPS

USE DEF Handling, sessionVars

\* Every action of the client table keeps the variables in their types.
LEMMA TypeStep == TypeOK /\ [Next]_clientVars => TypeOK'
<1> SUFFICES ASSUME TypeOK, [Next]_clientVars PROVE TypeOK'
  OBVIOUS
<1> USE DEF TypeOK
<1>1. ASSUME NEW c \in Client, Accept(c) PROVE TypeOK'
  BY <1>1 DEF Accept
<1>2. ASSUME NEW c \in Client, Disconnect(c) PROVE TypeOK'
  BY <1>2 DEF Disconnect
<1>3. ASSUME NEW c \in Client, ReuseFreedMemory(c) PROVE TypeOK'
  BY <1>3 DEF ReuseFreedMemory
<1>4. ASSUME NEW c \in Client, NEW right \in BOOLEAN, Pass(c, right) PROVE TypeOK'
  BY <1>4 DEF Pass
<1>5. ASSUME NEW c \in Client, NEW n \in Nick, NickCommand(c, n) PROVE TypeOK'
  BY <1>5 DEF NickCommand, Registrate, Complete
<1>6. ASSUME NEW c \in Client, NEW real \in BOOLEAN, User(c, real) PROVE TypeOK'
  BY <1>6 DEF User, Registrate, Complete
<1>7. ASSUME NEW c \in Client, UserShort(c) PROVE TypeOK'
  BY <1>7 DEF UserShort, Registrate, Complete
<1>8. ASSUME NEW c \in Client, MissingToken(c) PROVE TypeOK'
  BY <1>8 DEF MissingToken
<1>9. CASE UNCHANGED clientVars
  BY <1>9 DEF clientVars
<1> QED
  BY <1>1, <1>2, <1>3, <1>4, <1>5, <1>6, <1>7, <1>8, <1>9
     DEF Next, Connections, Registration

\* Type correctness of the client table.
THEOREM TypeCorrect == Spec => []TypeOK
<1>1. Init => TypeOK
  BY NamesAssumption DEF Init, TypeOK
<1> QED
  BY <1>1, TypeStep, PTL DEF Spec

-----------------------------------------------------------------------------

\* No step gives a connected client a nickname another one has.
LEMMA NickUniqueStep == TypeOK /\ NickUnique /\ [Next]_clientVars => NickUnique'
<1> SUFFICES ASSUME TypeOK, NickUnique, [Next]_clientVars PROVE NickUnique'
  OBVIOUS
<1> USE DEF TypeOK, NickUnique
<1>1. ASSUME NEW c \in Client, Accept(c) PROVE NickUnique'
  BY <1>1 DEF Accept
<1>2. ASSUME NEW c \in Client, Disconnect(c) \/ ReuseFreedMemory(c) PROVE NickUnique'
  BY <1>2 DEF Disconnect, ReuseFreedMemory
<1>3. ASSUME NEW c \in Client, NEW n \in Nick, NickCommand(c, n) PROVE NickUnique'
  BY <1>3 DEF NickCommand, NickInUse
<1>4. CASE UNCHANGED <<live, nick>>
  BY <1>4
<1>5. ASSUME NEW c \in Client,
             \/ \E right \in BOOLEAN : Pass(c, right)
             \/ \E real \in BOOLEAN : User(c, real)
             \/ UserShort(c)
             \/ MissingToken(c)
      PROVE  UNCHANGED <<live, nick>>
  BY <1>5 DEF Pass, User, UserShort, MissingToken
<1> QED
  BY <1>1, <1>2, <1>3, <1>4, <1>5 DEF Next, Connections, Registration, clientVars

\* Two connected clients never share a nickname, so that every search of the
\* connected clients by nickname has at most one answer.
THEOREM NicknamesAreUnique == Spec => []NickUnique
<1>1. Init => NickUnique
  BY DEF Init, NickUnique
<1> QED
  BY <1>1, TypeCorrect, NickUniqueStep, PTL DEF Spec

-----------------------------------------------------------------------------

\* RegisteredComplete is not inductive: USER completes a registration with
\* the nickname the client has, and nothing in RegisteredComplete says that
\* an unregistered client's nickname is a proper one.
Nicknames == Nick \ Erroneous
NamesProper == \A c \in live : nick[c] # NoNick => nick[c] \in Nicknames

RegistrationInv == TypeOK /\ NamesProper /\ RegisteredComplete

\* The strengthened invariant is inductive.
LEMMA RegistrationStep == RegistrationInv /\ [Next]_clientVars => RegistrationInv'
<1> SUFFICES ASSUME RegistrationInv, [Next]_clientVars
             PROVE  (NamesProper /\ RegisteredComplete)'
  BY TypeStep DEF RegistrationInv
<1> USE NamesAssumption
        DEF RegistrationInv, TypeOK, NamesProper, RegisteredComplete, Nicknames
<1> DEFINE Kept == (NamesProper /\ RegisteredComplete)'
<1>1. ASSUME NEW c \in Client, Accept(c) PROVE Kept
  BY <1>1 DEF Accept
<1>2. ASSUME NEW c \in Client, Disconnect(c) PROVE Kept
  BY <1>2 DEF Disconnect
<1>3. ASSUME NEW c \in Client, ReuseFreedMemory(c) PROVE Kept
  BY <1>3 DEF ReuseFreedMemory
<1>4. ASSUME NEW c \in Client, NEW right \in BOOLEAN, Pass(c, right) PROVE Kept
  BY <1>4 DEF Pass
<1>5. ASSUME NEW c \in Client, NEW n \in Nick, NickCommand(c, n) PROVE Kept
  BY <1>5 DEF NickCommand, Registrate, Complete
\* USER: the nickname and the password are those already in the table.
<1>6. ASSUME NEW c \in Client, Registrate(c), UNCHANGED <<live, nick, passOk>>
      PROVE  Kept
  BY <1>6 DEF Registrate, Complete
<1>7. ASSUME UNCHANGED <<live, nick, passOk, registered>> PROVE Kept
  BY <1>7
<1>8. ASSUME NEW c \in Client,
             (\E real \in BOOLEAN : User(c, real)) \/ UserShort(c) \/ MissingToken(c)
      PROVE  Kept
  BY <1>6, <1>7, <1>8 DEF User, UserShort, MissingToken
<1> QED
  BY <1>1, <1>2, <1>3, <1>4, <1>5, <1>7, <1>8
     DEF Next, Connections, Registration, clientVars

\* Whoever is registered has given the password and bears a well-formed
\* nickname.
THEOREM RegistrationIsComplete == Spec => []RegisteredComplete
<1>1. Init => RegistrationInv
  BY NamesAssumption
     DEF Init, RegistrationInv, TypeOK, NamesProper, RegisteredComplete
<1>2. RegistrationInv => RegisteredComplete
  BY DEF RegistrationInv
<1> QED
  BY <1>1, <1>2, RegistrationStep, PTL DEF Spec

-----------------------------------------------------------------------------

\* What OnlyLatePassStalls says of one step.
RegisteredAtOnce ==
  \A c \in live : ~Complete(c) /\ Complete(c)' =>
    \/ registered'[c]
    \/ passOk'[c] /\ ~passOk[c]
    \/ UserShort(c)

\* Only PASS and a short USER can complete a client without registering it.
LEMMA StallStep == TypeOK /\ [Next]_clientVars => RegisteredAtOnce
<1> SUFFICES ASSUME TypeOK, [Next]_clientVars, NEW c \in live,
                    ~Complete(c), Complete(c)', ~UserShort(c)
             PROVE  registered'[c] \/ (passOk'[c] /\ ~passOk[c])
  BY DEF RegisteredAtOnce
<1> USE DEF TypeOK
\* What is in nobody's session cannot have become complete.
<1>0. ~ UNCHANGED <<nick[c], hasUser[c], hasReal[c], passOk[c]>>
  BY DEF Complete
<1>1. ASSUME NEW d \in Client, Accept(d) \/ ReuseFreedMemory(d) PROVE FALSE
  BY <1>0, <1>1 DEF Accept, ReuseFreedMemory
<1>2. ASSUME NEW d \in Client, Disconnect(d) \/ MissingToken(d) PROVE FALSE
  BY <1>0, <1>2 DEF Disconnect, MissingToken
<1>3. ASSUME NEW d \in Client, NEW right \in BOOLEAN, Pass(d, right)
      PROVE  passOk'[c] /\ ~passOk[c]
  BY <1>0, <1>3 DEF Pass, Complete
<1>4. ASSUME NEW d \in Client, Registrate(d), d = c PROVE registered'[c]
  BY <1>4 DEF Registrate
<1>5. ASSUME NEW d \in Client, NEW n \in Nick, NickCommand(d, n)
      PROVE  registered'[c]
  <2>1. d = c
    BY <1>0, <1>5 DEF NickCommand
  <2> QED
    BY <1>4, <1>5, <2>1 DEF NickCommand
<1>6. ASSUME NEW d \in Client, NEW real \in BOOLEAN, User(d, real)
      PROVE  registered'[c]
  <2>1. d = c
    BY <1>0, <1>6 DEF User
  <2> QED
    BY <1>4, <1>6, <2>1 DEF User
<1>7. ASSUME NEW d \in Client, UserShort(d) PROVE FALSE
  <2>1. d = c
    BY <1>0, <1>7 DEF UserShort
  <2> QED
    BY <1>7, <2>1
<1>8. CASE UNCHANGED clientVars
  BY <1>0, <1>8 DEF clientVars
<1> QED
  BY <1>1, <1>2, <1>3, <1>5, <1>6, <1>7, <1>8 DEF Next, Connections, Registration

\* A client that has said everything waits for its welcome only if the
\* password came last or its USER line was too short.
THEOREM NobodyElseStalls == Spec => OnlyLatePassStalls
<1>1. TypeOK /\ [Next]_clientVars => [RegisteredAtOnce]_clientVars
  BY StallStep
<1> QED
  BY <1>1, TypeCorrect, PTL DEF Spec, OnlyLatePassStalls, RegisteredAtOnce

-----------------------------------------------------------------------------

(* The client table is a directory of those who are connected.             *)

\* What the directory is to be, in the terms of the table.
Bearing   == {p \in live \X (Nick \ Erroneous) : nick[p[1]] = p[2]}
Trusted == {c \in live : passOk[c]}
Greeted == {c \in live : registered[c]}

LEMMA BearingIs ==
  /\ \A c, n : <<c, n>> \in Bearing <=> c \in live /\ n \in Nick \ Erroneous /\ nick[c] = n
  /\ \A p \in Bearing : p = <<p[1], p[2]>>
BY DEF Bearing

LEMMA BearingIsNext ==
  /\ \A c, n : <<c, n>> \in Bearing' <=> c \in live' /\ n \in Nick \ Erroneous /\ nick'[c] = n
  /\ \A p \in Bearing' : p = <<p[1], p[2]>>
BY DEF Bearing

\* The others' names are the names of the others.
LEMMA OthersIs ==
  ASSUME NEW c
  PROVE  /\ \A d, n : <<d, n>> \in Table!Others(c) <=> <<d, n>> \in Bearing /\ d # c
         /\ \A p \in Table!Others(c) : p = <<p[1], p[2]>>
BY DEF Table!Others, Bearing

\* A step that only deletes or overwrites what is in nobody's session is no
\* step of the directory.
LEMMA DirectoryStutters ==
  ASSUME live' = live, \A c \in live : UNCHANGED <<nick[c], passOk[c], registered[c]>>
  PROVE  UNCHANGED Table!directoryVars
<1>1. Bearing' = Bearing
  BY DEF Bearing
<1>2. Trusted' = Trusted /\ Greeted' = Greeted
  BY DEF Trusted, Greeted
<1> QED
  BY <1>1, <1>2 DEF Table!directoryVars, Bearing, Trusted, Greeted

\* registrate welcomes whoever has the password and a name, if anybody.
LEMMA RegistrateWelcomes ==
  ASSUME RegistrationInv, NEW c \in live, Registrate(c), UNCHANGED <<live, passOk>>,
         nick'[c] = NoNick \/ nick'[c] \in Nick \ Erroneous
  PROVE  Table!Welcome(c) \/ Greeted' = Greeted
<1> USE DEF RegistrationInv, TypeOK
<1>1. CASE registered'[c] /\ ~registered[c]
  <2>1. Complete(c)'
    BY <1>1 DEF Registrate
  <2>2. c \in Trusted
    BY <2>1 DEF Complete, Trusted
  <2>3. <<c, nick'[c]>> \in Bearing'
    BY <2>1, BearingIsNext DEF Complete
  <2>4. Greeted' = Greeted \cup {c}
    BY <1>1 DEF Registrate, Greeted
  <2> QED
    BY <2>1, <2>2, <2>3, <2>4 DEF Complete, Table!Welcome, Bearing, Trusted, Greeted
<1>2. CASE registered' = registered
  BY <1>2 DEF Greeted
<1> QED
  BY <1>1, <1>2 DEF Registrate

\* A connection accepted is an arrival: nothing of the object that occupied
\* the address shows.
LEMMA AcceptArrives ==
  ASSUME RegistrationInv, NEW c \in Client, Accept(c) PROVE Table!Arrive(c)
<1> USE DEF RegistrationInv, TypeOK, Accept
<1>1. Bearing' = Bearing
  <2>1. ASSUME NEW d, NEW n PROVE <<d, n>> \in Bearing' <=> <<d, n>> \in Bearing
    <3>1. CASE d = c
      <4>1. nick'[c] = NoNick /\ c \notin live
        OBVIOUS
      <4> QED
        BY <3>1, <4>1, BearingIs, BearingIsNext, NamesAssumption
    <3>2. CASE d # c
      <4>1. d \in live' <=> d \in live
        BY <3>2
      <4>2. d \in live => nick'[d] = nick[d]
        BY <3>2
      <4> QED
        BY <4>1, <4>2, BearingIs, BearingIsNext
    <3> QED
      BY <3>1, <3>2
  <2>2. \A p \in Bearing : p = <<p[1], p[2]>>
    BY BearingIs
  <2> HIDE DEF RegistrationInv, TypeOK, Accept
  <2> QED
    BY <2>1, <2>2, BearingIsNext
<1>2. Trusted' = Trusted /\ Greeted' = Greeted
  BY DEF Trusted, Greeted
<1> QED
  BY <1>1, <1>2 DEF Table!Arrive, Bearing, Trusted, Greeted

LEMMA DisconnectLeaves ==
  ASSUME RegistrationInv, NEW c \in Client, Disconnect(c) PROVE Table!Leave(c)
<1> USE DEF RegistrationInv, TypeOK, Disconnect, Handling, sessionVars
<1>1. Bearing' = Table!Others(c)
  <2>1. \A d, n : <<d, n>> \in Bearing' <=> <<d, n>> \in Table!Others(c)
    BY BearingIs, BearingIsNext, OthersIs
  <2>2. \A p \in Table!Others(c) : p = <<p[1], p[2]>>
    BY OthersIs
  <2> HIDE DEF RegistrationInv, TypeOK, Disconnect, Handling, sessionVars
  <2> QED
    BY <2>1, <2>2, BearingIsNext
<1>2. Trusted' = Trusted \ {c} /\ Greeted' = Greeted \ {c}
  BY DEF Trusted, Greeted
<1> QED
  BY <1>1, <1>2 DEF Table!Leave, Bearing, Trusted, Greeted

LEMMA PassTrusts ==
  ASSUME RegistrationInv, NEW c \in Client, NEW right \in BOOLEAN, Pass(c, right)
  PROVE  [Table!Next]_(Table!directoryVars)
<1> USE DEF RegistrationInv, TypeOK, Pass, Handling
<1>1. CASE passOk' = passOk
  BY <1>1, DirectoryStutters
<1>2. CASE right
  <2>1. Bearing' = Bearing /\ Greeted' = Greeted
    BY DEF Bearing, Greeted
  <2>2. Trusted' = Trusted \cup {c}
    BY <1>2 DEF Trusted
  <2> QED
    BY <2>1, <2>2 DEF Table!Next, Table!Trust, Bearing, Trusted, Greeted
<1> QED
  BY <1>1, <1>2

LEMMA NickTakes ==
  ASSUME RegistrationInv, NEW c \in Client, NEW n \in Nick, NickCommand(c, n)
  PROVE  Table!Take(c, n) /\ n \in Nick \ Erroneous
<1> USE DEF RegistrationInv, TypeOK, NickCommand, Handling
<1>1. Bearing' = Table!Others(c) \cup {<<c, n>>}
  <2> DEFINE New == Table!Others(c) \cup {<<c, n>>}
  <2>1. ASSUME NEW d, NEW m PROVE <<d, m>> \in Bearing' <=> <<d, m>> \in New
    <3>1. <<d, m>> \in Table!Others(c) <=> <<d, m>> \in Bearing /\ d # c
      BY OthersIs
    <3>2. <<d, m>> \in New <=> (<<d, m>> \in Bearing /\ d # c) \/ (d = c /\ m = n)
      BY <3>1
    <3>3. CASE d = c
      <4>1. nick'[c] = n
        OBVIOUS
      <4> QED
        BY <3>2, <3>3, <4>1, BearingIsNext
    <3>4. CASE d # c
      <4>1. d \in live => nick'[d] = nick[d]
        BY <3>4
      <4> QED
        BY <3>2, <3>4, <4>1, BearingIs, BearingIsNext
    <3> QED
      BY <3>3, <3>4
  <2>2. \A p \in New : p = <<p[1], p[2]>>
    BY OthersIs
  <2> QED
    BY <2>1, <2>2, BearingIsNext
<1>2. Trusted' = Trusted
  BY DEF Trusted
<1>3. Table!Welcome(c) \/ Greeted' = Greeted
  BY RegistrateWelcomes
<1>4. \A d \in Client : <<d, n>> \notin Bearing
  BY BearingIs DEF NickInUse
<1> QED
  BY <1>1, <1>2, <1>3, <1>4 DEF Table!Take, Bearing, Trusted, Greeted

\* USER, read to its end or not.
LEMMA UserEnrols ==
  ASSUME RegistrationInv, NEW c \in Client, Handling(c), UNCHANGED <<live, nick, passOk>>,
         Registrate(c) \/ UNCHANGED registered
  PROVE  [Table!Next]_(Table!directoryVars)
<1> USE DEF RegistrationInv, TypeOK, Handling
<1>1. Bearing' = Bearing /\ Trusted' = Trusted
  BY DEF Bearing, Trusted
<1>2. Table!Welcome(c) \/ Greeted' = Greeted
  <2>1. nick'[c] = NoNick \/ nick'[c] \in Nick \ Erroneous
    BY DEF NamesProper, Nicknames
  <2>2. CASE Registrate(c)
    BY <2>1, <2>2, RegistrateWelcomes
  <2>3. CASE UNCHANGED registered
    BY <2>3 DEF Greeted
  <2> QED
    BY <2>2, <2>3
<1>3. CASE Table!Welcome(c)
  BY <1>1, <1>3 DEF Table!Next, Table!Enrol, Bearing, Trusted
<1>4. CASE Greeted' = Greeted
  BY <1>1, <1>4 DEF Table!directoryVars, Bearing, Trusted, Greeted
<1> QED
  BY <1>2, <1>3, <1>4

LEMMA DirectoryStep ==
  RegistrationInv /\ [Next]_clientVars => [Table!Next]_(Table!directoryVars)
<1> SUFFICES ASSUME RegistrationInv, [Next]_clientVars
             PROVE  [Table!Next]_(Table!directoryVars)
  OBVIOUS
<1>1. ASSUME NEW c \in Client, Accept(c) PROVE Table!Next
  BY <1>1, AcceptArrives DEF Table!Next
<1>2. ASSUME NEW c \in Client, Disconnect(c) PROVE Table!Next
  BY <1>2, DisconnectLeaves DEF Table!Next
<1>3. ASSUME NEW c \in Client, ReuseFreedMemory(c) PROVE UNCHANGED Table!directoryVars
  BY <1>3, DirectoryStutters DEF ReuseFreedMemory, sessionVars, RegistrationInv, TypeOK
<1>4. ASSUME NEW c \in Client, NEW right \in BOOLEAN, Pass(c, right)
      PROVE  [Table!Next]_(Table!directoryVars)
  BY <1>4, PassTrusts
<1>5. ASSUME NEW c \in Client, NEW n \in Nick, NickCommand(c, n) PROVE Table!Next
  BY <1>5, NickTakes DEF Table!Next
<1>6. ASSUME NEW c \in Client, (\E real \in BOOLEAN : User(c, real)) \/ UserShort(c)
      PROVE  [Table!Next]_(Table!directoryVars)
  <2>1. /\ Handling(c)
        /\ UNCHANGED <<live, nick, passOk>>
        /\ Registrate(c) \/ UNCHANGED registered
    BY <1>6 DEF User, UserShort
  <2> QED
    BY <2>1, UserEnrols
<1>7. ASSUME NEW c \in Client, MissingToken(c) PROVE UNCHANGED Table!directoryVars
  BY <1>7, DirectoryStutters DEF MissingToken, sessionVars
<1>8. CASE UNCHANGED clientVars
  BY <1>8, DirectoryStutters DEF clientVars
<1> QED
  BY <1>1, <1>2, <1>3, <1>4, <1>5, <1>6, <1>7, <1>8
     DEF Next, Connections, Registration

\* To those who are connected the table is a directory, whatever addresses
\* are freed and used again: one bearer to a name, nobody welcomed without
\* the password and a name, and nothing inherited by a newcomer.
THEOREM TableIsDirectory == Spec => ImplementsDirectory
<1>1. Init => RegistrationInv
  BY NamesAssumption
     DEF Init, RegistrationInv, TypeOK, NamesProper, RegisteredComplete
<1>2. Init => Table!Init
  BY DEF Init, Table!Init
<1> QED
  BY <1>1, <1>2, RegistrationStep, DirectoryStep, PTL
     DEF Spec, ImplementsDirectory, Table!Spec
=============================================================================
