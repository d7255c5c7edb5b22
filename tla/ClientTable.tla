---------------------------- MODULE ClientTable ----------------------------
(***************************************************************************)
(* The server's table of connections (Server::clients) and the session     *)
(* state each Client object keeps: nickname, user name, real name,         *)
(* password flag and registration flag.  Accepting, closing, PASS, NICK    *)
(* and USER are the operations.  The process has one thread, so a line of  *)
(* input is handled in one step.                                           *)
(*                                                                         *)
(* A Client object is named by the heap address it occupies: channels hold *)
(* raw pointers, and an address freed by client_disconnect may be given to *)
(* the next Client.  What a freed object still contains is therefore part  *)
(* of the state (see ReuseFreedMemory).                                    *)
(*                                                                         *)
(* User and real names are kept only as "is it non-empty", which is all    *)
(* the code asks of them.  Numeric error replies change no state here: a   *)
(* refused line is a stuttering step.                                      *)
(*                                                                         *)
(* Definitions named X_Fault... next to a definition X are seeded faults,  *)
(* plausible slips used to show that the properties notice them.           *)
(***************************************************************************)
EXTENDS Naturals

CONSTANTS
  Client,      \* heap addresses a Client object may occupy
  Nick,        \* the tokens clients send as a nickname (never empty)
  Erroneous,   \* those of them that contain ':' or '/'
  NoNick,      \* the empty nickname of a fresh Client
  Junk         \* bytes left in freed memory that equal no nickname

ASSUME NamesAssumption ==
  /\ Erroneous \subseteq Nick
  /\ NoNick \notin Nick
  /\ Junk \notin Nick
  /\ Junk # NoNick

VARIABLES
  live,        \* addresses of the objects in Server::clients
  nick,        \* Client::nickname, also as left behind in freed objects
  hasUser,     \* Client::username is non-empty
  hasReal,     \* Client::realname is non-empty
  passOk,      \* Client::is_password_allowed
  registered,  \* Client::is_registered
  running      \* FALSE once the process has died of undefined behaviour

sessionVars == <<hasUser, hasReal, passOk, registered>>
clientVars  == <<live, nick, hasUser, hasReal, passOk, registered, running>>

TypeOK ==
  /\ live \in SUBSET Client
  /\ nick \in [Client -> Nick \cup {NoNick, Junk}]
  /\ hasUser \in [Client -> BOOLEAN]
  /\ hasReal \in [Client -> BOOLEAN]
  /\ passOk \in [Client -> BOOLEAN]
  /\ registered \in [Client -> BOOLEAN]
  /\ running \in BOOLEAN

Init ==
  /\ live = {}
  /\ nick = [c \in Client |-> Junk]
  /\ hasUser = [c \in Client |-> FALSE]
  /\ hasReal = [c \in Client |-> FALSE]
  /\ passOk = [c \in Client |-> FALSE]
  /\ registered = [c \in Client |-> FALSE]
  /\ running = TRUE

-----------------------------------------------------------------------------
(* Lookups of class Server.                                                *)

NickInUse_FaultRegisteredOnly(n) == \E c \in live : registered[c] /\ nick[c] = n

\* Server::check_nickname: some connected client has this nickname.
NickInUse(n) == \E c \in live : nick[c] = n

\* A line from c is being handled: the loop reads only connected sockets.
Handling(c) == running /\ c \in live

Complete_FaultNoPassword(c) == nick[c] # NoNick /\ hasUser[c] /\ hasReal[c]

\* Everything Server::registrate asks for before it welcomes a client.
Complete(c) == nick[c] # NoNick /\ hasUser[c] /\ hasReal[c] /\ passOk[c]

\* Server::registrate, called with the nickname, user and real name the
\* handler has just stored.
Registrate(c) == registered' = [registered EXCEPT ![c] = @ \/ Complete(c)']

-----------------------------------------------------------------------------
(* Connections.                                                            *)

Accept_FaultUninitialised(c) ==
  /\ running
  /\ c \notin live
  /\ live' = live \cup {c}
  /\ nick' = [nick EXCEPT ![c] = NoNick]
  /\ passOk' = [passOk EXCEPT ![c] = Junk]
  /\ registered' = [registered EXCEPT ![c] = FALSE]
  /\ UNCHANGED <<hasUser, hasReal, running>>

Accept_FaultPasswordKept(c) ==
  /\ running
  /\ c \notin live
  /\ live' = live \cup {c}
  /\ nick' = [nick EXCEPT ![c] = NoNick]
  /\ hasUser' = [hasUser EXCEPT ![c] = FALSE]
  /\ hasReal' = [hasReal EXCEPT ![c] = FALSE]
  /\ registered' = [registered EXCEPT ![c] = FALSE]
  /\ UNCHANGED <<passOk, running>>

\* accept_client and the Client constructor, at any address not in use.
Accept(c) ==
  /\ running
  /\ c \notin live
  /\ live' = live \cup {c}
  /\ nick' = [nick EXCEPT ![c] = NoNick]
  /\ hasUser' = [hasUser EXCEPT ![c] = FALSE]
  /\ hasReal' = [hasReal EXCEPT ![c] = FALSE]
  /\ passOk' = [passOk EXCEPT ![c] = FALSE]
  /\ registered' = [registered EXCEPT ![c] = FALSE]
  /\ UNCHANGED running

\* client_disconnect after recv returned 0: the object is deleted and leaves
\* the table.  No channel is told, and the bytes of the object stay behind.
Disconnect(c) ==
  /\ Handling(c)
  /\ live' = live \ {c}
  /\ UNCHANGED <<nick, sessionVars, running>>

\* The allocator hands a freed object's memory to something else than a
\* Client: what a stale pointer reads as its nickname no longer matches any.
ReuseFreedMemory(c) ==
  /\ running
  /\ c \notin live
  /\ nick[c] # Junk
  /\ nick' = [nick EXCEPT ![c] = Junk]
  /\ UNCHANGED <<live, sessionVars, running>>

-----------------------------------------------------------------------------
(* Registration commands.                                                  *)

\* PASS with a password; "right" is the comparison with the server's.  The
\* 461 (too many tokens) and 462 (already registered) branches do not return,
\* so the flag is set in their case too.
Pass(c, right) ==
  /\ Handling(c)
  /\ passOk' = [passOk EXCEPT ![c] = @ \/ right]
  /\ UNCHANGED <<live, nick, hasUser, hasReal, registered, running>>

NickCommand_FaultNoCollisionTest(c, n) ==
  /\ Handling(c)
  /\ n \notin Erroneous
  /\ nick' = [nick EXCEPT ![c] = n]
  /\ UNCHANGED <<live, hasUser, hasReal, passOk, running>>
  /\ Registrate(c)

\* NICK with one well-formed, free nickname.
NickCommand(c, n) ==
  /\ Handling(c)
  /\ n \notin Erroneous
  /\ ~NickInUse(n)
  /\ nick' = [nick EXCEPT ![c] = n]
  /\ UNCHANGED <<live, hasUser, hasReal, passOk, running>>
  /\ Registrate(c)

User_FaultNoRegistrate(c, real) ==
  /\ Handling(c)
  /\ hasUser' = [hasUser EXCEPT ![c] = TRUE]
  /\ hasReal' = [hasReal EXCEPT ![c] = real]
  /\ UNCHANGED <<live, nick, passOk, registered, running>>

\* USER with at least four parameters: "real" says whether anything is left
\* of the real name after its first character is cut off.
User(c, real) ==
  /\ Handling(c)
  /\ hasUser' = [hasUser EXCEPT ![c] = TRUE]
  /\ hasReal' = [hasReal EXCEPT ![c] = real]
  /\ UNCHANGED <<live, nick, passOk, running>>
  /\ Registrate(c)

\* USER with fewer than four parameters: 461 is queued, the handler goes on and
\* reads tokens[4], which does not exist (nor does tokens[1] in a bare USER).
\* The exception substr may raise is caught in what_is_this; otherwise whatever
\* was read becomes the real name.
UserShort(c) ==
  /\ Handling(c)
  /\ \E user \in BOOLEAN : hasUser' = [hasUser EXCEPT ![c] = user]
  /\ UNCHANGED <<live, nick, passOk, running>>
  /\ \/ UNCHANGED <<hasReal, registered>>
     \/ /\ \E real \in BOOLEAN : hasReal' = [hasReal EXCEPT ![c] = real]
        /\ Registrate(c)

\* A handler reads a token its line does not have (a blank line, or PASS, NICK,
\* USER, KICK ... without parameters), and the process dies.  When it survives
\* such a read, nothing but the replies differs: a stuttering step.
MissingToken(c) ==
  /\ Handling(c)
  /\ running' = FALSE
  /\ UNCHANGED <<live, nick, sessionVars>>

-----------------------------------------------------------------------------

Connections == \E c \in Client : Accept(c) \/ Disconnect(c) \/ ReuseFreedMemory(c)

Registration ==
  \E c \in Client :
    \/ \E right \in BOOLEAN : Pass(c, right)
    \/ \E n \in Nick : NickCommand(c, n)
    \/ \E real \in BOOLEAN : User(c, real)
    \/ UserShort(c)
    \/ MissingToken(c)

Next == Connections \/ Registration

Spec == Init /\ [][Next]_clientVars

-----------------------------------------------------------------------------
(* Properties.                                                             *)

\* No two connected clients share a nickname: getClient, is_operator and
\* is_invited find clients by nickname and take the first match.
NickUnique ==
  \A c, d \in live : c # d /\ nick[c] = nick[d] => nick[c] = NoNick

\* A registered client has given the password and a well-formed nickname, and
\* neither is lost again by a later PASS, NICK or USER.  (Its user and real
\* names may be: a second USER can empty them.)
RegisteredComplete ==
  \A c \in live : registered[c] => passOk[c] /\ nick[c] \in Nick \ Erroneous

\* A client that has supplied everything is registered in that very step,
\* unless the piece that was missing is the password (cmd_pass does not call
\* registrate) or the line is a USER too short to be read to its end.
OnlyLatePassStalls ==
  [][\A c \in live : ~Complete(c) /\ Complete(c)' =>
       \/ registered'[c]
       \/ passOk'[c] /\ ~passOk[c]
       \/ UserShort(c)]_clientVars

Table == INSTANCE Directory WITH
  Name     <- Nick \ Erroneous,
  present  <- live,
  names    <- {p \in live \X (Nick \ Erroneous) : nick[p[1]] = p[2]},
  trusted  <- {c \in live : passOk[c]},
  welcomed <- {c \in live : registered[c]}

\* To those who are connected, the table of Client objects is a directory:
\* however addresses are freed and used again, a newcomer has nothing of the
\* object that was there before, neither its name nor its password.
ImplementsDirectory == Table!Spec
=============================================================================
