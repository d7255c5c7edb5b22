------------------------------ MODULE Directory -----------------------------
(***************************************************************************)
(* What the connection table promises, whatever addresses are used again   *)
(* and in whatever order the lines of a registration come: a directory of  *)
(* the clients that are present.  A name has one bearer, and only its      *)
(* bearer gives it up; nobody is welcomed without the password and a name, *)
(* and nobody who has been welcomed is turned out again; whoever arrives   *)
(* starts with nothing, whoever was there before it.                       *)
(***************************************************************************)
CONSTANTS Client, Name

VARIABLES
  present,   \* the clients that are connected
  names,     \* pairs of a client and its name
  trusted,   \* those that have given the password
  welcomed   \* those that are registered

directoryVars == <<present, names, trusted, welcomed>>

Init == present = {} /\ names = {} /\ trusted = {} /\ welcomed = {}

Arrive(c) ==
  /\ c \notin present
  /\ present' = present \cup {c}
  /\ UNCHANGED <<names, trusted, welcomed>>

Others(c) == {p \in names : p[1] # c}

Leave(c) ==
  /\ c \in present
  /\ present' = present \ {c}
  /\ names' = Others(c)
  /\ trusted' = trusted \ {c}
  /\ welcomed' = welcomed \ {c}

Trust(c) ==
  /\ c \in present
  /\ trusted' = trusted \cup {c}
  /\ UNCHANGED <<present, names, welcomed>>

Welcome(c) ==
  /\ c \in trusted /\ \E n \in Name : <<c, n>> \in names'
  /\ welcomed' = welcomed \cup {c}

\* A name that nobody bears, in place of the one c has had.
Take(c, n) ==
  /\ c \in present /\ \A d \in Client : <<d, n>> \notin names
  /\ names' = Others(c) \cup {<<c, n>>}
  /\ Welcome(c) \/ UNCHANGED welcomed
  /\ UNCHANGED <<present, trusted>>

\* With what it has said already.
Enrol(c) == Welcome(c) /\ UNCHANGED <<present, names, trusted>>

Next ==
  \E c \in Client :
    \/ Arrive(c) \/ Leave(c)
    \/ Trust(c) \/ Enrol(c)
    \/ \E n \in Name : Take(c, n)

Spec == Init /\ [][Next]_directoryVars
=============================================================================
