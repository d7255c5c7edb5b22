------------------------------ MODULE Channel ------------------------------
(***************************************************************************)
(* The two lists of class Channel, "op" and "invited" (the members), and   *)
(* the searches the class makes in them.  A list holds pointers to Client  *)
(* objects; every search goes through the pointers to the nicknames and    *)
(* stops at the first that matches.  "names" is the nickname at each       *)
(* address, "n" the nickname sought.                                       *)
(***************************************************************************)
EXTENDS SequencesExt

\* is_operator on op, is_invited on invited: some entry has the nickname.
Named(list, names, n) == \E i \in DOMAIN list : names[list[i]] = n

EraseNamed_FaultLast(list, names, n) ==
  IF Named(list, names, n) THEN Front(list) ELSE list

\* deleteClient, unsetOperator: the first entry with the nickname is erased,
\* a list without one is left as it is.
EraseNamed(list, names, n) == RemoveFirstMatch(list, LAMBDA c : names[c] = n)

PushNamed_FaultNoSearch(list, names, c) == Append(list, c)

\* setOperator, and the push_back of addClient and cmd_invite behind their
\* is_invited tests: c is added unless its nickname is listed already.
PushNamed(list, names, c) ==
  IF Named(list, names, names[c]) THEN list ELSE Append(list, c)

\* The invite-only branch of addClient: the loop refuses when it reaches the
\* last entry and that entry has another nickname.  Earlier entries are not
\* looked at to any effect, and an empty list refuses nobody.
InviteOnlyRefuses(list, names, n) == list # <<>> /\ names[Last(list)] # n

\* No client is on the list twice.
ListedOnce(list) == IsInjective(list)
=============================================================================
