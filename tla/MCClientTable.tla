--------------------------- MODULE MCClientTable ---------------------------
(* Three addresses, three nicknames (one of them erroneous): enough for two *)
(* connections to compete for a name while a third address is freed and     *)
(* reused.                                                                  *)
EXTENDS ClientTable, TLC

Symmetry == Permutations(Client) \cup Permutations(Nick \ Erroneous)
=============================================================================
