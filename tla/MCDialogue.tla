----------------------------- MODULE MCDialogue -----------------------------
(* Every sequence of up to six bytes of three kinds, cut into segments of   *)
(* up to four bytes in every way, and a notice of another client at any     *)
(* moment.                                                                  *)
EXTENDS Dialogue
=============================================================================
