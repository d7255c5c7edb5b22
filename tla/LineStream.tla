----------------------------- MODULE LineStream -----------------------------
(***************************************************************************)
(* What a connection promises a client that ends its lines properly: the   *)
(* lines it has sent are served whole, in order, each once.                *)
(***************************************************************************)
EXTENDS Naturals, Sequences

CONSTANT Line

VARIABLES sent, served

Init == sent = <<>> /\ served = <<>>

\* One more line is sent.  (Line may be infinite: it is not enumerated.)
Send ==
  /\ Len(sent') = Len(sent) + 1
  /\ SubSeq(sent', 1, Len(sent)) = sent
  /\ sent'[Len(sent')] \in Line
  /\ UNCHANGED served

\* Some of the lines that have been sent, and not served yet, are served.
Serve ==
  /\ \E n \in 1..(Len(sent) - Len(served)) :
       served' = SubSeq(sent, 1, Len(served) + n)
  /\ UNCHANGED sent

Spec == Init /\ [][Send \/ Serve]_<<sent, served>>
=============================================================================
