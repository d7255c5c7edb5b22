---------------------------- MODULE LineFraming -----------------------------
(***************************************************************************)
(* How the bytes of one connection become lines: read_client_data receives *)
(* what has arrived (at most as much as its buffer holds) and              *)
(* parse_recieved joins it to the incomplete line kept from last time,     *)
(* splits at LF, and keeps the last piece back unless the segment ended in *)
(* CR LF.                                                                  *)
(*                                                                         *)
(* A byte is CR, LF or one of Char, each of which stands for a word with   *)
(* the blank before it (NUL, which ends the std::string made from the      *)
(* buffer, is not among them).  The specification is Dialogue's.           *)
(***************************************************************************)
EXTENDS Naturals, SequencesExt

CONSTANTS
  Char,     \* words: bytes other than CR, LF, NUL and blanks
  CR, LF,
  RecvMax,  \* the most recv returns at once: 1023
  MaxSent   \* bound on the bytes the client sends

ASSUME FramingAssumption ==
  /\ CR \notin Char /\ LF \notin Char /\ CR # LF
  /\ RecvMax \in Nat \ {0}
  /\ MaxSent \in Nat

Byte == Char \cup {CR, LF}

VARIABLES
  proper,    \* the client sends LF only after CR
  sent,      \* every byte the client has sent so far
  wire,      \* those that have not been received yet
  buffer,    \* Client::recv_buffer
  served,    \* the lines given to a Parser so far, without their LF
  running    \* FALSE once the process has ended

vars == <<proper, sent, wire, buffer, served, running>>

TypeOK ==
  /\ proper \in BOOLEAN
  /\ sent \in Seq(Byte)
  /\ wire \in Seq(Byte)
  /\ buffer \in Seq(Byte)
  /\ served \in Seq(Seq(Byte))
  /\ running \in BOOLEAN

Init ==
  /\ proper \in BOOLEAN
  /\ sent = <<>>
  /\ wire = <<>>
  /\ buffer = <<>>
  /\ served = <<>>
  /\ running = TRUE

\* The client sends one more byte; it arrives whenever it likes.
SendByte(b) ==
  /\ Len(sent) < MaxSent
  /\ proper /\ b = LF => sent # <<>> /\ Last(sent) = CR
  /\ sent' = Append(sent, b)
  /\ wire' = Append(wire, b)
  /\ UNCHANGED <<proper, buffer, served, running>>

-----------------------------------------------------------------------------

\* The elements of s that are in S, in their order.  (SelectSeq, with a set in
\* place of its test, so that lemmas can be stated about it.)
Only(s, S) ==
  LET only[n \in 0..Len(s)] ==
        IF n = 0 THEN <<>>
        ELSE IF s[n] \in S THEN Append(only[n - 1], s[n]) ELSE only[n - 1]
  IN only[Len(s)]

\* One byte more: a LF ends the piece.
Cut(acc, b) ==
  IF b = LF
  THEN [pieces |-> Append(acc.pieces, acc.rest), rest |-> <<>>]
  ELSE [pieces |-> acc.pieces, rest |-> Append(acc.rest, b)]

\* The pieces that have got their LF, and what comes after the last LF.
Cutting[bytes \in Seq(Byte)] ==
  IF bytes = <<>>
  THEN [pieces |-> <<>>, rest |-> <<>>]
  ELSE Cut(Cutting[Front(bytes)], Last(bytes))

\* split at LF: the pieces between the LFs, without an empty last one.
Split(bytes) ==
  LET all == Cutting[bytes]
  IN IF all.rest = <<>> THEN all.pieces ELSE Append(all.pieces, all.rest)

EndsLine_FaultNever(segment) == FALSE
EndsLine(segment) == IsSuffix(<<CR, LF>>, segment)

\* parse_recieved: the segment alone, not the joined text, is tested for its
\* ending; what is kept is the last piece, even if a LF followed it.
Kept_FaultNothing(segment) == <<>>
Kept(segment) ==
  IF EndsLine(segment) THEN <<>> ELSE Last(Split(buffer \o segment))

Lines_FaultSegmentOnly(segment) ==
  IF EndsLine(segment) THEN Split(segment) ELSE Front(Split(segment))
Lines(segment) ==
  IF EndsLine(segment) THEN Split(buffer \o segment) ELSE Front(Split(buffer \o segment))

\* The words a Parser finds in a line: CR is a blank to it.
Words(line) == Cardinality({i \in DOMAIN line : line[i] \in Char})

\* Without words there is no tokens[0], which what_is_this reads: the lines
\* that are handed to a Parser are those up to the first of this kind.
Fatal(lines) == \E line \in Range(lines) : Words(line) = 0
Handled(lines) ==
  IF Fatal(lines)
  THEN SubSeq(lines, 1, Min({i \in DOMAIN lines : Words(lines[i]) = 0}))
  ELSE lines

\* read_client_data.  Of a one-byte segment parse_recieved takes the substring
\* from position -1, which throws, and nobody catches it before main.
Receive ==
  /\ running /\ wire # <<>>
  /\ LET n == IF Len(wire) < RecvMax THEN Len(wire) ELSE RecvMax
         segment == SubSeq(wire, 1, n)
     IN /\ wire' = SubSeq(wire, n + 1, Len(wire))
        /\ \/ /\ n >= 2
              /\ buffer' = Kept(segment)
              /\ served' = served \o Handled(Lines(segment))
              /\ running' = ~Fatal(Lines(segment))
           \/ /\ n = 1
              /\ running' = FALSE
              /\ UNCHANGED <<buffer, served>>
  /\ UNCHANGED <<proper, sent>>

-----------------------------------------------------------------------------
(* Any client.                                                             *)

WithoutLF(bytes) == Only(bytes, Byte \ {LF})

\* Whatever the client's line ends are and however its bytes are cut into
\* segments, they reach the handlers in order and each once, but for the LFs
\* (where a LF has no CR, two lines may be served as one).
ContentIsKept ==
  running =>
    WithoutLF(sent) = WithoutLF(FlattenSeq(served)) \o buffer \o WithoutLF(wire)

-----------------------------------------------------------------------------
(* A client that sends LF only after CR.                                   *)

\* The lines in a sequence of bytes that have got their LF.
Complete(bytes) == Cutting[bytes].pieces

Stream == INSTANCE LineStream WITH
  Line   <- Seq(Byte),
  sent   <- IF proper THEN Complete(sent) ELSE <<>>,
  served <- IF proper THEN served ELSE <<>>

\* However its bytes are cut, the client's complete lines are served as it has
\* sent them, in their order, none twice and none in pieces.
ImplementsLineStream == Stream!Spec

\* No line waits for the next one to be sent: when a client pauses, all the lines
\* it has completed are served, unless the process ends (of a one-byte segment,
\* or of a line without a word).
CompleteLinesAreServed ==
  proper /\ Len(served) < Len(Complete(sent))
    ~> Len(served) = Len(Complete(sent)) \/ ~running
=============================================================================
