------------------------------ MODULE Dialogue ------------------------------
(***************************************************************************)
(* One connection end to end: the lines a client sends, what the handlers  *)
(* append to its send_buffer, and what send_message gets out of it.        *)
(*                                                                         *)
(* The client's lines are PINGs.  Other clients' handlers append notices   *)
(* to the same buffer.  A message is two pieces, so that send() may stop   *)
(* within it: what it does not take is lost.                               *)
(***************************************************************************)
EXTENDS LineFraming

CONSTANT MaxNotices  \* bound on the notices other clients' handlers append

ASSUME NoticesAssumption == MaxNotices \in Nat

VARIABLES
  roomy,       \* the socket always takes the whole of what is sent
  report,      \* what poll has reported of this connection: "in", "out", "none"
  messages,    \* for each message queued so far, the line it answers, or 0
  sendBuffer,  \* Client::send_buffer
  heard        \* what send() has taken, which the client gets

outVars == <<roomy, report, messages, sendBuffer, heard>>
dialogueVars == <<vars, outVars>>

\* Of the n-th message queued, the first or the second piece.
Piece == Nat \X {1, 2}

DialogueTypeOK ==
  /\ TypeOK
  /\ roomy \in BOOLEAN
  /\ report \in {"none", "in", "out"}
  /\ messages \in Seq(0..Len(served))
  /\ sendBuffer \in Seq(Piece)
  /\ heard \in Seq(Piece)

DialogueInit ==
  /\ Init
  /\ roomy \in BOOLEAN
  /\ report = "none"
  /\ messages = <<>>
  /\ sendBuffer = <<>>
  /\ heard = <<>>

-----------------------------------------------------------------------------
(* The send buffer.                                                        *)

\* The pieces of the messages from the a-th to the b-th.
Pieces(a, b) == [k \in 1..(2 * (b - a + 1)) |-> <<a + ((k - 1) \div 2), 1 + ((k - 1) % 2)>>]

Appended_FaultReplace(new) == Pieces(Len(messages) + 1, Len(messages) + Len(new))
Appended_FaultFront(new) == Pieces(Len(messages) + 1, Len(messages) + Len(new)) \o sendBuffer

\* append_send_buffer, for each of the messages: each with the line it answers.
Appended(new) == sendBuffer \o Pieces(Len(messages) + 1, Len(messages) + Len(new))

Queue(new) ==
  /\ sendBuffer' = Appended(new)
  /\ messages' = messages \o new

\* cmd_ping: without a parameter an error, with one a PONG, with more nothing.
Answered(line) == Words(line) \in {1, 2}

\* The numbers of the answered lines, from the n-th one on.
AnsweredFrom(n, lines) ==
  Only([k \in 1..(Len(lines) - n + 1) |-> n + k - 1],
       {j \in DOMAIN lines : Answered(lines[j])})

AnswersDue_FaultPastTheEnd == Append(AnsweredFrom(Len(served) + 1, served'), Len(served') + 1)

\* The lines, of those served in this step, that are answered.
AnswersDue == AnsweredFrom(Len(served) + 1, served')

-----------------------------------------------------------------------------
(* The loop, as one connection sees it.                                    *)

ClientSends(b) == SendByte(b) /\ UNCHANGED outVars

\* Another client's handler sends a notice to this one.
OthersNotify ==
  /\ running
  /\ Cardinality({i \in DOMAIN messages : messages[i] = 0}) < MaxNotices
  /\ Queue(<<0>>)
  /\ UNCHANGED <<vars, roomy, report, heard>>

\* POLLIN goes before POLLOUT: a connection that is both is read from.  (What
\* arrives after poll waits for the next one.)
Poll ==
  /\ running /\ report = "none"
  /\ report' = IF wire # <<>> THEN "in" ELSE "out"
  /\ UNCHANGED <<vars, roomy, messages, sendBuffer, heard>>

ReadClientData ==
  /\ report = "in" /\ Receive
  /\ Queue(AnswersDue)
  /\ report' = "none"
  /\ UNCHANGED <<roomy, heard>>

Emptied_FaultKeepTaken(n) == SubSeq(sendBuffer, 1, n)

\* get_send_buffer_and_flush: the whole buffer, whatever send() will take of it.
Emptied(n) == <<>>

\* send_message.  POLLOUT means that send() takes something.
SendMessage ==
  /\ running /\ report = "out"
  /\ \/ /\ sendBuffer = <<>>
        /\ UNCHANGED <<sendBuffer, heard>>
     \/ \E n \in 1..Len(sendBuffer) :
          /\ roomy => n = Len(sendBuffer)
          /\ heard' = heard \o SubSeq(sendBuffer, 1, n)
          /\ sendBuffer' = Emptied(n)
  /\ report' = "none"
  /\ UNCHANGED <<vars, roomy, messages>>

ServerStep == Poll \/ ReadClientData \/ SendMessage

DialogueNext == (\E b \in Byte : ClientSends(b)) \/ OthersNotify \/ ServerStep

\* The server's thread runs whenever it can; nobody else owes a step.
DialogueSpec == DialogueInit /\ [][DialogueNext]_dialogueVars /\ WF_dialogueVars(ServerStep)

-----------------------------------------------------------------------------

Before(p, q) == p[1] < q[1] \/ (p[1] = q[1] /\ p[2] < q[2])

\* Whatever send() takes: the client gets no piece twice and none before an
\* earlier one, and never the end of a message without its beginning.  (It may
\* get a beginning without its end, with the next message glued to it.)
TornOnlyAtTheEnd ==
  LET out == heard \o sendBuffer IN
  /\ \A i \in 1..(Len(out) - 1) : Before(out[i], out[i + 1])
  /\ \A i \in DOMAIN out :
       out[i][2] = 2 => i > 1 /\ out[i - 1] = <<out[i][1], 1>>

\* The lines, by their numbers, whose answers the client has got to their ends.
AnswersHeard ==
  LET answers == {j \in DOMAIN messages : messages[j] # 0}
      ends == Only(heard, answers \X {2})
  IN [k \in DOMAIN ends |-> messages[ends[k][1]]]

\* Those that it has completed and that are answered.
AnswersExpected == AnsweredFrom(1, Complete(sent))

Conversation == INSTANCE LineStream WITH
  Line   <- Nat,
  sent   <- IF proper /\ roomy THEN AnswersExpected ELSE <<>>,
  served <- IF proper /\ roomy THEN AnswersHeard ELSE <<>>

\* While the socket takes what it is given, a client that ends its lines
\* properly gets the answers to them, whole, each once, in the order of its
\* lines, however both directions are cut and whatever others send in between.
ImplementsConversation == Conversation!Spec

\* Whenever the server has read all that a client with proper line ends has sent,
\* no line of it is kept back; when the send buffer is empty too (and the socket
\* has always had room), no answer either: the last line is not left waiting for
\* the next one, and no answer for the next message.
NothingStaysBehind ==
  proper /\ running /\ wire = <<>> =>
    /\ served = Complete(sent)
    /\ roomy /\ sendBuffer = <<>> => AnswersHeard = AnswersExpected

\* A client that stops sending (as every one does, after MaxSent bytes at the
\* latest) and whose socket has room gets an answer to each line it has
\* completed, unless the process ends: nothing stays behind in the send buffer.
LinesAreAnswered ==
  <>[](proper /\ roomy /\ running =>
         AnswersHeard = AnswersExpected)
=============================================================================
