--------------------------- MODULE RequestReader ---------------------------
(***************************************************************************)
(* c_network_reader_service::service_read: one request is received in      *)
(* pieces. Its header, HeaderSize digits, spells the length of the whole   *)
(* message; the message counts as complete when nothing has followed it    *)
(* for RetryLimit receive time-outs.                                       *)
(*                                                                         *)
(* A byte is abstracted to its class, and the buffer to the positions in   *)
(* the client's stream of the bytes it holds. "claim" is the number that   *)
(* the header's digits spell.                                              *)
(***************************************************************************)
EXTENDS Integers, Sequences

CONSTANTS
  HeaderSize,  \* protocol.header.size.length
  BufferSize,  \* network.connection.buffer_size, at most received at once
  MaxMessage,  \* network.connection.clients.max.message_size
  RetryLimit,  \* network.connection.read.retry
  MaxInt,      \* the largest int32_t
  Streams,     \* what a client may send
  Claims,      \* what its header may spell
  MayExit      \* the exit flag may be set

Classes == {"digit", "other", "nul"}

ASSUME SizesAssumption ==
  /\ HeaderSize \in Nat \ {0}
  /\ BufferSize \in Nat \ {0}
  /\ MaxMessage \in Nat \ {0}
  /\ RetryLimit \in Nat
  /\ MaxInt \in Nat

ASSUME StreamsAssumption ==
  /\ Streams \subseteq Seq(Classes)
  /\ Claims \subseteq Nat
  /\ MayExit \in BOOLEAN

VARIABLES
  stream,    \* the classes of the bytes the client sends, in order
  claim,
  arrived,   \* bytes that have arrived at the socket
  peer,      \* "open", "closed" (after what it sent) or "reset"
  consumed,  \* bytes that recv has returned
  buffer,    \* result_buffer
  header,    \* header_message_length
  retries,   \* error_loop_count
  status,    \* "start", "reading", or the status that was returned
  text       \* _result_buffer

netVars == <<stream, claim, arrived, peer>>

vars == <<stream, claim, arrived, peer, consumed, buffer, header, retries,
          status, text>>

Init ==
  /\ stream \in Streams
  /\ claim \in Claims
  /\ arrived = 0
  /\ peer = "open"
  /\ consumed = 0
  /\ buffer = <<>>
  /\ header = 0
  /\ retries = 0
  /\ status = "start"
  /\ text = <<>>
-----------------------------------------------------------------------------
(* The client and the network.                                             *)

Arrive ==
  /\ peer = "open"
  /\ arrived' \in (arrived + 1)..Len(stream)
  /\ UNCHANGED <<stream, claim, peer, consumed, buffer, header, retries,
                 status, text>>

(* The client closes its side, or resets the connection: what has not been *)
(* received is lost then.                                                  *)
Leave ==
  /\ peer = "open"
  /\ peer' \in {"closed", "reset"}
  /\ arrived' = IF peer' = "reset" THEN consumed ELSE arrived
  /\ UNCHANGED <<stream, claim, consumed, buffer, header, retries, status,
                 text>>
-----------------------------------------------------------------------------
(* The reader.                                                             *)

(* The bytes of the chunk that reach the buffer, which takes it for a C    *)
(* string: those before the first NUL.                                     *)
Readable(n) ==
  {i \in 1..n : \A j \in 1..i : stream[consumed + j] # "nul"}

(* Mutant: a chunk that is not terminated ends in the bytes of the one     *)
(* before it.                                                              *)
ChunkUnterminated(m) ==
  [i \in 1..(IF m < Len(buffer) THEN Len(buffer) ELSE m) |->
     IF i <= m THEN consumed + i ELSE buffer[i]]

Chunk(m) == [i \in 1..m |-> consumed + i]

(* extract_leading_number_length_n finds digits only.                      *)
AllDigits(b) == \A i \in 1..HeaderSize : stream[b[i]] = "digit"

(* Mutant: the header is looked for in the first piece only.               *)
ReadHeaderAtFirst(b) == header = 0 /\ buffer = <<>> /\ Len(b) > HeaderSize

(* The checks behind every recv. The first number that is read from the    *)
(* header is kept; stoi throws when it is beyond an int, and the thread    *)
(* catches nothing.                                                        *)
ReadHeader(b) == header = 0 /\ Len(b) > HeaderSize

Overflows(b) == ReadHeader(b) /\ AllDigits(b) /\ claim > MaxInt

HeaderIsInvalid(b) == ReadHeader(b) /\ (~AllDigits(b) \/ claim < HeaderSize)

(* Mutant: the limit of the configuration is not enforced.                 *)
VerdictUnbounded(b, h) ==
  IF h > 0 /\ Len(b) > h THEN "message_bigger_than_header_value"
  ELSE IF h <= 0 /\ Len(b) > HeaderSize THEN "header_missing"
  ELSE "reading"

Verdict(b, h) ==
  IF Len(b) > MaxMessage THEN "message_too_long"
  ELSE IF h > 0 /\ Len(b) > h THEN "message_bigger_than_header_value"
  ELSE IF h <= 0 /\ Len(b) > HeaderSize THEN "header_missing"
  ELSE "reading"

Check(b) ==
  /\ buffer' = b
  /\ \/ /\ Overflows(b)
        /\ status' = "terminated"
        /\ UNCHANGED header
     \/ /\ HeaderIsInvalid(b) /\ ~Overflows(b)
        /\ status' = "header_invalid"
        /\ header' = -1
     \/ /\ ~HeaderIsInvalid(b) /\ ~Overflows(b)
        /\ header' = IF ReadHeader(b) THEN claim ELSE header
        /\ status' = Verdict(b, header')

(* setsockopt for the time-out of recv fails on a closed descriptor.       *)
SetTimeout ==
  /\ status = "start"
  /\ status' \in {"reading", "system_error"}
  /\ UNCHANGED <<netVars, consumed, buffer, header, retries, text>>

Trying == status = "reading" /\ retries < RetryLimit

Receive ==
  /\ Trying
  /\ \E n \in 1..BufferSize :
       /\ consumed + n <= arrived
       /\ consumed' = consumed + n
       /\ \E m \in 0..n :
            /\ Readable(n) = 1..m
            /\ Check(buffer \o Chunk(m))
  /\ UNCHANGED <<netVars, retries, text>>

(* Mutant: a time-out is not counted.                                      *)
ReceiveFailsUncounted ==
  /\ Trying
  /\ consumed = arrived
  /\ peer # "closed"
  /\ peer' = IF peer = "reset" THEN "closed" ELSE peer
  /\ Check(buffer)
  /\ UNCHANGED <<stream, claim, arrived, consumed, retries, text>>

(* recv returns -1: nothing has come in time, or the client has reset.     *)
ReceiveFails ==
  /\ Trying
  /\ consumed = arrived
  /\ peer # "closed"
  /\ retries' = retries + 1
  /\ peer' = IF peer = "reset" THEN "closed" ELSE peer
  /\ Check(buffer)
  /\ UNCHANGED <<stream, claim, arrived, consumed, text>>

(* recv returns 0.                                                         *)
ReceiveNothing ==
  /\ Trying
  /\ consumed = arrived
  /\ peer = "closed"
  /\ status' = "connection_closed"
  /\ UNCHANGED <<netVars, consumed, buffer, header, retries, text>>

(* Mutant: one byte short of what the header says is complete.             *)
NearlyComplete == header > 0 /\ Len(buffer) >= header - 1

(* Mutant: the header is taken for the length of the payload.              *)
CompletePayload == header > 0 /\ Len(buffer) = HeaderSize + header

Complete == header > 0 /\ Len(buffer) = header

(* The loop ends with the retries, and only here is a message accepted.    *)
GiveUp ==
  /\ status = "reading"
  /\ retries >= RetryLimit
  /\ \/ /\ Complete
        /\ status' = "ok"
        /\ text' = SubSeq(buffer, HeaderSize + 1, Len(buffer))
     \/ /\ ~Complete
        /\ status' = "too_many_reads"
        /\ UNCHANGED text
  /\ UNCHANGED <<netVars, consumed, buffer, header, retries>>

(* The exit flag is tested after the retries.                              *)
Exit ==
  /\ MayExit
  /\ Trying
  /\ status' = "system_exit"
  /\ UNCHANGED <<netVars, consumed, buffer, header, retries, text>>

Read == SetTimeout \/ Receive \/ ReceiveFails \/ ReceiveNothing \/ GiveUp

Returned ==
  /\ status \notin {"start", "reading"}
  /\ UNCHANGED vars

Next == Arrive \/ Leave \/ Read \/ Exit \/ Returned

Spec == Init /\ [][Next]_vars

(* The thread keeps running; the client owes nothing.                      *)
FairSpec == Spec /\ WF_vars(Read)
-----------------------------------------------------------------------------
(* Properties.                                                             *)

Refusals == {"message_too_long", "message_bigger_than_header_value",
             "header_invalid", "header_missing", "too_many_reads"}

(* The variables have their types.                                         *)
TypeOK ==
  /\ stream \in Streams
  /\ claim \in Claims
  /\ arrived \in Nat
  /\ peer \in {"open", "closed", "reset"}
  /\ consumed \in Nat
  /\ buffer \in Seq(Nat)
  /\ header \in {-1, 0, claim}
  /\ retries \in 0..RetryLimit
  /\ status \in Refusals \cup {"start", "reading", "ok", "system_error",
                               "connection_closed", "system_exit",
                               "terminated"}
  /\ text \in Seq(Nat)

(* The framing: the reader says OK for a message whose header is digits    *)
(* that spell the number of bytes it has received, header included, of     *)
(* which at least one is payload, and hands over exactly what is behind    *)
(* the header.                                                             *)
OkIsWholeMessage ==
  status = "ok" =>
    /\ Len(buffer) = claim
    /\ claim \in (HeaderSize + 1)..MaxMessage
    /\ AllDigits(buffer)
    /\ Len(text) = claim - HeaderSize
    /\ \A i \in 1..Len(text) : text[i] = buffer[HeaderSize + i]

(* A message without NULs, all of whose bytes have the right length.       *)
Good ==
  /\ \A i \in 1..Len(stream) : stream[i] # "nul"
  /\ \A i \in 1..HeaderSize : i <= Len(stream) /\ stream[i] = "digit"
  /\ claim = Len(stream)
  /\ claim \in (HeaderSize + 1)..MaxMessage
  /\ claim <= MaxInt

(* However a good message is cut into pieces, it is refused for no reason  *)
(* but that its end has not come before the retries were used up.          *)
GoodMessageIsAccepted ==
  Good /\ status \in Refusals =>
    /\ status = "too_many_reads"
    /\ consumed < Len(stream)

(* The buffer holds bytes in the client's order, never one twice; and all  *)
(* that recv returned, if none is a NUL.                                   *)
BufferIsInOrder ==
  /\ \A i \in 1..(Len(buffer) - 1) : buffer[i] < buffer[i + 1]
  /\ (\A i \in 1..consumed : stream[i] # "nul")
       => /\ Len(buffer) = consumed
          /\ \A i \in 1..consumed : buffer[i] = i

(* The buffer grows beyond the configured message size by at most one      *)
(* recv, and never while the reader goes on.                               *)
BufferBounded ==
  /\ Len(buffer) <= MaxMessage + BufferSize
  /\ status = "reading" => Len(buffer) <= MaxMessage

(* READER_STATUS_HEADER_MISSING is never returned: a header that is not    *)
(* there has been found invalid before.                                    *)
HeaderNeverMissing == status # "header_missing"

(* What the client's first n bytes say, when there is no NUL among them.   *)
HeaderIn(n) ==
  /\ n > HeaderSize
  /\ \A i \in 1..HeaderSize : stream[i] = "digit"

(* Every verdict is true of what the client has sent and recv returned,    *)
(* whatever the pieces it came in, when the header was looked at and how   *)
(* many retries were between them: the thread ends in an exception for a   *)
(* header of digits beyond an int and nothing else; a header is called     *)
(* invalid, or a message too long or longer than its header says, if it    *)
(* is; a header is never said to be missing; and a message is incomplete,  *)
(* or has no byte behind its header, when the retries have run out on it.  *)
(* Bytes with a NUL among them are left out: what is behind one in its     *)
(* piece is not read.                                                      *)
VerdictIsTrue ==
  (\A i \in 1..consumed : stream[i] # "nul") =>
    CASE status = "terminated" -> HeaderIn(consumed) /\ claim > MaxInt
      [] status = "header_invalid" ->
           consumed > HeaderSize /\ ~(HeaderIn(consumed) /\ claim >= HeaderSize)
      [] status = "message_too_long" -> consumed > MaxMessage
      [] status = "message_bigger_than_header_value" ->
           HeaderIn(consumed) /\ consumed > claim
      [] status = "too_many_reads" -> consumed <= HeaderSize \/ consumed < claim
      [] status = "header_missing" -> FALSE
      [] status = "ok" -> HeaderIn(consumed) /\ consumed = claim
      [] OTHER -> TRUE

(* service_read comes to an end, whatever the client does.                 *)
ReadEnds == <>(status \notin {"start", "reading"})

(* "try limit reached": the reader has tried at least once when it says so.*)
TriedBeforeGivingUp ==
  status = "too_many_reads" => consumed > 0 \/ retries > 0
=============================================================================
