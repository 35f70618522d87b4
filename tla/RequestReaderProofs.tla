------------------------ MODULE RequestReaderProofs ------------------------
(***************************************************************************)
(* Proofs about RequestReader, for headers, messages and pieces of any     *)
(* size and clients that send anything.                                    *)
(***************************************************************************)
EXTENDS RequestReader, SequenceTheorems, TLAPS

USE SizesAssumption, StreamsAssumption

(* What holds whenever the loop goes on: the header has been read as soon  *)
(* as there is a byte behind it, and its number has not been passed.       *)
HeaderIsKept ==
  status \in {"start", "reading"} =>
    /\ Len(buffer) <= MaxMessage
    /\ header = 0 => Len(buffer) <= HeaderSize
    /\ header # 0 => /\ header = claim
                     /\ claim >= HeaderSize
                     /\ AllDigits(buffer)
                     /\ Len(buffer) \in (HeaderSize + 1)..header

(* What a verdict was based on is still in the buffer.                     *)
Decided ==
  /\ status = "terminated" =>
       Len(buffer) > HeaderSize /\ AllDigits(buffer) /\ claim > MaxInt
  /\ status = "header_invalid" =>
       Len(buffer) > HeaderSize /\ ~(AllDigits(buffer) /\ claim >= HeaderSize)
  /\ status = "message_too_long" => Len(buffer) > MaxMessage
  /\ status = "message_bigger_than_header_value" =>
       Len(buffer) > HeaderSize /\ AllDigits(buffer) /\ Len(buffer) > claim
  /\ status = "too_many_reads" =>
       Len(buffer) <= HeaderSize \/ Len(buffer) < claim

Inv == TypeOK /\ HeaderIsKept /\ OkIsWholeMessage /\ BufferBounded
         /\ HeaderNeverMissing /\ Decided
-----------------------------------------------------------------------------
(* The invariant holds before the first recv.                              *)
LEMMA InitInv == Init => Inv
BY DEF Init, Inv, TypeOK, HeaderIsKept, OkIsWholeMessage, BufferBounded,
       HeaderNeverMissing, Decided, AllDigits

(* A chunk is appended: what was in the buffer stays where it was.         *)
LEMMA ChunkAppended ==
  ASSUME TypeOK, NEW n \in 1..BufferSize, NEW m \in 0..n
  PROVE  LET b == buffer \o Chunk(m)
         IN  /\ b \in Seq(Nat)
             /\ Len(b) = Len(buffer) + m
             /\ \A i \in 1..Len(buffer) : b[i] = buffer[i]
BY DEF TypeOK, Chunk

(* The checks behind a recv keep what the loop relies on, whatever has     *)
(* been appended.                                                          *)
LEMMA CheckInv ==
  ASSUME Inv, status = "reading", stream' = stream, claim' = claim,
         NEW b \in Seq(Nat),
         Len(b) \in Len(buffer)..(Len(buffer) + BufferSize),
         \A i \in 1..Len(buffer) : b[i] = buffer[i],
         Check(b)
  PROVE  /\ buffer' \in Seq(Nat)
         /\ header' \in {-1, 0, claim'}
         /\ status' \in Refusals \cup {"reading", "terminated"}
         /\ status' # "ok"
         /\ HeaderIsKept' /\ BufferBounded' /\ HeaderNeverMissing'
         /\ Decided'
<1>1. /\ buffer' = b
      /\ claim \in Nat
      /\ header \in Int
      /\ Len(buffer) \in Nat /\ Len(b) \in Nat
      /\ Len(buffer) <= MaxMessage
      /\ header = 0 => Len(buffer) <= HeaderSize
      /\ header # 0 => /\ header = claim
                       /\ claim >= HeaderSize
                       /\ AllDigits(buffer)
                       /\ Len(buffer) \in (HeaderSize + 1)..header
  BY DEF Inv, TypeOK, HeaderIsKept, Check
<1>2. Len(b) <= MaxMessage + BufferSize
  BY <1>1
<1>3. header # 0 => AllDigits(b)
  <2> SUFFICES ASSUME header # 0, NEW i \in 1..HeaderSize
               PROVE  stream[b[i]] = "digit"
    BY DEF AllDigits
  <2>1. AllDigits(buffer) /\ i \in 1..Len(buffer)
    BY <1>1
  <2> QED
    BY <2>1 DEF AllDigits
<1>4. AllDigits(b) <=> AllDigits(buffer)'
  BY <1>1 DEF AllDigits
<1>5. CASE Overflows(b)
  <2>1. status' = "terminated" /\ header' = header
    BY <1>5 DEF Check
  <2>2. claim > MaxInt /\ AllDigits(b) /\ Len(b) > HeaderSize
    BY <1>5 DEF Overflows, ReadHeader
  <2> QED
    BY <1>1, <1>2, <1>4, <2>1, <2>2
    DEF Inv, TypeOK, HeaderIsKept, BufferBounded, HeaderNeverMissing,
        Decided
<1>6. CASE HeaderIsInvalid(b) /\ ~Overflows(b)
  <2>1. status' = "header_invalid" /\ header' = -1
    BY <1>6 DEF Check
  <2>2. Len(b) > HeaderSize /\ ~(AllDigits(b) /\ claim >= HeaderSize)
    BY <1>1, <1>6 DEF HeaderIsInvalid, ReadHeader
  <2> QED
    BY <1>1, <1>2, <1>4, <2>1, <2>2
    DEF HeaderIsKept, BufferBounded, HeaderNeverMissing,
        Decided, Refusals
<1>7. CASE ~HeaderIsInvalid(b) /\ ~Overflows(b)
  <2>1. /\ header' = IF ReadHeader(b) THEN claim ELSE header
        /\ status' = Verdict(b, header')
    BY <1>7 DEF Check
  <2>2. ReadHeader(b) => AllDigits(b) /\ claim >= HeaderSize
    BY <1>1, <1>7 DEF HeaderIsInvalid
  <2>3. header' # 0 => /\ header' = claim
                       /\ claim >= HeaderSize
                       /\ AllDigits(b)
                       /\ Len(b) > HeaderSize
    BY <1>1, <1>3, <2>1, <2>2 DEF ReadHeader
  <2>4. header' = 0 => Len(b) <= HeaderSize
    BY <1>1, <2>1, <2>2 DEF ReadHeader
  <2>5. header' \in {0, claim}
    BY <1>1, <2>1
  <2>6. /\ status' \in {"message_too_long", "reading",
                        "message_bigger_than_header_value"}
        /\ status' = "reading" =>
             /\ Len(b) <= MaxMessage
             /\ header' # 0 => Len(b) <= header'
        /\ status' = "message_too_long" => Len(b) > MaxMessage
        /\ status' = "message_bigger_than_header_value" =>
             header' # 0 /\ Len(b) > header'
    BY <1>1, <2>1, <2>3, <2>4, <2>5 DEF Verdict
  <2>7. HeaderIsKept'
    BY <1>1, <1>4, <2>3, <2>4, <2>5, <2>6 DEF HeaderIsKept
  <2> QED
    BY <1>1, <1>2, <1>4, <2>3, <2>5, <2>6, <2>7
    DEF BufferBounded, HeaderNeverMissing, Decided, Refusals
<1> QED
  BY <1>5, <1>6, <1>7

(* A recv that returns bytes, with all checks behind it.                   *)
LEMMA ReceiveInv ==
  ASSUME Inv, Receive
  PROVE  Inv'
<1>0. PICK n \in 1..BufferSize :
        /\ consumed' = consumed + n
        /\ \E m \in 0..n : Check(buffer \o Chunk(m))
  BY DEF Receive
<1>1. PICK m \in 0..n : Check(buffer \o Chunk(m))
  BY <1>0
<1>2. /\ status = "reading"
      /\ stream' = stream /\ claim' = claim /\ arrived' = arrived
      /\ peer' = peer /\ retries' = retries /\ text' = text
  BY DEF Receive, Trying, netVars
<1>3. /\ buffer \o Chunk(m) \in Seq(Nat)
      /\ Len(buffer \o Chunk(m))
           \in Len(buffer)..(Len(buffer) + BufferSize)
      /\ \A i \in 1..Len(buffer) : (buffer \o Chunk(m))[i] = buffer[i]
  <2>1. Len(buffer) \in Nat
    BY DEF Inv, TypeOK
  <2>2. /\ buffer \o Chunk(m) \in Seq(Nat)
        /\ Len(buffer \o Chunk(m)) = Len(buffer) + m
        /\ \A i \in 1..Len(buffer) : (buffer \o Chunk(m))[i] = buffer[i]
    BY ChunkAppended DEF Inv
  <2> QED
    BY <2>1, <2>2
<1>4. /\ buffer' \in Seq(Nat)
      /\ header' \in {-1, 0, claim'}
      /\ status' \in Refusals \cup {"reading", "terminated"}
      /\ status' # "ok"
      /\ HeaderIsKept' /\ BufferBounded' /\ HeaderNeverMissing'
      /\ Decided'
  BY <1>1, <1>2, <1>3, CheckInv
<1>5. TypeOK'
  BY <1>0, <1>2, <1>4 DEF Inv, TypeOK
<1> QED
  BY <1>4, <1>5 DEF Inv, OkIsWholeMessage

(* A recv that times out, or finds the connection gone.                    *)
LEMMA ReceiveFailsInv ==
  ASSUME Inv, ReceiveFails
  PROVE  Inv'
<1>1. /\ status = "reading" /\ retries < RetryLimit
      /\ Check(buffer)
      /\ stream' = stream /\ claim' = claim /\ arrived' = arrived
      /\ consumed' = consumed /\ text' = text
      /\ retries' = retries + 1
      /\ peer' \in {"open", "closed", "reset"}
  BY DEF ReceiveFails, Trying, Inv, TypeOK
<1>2. /\ buffer \in Seq(Nat)
      /\ Len(buffer) \in Len(buffer)..(Len(buffer) + BufferSize)
  BY DEF Inv, TypeOK
<1>3. /\ buffer' \in Seq(Nat)
      /\ header' \in {-1, 0, claim'}
      /\ status' \in Refusals \cup {"reading", "terminated"}
      /\ status' # "ok"
      /\ HeaderIsKept' /\ BufferBounded' /\ HeaderNeverMissing'
      /\ Decided'
  BY <1>1, <1>2, CheckInv
<1>4. TypeOK'
  BY <1>1, <1>3 DEF Inv, TypeOK
<1> QED
  BY <1>3, <1>4 DEF Inv, OkIsWholeMessage

(* A message is accepted with the header that was kept.                    *)
LEMMA GiveUpInv ==
  ASSUME Inv, GiveUp
  PROVE  Inv'
<1>1. /\ status = "reading"
      /\ stream' = stream /\ claim' = claim /\ arrived' = arrived
      /\ peer' = peer /\ consumed' = consumed /\ buffer' = buffer
      /\ header' = header /\ retries' = retries
  BY DEF GiveUp, netVars
<1>2. AllDigits(buffer) => AllDigits(buffer)'
  BY <1>1 DEF AllDigits
<1>3. CASE /\ Complete
           /\ status' = "ok"
           /\ text' = SubSeq(buffer, HeaderSize + 1, Len(buffer))
  <2>1. /\ Len(buffer) = claim
        /\ claim \in (HeaderSize + 1)..MaxMessage
        /\ AllDigits(buffer)
    BY <1>1, <1>3 DEF Inv, TypeOK, HeaderIsKept, Complete
  <2>2. /\ text' \in Seq(Nat)
        /\ Len(text') = claim - HeaderSize
        /\ \A i \in 1..Len(text') : text'[i] = buffer[HeaderSize + i]
    <3>1. buffer \in Seq(Nat) /\ Len(buffer) \in Nat
      BY DEF Inv, TypeOK
    <3>2. \A i \in (HeaderSize + 1)..Len(buffer) : i \in 1..Len(buffer)
      BY <3>1
    <3>3. HeaderSize + 1 \in Int /\ Len(buffer) \in Int
      BY <3>1
    <3>4. \A i \in (HeaderSize + 1)..Len(buffer) : buffer[i] \in Nat
      BY <3>1, <3>2
    <3>5. /\ text' \in Seq(Nat)
          /\ Len(text') = IF HeaderSize + 1 <= Len(buffer)
                          THEN Len(buffer) - (HeaderSize + 1) + 1 ELSE 0
          /\ \A i \in 1..(Len(buffer) - (HeaderSize + 1) + 1) :
               text'[i] = buffer[HeaderSize + 1 + i - 1]
      BY <1>3, <3>3, <3>4, SubSeqProperties
    <3> QED
      BY <2>1, <3>5
  <2>3. TypeOK'
    BY <1>1, <1>3, <2>2 DEF Inv, TypeOK
  <2>4. OkIsWholeMessage'
    BY <1>1, <1>2, <2>1, <2>2 DEF OkIsWholeMessage
  <2> QED
    BY <1>1, <1>3, <2>3, <2>4
    DEF Inv, HeaderIsKept, BufferBounded, HeaderNeverMissing,
        Decided
<1>4. CASE ~Complete /\ status' = "too_many_reads" /\ text' = text
  <2>1. PICK size \in Nat, c \in Nat : size = Len(buffer) /\ c = claim
    BY DEF Inv, TypeOK
  <2>2. size <= HeaderSize \/ size < c
    <3>1. header = 0 => size <= HeaderSize
      BY <1>1, <2>1 DEF Inv, HeaderIsKept
    <3>2. header # 0 => header = c /\ size <= c /\ c > 0
      BY <1>1, <2>1 DEF Inv, HeaderIsKept
    <3> QED
      BY <1>4, <2>1, <3>1, <3>2 DEF Complete
  <2>3. Decided'
    BY <1>1, <1>4, <2>1, <2>2 DEF Decided
  <2>4. TypeOK'
    BY <1>1, <1>4 DEF Inv, TypeOK, Refusals
  <2> QED
    BY <1>1, <1>4, <2>3, <2>4
    DEF Inv, HeaderIsKept, OkIsWholeMessage, BufferBounded,
        HeaderNeverMissing
<1> QED
  BY <1>3, <1>4 DEF GiveUp

(* The client, and the returns that look at no byte.                       *)
LEMMA ClientInv ==
  ASSUME Inv, Arrive \/ Leave
  PROVE  Inv'
<1>1. /\ arrived' \in Nat /\ peer' \in {"open", "closed", "reset"}
      /\ stream' = stream /\ claim' = claim /\ consumed' = consumed
      /\ buffer' = buffer /\ header' = header /\ retries' = retries
      /\ status' = status /\ text' = text
  <2>1. CASE Arrive
    <3>1. Len(stream) \in Nat /\ arrived \in Nat
      BY DEF Inv, TypeOK
    <3>2. \A k \in (arrived + 1)..Len(stream) : k \in Nat
      BY <3>1
    <3> QED
      BY <2>1, <3>2 DEF Arrive, Inv, TypeOK
  <2>2. CASE Leave
    BY <2>2 DEF Leave, Inv, TypeOK
  <2> QED
    BY <2>1, <2>2
<1>2. TypeOK'
  BY <1>1 DEF Inv, TypeOK
<1> QED
  BY <1>1, <1>2
  DEF Inv, HeaderIsKept, OkIsWholeMessage, BufferBounded,
      HeaderNeverMissing, Decided, AllDigits

(* Steps that only return a status.                                        *)
LEMMA StatusInv ==
  ASSUME Inv, SetTimeout \/ ReceiveNothing \/ Exit
  PROVE  Inv'
<1>1. /\ status \in {"start", "reading"}
      /\ status' \in {"reading", "system_error", "connection_closed",
                      "system_exit"}
      /\ stream' = stream /\ claim' = claim /\ arrived' = arrived
      /\ peer' = peer /\ consumed' = consumed /\ buffer' = buffer
      /\ header' = header /\ retries' = retries /\ text' = text
  BY DEF SetTimeout, ReceiveNothing, Exit, Trying, netVars
<1> QED
  BY <1>1
  DEF Inv, TypeOK, HeaderIsKept, OkIsWholeMessage, BufferBounded,
      HeaderNeverMissing, Decided, AllDigits

(* Steps that change nothing.                                              *)
LEMMA StutterInv ==
  ASSUME Inv, UNCHANGED vars
  PROVE  Inv'
BY DEF vars, Inv, TypeOK, HeaderIsKept, OkIsWholeMessage, BufferBounded,
       HeaderNeverMissing, Decided, AllDigits

(* The invariant holds of every behaviour.                                 *)
LEMMA InvHolds == Spec => []Inv
<1>1. Inv /\ [Next]_vars => Inv'
  BY ReceiveInv, ReceiveFailsInv, GiveUpInv, ClientInv, StatusInv, StutterInv
  DEF Next, Read, Returned
<1> QED
  BY InitInv, <1>1, PTL DEF Spec
-----------------------------------------------------------------------------
(* The framing is right: what service_read calls OK is a whole message of  *)
(* the length its header gives, with a payload (lines 200 to 233).         *)
THEOREM FramingIsRight == Spec => []OkIsWholeMessage
BY InvHolds, PTL DEF Inv

(* The buffer of a request is bounded, whatever the client sends (line     *)
(* 213).                                                                   *)
THEOREM BufferStaysBounded == Spec => []BufferBounded
BY InvHolds, PTL DEF Inv

(* The check for a missing header (line 223) never fires.                  *)
THEOREM MissingHeaderIsDead == Spec => []HeaderNeverMissing
BY InvHolds, PTL DEF Inv
-----------------------------------------------------------------------------
(* The bytes: those of the buffer are among those received, and these are  *)
(* among those that have arrived.                                          *)
InOrder ==
  /\ consumed <= arrived /\ arrived <= Len(stream)
  /\ \A i \in 1..Len(buffer) : buffer[i] <= consumed
  /\ BufferIsInOrder

(* Counts are numbers.                                                     *)
LEMMA CountsAreNumbers ==
  ASSUME Inv
  PROVE  /\ consumed \in Nat /\ arrived \in Nat /\ claim \in Nat
         /\ Len(stream) \in Nat /\ Len(buffer) \in Nat
BY DEF Inv, TypeOK

(* A recv without a NUL reaches the buffer as it is.                       *)
LEMMA ReadableIsAll ==
  ASSUME Inv, NEW n \in 1..BufferSize, NEW m \in 0..n, Readable(n) = 1..m,
         \A i \in 1..(consumed + n) : stream[i] # "nul"
  PROVE  m = n
<1>1. consumed \in Nat
  BY DEF Inv, TypeOK
<1>2. \A j \in 1..n : consumed + j \in 1..(consumed + n)
  BY <1>1
<1>3. Readable(n) = 1..n
  BY <1>2 DEF Readable
<1>4. n \in 1..m
  BY <1>3
<1> QED
  BY <1>4

(* A recv that returns bytes appends what is behind the last one.          *)
LEMMA ReceiveInOrder ==
  ASSUME Inv, InOrder, Receive
  PROVE  InOrder'
<1>1. PICK n \in 1..BufferSize :
        /\ consumed + n <= arrived
        /\ consumed' = consumed + n
        /\ \E m \in 0..n :
             /\ Readable(n) = 1..m
             /\ Check(buffer \o Chunk(m))
  BY DEF Receive
<1>2. PICK m \in 0..n : Readable(n) = 1..m /\ Check(buffer \o Chunk(m))
  BY <1>1
<1>3. PICK b : b = buffer \o Chunk(m)
  OBVIOUS
<1>4. PICK size \in Nat : size = Len(buffer)
  BY DEF Inv, TypeOK
<1>5. PICK c \in Nat : c = consumed
  BY DEF Inv, TypeOK
<1>6. /\ buffer' = b /\ consumed' = c + n
      /\ stream' = stream /\ arrived' = arrived
  BY <1>1, <1>2, <1>3, <1>5 DEF Check, Receive, netVars
<1>7. /\ Len(b) = size + m
      /\ \A i \in 1..size : b[i] = buffer[i] /\ b[i] \in Nat /\ b[i] <= c
      /\ \A i \in (size + 1)..(size + m) : b[i] = c + (i - size)
  <2>1. /\ buffer \in Seq(Nat)
        /\ \A i \in 1..size : buffer[i] \in Nat /\ buffer[i] <= c
    BY <1>4, <1>5 DEF Inv, TypeOK, InOrder
  <2>2. /\ Chunk(m) \in Seq(Nat) /\ Len(Chunk(m)) = m
        /\ \A j \in 1..m : Chunk(m)[j] = c + j
    BY <1>5 DEF Chunk
  <2>3. \A i \in (size + 1)..(size + m) :
          b[i] = Chunk(m)[i - size] /\ i - size \in 1..m
    BY <1>3, <1>4, <2>1, <2>2
  <2> QED
    BY <1>3, <1>4, <2>1, <2>2, <2>3
<1>8. /\ \A i \in 1..Len(b) : b[i] <= c + n
      /\ \A i \in 1..(Len(b) - 1) : b[i] < b[i + 1]
  <2>1. \A i \in 1..(size - 1) : b[i] < b[i + 1]
    BY <1>4, <1>7 DEF InOrder, BufferIsInOrder
  <2>2. \A i \in 1..(size + m) :
          IF i <= size THEN b[i] \in Nat /\ b[i] <= c ELSE b[i] = c + (i - size)
    BY <1>7
  <2> QED
    BY <1>7, <2>1, <2>2
<1>9. ASSUME \A i \in 1..(c + n) : stream[i] # "nul"
      PROVE  Len(b) = c + n /\ \A i \in 1..(c + n) : b[i] = i
  <2>1. m = n
    BY <1>2, <1>5, <1>9, ReadableIsAll
  <2>2. size = c /\ \A i \in 1..c : buffer[i] = i
    BY <1>4, <1>5, <1>9 DEF InOrder, BufferIsInOrder
  <2>3. \A i \in (c + 1)..(c + n) : b[i] = i
    BY <1>7, <2>1, <2>2
  <2> QED
    BY <1>7, <2>1, <2>2, <2>3
<1>10. BufferIsInOrder'
  BY <1>6, <1>8, <1>9 DEF BufferIsInOrder
<1>11. c + n <= arrived /\ arrived <= Len(stream)
  BY <1>1, <1>5 DEF InOrder
<1> QED
  BY <1>6, <1>8, <1>10, <1>11 DEF InOrder

(* What else happens leaves the buffer as it is, and of the bytes that are *)
(* on their way it takes none that was received.                           *)
LEMMA OthersInOrder ==
  ASSUME Inv, InOrder, [Next]_vars, ~Receive
  PROVE  InOrder'
<1>1. stream' = stream /\ consumed' = consumed /\ buffer' = buffer
  BY DEF Next, Arrive, Leave, Read, SetTimeout, ReceiveFails, ReceiveNothing,
         GiveUp, Exit, Returned, Check, netVars, vars
<1>2. consumed <= arrived' /\ arrived' <= Len(stream)
  <2>1. PICK c \in Nat, a \in Nat, l \in Nat :
          c = consumed /\ a = arrived /\ l = Len(stream)
    BY CountsAreNumbers
  <2>2. arrived' = a \/ arrived' = c \/ arrived' \in (a + 1)..l
    BY <2>1 DEF Next, Arrive, Leave, Read, SetTimeout, ReceiveFails,
                ReceiveNothing, GiveUp, Exit, Returned, netVars, vars
  <2> QED
    BY <2>1, <2>2 DEF InOrder
<1> QED
  BY <1>1, <1>2 DEF InOrder, BufferIsInOrder

(* Bytes come into the buffer in the client's order.                       *)
LEMMA InOrderHolds == Spec => [](Inv /\ InOrder)
<1>1. Init => InOrder
  BY DEF Init, InOrder, BufferIsInOrder
<1>2. Inv /\ InOrder /\ [Next]_vars => InOrder'
  BY ReceiveInOrder, OthersInOrder
<1> QED
  BY InvHolds, <1>1, <1>2, PTL DEF Spec

(* The buffer holds what the client has sent, in its order, nothing twice, *)
(* and without NULs all that recv has returned (line 191).                 *)
THEOREM BytesKeepTheirOrder == Spec => []BufferIsInOrder
BY InOrderHolds, PTL DEF InOrder
-----------------------------------------------------------------------------
(* A good message has been refused only because its end has not come.      *)
GoodIsKept ==
  Good /\ status \in Refusals =>
    status = "too_many_reads" /\ consumed < Len(stream)

(* The buffer holds what has come of it.                                   *)
Beginning ==
  Good => /\ Len(buffer) = consumed
          /\ consumed <= Len(stream)
          /\ \A i \in 1..Len(buffer) : buffer[i] = i

(* As long as the bytes are a beginning of a good message the checks find  *)
(* nothing wrong with them.                                                *)
LEMMA CheckGood ==
  ASSUME Inv, Good, status = "reading", NEW b \in Seq(Nat),
         Len(b) <= Len(stream), \A i \in 1..Len(b) : b[i] = i, Check(b)
  PROVE  status' = "reading"
<1>1. PICK size \in Nat, c \in Nat : size = Len(b) /\ c = claim
  BY DEF Inv, TypeOK
<1>2. /\ size <= c /\ c > HeaderSize /\ c <= MaxMessage /\ c <= MaxInt
      /\ \A i \in 1..HeaderSize : stream[i] = "digit"
  BY <1>1 DEF Good
<1>3. header = 0 \/ header = c
  BY <1>1 DEF Inv, HeaderIsKept
<1>4. ReadHeader(b) => AllDigits(b)
  <2>1. ReadHeader(b) => size > HeaderSize
    BY <1>1 DEF ReadHeader
  <2> QED
    BY <1>1, <1>2, <2>1 DEF AllDigits
<1>5. ~Overflows(b) /\ ~HeaderIsInvalid(b)
  BY <1>1, <1>2, <1>4 DEF Overflows, HeaderIsInvalid
<1>6. /\ header' = IF ReadHeader(b) THEN c ELSE header
      /\ status' = Verdict(b, header')
  BY <1>1, <1>5 DEF Check
<1>7. header' = c \/ (header' = 0 /\ size <= HeaderSize)
  BY <1>1, <1>3, <1>6 DEF ReadHeader
<1> QED
  BY <1>1, <1>2, <1>6, <1>7 DEF Verdict

(* What a good message looks like in the buffer.                           *)
LEMMA GoodBuffer == Inv /\ InOrder => Beginning
<1> SUFFICES ASSUME Inv, InOrder, Good
             PROVE  /\ Len(buffer) = consumed
                    /\ consumed <= Len(stream)
                    /\ \A i \in 1..Len(buffer) : buffer[i] = i
  BY DEF Beginning
<1>1. PICK c \in Nat, a \in Nat, l \in Nat :
        c = consumed /\ a = arrived /\ l = Len(stream)
  BY CountsAreNumbers
<1>2. c <= l
  BY <1>1 DEF InOrder
<1>3. \A i \in 1..c : stream[i] # "nul"
  BY <1>1, <1>2 DEF Good
<1> QED
  BY <1>1, <1>2, <1>3 DEF InOrder, BufferIsInOrder

(* No step refuses a good message before its time.                         *)
LEMMA GoodStep ==
  ASSUME Inv, Inv', Beginning, Beginning', GoodIsKept, [Next]_vars
  PROVE  GoodIsKept'
<1> SUFFICES ASSUME Good', status' \in Refusals
             PROVE  status' = "too_many_reads" /\ consumed' < Len(stream')
  BY DEF GoodIsKept
<1>1. stream' = stream /\ claim' = claim
  BY DEF Next, Arrive, Leave, Read, SetTimeout, Receive, ReceiveFails,
         ReceiveNothing, GiveUp, Exit, Returned, netVars, vars
<1>2. Good
  BY <1>1 DEF Good
<1>3. CASE Receive \/ ReceiveFails
  <2>1. status = "reading" /\ Check(buffer')
    BY <1>3 DEF Receive, ReceiveFails, Trying, Check
  <2>2. /\ buffer' \in Seq(Nat)
        /\ Len(buffer') = consumed' /\ consumed' <= Len(stream)
        /\ \A i \in 1..Len(buffer') : buffer'[i] = i
    BY <1>1 DEF Inv, TypeOK, Beginning
  <2>3. status' = "reading"
    BY <1>2, <2>1, <2>2, CheckGood
  <2> QED
    BY <2>3 DEF Refusals
<1>4. CASE GiveUp
  <2>1. /\ status = "reading" /\ consumed' = consumed
        /\ Complete => status' = "ok"
        /\ ~Complete => status' = "too_many_reads"
    BY <1>4 DEF GiveUp
  <2>2. ~Complete /\ status' = "too_many_reads"
    BY <2>1 DEF Refusals
  <2>3. PICK c \in Nat, l \in Nat : c = consumed /\ l = Len(stream)
    BY CountsAreNumbers
  <2>4. /\ Len(buffer) = c /\ c <= l /\ claim = l /\ l > HeaderSize
    BY <1>2, <2>3 DEF Good, Beginning
  <2>5. c # l
    BY <2>1, <2>2, <2>4 DEF Inv, HeaderIsKept, Complete
  <2> QED
    BY <1>1, <2>1, <2>2, <2>3, <2>4, <2>5
<1>5. CASE SetTimeout \/ ReceiveNothing \/ Exit
  BY <1>5 DEF SetTimeout, ReceiveNothing, Exit, Refusals
<1>6. CASE Arrive \/ Leave \/ Returned \/ UNCHANGED vars
  <2>1. status' = status /\ consumed' = consumed
    BY <1>6 DEF Arrive, Leave, Returned, vars
  <2> QED
    BY <1>1, <1>2, <2>1 DEF GoodIsKept
<1> QED
  BY <1>3, <1>4, <1>5, <1>6 DEF Next, Read

(* However a good message is cut into pieces and however late they come,   *)
(* service_read refuses it only if the retries were used up before its end *)
(* (lines 163 to 246).                                                     *)
THEOREM GoodMessagesAreAccepted == Spec => []GoodMessageIsAccepted
<1>1. Init => GoodIsKept
  BY DEF Init, GoodIsKept, Refusals
<1>2. GoodIsKept => GoodMessageIsAccepted
  BY DEF GoodIsKept, GoodMessageIsAccepted
<1> QED
  BY InOrderHolds, GoodBuffer, <1>1, <1>2, GoodStep, PTL DEF Spec
-----------------------------------------------------------------------------
(* What the verdict was based on is what has been received, unless there   *)
(* is a NUL in it.                                                         *)
LEMMA VerdictOfBuffer == Inv /\ InOrder => VerdictIsTrue
<1> SUFFICES ASSUME Inv, InOrder, \A i \in 1..consumed : stream[i] # "nul"
             PROVE  VerdictIsTrue
  BY DEF VerdictIsTrue
<1>1. PICK c \in Nat, k \in Nat : c = consumed /\ k = claim
  BY CountsAreNumbers
<1>2. Len(buffer) = c /\ \A i \in 1..c : buffer[i] = i
  BY <1>1 DEF InOrder, BufferIsInOrder
<1>3. c > HeaderSize => (AllDigits(buffer) <=> HeaderIn(consumed))
  <2>1. c > HeaderSize => \A i \in 1..HeaderSize : buffer[i] = i
    BY <1>1, <1>2
  <2> QED
    BY <1>1, <2>1 DEF AllDigits, HeaderIn
<1>4. status = "ok" => HeaderIn(consumed) /\ consumed = claim
  BY <1>1, <1>2, <1>3 DEF Inv, OkIsWholeMessage
<1>5. status # "header_missing"
  BY DEF Inv, HeaderNeverMissing
<1>6. /\ status = "terminated" => HeaderIn(consumed) /\ claim > MaxInt
      /\ status = "header_invalid" =>
           consumed > HeaderSize /\ ~(HeaderIn(consumed) /\ claim >= HeaderSize)
      /\ status = "message_too_long" => consumed > MaxMessage
      /\ status = "message_bigger_than_header_value" =>
           HeaderIn(consumed) /\ consumed > claim
      /\ status = "too_many_reads" => consumed <= HeaderSize \/ consumed < claim
  BY <1>1, <1>2, <1>3 DEF Inv, Decided
<1> QED
  BY <1>4, <1>5, <1>6 DEF VerdictIsTrue

(* However the bytes of a client are cut into pieces and however late they *)
(* come, what service_read says of them is true of the bytes themselves    *)
(* (lines 181 to 246).                                                     *)
THEOREM VerdictsAreTrue == Spec => []VerdictIsTrue
BY InOrderHolds, VerdictOfBuffer, PTL
=============================================================================
