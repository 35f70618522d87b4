--------------------------- MODULE SendLoopProofs ---------------------------
(***************************************************************************)
(* Proofs about SendLoop, for responses, pieces and machine words of any   *)
(* size, however many sends fail.                                          *)
(***************************************************************************)
EXTENDS SendLoop, SequenceTheorems, TLAPS

USE SizesAssumption, LimitsAssumption

(* The last position that has gone out.                                    *)
LastSent == IF delivered = <<>> THEN 0 ELSE delivered[Len(delivered)]

(* The offset is never ahead of what has gone out, and every byte before   *)
(* it has.                                                                 *)
OffsetIsBacked ==
  /\ offset <= LastSent
  /\ \A p \in 1..offset : \E i \in DOMAIN delivered : delivered[i] = p

(* An offset below 0 needs a failure, and is taken for OK.                 *)
OffsetRange ==
  /\ offset \in -1..length
  /\ status \in {"start", "sending"} => offset >= 0
  /\ status = "ok" => offset = length \/ (offset = -1 /\ failures > 0)

Inv == TypeOK /\ OffsetRange /\ OffsetIsBacked /\ NothingSkipped
         /\ ExactWithoutFailures
-----------------------------------------------------------------------------
(* A length is an int64_t that is not negative.                            *)
LEMMA LengthType ==
  ASSUME TypeOK
  PROVE  length \in 0..(Half - 1)
BY DEF TypeOK

(* What the loop does with a result: a positive one moves the offset       *)
(* forward by itself, -1 back by one, and the status is OK behind the      *)
(* end and below the beginning.                                            *)
LEMMA AdvanceEffect ==
  ASSUME TypeOK, OffsetRange, status = "sending",
         NEW n \in -1..(length - offset), Advance(n)
  PROVE  /\ offset' = offset + n
         /\ retries' \in Nat
         /\ n = 0 => status' = "sending"
         /\ n # 0 => status' = IF offset' < 0 \/ offset' = length
                               THEN "ok" ELSE "sending"
<1>1. /\ length \in 0..(Half - 1)
      /\ offset \in 0..length
  BY LengthType DEF OffsetRange
<1>2. CASE n = 0
  BY <1>1, <1>2 DEF Advance, ToSize, TypeOK
<1>3. CASE n = -1
  <2>1. /\ ToSize(n) = 2 * Half - 1
        /\ ToSize(offset) = offset
    BY <1>1, <1>3 DEF ToSize
  <2>2. SizePlus(offset, 2 * Half - 1)
          = IF offset = 0 THEN 2 * Half - 1 ELSE offset - 1
    BY <1>1 DEF SizePlus
  <2>3. ToSigned(SizePlus(offset, 2 * Half - 1)) = offset - 1
    BY <1>1, <2>2 DEF ToSigned
  <2>4. /\ ToSize(offset - 1) >= length <=> offset = 0
    BY <1>1 DEF ToSize
  <2>5. /\ offset' = offset - 1
        /\ status' = IF ToSize(offset') >= length THEN "ok" ELSE "sending"
        /\ retries' = retries
    BY <1>1, <2>1, <2>3 DEF Advance
  <2> QED
    BY <1>1, <1>3, <2>4, <2>5 DEF TypeOK
<1>4. CASE n > 0
  <2>1. /\ ToSize(n) = n
        /\ ToSize(offset) = offset
        /\ SizePlus(offset, n) = offset + n
        /\ ToSigned(offset + n) = offset + n
        /\ ToSize(offset + n) = offset + n
    BY <1>1, <1>4 DEF ToSize, SizePlus, ToSigned
  <2>2. /\ offset' = offset + n
        /\ status' = IF ToSize(offset') >= length THEN "ok" ELSE "sending"
        /\ retries' = retries
    BY <1>1, <1>4, <2>1 DEF Advance
  <2> QED
    BY <1>1, <1>4, <2>1, <2>2 DEF TypeOK
<1> QED
  BY <1>2, <1>3, <1>4

(* The invariant holds before the first send.                              *)
LEMMA InitInv == Init => Inv
BY DEF Init, Inv, TypeOK, OffsetRange, OffsetIsBacked, LastSent,
       NothingSkipped, ExactWithoutFailures

(* The steps that only change the status, to one that is not OK.           *)
LEMMA StatusInv ==
  ASSUME Inv, SetTimeout \/ GiveUp \/ Exit
  PROVE  Inv'
BY DEF Inv, SetTimeout, GiveUp, Exit, TypeOK, OffsetRange, OffsetIsBacked,
       LastSent, NothingSkipped, ExactWithoutFailures

(* The positions of a piece behind what has gone out.                      *)
LEMMA PieceSent ==
  ASSUME TypeOK, offset \in Nat, NEW n \in Nat,
         delivered' = delivered \o [i \in 1..n |-> offset + i]
  PROVE  /\ delivered' \in Seq(Nat)
         /\ Len(delivered') = Len(delivered) + n
         /\ \A i \in 1..Len(delivered) : delivered'[i] = delivered[i]
         /\ \A i \in 1..n : delivered'[Len(delivered) + i] = offset + i
BY DEF TypeOK

(* A send that takes bytes, or none.                                       *)
LEMMA SendInv ==
  ASSUME Inv, Send
  PROVE  Inv'
<1>1. PICK n \in 0..Requested :
        /\ n = 0 <=> Requested = 0
        /\ Advance(n)
        /\ delivered' = delivered \o [i \in 1..n |-> offset + i]
  BY DEF Send
<1>2. /\ length \in 0..(Half - 1)
      /\ offset \in 0..length
      /\ status = "sending"
  BY LengthType DEF Inv, OffsetRange, Send, Trying
<1>3. n \in 0..(length - offset)
  BY <1>1, <1>2 DEF Requested
<1>4. /\ offset' = offset + n
      /\ retries' \in Nat
      /\ status' \in {"sending", "ok"}
      /\ status' = "ok" => offset' = length
  BY <1>1, <1>2, <1>3, AdvanceEffect DEF Inv
<1>5. length' = length /\ failures' = failures
  BY DEF Send
<1>6. /\ delivered' \in Seq(Nat)
      /\ Len(delivered') = Len(delivered) + n
      /\ \A i \in 1..Len(delivered) : delivered'[i] = delivered[i]
      /\ \A i \in 1..n : delivered'[Len(delivered) + i] = offset + i
  BY <1>1, <1>2, <1>3, PieceSent DEF Inv
<1>7. Len(delivered) \in Nat /\ DOMAIN delivered = 1..Len(delivered)
  BY DEF Inv, TypeOK
<1>8. DOMAIN delivered' = 1..(Len(delivered) + n)
  BY <1>6
<1>9. TypeOK'
  BY <1>2, <1>3, <1>4, <1>5, <1>6 DEF Inv, TypeOK
<1>10. OffsetRange'
  BY <1>2, <1>3, <1>4, <1>5 DEF OffsetRange
<1>11. CASE n = 0
  <2>1. delivered' = delivered
    <3>1. \A i \in DOMAIN delivered' : delivered'[i] = delivered[i]
      BY <1>6, <1>7, <1>8, <1>11
    <3> QED
      BY <1>6, <1>7, <1>8, <1>11, <3>1, SeqEqual, SMTT(30) DEF Inv, TypeOK
  <2> QED
    BY <1>2, <1>4, <1>5, <1>9, <1>10, <1>11, <2>1
    DEF Inv, OffsetIsBacked, LastSent, NothingSkipped, ExactWithoutFailures
<1>12. CASE n > 0
  <2>1. delivered' # <<>> /\ LastSent' = offset + n
    <3>1. Len(delivered') > 0 /\ delivered' # <<>>
      BY <1>3, <1>6, <1>7, <1>12
    <3>2. delivered'[Len(delivered) + n] = offset + n
      BY <1>3, <1>6, <1>12
    <3> QED
      BY <1>6, <3>1, <3>2 DEF LastSent
  <2>2. OffsetIsBacked'
    <3>1. ASSUME NEW p \in 1..(offset + n)
          PROVE  \E i \in DOMAIN delivered' : delivered'[i] = p
      <4>1. CASE p <= offset
        <5>1. PICK i \in DOMAIN delivered : delivered[i] = p
          BY <1>2, <4>1 DEF Inv, OffsetIsBacked
        <5> QED
          BY <1>3, <1>6, <1>7, <1>8, <5>1
      <4>2. CASE p > offset
        <5>1. /\ p - offset \in 1..n
              /\ Len(delivered) + (p - offset) \in DOMAIN delivered'
          BY <1>2, <1>3, <1>7, <1>8, <4>2
        <5>2. delivered'[Len(delivered) + (p - offset)] = offset + (p - offset)
          BY <1>6, <5>1
        <5> QED
          BY <1>2, <5>1, <5>2
      <4> QED
        BY <1>2, <4>1, <4>2
    <3> QED
      BY <1>2, <1>3, <1>4, <2>1, <3>1 DEF OffsetIsBacked
  <2>3. NothingSkipped'
    <3>1. ASSUME NEW i \in DOMAIN delivered'
          PROVE  delivered'[i]
                   <= 1 + (IF i = 1 THEN 0 ELSE delivered'[i - 1])
      <4>1. CASE i \in 1..Len(delivered)
        <5>1. delivered[i] <= 1 + (IF i = 1 THEN 0 ELSE delivered[i - 1])
          BY <1>7, <4>1 DEF Inv, NothingSkipped
        <5>2. i # 1 => i - 1 \in 1..Len(delivered)
          BY <1>7, <4>1
        <5> QED
          BY <1>6, <4>1, <5>1, <5>2
      <4>2. CASE i = Len(delivered) + 1
        <5>1. delivered'[i] = offset + 1
          BY <1>3, <1>6, <1>12, <4>2
        <5>2. i = 1 => offset = 0
          <6>1. i = 1 => delivered = <<>>
            BY <1>7, <4>2 DEF Inv, TypeOK
          <6> QED
            BY <1>2, <6>1 DEF Inv, OffsetIsBacked, LastSent
        <5>3. i # 1 => offset <= delivered'[i - 1]
          <6>1. i # 1 => delivered # <<>> /\ i - 1 = Len(delivered)
            BY <1>7, <4>2
          <6>2. i # 1 => i - 1 \in 1..Len(delivered)
            BY <1>7, <4>2
          <6> QED
            BY <1>6, <6>1, <6>2 DEF Inv, OffsetIsBacked, LastSent
        <5>4. i # 1 => delivered'[i - 1] \in Nat
          BY <1>6, <1>7, <1>8, <4>2
        <5> QED
          BY <1>2, <5>1, <5>2, <5>3, <5>4
      <4>3. CASE i > Len(delivered) + 1
        <5>1. PICK k \in 2..n : i = Len(delivered) + k
          BY <1>3, <1>7, <1>8, <4>3
        <5>2. /\ delivered'[i] = offset + k
              /\ delivered'[Len(delivered) + (k - 1)] = offset + (k - 1)
          BY <1>3, <1>6, <5>1
        <5> QED
          BY <1>2, <1>7, <5>1, <5>2
      <4> QED
        BY <1>3, <1>7, <1>8, <4>1, <4>2, <4>3
    <3> QED
      BY <3>1 DEF NothingSkipped
  <2>4. ExactWithoutFailures'
    <3> SUFFICES ASSUME failures = 0
                 PROVE  /\ delivered' = [i \in 1..(offset + n) |-> i]
                        /\ status' = "ok" => offset' = length
      BY <1>4, <1>5 DEF ExactWithoutFailures
    <3>1. /\ delivered = [i \in 1..offset |-> i]
          /\ Len(delivered) = offset
      BY <1>2 DEF Inv, ExactWithoutFailures
    <3>2. DOMAIN delivered' = 1..(offset + n)
      BY <1>8, <3>1
    <3>3. ASSUME NEW i \in 1..(offset + n)
          PROVE  delivered'[i] = i
      <4>1. CASE i <= offset
        BY <1>2, <1>6, <3>1, <4>1
      <4>2. CASE i > offset
        <5>1. i - offset \in 1..n
          BY <1>2, <1>3, <4>2
        <5>2. delivered'[offset + (i - offset)] = offset + (i - offset)
          BY <1>6, <3>1, <5>1
        <5> QED
          BY <1>2, <5>2
      <4> QED
        BY <1>2, <4>1, <4>2
    <3>4. delivered' = [i \in 1..(offset + n) |-> i]
      <4> DEFINE whole == [i \in 1..(offset + n) |-> i]
      <4>1. offset + n \in Nat
        BY <1>2, <1>3
      <4>2. whole \in Seq(Nat) /\ Len(whole) = offset + n
        BY <4>1
      <4>3. delivered' \in Seq(Nat) /\ Len(delivered') = offset + n
        BY <1>6, <1>9, <3>1 DEF TypeOK
      <4>4. \A i \in 1..Len(whole) : delivered'[i] = whole[i]
        BY <3>3, <4>2
      <4> QED
        BY <4>2, <4>3, <4>4, SeqEqual
    <3> QED
      BY <1>4, <3>4
  <2> QED
    BY <1>9, <1>10, <2>2, <2>3, <2>4 DEF Inv
<1> QED
  BY <1>3, <1>11, <1>12

(* A send that returns -1, which the code reads as a size.                 *)
LEMMA SendFailsInv ==
  ASSUME Inv, SendFails
  PROVE  Inv'
<1>1. /\ length \in 0..(Half - 1)
      /\ offset \in 0..length
      /\ status = "sending"
  BY LengthType DEF Inv, OffsetRange, SendFails, Trying
<1>2. /\ offset' = offset - 1
      /\ retries' \in Nat
      /\ status' = IF offset' < 0 \/ offset' = length THEN "ok" ELSE "sending"
  BY <1>1, AdvanceEffect DEF Inv, SendFails
<1>3. /\ failures \in Nat
      /\ failures' = failures + 1
      /\ length' = length /\ delivered' = delivered
  BY DEF Inv, TypeOK, SendFails
<1>4. TypeOK'
  BY <1>1, <1>2, <1>3 DEF Inv, TypeOK
<1>5. OffsetRange'
  BY <1>1, <1>2, <1>3 DEF OffsetRange
<1>6. OffsetIsBacked'
  <2>1. LastSent \in Nat /\ LastSent' = LastSent
    BY <1>3 DEF Inv, TypeOK, LastSent
  <2>2. \A p \in 1..offset' : p \in 1..offset
    BY <1>1, <1>2
  <2> QED
    BY <1>1, <1>2, <1>3, <2>1, <2>2 DEF Inv, OffsetIsBacked
<1>7. NothingSkipped' /\ ExactWithoutFailures'
  BY <1>3 DEF Inv, NothingSkipped, ExactWithoutFailures
<1> QED
  BY <1>4, <1>5, <1>6, <1>7 DEF Inv

(* Steps that change nothing.                                              *)
LEMMA StutterInv ==
  ASSUME Inv, UNCHANGED vars
  PROVE  Inv'
BY DEF Inv, vars, TypeOK, OffsetRange, OffsetIsBacked, LastSent,
       NothingSkipped, ExactWithoutFailures

(* The invariant holds of every behaviour.                                 *)
LEMMA InvHolds == Spec => []Inv
<1>1. Inv /\ [Next]_vars => Inv'
  BY StatusInv, SendInv, SendFailsInv, StutterInv DEF Next, Step, Returned
<1> QED
  BY InitInv, <1>1, PTL DEF Spec

(* send is never given an address outside the response, whatever -1 turns  *)
(* into on its way through a size_t: service_write, line 197.              *)
THEOREM OffsetStaysInside == Spec => []SendsInsideResponse
<1>1. Inv => SendsInsideResponse
  BY DEF Inv, TypeOK, OffsetRange, SendsInsideResponse
<1> QED
  BY InvHolds, <1>1, PTL

(* The bytes go out in order, with repetitions after failures and without  *)
(* gaps.                                                                   *)
THEOREM SendsWithoutGaps == Spec => []NothingSkipped
<1>1. Inv => NothingSkipped
  BY DEF Inv
<1> QED
  BY InvHolds, <1>1, PTL

(* A loop none of whose sends fails sends exactly the response.            *)
THEOREM SendsExactly == Spec => []ExactWithoutFailures
<1>1. Inv => ExactWithoutFailures
  BY DEF Inv
<1> QED
  BY InvHolds, <1>1, PTL

(* OK has sent every byte, or failures have taken the offset to -1.        *)
THEOREM OkHasSent == Spec => []OkCoversResponse
<1>1. Inv => OkCoversResponse
  BY DEF Inv, OffsetRange, OffsetIsBacked, OkCoversResponse
<1> QED
  BY InvHolds, <1>1, PTL
=============================================================================
