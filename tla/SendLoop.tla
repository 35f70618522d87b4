------------------------------ MODULE SendLoop ------------------------------
(***************************************************************************)
(* c_network_writer_service::service_write: one response is given to send  *)
(* in pieces, until the offset has reached its length.  The offset is an   *)
(* int64_t, and what send returns goes through a size_t before it is added *)
(* and before it is compared: an error, -1, becomes the largest size_t.    *)
(* This module keeps the two widths and their conversions.                 *)
(*                                                                         *)
(* "delivered" is what the kernel has accepted, as positions in the        *)
(* response, and "failures" counts the sends that returned -1.             *)
(***************************************************************************)
EXTENDS Integers, Sequences

CONSTANTS
  Lengths,     \* the lengths a response may have
  BufferSize,  \* network.connection.buffer_size, at most sent in one piece
  RetryLimit,  \* network.connection.write.retry
  Half,        \* 2^63: an int64_t is below it, a size_t below twice that
  MaxFailures, \* bound: sends that fail
  MayExit      \* the exit flag may be set

ASSUME SizesAssumption ==
  /\ Half \in Nat \ {0}
  /\ BufferSize \in 1..(Half - 1)
  /\ Lengths \subseteq 0..(Half - 1)

ASSUME LimitsAssumption ==
  /\ RetryLimit \in Nat
  /\ MaxFailures \in Nat
  /\ MayExit \in BOOLEAN

VARIABLES
  length,    \* response.length()
  status,    \* "start", "sending", or the status that was returned
  offset,    \* sent_message_length
  retries,   \* error_loop_count
  delivered,
  failures

vars == <<length, status, offset, retries, delivered, failures>>

(* From int64_t to size_t and back, and the sum of two size_t.             *)
ToSize(n) == IF n < 0 THEN n + 2 * Half ELSE n

ToSigned(u) == IF u >= Half THEN u - 2 * Half ELSE u

SizePlus(u, v) == IF u + v >= 2 * Half THEN u + v - 2 * Half ELSE u + v

Init ==
  /\ length \in Lengths
  /\ status = "start"
  /\ offset = 0
  /\ retries = 0
  /\ delivered = <<>>
  /\ failures = 0

(* setsockopt for the time-out of the sends fails on a closed descriptor.  *)
SetTimeout ==
  /\ status = "start"
  /\ status' \in {"sending", "system_error"}
  /\ UNCHANGED <<length, offset, retries, delivered, failures>>

GiveUp ==
  /\ status = "sending"
  /\ retries >= RetryLimit
  /\ status' = "network_error"
  /\ UNCHANGED <<length, offset, retries, delivered, failures>>

(* The test of the exit flag comes after that of the retries.              *)
Exit ==
  /\ MayExit
  /\ status = "sending"
  /\ retries < RetryLimit
  /\ status' = "system_exit"
  /\ UNCHANGED <<length, offset, retries, delivered, failures>>

(* Mutant: the offset is compared as the signed number it is.              *)
AdvanceSigned(result) ==
  IF ToSize(result) = 0
  THEN /\ retries' = retries + 1
       /\ UNCHANGED <<status, offset>>
  ELSE /\ offset' = ToSigned(SizePlus(ToSize(offset), ToSize(result)))
       /\ status' = IF offset' >= length THEN "ok" ELSE "sending"
       /\ UNCHANGED retries

(* Mutant: a send of nothing is not counted.                               *)
AdvanceUncounted(result) ==
  /\ offset' = ToSigned(SizePlus(ToSize(offset), ToSize(result)))
  /\ status' = IF ToSize(result) # 0 /\ ToSize(offset') >= length
               THEN "ok" ELSE "sending"
  /\ UNCHANGED retries

(* Mutant: what was asked for is taken for what was sent.                  *)
AdvanceWhole(result) ==
  IF ToSize(result) = 0
  THEN /\ retries' = retries + 1
       /\ UNCHANGED <<status, offset>>
  ELSE /\ offset' = IF result < 0 THEN offset - 1
                    ELSE IF offset + BufferSize < length
                    THEN offset + BufferSize ELSE length
       /\ status' = IF ToSize(offset') >= length THEN "ok" ELSE "sending"
       /\ UNCHANGED retries

(* What the loop does with the result of send: count <= 0 on a size_t is   *)
(* true for 0 alone, the sum is one of size_t's, and so is the comparison. *)
Advance(result) ==
  IF ToSize(result) = 0
  THEN /\ retries' = retries + 1
       /\ UNCHANGED <<status, offset>>
  ELSE /\ offset' = ToSigned(SizePlus(ToSize(offset), ToSize(result)))
       /\ status' = IF ToSize(offset') >= length THEN "ok" ELSE "sending"
       /\ UNCHANGED retries

Trying == status = "sending" /\ retries < RetryLimit

Requested ==
  IF BufferSize < length - offset THEN BufferSize ELSE length - offset

(* send takes some of what it is given, all of it or less.                 *)
Send ==
  /\ Trying
  /\ \E n \in 0..Requested :
       /\ n = 0 <=> Requested = 0
       /\ Advance(n)
       /\ delivered' = delivered \o [i \in 1..n |-> offset + i]
  /\ UNCHANGED <<length, failures>>

(* send returns -1: its time is up, or the peer has gone.                  *)
SendFails ==
  /\ Trying
  /\ failures < MaxFailures
  /\ Advance(-1)
  /\ failures' = failures + 1
  /\ UNCHANGED <<length, delivered>>

Returned ==
  /\ status \notin {"start", "sending"}
  /\ UNCHANGED vars

Step == SetTimeout \/ GiveUp \/ Exit \/ Send \/ SendFails

Next == Step \/ Returned

Spec == Init /\ [][Next]_vars

(* The thread keeps running; no send has to fail, and nobody has to set    *)
(* the exit flag.                                                          *)
FairSpec == Spec /\ WF_vars(SetTimeout \/ GiveUp \/ Send)
-----------------------------------------------------------------------------
(* Properties.                                                             *)

(* The variables have their types.                                         *)
TypeOK ==
  /\ length \in Lengths
  /\ status \in {"start", "sending", "ok", "network_error", "system_error",
                 "system_exit"}
  /\ offset \in -Half..(Half - 1)
  /\ retries \in Nat
  /\ delivered \in Seq(Nat)
  /\ failures \in Nat

(* Whenever send is called, the offset is a position of the response (or   *)
(* its end, when it is empty): the conversions never take it outside, to   *)
(* bytes that are not the response's, however often send fails.            *)
SendsInsideResponse ==
  status \in {"start", "sending"} => offset \in 0..length

(* Nothing is left out: each byte that goes out comes right behind the     *)
(* byte before it, or goes back over bytes that have gone out already.     *)
NothingSkipped ==
  \A i \in DOMAIN delivered :
    delivered[i] <= 1 + (IF i = 1 THEN 0 ELSE delivered[i - 1])

(* A send that does not fail is accounted for exactly: as long as none has *)
(* failed, what has gone out is the response up to the offset, and all of  *)
(* it when the status is OK.                                               *)
ExactWithoutFailures ==
  failures = 0 =>
    /\ delivered = [i \in 1..offset |-> i]
    /\ status = "ok" => offset = length

(* OK means that every byte of the response has gone out at least once, or *)
(* that the offset was taken below 0 by failures.                          *)
OkCoversResponse ==
  status = "ok" =>
    \/ offset = -1 /\ failures > 0
    \/ \A p \in 1..length : \E i \in DOMAIN delivered : delivered[i] = p

(* service_write comes to an end once sends no longer fail.                *)
SendEnds == <>(status \notin {"start", "sending"})

(* "sent data on port": the status OK says that the client has been sent   *)
(* its response.                                                           *)
OkMeansSent == status = "ok" => delivered = [i \in 1..length |-> i]

(* The retries of the configuration bound the sends that may fail.         *)
RetriesBoundFailures == status = "sending" => failures <= RetryLimit
=============================================================================
