----------------------------- MODULE Ipv4Address -----------------------------
(***************************************************************************)
(* What becomes of the text of network/connection/bind_ip: the check of    *)
(* its format (c_networks::is_ipv4_address_format, over c_numbers) and the *)
(* address that c_network_address makes of it.                             *)
(*                                                                         *)
(* A text is a sequence of integers: a run of digits is its value, the     *)
(* longest run there is, Dot is a dot, and Other any other character.      *)
(***************************************************************************)
EXTENDS Integers, Sequences

CONSTANT
  CountBits   \* the width of the two counters: an int8_t's in the code

ASSUME CountBitsAssumption == CountBits \in Nat \ {0}

Dot == -1
Other == -2

(* No digits yet.                                                          *)
NoDigits == -1

IsDigits(mark) == mark >= 0

(* is_integer_in_range: that there are digits, and then that the number is *)
(* at least the lower bound or at most the upper one, which every number   *)
(* is.                                                                     *)
IsIntegerInRange(digits, lower, upper) ==
  digits # NoDigits /\ (digits >= lower \/ digits <= upper)

CountOneMore(count) == (count + 1) % 2^CountBits

Start == [dots |-> 0, numbers |-> 0, digits |-> NoDigits, ok |-> TRUE]

(* One turn of the loop over the text. A return false ends it.             *)
Turn(so_far, mark) ==
  IF ~so_far.ok THEN so_far
  ELSE IF IsDigits(mark) THEN [so_far EXCEPT !.digits = mark]
  ELSE IF mark = Dot /\ IsIntegerInRange(so_far.digits, 0, 255)
       THEN [dots    |-> CountOneMore(so_far.dots),
             numbers |-> CountOneMore(so_far.numbers),
             digits  |-> NoDigits,
             ok      |-> TRUE]
  ELSE [so_far EXCEPT !.ok = FALSE]

ScanOf(ip) ==
  LET upTo[n \in 0..Len(ip)] ==
        IF n = 0 THEN Start ELSE Turn(upTo[n - 1], ip[n])
  IN  upTo[Len(ip)]

IsIpv4AddressFormat(ip) ==
  /\ ScanOf(ip).ok
  /\ IsIntegerInRange(ScanOf(ip).digits, 0, 255)
  /\ ScanOf(ip).dots = 3
  /\ ScanOf(ip).numbers = 3

(* inet_addr knows four numbers of eight bits. For any other text it       *)
(* returns INADDR_NONE, which is no interface's address.                   *)
InetAddr(ip) ==
  IF /\ Len(ip) = 7
     /\ \A i \in 1..7 : IF i % 2 = 1 THEN ip[i] \in 0..255 ELSE ip[i] = Dot
  THEN "named" ELSE "none"

IsMalformed(ip) == ip # <<>> /\ ~IsIpv4AddressFormat(ip)

(* The constructor of c_network_address: the interface the text stands     *)
(* for, every interface, or none.                                          *)
BindAddress(ip) ==
  IF ip = <<>> \/ IsMalformed(ip) THEN "any" ELSE InetAddr(ip)
=============================================================================
