---------------------------- MODULE RequestReply ----------------------------
(***************************************************************************)
(* What the server promises its clients, without threads, pipes or         *)
(* descriptors: a request is answered at most once, the answers on a       *)
(* connection are to its own requests and come in their order, and nothing *)
(* is sent on a connection after either side has hung up.                  *)
(***************************************************************************)
EXTENDS Naturals, Sequences

CONSTANTS Conns, MaxRequests

VARIABLES
  client,  \* "away", "connected", or "closed" once the client has hung up
  open,    \* whether the server has the connection, accepted or waiting
  sent,    \* the number of requests sent
  got      \* the responses received

vars == <<client, open, sent, got>>

Init ==
  /\ client = [c \in Conns |-> "away"]
  /\ open = [c \in Conns |-> FALSE]
  /\ sent = [c \in Conns |-> 0]
  /\ got = [c \in Conns |-> <<>>]

Connect(c) ==
  /\ client[c] = "away"
  /\ client' = [client EXCEPT ![c] = "connected"]
  /\ open' = [open EXCEPT ![c] = TRUE]
  /\ UNCHANGED <<sent, got>>

(* A client waits for one response before its next request.                *)
SendRequest(c) ==
  /\ client[c] = "connected" /\ open[c]
  /\ sent[c] = Len(got[c])
  /\ sent[c] < MaxRequests
  /\ sent' = [sent EXCEPT ![c] = @ + 1]
  /\ UNCHANGED <<client, open, got>>

Reply(c) ==
  /\ Len(got[c]) < sent[c]
  /\ client[c] = "connected" /\ open[c]
  /\ got' = [got EXCEPT ![c] = Append(@, <<c, Len(@) + 1>>)]
  /\ UNCHANGED <<client, open, sent>>

HangUp(c) ==
  /\ client[c] = "connected"
  /\ client' = [client EXCEPT ![c] = "closed"]
  /\ UNCHANGED <<open, sent, got>>

(* The server hangs up on some connections: one at a time while it runs,   *)
(* all that are left when it stops.                                        *)
Close ==
  /\ UNCHANGED <<client, sent, got>>
  /\ open' # open
  /\ open' \in [Conns -> BOOLEAN]
  /\ \A c \in Conns : open'[c] => open[c]

Next ==
  \/ \E c \in Conns : Connect(c) \/ SendRequest(c) \/ Reply(c) \/ HangUp(c)
  \/ Close

Spec == Init /\ [][Next]_vars
=============================================================================
