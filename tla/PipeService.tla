---------------------------- MODULE PipeService ----------------------------
(***************************************************************************)
(* What a pipe promises to the stages on both sides of it and to main: a   *)
(* queue whose operations happen at once. Whoever looks for an element is  *)
(* told that there is none only while the queue is empty, or that it was   *)
(* too busy.                                                               *)
(***************************************************************************)
EXTENDS Integers, Sequences

CONSTANTS Getters, Elements, Nobody

VARIABLES
  queue,
  done,   \* the elements the removal and skip predicates hold for
  owner,  \* who has locked an element
  found   \* what a getter was told last

vars == <<queue, done, owner, found>>

Queued(e) == \E i \in DOMAIN queue : queue[i] = e

Init ==
  /\ queue = <<>>
  /\ done = {}
  /\ owner = [e \in Elements |-> Nobody]
  /\ found = [g \in Getters |-> "none"]

(* New elements go to the back, all of a batch at once.                    *)
Offer ==
  /\ Len(queue') > Len(queue)
  /\ \A i \in 1..Len(queue) : queue'[i] = queue[i]
  /\ \A i \in (Len(queue) + 1)..Len(queue') :
       /\ queue'[i] \in Elements \ done
       /\ \A j \in 1..(i - 1) : queue'[j] # queue'[i]
  /\ UNCHANGED <<done, owner, found>>

Discard ==
  /\ queue # <<>>
  /\ Head(queue) \in done
  /\ queue' = Tail(queue)
  /\ UNCHANGED <<done, owner, found>>

Take(g, e) ==
  /\ Queued(e)
  /\ owner[e] = Nobody
  /\ owner' = [owner EXCEPT ![e] = g]
  /\ found' = [found EXCEPT ![g] = e]
  /\ UNCHANGED <<queue, done>>

Empty(g) ==
  /\ queue = <<>>
  /\ found' = [found EXCEPT ![g] = "empty"]
  /\ UNCHANGED <<queue, done, owner>>

Busy(g) ==
  /\ found' = [found EXCEPT ![g] = "busy"]
  /\ UNCHANGED <<queue, done, owner>>

(* Whoever has an element marks it before letting go of it.                *)
Mark(g, e) ==
  /\ owner[e] = g
  /\ found[g] = e
  /\ done' = done \cup {e}
  /\ UNCHANGED <<queue, owner, found>>

Unlock(g, e) ==
  /\ owner[e] = g
  /\ found[g] = e
  /\ e \in done
  /\ owner' = [owner EXCEPT ![e] = Nobody]
  /\ found' = [found EXCEPT ![g] = "none"]
  /\ UNCHANGED <<queue, done>>

(* An element nobody refers to is destroyed.                               *)
Destroy(e) ==
  /\ ~Queued(e)
  /\ owner[e] = Nobody
  /\ done' = done \ {e}
  /\ UNCHANGED <<queue, owner, found>>

Next ==
  \/ Offer
  \/ Discard
  \/ \E g \in Getters : Empty(g) \/ Busy(g)
  \/ \E g \in Getters, e \in Elements : Take(g, e) \/ Mark(g, e) \/ Unlock(g, e)
  \/ \E e \in Elements : Destroy(e)

Spec == Init /\ [][Next]_vars
=============================================================================
