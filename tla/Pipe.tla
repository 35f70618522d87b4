-------------------------------- MODULE Pipe --------------------------------
(***************************************************************************)
(* One c_pipe at the grain of its mutex, of the atomic flag in front of    *)
(* the mutex, and of the single steps under the mutex: the threads that    *)
(* look for an element (lock_element_with_timeout), those that push one    *)
(* (push) or several (push_with_timeout_n), and main, which removes what   *)
(* is finished (do_pipe_maintenance). ServerPipeline takes pushes and      *)
(* maintenance for single steps and leaves the flag out; this module shows *)
(* that it may.                                                            *)
(*                                                                         *)
(* A thread that has found an element works on it, marks it and unlocks    *)
(* it, as the services do; an element out of every reach is destroyed, and *)
(* its address used again.                                                 *)
(***************************************************************************)
EXTENDS Integers, Sequences

CONSTANTS
  Getters,       \* threads that call lock_element_with_timeout
  Pushers,       \* threads that call push or push_with_timeout_n
  TimedPushers,  \* those of them that call push_with_timeout_n
  Sweeper,       \* the thread that calls do_pipe_maintenance
  Elements,      \* addresses of elements
  MaxBatch,      \* bound: elements pushed by one call
  Nobody         \* no thread

Threads == Getters \cup Pushers \cup {Sweeper}

Answers == {"none", "empty", "busy"}

ASSUME ThreadsAssumption ==
  /\ TimedPushers \subseteq Pushers
  /\ Getters \cap Pushers = {}
  /\ Sweeper \notin Getters \cup Pushers
  /\ Nobody \notin Threads

ASSUME ElementsAssumption ==
  /\ Elements \cap Answers = {}
  /\ MaxBatch \in Nat \ {0}

VARIABLES
  deque,    \* _elements
  isEmpty,  \* _is_empty
  mutex,    \* the thread that holds _mutex, or Nobody
  pc,       \* where each thread is
  batch,    \* what a pusher has to push
  next,     \* the position in its batch it comes to
  cursor,   \* the position of a getter's iterator
  found,    \* what a getter was told last: an element, or why there is none
  done,     \* the elements both predicates hold for
  owner     \* who has locked an element

sharedVars == <<deque, isEmpty, mutex>>

elementVars == <<done, owner>>

vars == <<deque, isEmpty, mutex, pc, batch, next, cursor, found, done, owner>>

InDeque == {deque[i] : i \in DOMAIN deque}

InBatch(p) == {batch[p][i] : i \in DOMAIN batch[p]}

Init ==
  /\ deque = <<>>
  /\ isEmpty = TRUE
  /\ mutex = Nobody
  /\ pc = [t \in Threads |-> "idle"]
  /\ batch = [p \in Pushers |-> <<>>]
  /\ next = [p \in Pushers |-> 1]
  /\ cursor = [g \in Getters |-> 1]
  /\ found = [g \in Getters |-> "none"]
  /\ done = {}
  /\ owner = [e \in Elements |-> Nobody]

Goto(t, place) == pc' = [pc EXCEPT ![t] = place]
-----------------------------------------------------------------------------
(* The mutex and the flag.                                                 *)

Acquire(t) ==
  /\ pc[t] = "wait"
  /\ mutex = Nobody
  /\ mutex' = t
  /\ Goto(t, "entered")
  /\ UNCHANGED <<deque, isEmpty, batch, next, cursor, found, elementVars>>

(* try_lock_for has waited long enough. What a timed push was to push      *)
(* stays with its caller, for the next attempt.                            *)
TimeOut(t) ==
  /\ pc[t] = "wait"
  /\ mutex # Nobody
  /\ t \in Getters \cup TimedPushers \cup {Sweeper}
  /\ found' = IF t \in Getters THEN [found EXCEPT ![t] = "busy"] ELSE found
  /\ Goto(t, "idle")
  /\ UNCHANGED <<sharedVars, batch, next, cursor, elementVars>>

(* The flag is read without the mutex, by getters and by the sweeper.      *)
ReadFlag(t) ==
  /\ t \in Getters \cup {Sweeper}
  /\ pc[t] = "idle"
  /\ \/ /\ isEmpty
        /\ found' = IF t \in Getters THEN [found EXCEPT ![t] = "empty"]
                                     ELSE found
        /\ UNCHANGED pc
     \/ /\ ~isEmpty
        /\ Goto(t, "wait")
        /\ UNCHANGED found
  /\ UNCHANGED <<sharedVars, batch, next, cursor, elementVars>>

(* unique_lock's destructor.                                               *)
Leave(t) ==
  /\ pc[t] = "leave"
  /\ mutex' = Nobody
  /\ Goto(t, IF t \in Getters /\ found[t] \in Elements THEN "holding"
                                                      ELSE "idle")
  /\ UNCHANGED <<deque, isEmpty, batch, next, cursor, found, elementVars>>
-----------------------------------------------------------------------------
(* push and push_with_timeout_n.                                           *)

(* The sequences of new elements that one call may push.                   *)
Batches(p) ==
  {b \in UNION {[1..n -> Elements] :
                  n \in 1..(IF p \in TimedPushers THEN MaxBatch ELSE 1)} :
     /\ \A i \in DOMAIN b : /\ b[i] \notin InDeque \cup done
                            /\ owner[b[i]] = Nobody
                            /\ \A q \in Pushers : b[i] \notin InBatch(q)
     /\ \A i, j \in DOMAIN b : b[i] = b[j] => i = j}

(* A timed push whose time had run out is tried again with what it had.    *)
StartPush(p) ==
  /\ pc[p] = "idle"
  /\ \/ /\ batch[p] = <<>>
        /\ \E b \in Batches(p) : batch' = [batch EXCEPT ![p] = b]
     \/ /\ batch[p] # <<>>
        /\ UNCHANGED batch
  /\ Goto(p, "wait")
  /\ UNCHANGED <<sharedVars, next, cursor, found, elementVars>>

PushBack(p) ==
  /\ pc[p] = "entered"
  /\ next[p] <= Len(batch[p])
  /\ deque' = Append(deque, batch[p][next[p]])
  /\ next' = [next EXCEPT ![p] = @ + 1]
  /\ UNCHANGED <<isEmpty, mutex, pc, batch, cursor, found, elementVars>>

(* Mutant: the flag is not told of the new elements.                       *)
SetFlagNot(p) ==
  /\ pc[p] = "entered"
  /\ next[p] > Len(batch[p])
  /\ batch' = [batch EXCEPT ![p] = <<>>]
  /\ next' = [next EXCEPT ![p] = 1]
  /\ Goto(p, "leave")
  /\ UNCHANGED <<deque, isEmpty, mutex, cursor, found, elementVars>>

SetFlag(p) ==
  /\ pc[p] = "entered"
  /\ next[p] > Len(batch[p])
  /\ isEmpty' = (deque = <<>>)
  /\ batch' = [batch EXCEPT ![p] = <<>>]
  /\ next' = [next EXCEPT ![p] = 1]
  /\ Goto(p, "leave")
  /\ UNCHANGED <<deque, mutex, cursor, found, elementVars>>
-----------------------------------------------------------------------------
(* lock_element_with_timeout.                                              *)

BeginScan(g) ==
  /\ pc[g] = "entered"
  /\ \/ /\ deque = <<>>
        /\ found' = [found EXCEPT ![g] = "empty"]
        /\ Goto(g, "leave")
        /\ UNCHANGED cursor
     \/ /\ deque # <<>>
        /\ cursor' = [cursor EXCEPT ![g] = 1]
        /\ Goto(g, "scan")
        /\ UNCHANGED found
  /\ UNCHANGED <<sharedVars, batch, next, elementVars>>

(* The skip predicate on the element the iterator is at.                   *)
Test(g) ==
  /\ pc[g] = "scan"
  /\ cursor[g] <= Len(deque)
  /\ \/ /\ deque[cursor[g]] \in done
        /\ cursor' = [cursor EXCEPT ![g] = @ + 1]
        /\ UNCHANGED pc
     \/ /\ deque[cursor[g]] \notin done
        /\ Goto(g, "lock")
        /\ UNCHANGED cursor
  /\ UNCHANGED <<sharedVars, batch, next, found, elementVars>>

(* lock_with_owner_lockable, which is one exchange.                        *)
LockElement(g) ==
  LET e == deque[cursor[g]] IN
  /\ pc[g] = "lock"
  /\ \/ /\ owner[e] = Nobody
        /\ owner' = [owner EXCEPT ![e] = g]
        /\ found' = [found EXCEPT ![g] = e]
        /\ Goto(g, "leave")
        /\ UNCHANGED cursor
     \/ /\ owner[e] # Nobody
        /\ cursor' = [cursor EXCEPT ![g] = @ + 1]
        /\ Goto(g, "scan")
        /\ UNCHANGED <<owner, found>>
  /\ UNCHANGED <<sharedVars, batch, next, done>>

EndScan(g) ==
  /\ pc[g] = "scan"
  /\ cursor[g] > Len(deque)
  /\ found' = [found EXCEPT ![g] = "busy"]
  /\ Goto(g, "leave")
  /\ UNCHANGED <<sharedVars, batch, next, cursor, elementVars>>

(* The caller marks the element it has, and then unlocks it.               *)
Mark(g) ==
  /\ pc[g] = "holding"
  /\ done' = done \cup {found[g]}
  /\ Goto(g, "marked")
  /\ UNCHANGED <<sharedVars, batch, next, cursor, found, owner>>

Unlock(g) ==
  /\ pc[g] = "marked"
  /\ owner' = [owner EXCEPT ![found[g]] = Nobody]
  /\ found' = [found EXCEPT ![g] = "none"]
  /\ Goto(g, "idle")
  /\ UNCHANGED <<sharedVars, batch, next, cursor, done>>
-----------------------------------------------------------------------------
(* do_pipe_maintenance.                                                    *)

(* Mutant: whatever is at the head is removed.                             *)
RemoveAny ==
  /\ pc[Sweeper] = "sweep"
  /\ deque # <<>>
  /\ deque' = Tail(deque)
  /\ UNCHANGED <<isEmpty, mutex, pc, batch, next, cursor, found, elementVars>>

(* An empty deque is left at once, the flag as it is.                      *)
BeginSweep ==
  /\ pc[Sweeper] = "entered"
  /\ Goto(Sweeper, IF deque = <<>> THEN "leave" ELSE "sweep")
  /\ UNCHANGED <<sharedVars, batch, next, cursor, found, elementVars>>

Remove ==
  /\ pc[Sweeper] = "sweep"
  /\ deque # <<>>
  /\ Head(deque) \in done
  /\ deque' = Tail(deque)
  /\ UNCHANGED <<isEmpty, mutex, pc, batch, next, cursor, found, elementVars>>

EndSweep ==
  /\ pc[Sweeper] = "sweep"
  /\ deque # <<>> => Head(deque) \notin done
  /\ isEmpty' = (deque = <<>>)
  /\ Goto(Sweeper, "leave")
  /\ UNCHANGED <<deque, mutex, batch, next, cursor, found, elementVars>>

(* The last reference to an element has gone.                              *)
Destroy(e) ==
  /\ e \in done
  /\ e \notin InDeque
  /\ owner[e] = Nobody
  /\ done' = done \ {e}
  /\ UNCHANGED <<sharedVars, pc, batch, next, cursor, found, owner>>
-----------------------------------------------------------------------------
Push(p) == StartPush(p) \/ PushBack(p) \/ SetFlag(p)

Get(g) == BeginScan(g) \/ Test(g) \/ LockElement(g) \/ EndScan(g)
            \/ Mark(g) \/ Unlock(g)

Sweep == BeginSweep \/ Remove \/ EndSweep

Next ==
  \/ \E t \in Threads : Acquire(t) \/ TimeOut(t) \/ ReadFlag(t) \/ Leave(t)
  \/ \E p \in Pushers : Push(p)
  \/ \E g \in Getters : Get(g)
  \/ Sweep
  \/ \E e \in Elements : Destroy(e)

Spec == Init /\ [][Next]_vars

(* Every thread keeps running, and one that waits for the mutex gets it at *)
(* last. What is done under the mutex takes microseconds and a wait for it *)
(* 25 ms at least: time-outs are not for ever. Nobody owes a push.         *)
FairSpec ==
  /\ Spec
  /\ \A t \in Threads : <>[][~TimeOut(t)]_vars
  /\ \A t \in Threads : SF_vars(Acquire(t)) /\ WF_vars(Leave(t))
  /\ \A t \in Getters \cup {Sweeper} : WF_vars(ReadFlag(t))
  /\ \A p \in Pushers : WF_vars(PushBack(p) \/ SetFlag(p))
  /\ \A g \in Getters : WF_vars(Get(g))
  /\ WF_vars(Sweep)
-----------------------------------------------------------------------------
(* Properties.                                                             *)

Places == {"idle", "wait", "entered", "scan", "lock", "sweep", "leave",
           "holding", "marked"}

Inside == {"entered", "scan", "lock", "sweep", "leave"}

(* The variables have their types.                                         *)
TypeOK ==
  /\ deque \in Seq(Elements)
  /\ isEmpty \in BOOLEAN
  /\ mutex \in Threads \cup {Nobody}
  /\ pc \in [Threads -> Places]
  /\ batch \in [Pushers -> Seq(Elements)]
  /\ next \in [Pushers -> Nat \ {0}]
  /\ cursor \in [Getters -> Nat \ {0}]
  /\ found \in [Getters -> Elements \cup Answers]
  /\ done \subseteq Elements
  /\ owner \in [Elements -> Getters \cup {Nobody}]

(* Nobody is inside the deque without the mutex.                           *)
MutualExclusion ==
  \A t \in Threads : pc[t] \in Inside <=> mutex = t

(* The flag that is read without the mutex is exact whenever nobody holds  *)
(* the mutex: the early returns that do not set it leave it right.         *)
FlagIsExact == mutex = Nobody => (isEmpty <=> deque = <<>>)

(* While it says empty there is nothing in the deque but what a push that  *)
(* has not returned is putting there: no element is hidden behind it.      *)
FlagHidesNothing ==
  isEmpty /\ deque # <<>> =>
    \E p \in Pushers : mutex = p /\ next[p] > Len(deque)

(* An iterator is not left behind by a deque that shrinks under it.        *)
CursorInside ==
  \A g \in Getters : pc[g] = "lock" => cursor[g] <= Len(deque)

(* The queue that the pipe implements does not show what is being pushed   *)
(* until the flag has been set.                                            *)
Unpublished ==
  IF mutex \in Pushers /\ pc[mutex] = "entered" THEN next[mutex] - 1 ELSE 0

Queue == INSTANCE PipeService
           WITH queue <- SubSeq(deque, 1, Len(deque) - Unpublished)

(* With its flag, its time-outs and its single steps, the pipe is a queue  *)
(* whose operations happen at once.                                        *)
ImplementsQueue == Queue!Spec

(* An element that has been pushed is worked on.                           *)
PushedIsServed ==
  \A e \in Elements : e \in InDeque ~> e \in done

(* What has been worked on leaves the pipe.                                *)
DoneIsRemoved ==
  \A e \in Elements : (e \in InDeque /\ e \in done) ~> e \notin InDeque
=============================================================================
