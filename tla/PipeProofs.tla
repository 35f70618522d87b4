----------------------------- MODULE PipeProofs -----------------------------
(***************************************************************************)
(* Proofs about Pipe, for any number of threads, elements and elements per *)
(* push.                                                                   *)
(***************************************************************************)
EXTENDS Pipe, TLAPS

USE ThreadsAssumption, ElementsAssumption

(* Where the threads of each kind can be.                                  *)
Roles ==
  /\ \A p \in Pushers : pc[p] \in {"idle", "wait", "entered", "leave"}
  /\ \A g \in Getters : pc[g] \in Places \ {"sweep"}
  /\ pc[Sweeper] \in {"idle", "wait", "entered", "sweep", "leave"}

(* A pusher goes through its batch while it holds the mutex, and only then.*)
BatchesArePending ==
  \A p \in Pushers :
    /\ next[p] <= Len(batch[p]) + 1
    /\ pc[p] # "entered" => next[p] = 1
    /\ pc[p] \in {"wait", "entered"} => batch[p] # <<>>

(* What a pusher has to push belongs to it alone, and is in the deque as   *)
(* soon as it has pushed it.                                               *)
BatchesAreNew ==
  \A p \in Pushers : \A i \in DOMAIN batch[p] :
    /\ batch[p][i] \notin done
    /\ owner[batch[p][i]] = Nobody
    /\ \A j \in DOMAIN batch[p] : batch[p][i] = batch[p][j] => i = j
    /\ \A q \in Pushers \ {p} : \A j \in DOMAIN batch[q] :
         batch[p][i] # batch[q][j]
    /\ i >= next[p] => \A k \in DOMAIN deque : deque[k] # batch[p][i]

(* What it has pushed is at the end of the deque.                          *)
PushedIsLast ==
  \A p \in Pushers : pc[p] = "entered" =>
    /\ next[p] - 1 <= Len(deque)
    /\ \A i \in 1..(next[p] - 1) :
         deque[Len(deque) - (next[p] - 1) + i] = batch[p][i]

(* No element is in the deque twice.                                       *)
NoneIsTwice == \A i, j \in DOMAIN deque : deque[i] = deque[j] => i = j

(* A getter that has been given an element owns it until it lets go.       *)
FoundIsHeld ==
  \A g \in Getters :
    /\ found[g] \in Elements =>
         pc[g] \in {"leave", "holding", "marked"} /\ owner[found[g]] = g
    /\ pc[g] \in {"holding", "marked"} => found[g] \in Elements
    /\ pc[g] = "marked" => found[g] \in done

(* The flag tells of what has been published; maintenance has yet to set it*)
(* while it removes.                                                       *)
FlagIsCurrent ==
  IF pc[Sweeper] = "sweep" THEN ~isEmpty
                           ELSE isEmpty <=> Len(deque) = Unpublished

Inv ==
  /\ TypeOK /\ MutualExclusion /\ Roles
  /\ BatchesArePending /\ BatchesAreNew /\ PushedIsLast /\ NoneIsTwice
  /\ FoundIsHeld /\ FlagIsCurrent /\ CursorInside
-----------------------------------------------------------------------------
(* Whoever comes to a free mutex gets it.                                  *)
LEMMA AcquireInv ==
  ASSUME NEW t \in Threads, Inv, Acquire(t)
  PROVE  Inv'
<1>1. TypeOK'
  BY DEF Inv, TypeOK, Places, Goto, elementVars, Acquire
<1>2. MutualExclusion'
  BY DEF Inv, MutualExclusion, TypeOK, Inside, Goto, elementVars, Acquire
<1>3. Roles'
  BY DEF Inv, Roles, TypeOK, Places, Goto, elementVars, Acquire
<1>4. BatchesArePending'
  BY DEF Inv, BatchesArePending, TypeOK, Goto, elementVars, Acquire
<1>5. BatchesAreNew'
  BY DEF Inv, BatchesAreNew, TypeOK, Goto, elementVars, Acquire
<1>6. PushedIsLast'
  BY DEF Inv, PushedIsLast, TypeOK, BatchesArePending, Goto, elementVars,
         Acquire
<1>7. NoneIsTwice'
  BY DEF Inv, NoneIsTwice, TypeOK, Goto, elementVars, Acquire
<1>8. FoundIsHeld'
  BY DEF Inv, FoundIsHeld, TypeOK, Goto, elementVars, Acquire
<1>9. FlagIsCurrent'
  BY DEF Inv, FlagIsCurrent, TypeOK, Unpublished, Inside, BatchesArePending,
         Threads, Goto, elementVars, Acquire
<1>10. CursorInside'
  BY DEF Inv, CursorInside, TypeOK, Goto, elementVars, Acquire
<1> QED
  BY <1>1, <1>2, <1>3, <1>4, <1>5, <1>6, <1>7, <1>8, <1>9, <1>10 DEF Inv

(* Whoever waited too long goes away without the mutex.                    *)
LEMMA TimeOutInv ==
  ASSUME NEW t \in Threads, Inv, TimeOut(t)
  PROVE  Inv'
<1>1. TypeOK'
  BY DEF Inv, TypeOK, Places, Answers, Goto, sharedVars, elementVars, TimeOut
<1>2. MutualExclusion'
  BY DEF Inv, MutualExclusion, TypeOK, Inside, Goto, sharedVars, elementVars,
         TimeOut
<1>3. Roles'
  BY DEF Inv, Roles, TypeOK, Places, Goto, sharedVars, elementVars, TimeOut
<1>4. BatchesArePending'
  BY DEF Inv, BatchesArePending, TypeOK, Goto, sharedVars, elementVars,
         TimeOut
<1>5. BatchesAreNew'
  BY DEF Inv, BatchesAreNew, TypeOK, Goto, sharedVars, elementVars, TimeOut
<1>6. PushedIsLast'
  BY DEF Inv, PushedIsLast, TypeOK, Goto, sharedVars, elementVars, TimeOut
<1>7. NoneIsTwice'
  BY DEF Inv, NoneIsTwice, TypeOK, Goto, sharedVars, elementVars, TimeOut
<1>8. FoundIsHeld'
  BY DEF Inv, FoundIsHeld, TypeOK, Answers, Goto, sharedVars, elementVars,
         TimeOut
<1>9. FlagIsCurrent'
  BY DEF Inv, FlagIsCurrent, TypeOK, Unpublished, Goto, sharedVars,
         elementVars, TimeOut
<1>10. CursorInside'
  BY DEF Inv, CursorInside, TypeOK, Goto, sharedVars, elementVars, TimeOut
<1> QED
  BY <1>1, <1>2, <1>3, <1>4, <1>5, <1>6, <1>7, <1>8, <1>9, <1>10 DEF Inv

(* A flag that says empty ends an attempt.                                 *)
LEMMA ReadFlagInv ==
  ASSUME NEW t \in Threads, Inv, ReadFlag(t)
  PROVE  Inv'
<1>1. TypeOK'
  BY DEF Inv, TypeOK, Places, Answers, Goto, sharedVars, elementVars,
         ReadFlag
<1>2. MutualExclusion'
  BY DEF Inv, MutualExclusion, TypeOK, Inside, Goto, sharedVars, elementVars,
         ReadFlag
<1>3. Roles'
  BY DEF Inv, Roles, TypeOK, Threads, Places, Goto, sharedVars, elementVars,
         ReadFlag
<1>4. BatchesArePending'
  BY DEF Inv, BatchesArePending, TypeOK, Threads, Goto, sharedVars,
         elementVars, ReadFlag
<1>5. BatchesAreNew'
  BY DEF Inv, BatchesAreNew, TypeOK, Goto, sharedVars, elementVars, ReadFlag
<1>6. PushedIsLast'
  BY DEF Inv, PushedIsLast, TypeOK, Threads, Goto, sharedVars, elementVars,
         ReadFlag
<1>7. NoneIsTwice'
  BY DEF Inv, NoneIsTwice, TypeOK, Goto, sharedVars, elementVars, ReadFlag
<1>8. FoundIsHeld'
  <2>1. CASE isEmpty /\ t \in Getters
    <3>1. /\ found' = [found EXCEPT ![t] = "empty"]
          /\ pc' = pc /\ done' = done /\ owner' = owner
      BY <2>1 DEF ReadFlag, elementVars
    <3>2. "empty" \notin Elements /\ pc[t] = "idle"
      BY DEF Answers, ReadFlag
    <3>3. /\ found'[t] = "empty"
          /\ \A g \in Getters \ {t} : found'[g] = found[g]
      BY <2>1, <3>1 DEF Inv, TypeOK
    <3> QED
      BY <3>1, <3>2, <3>3 DEF Inv, FoundIsHeld
  <2>2. CASE isEmpty /\ t \notin Getters
    BY <2>2 DEF Inv, TypeOK, FoundIsHeld, ReadFlag, sharedVars, elementVars
  <2>3. CASE ~isEmpty
    BY <2>3 DEF Inv, TypeOK, FoundIsHeld, ReadFlag, Goto, Threads,
                sharedVars, elementVars
  <2> QED
    BY <2>1, <2>2, <2>3
<1>9. FlagIsCurrent'
  BY DEF Inv, FlagIsCurrent, TypeOK, Unpublished, Threads, Goto, sharedVars,
         elementVars, ReadFlag
<1>10. CursorInside'
  BY DEF Inv, CursorInside, TypeOK, Threads, Goto, sharedVars, elementVars,
         ReadFlag
<1> QED
  BY <1>1, <1>2, <1>3, <1>4, <1>5, <1>6, <1>7, <1>8, <1>9, <1>10 DEF Inv

(* The mutex is given back when its holder is at the end.                  *)
LEMMA LeaveInv ==
  ASSUME NEW t \in Threads, Inv, Leave(t)
  PROVE  Inv'
<1>1. TypeOK'
  BY DEF Inv, TypeOK, Places, Goto, elementVars, Leave
<1>2. MutualExclusion'
  BY DEF Inv, MutualExclusion, TypeOK, Inside, Goto, elementVars, Leave
<1>3. Roles'
  BY DEF Inv, Roles, TypeOK, Places, Goto, elementVars, Leave
<1>4. BatchesArePending'
  BY DEF Inv, BatchesArePending, TypeOK, Goto, elementVars, Leave
<1>5. BatchesAreNew'
  BY DEF Inv, BatchesAreNew, TypeOK, Goto, elementVars, Leave
<1>6. PushedIsLast'
  BY DEF Inv, PushedIsLast, TypeOK, Goto, elementVars, Leave
<1>7. NoneIsTwice'
  BY DEF Inv, NoneIsTwice, TypeOK, Goto, elementVars, Leave
<1>8. FoundIsHeld'
  BY DEF Inv, FoundIsHeld, TypeOK, Goto, elementVars, Leave
<1>9. FlagIsCurrent'
  BY DEF Inv, FlagIsCurrent, TypeOK, Unpublished, MutualExclusion, Inside,
         Threads, Goto, elementVars, Leave
<1>10. CursorInside'
  BY DEF Inv, CursorInside, TypeOK, Goto, elementVars, Leave
<1> QED
  BY <1>1, <1>2, <1>3, <1>4, <1>5, <1>6, <1>7, <1>8, <1>9, <1>10 DEF Inv

(* A batch is begun with elements nobody else knows of.                    *)
LEMMA StartPushInv ==
  ASSUME NEW p \in Pushers, Inv, StartPush(p)
  PROVE  Inv'
<1>1. TypeOK'
  <2>1. ASSUME NEW b \in Batches(p)
        PROVE  b \in Seq(Elements)
    <3>1. PICK n \in 1..(IF p \in TimedPushers THEN MaxBatch ELSE 1) :
            b \in [1..n -> Elements]
      BY <2>1 DEF Batches
    <3>2. n \in Nat
      BY <3>1
    <3> QED
      BY <3>1, <3>2
  <2>2. batch' \in [Pushers -> Seq(Elements)]
    BY <2>1 DEF Inv, TypeOK, StartPush
  <2> QED
    BY <2>2 DEF Inv, TypeOK, StartPush, Goto, Places, Threads, sharedVars,
                elementVars
<1>2. MutualExclusion'
  BY DEF Inv, MutualExclusion, TypeOK, Inside, Goto, sharedVars, elementVars,
         StartPush, Batches
<1>3. Roles'
  BY DEF Inv, Roles, TypeOK, Goto, sharedVars, elementVars, StartPush,
         Batches
<1>4. BatchesArePending'
  BY DEF Inv, BatchesArePending, TypeOK, Goto, sharedVars, elementVars,
         StartPush, Batches
<1>5. BatchesAreNew'
  <2>1. CASE batch' = batch
    BY <2>1 DEF Inv, BatchesAreNew, StartPush, sharedVars, elementVars
  <2>2. ASSUME NEW b \in Batches(p), batch' = [batch EXCEPT ![p] = b]
        PROVE  BatchesAreNew'
    <3>1. \A i \in DOMAIN b :
            /\ b[i] \notin done
            /\ owner[b[i]] = Nobody
            /\ \A j \in DOMAIN b : b[i] = b[j] => i = j
            /\ \A k \in DOMAIN deque : deque[k] # b[i]
            /\ \A q \in Pushers : \A j \in DOMAIN batch[q] : b[i] # batch[q][j]
      BY <2>2 DEF Batches, InDeque, InBatch
    <3>2. /\ batch'[p] = b
          /\ \A q \in Pushers \ {p} : batch'[q] = batch[q]
      BY <2>2 DEF Inv, TypeOK
    <3> QED
      BY <3>1, <3>2 DEF Inv, BatchesAreNew, StartPush, sharedVars, elementVars
  <2> QED
    BY <2>1, <2>2 DEF StartPush
<1>6. PushedIsLast'
  <2>1. ASSUME NEW q \in Pushers, pc'[q] = "entered"
        PROVE  pc[q] = "entered" /\ batch'[q] = batch[q]
    <3>1. q # p /\ pc[q] = "entered"
      BY <2>1 DEF Inv, TypeOK, Goto, StartPush
    <3> QED
      BY <3>1 DEF Inv, TypeOK, StartPush
  <2> QED
    BY <2>1 DEF Inv, PushedIsLast, StartPush, sharedVars
<1>7. NoneIsTwice'
  BY DEF Inv, NoneIsTwice, TypeOK, Goto, sharedVars, elementVars, StartPush,
         Batches
<1>8. FoundIsHeld'
  BY DEF Inv, FoundIsHeld, TypeOK, Goto, sharedVars, elementVars, StartPush,
         Batches
<1>9. FlagIsCurrent'
  BY DEF Inv, FlagIsCurrent, TypeOK, Unpublished, Goto, sharedVars,
         elementVars, StartPush, Batches
<1>10. CursorInside'
  BY DEF Inv, CursorInside, TypeOK, Goto, sharedVars, elementVars, StartPush,
         Batches
<1> QED
  BY <1>1, <1>2, <1>3, <1>4, <1>5, <1>6, <1>7, <1>8, <1>9, <1>10 DEF Inv

(* The next element of the batch goes to the end.                          *)
LEMMA PushBackInv ==
  ASSUME NEW p \in Pushers, Inv, PushBack(p)
  PROVE  Inv'
<1>1. TypeOK'
  BY DEF Inv, TypeOK, elementVars, PushBack
<1>2. MutualExclusion'
  BY DEF Inv, MutualExclusion, TypeOK, elementVars, PushBack
<1>3. Roles'
  BY DEF Inv, Roles, TypeOK, elementVars, PushBack
<1>4. BatchesArePending'
  BY DEF Inv, BatchesArePending, TypeOK, elementVars, PushBack
<1>5. BatchesAreNew'
  BY DEF Inv, BatchesAreNew, TypeOK, elementVars, PushBack
<1>6. PushedIsLast'
  <2>1. /\ deque' = Append(deque, batch[p][next[p]])
        /\ next' = [next EXCEPT ![p] = next[p] + 1]
        /\ batch' = batch /\ pc' = pc
        /\ pc[p] = "entered"
        /\ deque \in Seq(Elements) /\ Len(deque) \in Nat
        /\ next \in [Pushers -> Nat \ {0}]
        /\ batch[p][next[p]] \in Elements
    BY DEF Inv, TypeOK, PushBack
  <2>2. /\ Len(deque') = Len(deque) + 1
        /\ deque'[Len(deque) + 1] = batch[p][next[p]]
        /\ \A i \in 1..Len(deque) : deque'[i] = deque[i]
    BY <2>1
  <2>3. \A q \in Pushers \ {p} : pc'[q] # "entered"
    BY <2>1 DEF Inv, MutualExclusion, Inside, Threads
  <2>4. /\ next'[p] = next[p] + 1
        /\ next[p] \in Nat \ {0}
        /\ next[p] - 1 <= Len(deque)
        /\ \A i \in 1..(next[p] - 1) :
             deque[Len(deque) - (next[p] - 1) + i] = batch[p][i]
    BY <2>1 DEF Inv, PushedIsLast
  <2>5. ASSUME NEW i \in 1..next[p]
        PROVE  deque'[Len(deque) + 1 - next[p] + i] = batch[p][i]
    <3>1. CASE i = next[p]
      BY <2>2, <2>4, <3>1, <2>1
    <3>2. CASE i # next[p]
      <4>1. i \in 1..(next[p] - 1)
        BY <2>4, <3>2
      <4>2. Len(deque) + 1 - next[p] + i \in 1..Len(deque)
        BY <2>1, <2>4, <4>1
      <4> QED
        BY <2>1, <2>2, <2>4, <4>1, <4>2
    <3> QED
      BY <3>1, <3>2
  <2>6. ASSUME NEW q \in Pushers, pc'[q] = "entered"
        PROVE  /\ next'[q] - 1 <= Len(deque')
               /\ \A i \in 1..(next'[q] - 1) :
                    deque'[Len(deque') - (next'[q] - 1) + i] = batch'[q][i]
    <3>1. q = p /\ next'[q] - 1 = next[p]
      BY <2>3, <2>4, <2>6
    <3>2. \A i \in 1..next[p] :
            Len(deque') - (next'[q] - 1) + i = Len(deque) + 1 - next[p] + i
      BY <2>1, <2>2, <2>4, <3>1
    <3> QED
      BY <2>1, <2>2, <2>4, <2>5, <3>1, <3>2
  <2> QED
    BY <2>6 DEF PushedIsLast
<1>7. NoneIsTwice'
  BY DEF Inv, NoneIsTwice, TypeOK, BatchesAreNew, Threads, elementVars,
         PushBack
<1>8. FoundIsHeld'
  BY DEF Inv, FoundIsHeld, TypeOK, elementVars, PushBack
<1>9. FlagIsCurrent'
  <2>1. mutex = p /\ pc[p] = "entered" /\ mutex' = mutex /\ pc' = pc
    BY DEF Inv, MutualExclusion, Inside, Threads, PushBack
  <2>2. Len(deque') = Len(deque) + 1 /\ next'[p] = next[p] + 1
    BY DEF Inv, TypeOK, PushBack
  <2>3. /\ next[p] \in Nat /\ Len(deque) \in Nat
        /\ isEmpty' = isEmpty
        /\ pc[Sweeper] # "sweep"
    BY <2>1 DEF Inv, TypeOK, MutualExclusion, Inside, Threads, PushBack
  <2> QED
    BY <2>1, <2>2, <2>3 DEF Inv, FlagIsCurrent, Unpublished
<1>10. CursorInside'
  BY DEF Inv, CursorInside, TypeOK, elementVars, PushBack
<1> QED
  BY <1>1, <1>2, <1>3, <1>4, <1>5, <1>6, <1>7, <1>8, <1>9, <1>10 DEF Inv

(* The flag is set when the whole batch is in the deque.                   *)
LEMMA SetFlagInv ==
  ASSUME NEW p \in Pushers, Inv, SetFlag(p)
  PROVE  Inv'
<1>1. TypeOK'
  BY DEF Inv, TypeOK, Threads, Places, Goto, elementVars, SetFlag
<1>2. MutualExclusion'
  BY DEF Inv, MutualExclusion, TypeOK, Inside, Goto, elementVars, SetFlag
<1>3. Roles'
  BY DEF Inv, Roles, TypeOK, Goto, elementVars, SetFlag
<1>4. BatchesArePending'
  BY DEF Inv, BatchesArePending, TypeOK, Threads, Goto, elementVars, SetFlag
<1>5. BatchesAreNew'
  BY DEF Inv, BatchesAreNew, TypeOK, Goto, elementVars, SetFlag
<1>6. PushedIsLast'
  BY DEF Inv, PushedIsLast, TypeOK, Goto, elementVars, SetFlag
<1>7. NoneIsTwice'
  BY DEF Inv, NoneIsTwice, TypeOK, Goto, elementVars, SetFlag
<1>8. FoundIsHeld'
  BY DEF Inv, FoundIsHeld, TypeOK, Goto, elementVars, SetFlag
<1>9. FlagIsCurrent'
  <2>1. mutex = p /\ mutex' = mutex /\ pc' = [pc EXCEPT ![p] = "leave"]
    BY DEF Inv, MutualExclusion, Inside, Threads, SetFlag, Goto
  <2>2. pc'[p] = "leave" /\ pc'[Sweeper] # "sweep"
    BY <2>1 DEF Inv, TypeOK, MutualExclusion, Inside, Threads
  <2>3. Unpublished' = 0
    BY <2>1, <2>2 DEF Unpublished
  <2>4. deque = <<>> <=> Len(deque) = 0
    BY DEF Inv, TypeOK
  <2>5. isEmpty' <=> Len(deque') = 0
    BY <2>4 DEF Inv, TypeOK, SetFlag
  <2> QED
    BY <2>2, <2>3, <2>5 DEF FlagIsCurrent
<1>10. CursorInside'
  BY DEF Inv, CursorInside, TypeOK, Goto, elementVars, SetFlag
<1> QED
  BY <1>1, <1>2, <1>3, <1>4, <1>5, <1>6, <1>7, <1>8, <1>9, <1>10 DEF Inv

(* A scan begins at the head.                                              *)
LEMMA BeginScanInv ==
  ASSUME NEW g \in Getters, Inv, BeginScan(g)
  PROVE  Inv'
<1>1. TypeOK'
  <2>1. cursor' \in [Getters -> Nat \ {0}]
    BY SMTT(30) DEF Inv, TypeOK, BeginScan
  <2>2. found' \in [Getters -> Elements \cup Answers]
    BY DEF Inv, TypeOK, BeginScan, Answers
  <2>3. pc' \in [Threads -> Places]
    BY DEF Inv, TypeOK, BeginScan, Places, Goto
  <2> QED
    BY <2>1, <2>2, <2>3 DEF Inv, TypeOK, BeginScan, sharedVars, elementVars
<1>2. MutualExclusion'
  BY DEF Inv, MutualExclusion, TypeOK, Inside, Goto, sharedVars, elementVars,
         BeginScan
<1>3. Roles'
  BY ZenonT(40) DEF Inv, Roles, TypeOK, Threads, Places, Goto, sharedVars, elementVars,
         BeginScan
<1>4. BatchesArePending'
  BY DEF Inv, BatchesArePending, TypeOK, Threads, Goto, sharedVars,
         elementVars, BeginScan
<1>5. BatchesAreNew'
  BY DEF Inv, BatchesAreNew, TypeOK, Goto, sharedVars, elementVars, BeginScan
<1>6. PushedIsLast'
  BY DEF Inv, PushedIsLast, TypeOK, Threads, Goto, sharedVars, elementVars,
         BeginScan
<1>7. NoneIsTwice'
  BY DEF Inv, NoneIsTwice, TypeOK, Goto, sharedVars, elementVars, BeginScan
<1>8. FoundIsHeld'
  BY DEF Inv, FoundIsHeld, TypeOK, Threads, Answers, Inside, Goto, sharedVars,
         elementVars, BeginScan
<1>9. FlagIsCurrent'
  BY DEF Inv, FlagIsCurrent, TypeOK, Unpublished, Threads, Goto, sharedVars,
         elementVars, BeginScan
<1>10. CursorInside'
  BY DEF Inv, CursorInside, TypeOK, Threads, Goto, sharedVars, elementVars,
         BeginScan
<1> QED
  BY <1>1, <1>2, <1>3, <1>4, <1>5, <1>6, <1>7, <1>8, <1>9, <1>10 DEF Inv

(* A scan goes on behind what is done.                                     *)
LEMMA TestInv ==
  ASSUME NEW g \in Getters, Inv, Test(g)
  PROVE  Inv'
<1>1. TypeOK'
  <2>1. cursor' \in [Getters -> Nat \ {0}]
    BY DEF Inv, TypeOK, Test
  <2>2. pc' \in [Threads -> Places]
    BY DEF Inv, TypeOK, Test, Places, Goto
  <2> QED
    BY <2>1, <2>2 DEF Inv, TypeOK, Test, sharedVars, elementVars
<1>2. MutualExclusion'
  BY DEF Inv, MutualExclusion, TypeOK, Inside, Goto, sharedVars, elementVars,
         Test
<1>3. Roles'
  BY DEF Inv, Roles, TypeOK, Threads, Places, Goto, sharedVars, elementVars,
         Test
<1>4. BatchesArePending'
  BY DEF Inv, BatchesArePending, TypeOK, Threads, Goto, sharedVars,
         elementVars, Test
<1>5. BatchesAreNew'
  BY DEF Inv, BatchesAreNew, TypeOK, Goto, sharedVars, elementVars, Test
<1>6. PushedIsLast'
  BY DEF Inv, PushedIsLast, TypeOK, Threads, Goto, sharedVars, elementVars,
         Test
<1>7. NoneIsTwice'
  BY DEF Inv, NoneIsTwice, TypeOK, Goto, sharedVars, elementVars, Test
<1>8. FoundIsHeld'
  BY SMTT(30) DEF Inv, FoundIsHeld, TypeOK, Threads, Goto, sharedVars, elementVars,
         Test
<1>9. FlagIsCurrent'
  BY DEF Inv, FlagIsCurrent, TypeOK, Unpublished, Threads, Goto, sharedVars,
         elementVars, Test
<1>10. CursorInside'
  BY DEF Inv, CursorInside, TypeOK, Threads, Goto, sharedVars, elementVars,
         Test
<1> QED
  BY <1>1, <1>2, <1>3, <1>4, <1>5, <1>6, <1>7, <1>8, <1>9, <1>10 DEF Inv

(* A getter takes the element it is at, or goes on.                        *)
LEMMA LockElementInv ==
  ASSUME NEW g \in Getters, Inv, LockElement(g)
  PROVE  Inv'
<1>1. TypeOK'
  <2>1. deque[cursor[g]] \in Elements
    BY DEF Inv, TypeOK, CursorInside, LockElement
  <2>2. /\ owner' \in [Elements -> Getters \cup {Nobody}]
        /\ found' \in [Getters -> Elements \cup Answers]
    BY <2>1, ZenonT(40) DEF Inv, TypeOK, LockElement
  <2>3. cursor' \in [Getters -> Nat \ {0}]
    BY DEF Inv, TypeOK, LockElement
  <2>4. pc' \in [Threads -> Places]
    BY DEF Inv, TypeOK, LockElement, Places, Goto
  <2> QED
    BY <2>2, <2>3, <2>4 DEF Inv, TypeOK, LockElement, sharedVars
<1>2. MutualExclusion'
  BY DEF Inv, MutualExclusion, TypeOK, Inside, Goto, sharedVars, LockElement
<1>3. Roles'
  BY ZenonT(40) DEF Inv, Roles, TypeOK, Threads, Places, Goto, sharedVars, LockElement
<1>4. BatchesArePending'
  BY DEF Inv, BatchesArePending, TypeOK, Threads, Goto, sharedVars,
         LockElement
<1>5. BatchesAreNew'
  <2>1. /\ deque' = deque /\ batch' = batch /\ next' = next /\ done' = done
        /\ owner \in [Elements -> Getters \cup {Nobody}]
        /\ batch \in [Pushers -> Seq(Elements)]
        /\ deque \in Seq(Elements)
        /\ cursor[g] \in 1..Len(deque)
    BY DEF Inv, TypeOK, CursorInside, LockElement, sharedVars
  <2>2. \A e \in Elements : owner'[e] # owner[e] => e = deque[cursor[g]]
    BY <2>1 DEF LockElement
  <2>3. \A p \in Pushers : next[p] = 1
    BY DEF Inv, MutualExclusion, BatchesArePending, Inside, LockElement,
           Threads
  <2>4. \A p \in Pushers : \A i \in DOMAIN batch[p] :
          /\ batch[p][i] \in Elements
          /\ batch[p][i] # deque[cursor[g]]
    BY <2>1, <2>3 DEF Inv, BatchesAreNew
  <2> QED
    BY <2>1, <2>2, <2>4 DEF Inv, BatchesAreNew
<1>6. PushedIsLast'
  BY DEF Inv, PushedIsLast, TypeOK, Threads, Goto, sharedVars, LockElement
<1>7. NoneIsTwice'
  BY DEF Inv, NoneIsTwice, TypeOK, Goto, sharedVars, LockElement
<1>8. FoundIsHeld'
  BY DEF Inv, FoundIsHeld, TypeOK, Threads, MutualExclusion, Goto, sharedVars,
         LockElement
<1>9. FlagIsCurrent'
  BY DEF Inv, FlagIsCurrent, TypeOK, Unpublished, Threads, Goto, sharedVars,
         LockElement
<1>10. CursorInside'
  BY SMTT(30) DEF Inv, CursorInside, TypeOK, Threads, Goto, sharedVars, LockElement
<1> QED
  BY <1>1, <1>2, <1>3, <1>4, <1>5, <1>6, <1>7, <1>8, <1>9, <1>10 DEF Inv

(* A scan that has found nothing ends.                                     *)
LEMMA EndScanInv ==
  ASSUME NEW g \in Getters, Inv, EndScan(g)
  PROVE  Inv'
<1>1. TypeOK'
  BY DEF Inv, TypeOK, Places, Answers, Goto, sharedVars, elementVars, EndScan
<1>2. MutualExclusion'
  BY DEF Inv, MutualExclusion, TypeOK, Inside, Goto, sharedVars, elementVars,
         EndScan
<1>3. Roles'
  BY DEF Inv, Roles, TypeOK, Places, Goto, sharedVars, elementVars, EndScan
<1>4. BatchesArePending'
  BY DEF Inv, BatchesArePending, TypeOK, Goto, sharedVars, elementVars,
         EndScan
<1>5. BatchesAreNew'
  BY DEF Inv, BatchesAreNew, TypeOK, Goto, sharedVars, elementVars, EndScan
<1>6. PushedIsLast'
  BY DEF Inv, PushedIsLast, TypeOK, Goto, sharedVars, elementVars, EndScan
<1>7. NoneIsTwice'
  BY DEF Inv, NoneIsTwice, TypeOK, Goto, sharedVars, elementVars, EndScan
<1>8. FoundIsHeld'
  BY DEF Inv, FoundIsHeld, TypeOK, Answers, Goto, sharedVars, elementVars,
         EndScan
<1>9. FlagIsCurrent'
  BY DEF Inv, FlagIsCurrent, TypeOK, Unpublished, Goto, sharedVars,
         elementVars, EndScan
<1>10. CursorInside'
  BY DEF Inv, CursorInside, TypeOK, Goto, sharedVars, elementVars, EndScan
<1> QED
  BY <1>1, <1>2, <1>3, <1>4, <1>5, <1>6, <1>7, <1>8, <1>9, <1>10 DEF Inv

(* A getter marks the element it has.                                      *)
LEMMA MarkInv ==
  ASSUME NEW g \in Getters, Inv, Mark(g)
  PROVE  Inv'
<1>1. TypeOK'
  <2>1. found[g] \in Elements
    BY DEF Inv, FoundIsHeld, Mark
  <2>2. pc' \in [Threads -> Places]
    BY DEF Inv, TypeOK, Mark, Places, Goto
  <2> QED
    BY <2>1, <2>2 DEF Inv, TypeOK, Mark, sharedVars
<1>2. MutualExclusion'
  BY DEF Inv, MutualExclusion, TypeOK, Inside, Goto, sharedVars, Mark
<1>3. Roles'
  BY DEF Inv, Roles, TypeOK, Places, Goto, sharedVars, Mark
<1>4. BatchesArePending'
  BY DEF Inv, BatchesArePending, TypeOK, Goto, sharedVars, Mark
<1>5. BatchesAreNew'
  <2>1. owner[found[g]] = g /\ g # Nobody
    BY DEF Inv, FoundIsHeld, Mark, Threads
  <2>2. \A p \in Pushers : \A i \in DOMAIN batch[p] : batch[p][i] # found[g]
    BY <2>1 DEF Inv, BatchesAreNew
  <2> QED
    BY <2>2 DEF Inv, BatchesAreNew, Mark, sharedVars
<1>6. PushedIsLast'
  BY DEF Inv, PushedIsLast, TypeOK, Goto, sharedVars, Mark
<1>7. NoneIsTwice'
  BY DEF Inv, NoneIsTwice, TypeOK, Goto, sharedVars, Mark
<1>8. FoundIsHeld'
  BY DEF Inv, FoundIsHeld, TypeOK, Goto, sharedVars, Mark
<1>9. FlagIsCurrent'
  BY DEF Inv, FlagIsCurrent, TypeOK, Unpublished, Goto, sharedVars, Mark
<1>10. CursorInside'
  BY DEF Inv, CursorInside, TypeOK, Goto, sharedVars, Mark
<1> QED
  BY <1>1, <1>2, <1>3, <1>4, <1>5, <1>6, <1>7, <1>8, <1>9, <1>10 DEF Inv

(* A getter lets go of the element it has.                                 *)
LEMMA UnlockInv ==
  ASSUME NEW g \in Getters, Inv, Unlock(g)
  PROVE  Inv'
<1>1. TypeOK'
  BY DEF Inv, TypeOK, Places, Answers, Goto, sharedVars, Unlock
<1>2. MutualExclusion'
  BY DEF Inv, MutualExclusion, TypeOK, Inside, Goto, sharedVars, Unlock
<1>3. Roles'
  BY DEF Inv, Roles, TypeOK, Places, Goto, sharedVars, Unlock
<1>4. BatchesArePending'
  BY DEF Inv, BatchesArePending, TypeOK, Goto, sharedVars, Unlock
<1>5. BatchesAreNew'
  BY DEF Inv, BatchesAreNew, TypeOK, Goto, sharedVars, Unlock
<1>6. PushedIsLast'
  BY DEF Inv, PushedIsLast, TypeOK, Goto, sharedVars, Unlock
<1>7. NoneIsTwice'
  BY DEF Inv, NoneIsTwice, TypeOK, Goto, sharedVars, Unlock
<1>8. FoundIsHeld'
  BY DEF Inv, FoundIsHeld, TypeOK, Threads, Answers, Goto, sharedVars, Unlock
<1>9. FlagIsCurrent'
  BY DEF Inv, FlagIsCurrent, TypeOK, Unpublished, Goto, sharedVars, Unlock
<1>10. CursorInside'
  BY DEF Inv, CursorInside, TypeOK, Goto, sharedVars, Unlock
<1> QED
  BY <1>1, <1>2, <1>3, <1>4, <1>5, <1>6, <1>7, <1>8, <1>9, <1>10 DEF Inv

(* Maintenance begins unless the deque is empty.                           *)
LEMMA BeginSweepInv ==
  ASSUME Inv, BeginSweep
  PROVE  Inv'
<1>1. TypeOK'
  BY DEF Inv, TypeOK, Places, Goto, sharedVars, elementVars, BeginSweep
<1>2. MutualExclusion'
  BY DEF Inv, MutualExclusion, TypeOK, Inside, Goto, sharedVars, elementVars,
         BeginSweep
<1>3. Roles'
  BY DEF Inv, Roles, TypeOK, Goto, sharedVars, elementVars, BeginSweep
<1>4. BatchesArePending'
  BY DEF Inv, BatchesArePending, TypeOK, Goto, sharedVars, elementVars,
         BeginSweep
<1>5. BatchesAreNew'
  BY DEF Inv, BatchesAreNew, TypeOK, Goto, sharedVars, elementVars,
         BeginSweep
<1>6. PushedIsLast'
  BY DEF Inv, PushedIsLast, TypeOK, Goto, sharedVars, elementVars, BeginSweep
<1>7. NoneIsTwice'
  BY DEF Inv, NoneIsTwice, TypeOK, Goto, sharedVars, elementVars, BeginSweep
<1>8. FoundIsHeld'
  BY DEF Inv, FoundIsHeld, TypeOK, Goto, sharedVars, elementVars, BeginSweep
<1>9. FlagIsCurrent'
  BY DEF Inv, FlagIsCurrent, TypeOK, Unpublished, MutualExclusion, Threads,
         Goto, sharedVars, elementVars, BeginSweep
<1>10. CursorInside'
  BY DEF Inv, CursorInside, TypeOK, Goto, sharedVars, elementVars, BeginSweep
<1> QED
  BY <1>1, <1>2, <1>3, <1>4, <1>5, <1>6, <1>7, <1>8, <1>9, <1>10 DEF Inv

(* What is done leaves the head of the deque.                              *)
LEMMA RemoveInv ==
  ASSUME Inv, Remove
  PROVE  Inv'
<1>1. TypeOK'
  BY DEF Inv, TypeOK, elementVars, Remove
<1>2. MutualExclusion'
  BY DEF Inv, MutualExclusion, TypeOK, elementVars, Remove
<1>3. Roles'
  BY DEF Inv, Roles, TypeOK, elementVars, Remove
<1>4. BatchesArePending'
  BY DEF Inv, BatchesArePending, TypeOK, elementVars, Remove
<1>5. BatchesAreNew'
  BY DEF Inv, BatchesAreNew, TypeOK, elementVars, Remove
<1>6. PushedIsLast'
  BY DEF Inv, PushedIsLast, TypeOK, Threads, MutualExclusion, Inside,
         elementVars, Remove
<1>7. NoneIsTwice'
  BY DEF Inv, NoneIsTwice, TypeOK, elementVars, Remove
<1>8. FoundIsHeld'
  BY DEF Inv, FoundIsHeld, TypeOK, elementVars, Remove
<1>9. FlagIsCurrent'
  BY DEF Inv, FlagIsCurrent, TypeOK, elementVars, Remove
<1>10. CursorInside'
  BY DEF Inv, CursorInside, TypeOK, MutualExclusion, Inside, Threads,
         elementVars, Remove
<1> QED
  BY <1>1, <1>2, <1>3, <1>4, <1>5, <1>6, <1>7, <1>8, <1>9, <1>10 DEF Inv

(* Maintenance sets the flag when it has finished.                         *)
LEMMA EndSweepInv ==
  ASSUME Inv, EndSweep
  PROVE  Inv'
<1>1. TypeOK'
  BY DEF Inv, TypeOK, Places, Goto, elementVars, EndSweep
<1>2. MutualExclusion'
  BY DEF Inv, MutualExclusion, TypeOK, Inside, Goto, elementVars, EndSweep
<1>3. Roles'
  BY DEF Inv, Roles, TypeOK, Goto, elementVars, EndSweep
<1>4. BatchesArePending'
  BY DEF Inv, BatchesArePending, TypeOK, Goto, elementVars, EndSweep
<1>5. BatchesAreNew'
  BY DEF Inv, BatchesAreNew, TypeOK, Goto, elementVars, EndSweep
<1>6. PushedIsLast'
  BY DEF Inv, PushedIsLast, TypeOK, Goto, elementVars, EndSweep
<1>7. NoneIsTwice'
  BY DEF Inv, NoneIsTwice, TypeOK, Goto, elementVars, EndSweep
<1>8. FoundIsHeld'
  BY DEF Inv, FoundIsHeld, TypeOK, Goto, elementVars, EndSweep
<1>9. FlagIsCurrent'
  <2>1. mutex = Sweeper /\ mutex' = mutex /\ pc'[Sweeper] = "leave"
    BY DEF Inv, TypeOK, MutualExclusion, Inside, Threads, EndSweep, Goto
  <2>2. Unpublished' = 0
    BY <2>1 DEF Unpublished
  <2>3. deque = <<>> <=> Len(deque) = 0
    BY DEF Inv, TypeOK
  <2>4. isEmpty' <=> Len(deque') = 0
    BY <2>3 DEF Inv, TypeOK, EndSweep
  <2> QED
    BY <2>1, <2>2, <2>4 DEF FlagIsCurrent
<1>10. CursorInside'
  BY DEF Inv, CursorInside, TypeOK, Goto, elementVars, EndSweep
<1> QED
  BY <1>1, <1>2, <1>3, <1>4, <1>5, <1>6, <1>7, <1>8, <1>9, <1>10 DEF Inv

(* What is in no reach any more is destroyed.                              *)
LEMMA DestroyInv ==
  ASSUME NEW e \in Elements, Inv, Destroy(e)
  PROVE  Inv'
<1>1. TypeOK'
  BY DEF Inv, TypeOK, sharedVars, Destroy
<1>2. MutualExclusion'
  BY DEF Inv, MutualExclusion, TypeOK, sharedVars, Destroy
<1>3. Roles'
  BY DEF Inv, Roles, TypeOK, sharedVars, Destroy
<1>4. BatchesArePending'
  BY DEF Inv, BatchesArePending, TypeOK, sharedVars, Destroy
<1>5. BatchesAreNew'
  BY DEF Inv, BatchesAreNew, TypeOK, sharedVars, Destroy
<1>6. PushedIsLast'
  BY DEF Inv, PushedIsLast, TypeOK, sharedVars, Destroy
<1>7. NoneIsTwice'
  BY DEF Inv, NoneIsTwice, TypeOK, sharedVars, Destroy
<1>8. FoundIsHeld'
  BY DEF Inv, FoundIsHeld, TypeOK, Threads, sharedVars, Destroy
<1>9. FlagIsCurrent'
  BY DEF Inv, FlagIsCurrent, TypeOK, Unpublished, sharedVars, Destroy
<1>10. CursorInside'
  BY DEF Inv, CursorInside, TypeOK, sharedVars, Destroy
<1> QED
  BY <1>1, <1>2, <1>3, <1>4, <1>5, <1>6, <1>7, <1>8, <1>9, <1>10 DEF Inv

(* The invariant holds at first, and whatever step is taken.               *)
LEMMA InitInv == Init => Inv
BY DEF Init, Inv, TypeOK, MutualExclusion, Roles, BatchesArePending,
       BatchesAreNew, PushedIsLast, NoneIsTwice, FoundIsHeld, FlagIsCurrent,
       CursorInside, Unpublished, Threads, Places, Inside, Answers

(* No step leaves the invariant.                                           *)
LEMMA NextInv == Inv /\ [Next]_vars => Inv'
<1> SUFFICES ASSUME Inv, [Next]_vars PROVE Inv'
  OBVIOUS
<1>1. CASE UNCHANGED vars
  BY <1>1 DEF vars, Inv, TypeOK, MutualExclusion, Roles, BatchesArePending,
              BatchesAreNew, PushedIsLast, NoneIsTwice, FoundIsHeld,
              FlagIsCurrent, CursorInside, Unpublished
<1>2. ASSUME NEW t \in Threads,
             Acquire(t) \/ TimeOut(t) \/ ReadFlag(t) \/ Leave(t)
      PROVE  Inv'
  BY <1>2, AcquireInv, TimeOutInv, ReadFlagInv, LeaveInv
<1>3. ASSUME NEW p \in Pushers, Push(p) PROVE Inv'
  BY <1>3, StartPushInv, PushBackInv, SetFlagInv DEF Push
<1>4. ASSUME NEW g \in Getters, Get(g) PROVE Inv'
  BY <1>4, BeginScanInv, TestInv, LockElementInv, EndScanInv, MarkInv,
     UnlockInv DEF Get
<1>5. CASE Sweep
  BY <1>5, BeginSweepInv, RemoveInv, EndSweepInv DEF Sweep
<1>6. ASSUME NEW e \in Elements, Destroy(e) PROVE Inv'
  BY <1>6, DestroyInv
<1> QED
  BY <1>1, <1>2, <1>3, <1>4, <1>5, <1>6 DEF Next

(* Whatever the pipe does, the invariant holds.                            *)
THEOREM PipeInvariant == Spec => []Inv
<1> QED
  BY InitInv, NextInv, PTL DEF Spec

(* No element is hidden behind the flag that is read without the mutex     *)
(* (cc_pipe.h:154).                                                        *)
THEOREM FlagNeverHides == Spec => []FlagHidesNothing
<1>1. Inv => FlagHidesNothing
  <2> SUFFICES ASSUME Inv, isEmpty, deque # <<>>
               PROVE  \E p \in Pushers : mutex = p /\ next[p] > Len(deque)
    BY DEF FlagHidesNothing
  <2>1. Len(deque) = Unpublished /\ Len(deque) \in Nat \ {0}
    BY DEF Inv, TypeOK, FlagIsCurrent
  <2>2. mutex \in Pushers /\ Unpublished = next[mutex] - 1
    BY <2>1 DEF Unpublished
  <2> QED
    BY <2>1, <2>2 DEF Inv, TypeOK
<1> QED
  BY <1>1, PipeInvariant, PTL

(* The flag is exact whenever nobody holds the mutex, nobody is inside     *)
(* without it, and an iterator stays inside the deque.                     *)
THEOREM PipeIsGuarded ==
  Spec => [](MutualExclusion /\ FlagIsExact /\ CursorInside)
<1>1. Inv => MutualExclusion /\ FlagIsExact /\ CursorInside
  <2> SUFFICES ASSUME Inv, mutex = Nobody PROVE isEmpty <=> deque = <<>>
    BY DEF Inv, FlagIsExact
  <2>1. Unpublished = 0 /\ pc[Sweeper] # "sweep"
    BY DEF Inv, MutualExclusion, Unpublished, Threads, Inside
  <2>2. deque = <<>> <=> Len(deque) = 0
    BY DEF Inv, TypeOK
  <2> QED
    BY <2>1, <2>2 DEF Inv, FlagIsCurrent
<1> QED
  BY <1>1, PipeInvariant, PTL
-----------------------------------------------------------------------------
(* The pipe implements the queue.                                          *)

Published == SubSeq(deque, 1, Len(deque) - Unpublished)

(* The elements that have been published are a prefix of the deque.        *)
LEMMA PublishedIsPrefix ==
  ASSUME Inv
  PROVE  /\ Unpublished \in 0..Len(deque)
         /\ Published \in Seq(Elements)
         /\ Len(Published) = Len(deque) - Unpublished
         /\ \A i \in 1..Len(Published) : Published[i] = deque[i]
<1>1. deque \in Seq(Elements) /\ Len(deque) \in Nat
  BY DEF Inv, TypeOK
<1>2. Unpublished \in 0..Len(deque)
  BY DEF Inv, TypeOK, PushedIsLast, Unpublished
<1> QED
  BY <1>1, <1>2 DEF Published

(* A thread that neither enters the deque as a pusher nor leaves it as one *)
(* changes nothing of what has been published.                             *)
LEMMA PublishedIsKept ==
  ASSUME Inv, NEW t \in Threads, NEW place,
         t \notin Pushers \/ (pc[t] # "entered" /\ place # "entered"),
         pc' = [pc EXCEPT ![t] = place],
         deque' = deque, next' = next, mutex' = mutex
  PROVE  Published' = Published
<1>1. mutex # t => pc'[mutex] = pc[mutex] \/ mutex \notin Pushers
  BY DEF Inv, TypeOK, Threads
<1>2. pc'[t] = place
  BY DEF Inv, TypeOK
<1>3. Unpublished' = Unpublished
  BY <1>1, <1>2 DEF Unpublished
<1> QED
  BY <1>3 DEF Published

(* When nobody but a reader of the deque is inside, all has been published.*)
LEMMA AllIsPublished ==
  ASSUME Inv, mutex \notin Pushers \/ pc[mutex] # "entered"
  PROVE  Unpublished = 0 /\ Published = deque
<1>1. Unpublished = 0
  BY DEF Unpublished
<1>2. deque \in Seq(Elements) /\ Len(deque) \in Nat
  BY DEF Inv, TypeOK
<1> QED
  BY <1>1, <1>2 DEF Published

(* The empty pipe is the empty queue.                                      *)
LEMMA QueueInit == Init => Queue!Init
<1> SUFFICES ASSUME Init PROVE Queue!Init
  OBVIOUS
<1>1. Inv /\ mutex \notin Pushers /\ deque = <<>>
  BY InitInv DEF Init, Threads
<1>2. Published = <<>>
  BY <1>1, AllIsPublished
<1> QED
  BY <1>2 DEF Init, Queue!Init, Published

(* A thread that comes to the mutex, or gives it back.                     *)
LEMMA AccessIsAStep ==
  ASSUME Inv, NEW t \in Threads,
         Acquire(t) \/ TimeOut(t) \/ ReadFlag(t) \/ Leave(t)
  PROVE  Queue!Next \/ UNCHANGED Queue!vars
<1>1. CASE Acquire(t)
  <2>1. mutex = Nobody /\ mutex' = t /\ deque' = deque /\ next' = next
    BY <1>1 DEF Acquire
  <2>2. t \in Pushers => next[t] = 1
    BY <1>1 DEF Inv, BatchesArePending, Acquire
  <2>3. Unpublished = 0 /\ Unpublished' = 0
    BY <2>1, <2>2 DEF Unpublished, Threads
  <2> QED
    BY <1>1, <2>1, <2>3 DEF Queue!vars, Acquire, elementVars
<1>2. CASE TimeOut(t)
  <2>1. pc' = [pc EXCEPT ![t] = "idle"] /\ pc[t] = "wait"
    BY <1>2 DEF TimeOut, Goto
  <2>2. Published' = Published
    BY <1>2, <2>1, PublishedIsKept DEF TimeOut, sharedVars
  <2>3. CASE t \in Getters
    <3>1. Queue!Busy(t)
      BY <1>2, <2>2, <2>3 DEF Queue!Busy, TimeOut, elementVars, Published
    <3> QED
      BY <2>3, <3>1 DEF Queue!Next
  <2>4. CASE t \notin Getters
    BY <1>2, <2>2, <2>4 DEF TimeOut, Queue!vars, elementVars, Published
  <2> QED
    BY <2>3, <2>4
<1>3. CASE ReadFlag(t)
  <2>1. CASE isEmpty
    <3>1. pc' = pc /\ deque' = deque /\ next' = next /\ mutex' = mutex
      BY <1>3, <2>1 DEF ReadFlag, sharedVars
    <3>2. Published' = Published
      BY <3>1 DEF Published, Unpublished
    <3>3. Len(Published) = 0
      BY <2>1, PublishedIsPrefix DEF Inv, TypeOK, FlagIsCurrent
    <3>4. Published = <<>>
      BY <3>3, PublishedIsPrefix
    <3>5. CASE t \in Getters
      <4>1. Queue!Empty(t)
        BY <1>3, <2>1, <3>2, <3>4, <3>5
        DEF Queue!Empty, ReadFlag, elementVars, Published
      <4> QED
        BY <3>5, <4>1 DEF Queue!Next
    <3>6. CASE t \notin Getters
      BY <1>3, <2>1, <3>2, <3>6
      DEF ReadFlag, Queue!vars, elementVars, Published
    <3> QED
      BY <3>5, <3>6
  <2>2. CASE ~isEmpty
    <3>1. Published' = Published
      BY <1>3, <2>2, PublishedIsKept DEF ReadFlag, Goto, sharedVars
    <3> QED
      BY <1>3, <2>2, <3>1 DEF ReadFlag, Queue!vars, elementVars, Published
  <2> QED
    BY <2>1, <2>2
<1>4. CASE Leave(t)
  <2>1. mutex = t /\ pc[t] # "entered" /\ mutex' = Nobody /\ deque' = deque
    BY <1>4 DEF Leave, Inv, MutualExclusion, Inside
  <2>2. Unpublished = 0 /\ Unpublished' = 0
    BY <2>1 DEF Unpublished, Threads
  <2> QED
    BY <1>4, <2>1, <2>2 DEF Queue!vars, Leave, elementVars
<1> QED
  BY <1>1, <1>2, <1>3, <1>4

(* A push shows nothing of its elements until it sets the flag, and then   *)
(* all of them at once.                                                    *)
LEMMA PushIsAStep ==
  ASSUME Inv, NEW p \in Pushers, Push(p)
  PROVE  Queue!Next \/ UNCHANGED Queue!vars
<1>1. CASE StartPush(p)
  <2>1. Published' = Published
    BY <1>1, PublishedIsKept DEF StartPush, Goto, sharedVars, Threads
  <2> QED
    BY <1>1, <2>1 DEF StartPush, Queue!vars, elementVars, Published
<1>2. CASE PushBack(p)
  <2>1. mutex = p /\ mutex' = mutex /\ pc' = pc /\ pc[p] = "entered"
    BY <1>2 DEF PushBack, Inv, MutualExclusion, Inside, Threads
  <2>2. /\ Unpublished = next[p] - 1
        /\ Unpublished' = next[p]
        /\ next[p] \in Nat \ {0}
    BY <1>2, <2>1 DEF Unpublished, PushBack, Inv, TypeOK
  <2>3. /\ deque \in Seq(Elements) /\ Len(deque) \in Nat
        /\ deque' \in Seq(Elements)
        /\ Len(deque') = Len(deque) + 1
        /\ \A i \in 1..Len(deque) : deque'[i] = deque[i]
    BY <1>2 DEF PushBack, Inv, TypeOK
  <2>4. Unpublished \in 0..Len(deque)
    BY PublishedIsPrefix
  <2>5. Published' = Published
    <3>1. Len(deque') - Unpublished' = Len(deque) - Unpublished
      BY <2>2, <2>3, SMTT(30)
    <3> QED
      BY <2>3, <2>4, <3>1 DEF Published
  <2> QED
    BY <1>2, <2>5 DEF PushBack, Queue!vars, elementVars, Published
<1>3. CASE SetFlag(p)
  <2>1. /\ mutex = p /\ mutex' = mutex /\ deque' = deque
        /\ pc' = [pc EXCEPT ![p] = "leave"] /\ pc[p] = "entered"
    BY <1>3 DEF SetFlag, Goto, Inv, MutualExclusion, Inside, Threads
  <2>2. /\ Unpublished = next[p] - 1
        /\ Unpublished' = 0
    BY <2>1 DEF Unpublished, Inv, TypeOK, Threads
  <2>3. /\ next[p] = Len(batch[p]) + 1
        /\ batch[p] \in Seq(Elements)
        /\ Len(batch[p]) \in Nat \ {0}
    BY <1>3, <2>1 DEF SetFlag, Inv, TypeOK, BatchesArePending
  <2>4. Published' = deque
    BY <2>1, <2>2 DEF Published, Inv, TypeOK
  <2>5. /\ Len(deque) \in Nat
        /\ Len(Published) = Len(deque) - Len(batch[p])
        /\ Len(batch[p]) <= Len(deque)
        /\ \A i \in 1..Len(Published) : deque[i] = Published[i]
    BY <2>2, <2>3, PublishedIsPrefix DEF Inv, TypeOK
  <2>6. ASSUME NEW i \in (Len(Published) + 1)..Len(deque)
        PROVE  /\ deque[i] \in Elements \ done
               /\ \A j \in 1..(i - 1) : deque[j] # deque[i]
    <3>1. /\ Len(Published) \in Nat /\ i \in Nat
          /\ Len(Published) + 1 <= i /\ i <= Len(deque)
          /\ next[p] - 1 = Len(batch[p])
          /\ Len(deque) \in Nat /\ Len(batch[p]) \in Nat
          /\ Len(Published) = Len(deque) - Len(batch[p])
      BY <2>3, <2>5
    <3>2. PICK k \in 1..Len(batch[p]) : i = Len(deque) - Len(batch[p]) + k
      <4>1. PICK old \in Nat : old = Len(Published)
        BY <3>1
      <4>2. PICK new \in Nat : new = Len(batch[p])
        BY <3>1
      <4>3. PICK all \in Nat : all = Len(deque)
        BY <3>1
      <4>4. old = all - new /\ old + 1 <= i /\ i <= all /\ i \in Nat
        BY <3>1, <4>1, <4>2, <4>3
      <4>5. i - old \in 1..new
        BY <4>4
      <4>6. i = all - new + (i - old)
        BY <4>4
      <4>7. \E k \in 1..new : i = all - new + k
        BY <4>5, <4>6
      <4> QED
        BY <4>2, <4>3, <4>7
    <3>3. deque[i] = batch[p][k]
      <4>1. \A m \in 1..(next[p] - 1) :
              deque[Len(deque) - (next[p] - 1) + m] = batch[p][m]
        BY <2>1 DEF Inv, PushedIsLast
      <4> QED
        BY <3>1, <3>2, <4>1
    <3>4. deque[i] \in Elements /\ deque[i] \notin done
      BY <2>3, <3>2, <3>3 DEF Inv, BatchesAreNew
    <3>5. ASSUME NEW j \in 1..(i - 1)
          PROVE  deque[j] # deque[i]
      <4>1. i \in DOMAIN deque /\ j \in DOMAIN deque /\ i # j
        BY <2>5, <3>1 DEF Inv, TypeOK
      <4> QED
        BY <4>1 DEF Inv, NoneIsTwice
    <3> QED
      BY <3>4, <3>5
  <2>7. Queue!Offer
    <3>1. UNCHANGED <<done, owner, found>>
      BY <1>3 DEF SetFlag, elementVars
    <3>2. Len(Published) < Len(Published')
      BY <2>3, <2>4, <2>5
    <3>3. \A i \in 1..Len(Published) : Published'[i] = Published[i]
      BY <2>4, <2>5
    <3>4. \A i \in (Len(Published) + 1)..Len(Published') :
            /\ Published'[i] \in Elements \ done
            /\ \A j \in 1..(i - 1) : Published'[j] # Published'[i]
      BY <2>4, <2>6
    <3> QED
      BY <3>1, <3>2, <3>3, <3>4 DEF Queue!Offer, Published
  <2> QED
    BY <2>7 DEF Queue!Next
<1> QED
  BY <1>1, <1>2, <1>3 DEF Push

(* A getter is told that there is nothing, that what there is is taken, or *)
(* given an element; then it marks it and lets go of it.                   *)
LEMMA GetIsAStep ==
  ASSUME Inv, NEW g \in Getters, Get(g)
  PROVE  Queue!Next \/ UNCHANGED Queue!vars
<1>1. g \in Threads /\ g \notin Pushers
  BY DEF Threads
<1>2. CASE BeginScan(g)
  <2>1. Published' = Published
    <3>1. \E place : pc' = [pc EXCEPT ![g] = place]
      BY <1>2 DEF BeginScan, Goto
    <3> QED
      BY <1>1, <1>2, <3>1, PublishedIsKept DEF BeginScan, sharedVars
  <2>2. CASE deque = <<>>
    <3>1. Published = <<>>
      BY <2>2, PublishedIsPrefix
    <3>2. Queue!Empty(g)
      BY <1>2, <2>1, <2>2, <3>1
      DEF BeginScan, Queue!Empty, elementVars, Published
    <3> QED
      BY <3>2 DEF Queue!Next
  <2>3. CASE deque # <<>>
    BY <1>2, <2>1, <2>3 DEF BeginScan, Queue!vars, elementVars, Published
  <2> QED
    BY <2>2, <2>3
<1>3. CASE Test(g)
  <2>1. Published' = Published
    <3>1. CASE pc' = pc
      BY <1>3, <3>1 DEF Test, sharedVars, Published, Unpublished
    <3>2. CASE pc' = [pc EXCEPT ![g] = "lock"]
      BY <1>1, <1>3, <3>2, PublishedIsKept DEF Test, sharedVars
    <3> QED
      BY <1>3, <3>1, <3>2 DEF Test, Goto
  <2> QED
    BY <1>3, <2>1 DEF Test, Queue!vars, elementVars, Published
<1>4. CASE LockElement(g)
  <2>1. Published' = Published
    <3>1. \E place : pc' = [pc EXCEPT ![g] = place]
      BY <1>4 DEF LockElement, Goto
    <3> QED
      BY <1>1, <1>4, <3>1, PublishedIsKept DEF LockElement, sharedVars
  <2>2. /\ mutex = g
        /\ cursor[g] \in 1..Len(deque)
        /\ deque[cursor[g]] \in Elements
    BY <1>1, <1>4 DEF LockElement, Inv, TypeOK, MutualExclusion, CursorInside,
                      Inside
  <2>3. Published = deque
    BY <1>1, <2>2, AllIsPublished
  <2>4. CASE owner[deque[cursor[g]]] = Nobody
    <3>1. \E i \in DOMAIN Published : Published[i] = deque[cursor[g]]
      BY <2>2, <2>3 DEF Inv, TypeOK
    <3>2. Queue!Take(g, deque[cursor[g]])
      BY <1>4, <2>1, <2>4, <3>1
      DEF Queue!Take, Queue!Queued, LockElement, Published
    <3> QED
      BY <2>2, <3>2 DEF Queue!Next
  <2>5. CASE owner[deque[cursor[g]]] # Nobody
    BY <1>4, <2>1, <2>5 DEF LockElement, Queue!vars, Published
  <2> QED
    BY <2>4, <2>5
<1>5. CASE EndScan(g)
  <2>1. Published' = Published
    BY <1>1, <1>5, PublishedIsKept DEF EndScan, Goto, sharedVars
  <2>2. Queue!Busy(g)
    BY <1>5, <2>1 DEF EndScan, Queue!Busy, elementVars, Published
  <2> QED
    BY <2>2 DEF Queue!Next
<1>6. CASE Mark(g)
  <2>1. Published' = Published
    BY <1>1, <1>6, PublishedIsKept DEF Mark, Goto, sharedVars
  <2>2. found[g] \in Elements /\ owner[found[g]] = g
    BY <1>6 DEF Mark, Inv, FoundIsHeld
  <2>3. Queue!Mark(g, found[g])
    BY <1>6, <2>1, <2>2 DEF Mark, Queue!Mark, Published
  <2> QED
    BY <2>2, <2>3 DEF Queue!Next
<1>7. CASE Unlock(g)
  <2>1. Published' = Published
    BY <1>1, <1>7, PublishedIsKept DEF Unlock, Goto, sharedVars
  <2>2. /\ found[g] \in Elements /\ owner[found[g]] = g
        /\ found[g] \in done
    BY <1>7 DEF Unlock, Inv, FoundIsHeld
  <2>3. Queue!Unlock(g, found[g])
    BY <1>7, <2>1, <2>2 DEF Unlock, Queue!Unlock, Published
  <2> QED
    BY <2>2, <2>3 DEF Queue!Next
<1> QED
  BY <1>2, <1>3, <1>4, <1>5, <1>6, <1>7 DEF Get

(* Maintenance discards from the head what is done.                        *)
LEMMA SweepIsAStep ==
  ASSUME Inv, Sweep
  PROVE  Queue!Next \/ UNCHANGED Queue!vars
<1>1. Sweeper \in Threads /\ Sweeper \notin Pushers
  BY DEF Threads
<1>2. CASE BeginSweep
  <2>1. Published' = Published
    <3>1. \E place : pc' = [pc EXCEPT ![Sweeper] = place]
      BY <1>2 DEF BeginSweep, Goto
    <3> QED
      BY <1>1, <1>2, <3>1, PublishedIsKept DEF BeginSweep, sharedVars
  <2> QED
    BY <1>2, <2>1 DEF BeginSweep, Queue!vars, elementVars, Published
<1>3. CASE Remove
  <2>1. mutex = Sweeper /\ mutex' = mutex /\ pc' = pc
    BY <1>1, <1>3 DEF Remove, Inv, MutualExclusion, Inside
  <2>2. Published = deque
    BY <1>1, <2>1, AllIsPublished
  <2>3. Unpublished' = 0 /\ deque' = Tail(deque)
    BY <1>1, <1>3, <2>1 DEF Unpublished, Remove
  <2>4. deque' \in Seq(Elements) /\ Len(deque') \in Nat
    BY <1>3, <2>3 DEF Inv, TypeOK, Remove
  <2>5. Published' = Tail(deque)
    BY <2>3, <2>4 DEF Published
  <2>6. Queue!Discard
    BY <1>3, <2>2, <2>5 DEF Remove, Queue!Discard, elementVars, Published
  <2> QED
    BY <2>6 DEF Queue!Next
<1>4. CASE EndSweep
  <2>1. Published' = Published
    BY <1>1, <1>4, PublishedIsKept DEF EndSweep, Goto
  <2> QED
    BY <1>4, <2>1 DEF EndSweep, Queue!vars, elementVars, Published
<1> QED
  BY <1>2, <1>3, <1>4 DEF Sweep

(* What is destroyed is not in the queue either.                           *)
LEMMA DestroyIsAStep ==
  ASSUME Inv, NEW e \in Elements, Destroy(e)
  PROVE  Queue!Next
<1>1. Published' = Published
  BY DEF Destroy, sharedVars, Published, Unpublished
<1>2. \A i \in DOMAIN deque : deque[i] # e
  BY DEF Destroy, InDeque
<1>3. \A i \in DOMAIN Published : Published[i] # e
  <2> SUFFICES ASSUME NEW i \in DOMAIN Published PROVE Published[i] # e
    OBVIOUS
  <2>1. i \in 1..Len(Published) /\ Len(Published) <= Len(deque)
    BY PublishedIsPrefix DEF Inv, TypeOK
  <2>2. i \in DOMAIN deque /\ Published[i] = deque[i]
    BY <2>1, PublishedIsPrefix DEF Inv, TypeOK
  <2> QED
    BY <1>2, <2>2
<1>4. Queue!Destroy(e)
  BY <1>1, <1>3 DEF Destroy, Queue!Destroy, Queue!Queued, Published
<1> QED
  BY <1>4 DEF Queue!Next

(* With its flag, its mutex, its time-outs and the single steps of its     *)
(* pushes and scans, a pipe is a queue whose operations happen at once     *)
(* (cc_pipe.h): the stages of the pipeline may rely on it.                 *)
THEOREM PipeImplementsQueue == Spec => ImplementsQueue
<1>1. Inv /\ [Next]_vars => [Queue!Next]_(Queue!vars)
  <2> SUFFICES ASSUME Inv, [Next]_vars
               PROVE  Queue!Next \/ UNCHANGED Queue!vars
    OBVIOUS
  <2>1. CASE UNCHANGED vars
    BY <2>1 DEF vars, Queue!vars, Unpublished
  <2>2. CASE Next
    BY <2>2, AccessIsAStep, PushIsAStep, GetIsAStep, SweepIsAStep,
       DestroyIsAStep DEF Next
  <2> QED
    BY <2>1, <2>2
<1> QED
  BY <1>1, QueueInit, PipeInvariant, PTL DEF Spec, ImplementsQueue, Queue!Spec
=============================================================================
