------------------------ MODULE ServerLifecycleProofs ------------------------
(***************************************************************************)
(* Proofs about ServerLifecycle, for any number of pools, of threads in    *)
(* each of them and of thread objects.                                     *)
(***************************************************************************)
EXTENDS ServerLifecycle, FiniteSetTheorems, TLAPS

USE PoolsAssumption

(* Every thread is known to one pool, by one of its sets.                  *)
GroupsAreApart ==
  \A p \in PoolNames :
    /\ active[p] \cap exiting[p] = {}
    /\ active[p] \cap dead[p] = {}
    /\ exiting[p] \cap dead[p] = {}
    /\ \A q \in PoolNames \ {p} : Known(p) \cap Known(q) = {}

(* What is known is what exists.                                           *)
WhatExistsIsKnown ==
  \A o \in Objects : run[o] # "absent" <=> \E p \in PoolNames : o \in Known(p)

(* The alive flag is not cleared before the loop is left.                  *)
AliveUntilLeft ==
  \A o \in Objects : run[o] \in {"made", "loop", "serving"} => o \in alive

(* A thread among the dead has left its loop.                              *)
DeadHaveLeft ==
  \A p \in PoolNames : \A o \in dead[p] : run[o] \in {"ending", "finished"}

(* Main is at a pool, or behind the last one.                              *)
PoolInRange ==
  main \notin {"stop", "destroy", "exited"} => pool <= Len(Pools)

(* Pools are full from their construction on, until they are destroyed.    *)
PoolsAreFull ==
  /\ main \notin {"construct", "destroy", "exited"} =>
       \A p \in PoolNames : Cardinality(active[p]) = Size[p]
  /\ main = "construct" =>
       \A i \in DOMAIN Pools :
         IF i < pool THEN Cardinality(active[Pools[i]]) = Size[Pools[i]]
                     ELSE active[Pools[i]] = {}

(* Nothing runs before it is started.                                      *)
NotYetStarted ==
  /\ main = "construct" => \A o \in Objects : run[o] \in {"absent", "made"}
  /\ main = "start" =>
       \A i \in DOMAIN Pools :
         i >= pool => \A o \in active[Pools[i]] : run[o] = "made"

(* A malformed address is answered by the exit flag while the listener is  *)
(* constructed, before it can listen.                                      *)
MalformedIsFatal ==
  setting \in Misconfigured /\ setting.logged =>
    /\ globalExit \/ (main = "construct" /\ pool = 1)
    /\ \A o \in Objects : socket[o] # "listening"

(* The destructor has emptied the pools it has come past, and when main    *)
(* returns it has come past all.                                           *)
PoolsAreGone ==
  /\ main = "destroy" =>
       /\ pool > 1
       /\ \A i \in DOMAIN Pools : i >= pool => Known(Pools[i]) = {}
  /\ main = "exited" => \A p \in PoolNames : Known(p) = {}

Inv ==
  /\ TypeOK /\ GroupsAreApart /\ WhatExistsIsKnown /\ AliveUntilLeft
  /\ DeadHaveLeft /\ PoolInRange /\ PoolsAreFull /\ NotYetStarted
  /\ MalformedIsFatal /\ PoolsAreGone
-----------------------------------------------------------------------------
(* As many elements as are asked for can be taken out of a finite set.     *)
LEMMA SubsetOfSize ==
  ASSUME NEW S, IsFiniteSet(S), NEW n \in Nat, n <= Cardinality(S)
  PROVE  \E T \in SUBSET S : Cardinality(T) = n
<1>1. Cardinality(S) \in Nat /\ ExistsBijection(1..Cardinality(S), S)
  BY FS_CardinalityType
<1>2. PICK f : f \in Bijection(1..Cardinality(S), S)
  BY <1>1 DEF ExistsBijection
<1> DEFINE T == {f[i] : i \in 1..n}
           g == [i \in 1..n |-> f[i]]
<1>3. /\ f \in [1..Cardinality(S) -> S]
      /\ \A i, j \in 1..Cardinality(S) : f[i] = f[j] => i = j
  BY <1>2 DEF Bijection, Injection, IsInjective
<1>4. 1..n \subseteq 1..Cardinality(S)
  BY <1>1
<1>5. T \in SUBSET S
  BY <1>3, <1>4
<1>6. g \in Bijection(1..n, T)
  <2>1. g \in [1..n -> T] /\ DOMAIN g = 1..n
    OBVIOUS
  <2>2. \A i, j \in 1..n : g[i] = g[j] => i = j
    BY <1>3, <1>4
  <2>3. \A t \in T : \E i \in 1..n : g[i] = t
    OBVIOUS
  <2> QED
    BY <2>1, <2>2, <2>3 DEF Bijection, Injection, Surjection, IsInjective
<1>7. Cardinality(T) = n
  <2>1. ExistsBijection(1..n, T)
    BY <1>6 DEF ExistsBijection
  <2> QED
    BY <2>1, FS_CountingElements
<1> QED
  BY <1>5, <1>7

(* New threads get addresses nobody uses, as many as the pool lacks.       *)
LEMMA RecruitsAreUnused ==
  ASSUME NEW p \in PoolNames, NEW staying, Cardinality(staying) \in Nat,
         Cardinality(staying) <= Size[p], CanRecruit(p, staying)
  PROVE  /\ Recruits(p, staying) \subseteq Unused
         /\ Cardinality(Recruits(p, staying)) = Size[p] - Cardinality(staying)
<1>1. IsFiniteSet(Unused)
  BY FS_Subset DEF Unused
<1>2. \E new \in SUBSET Unused :
        Cardinality(new) = Size[p] - Cardinality(staying)
  BY <1>1, SubsetOfSize DEF CanRecruit
<1> QED
  BY <1>2 DEF Recruits

(* The pool main is at.                                                    *)
LEMMA AtPool ==
  ASSUME Inv, main \notin {"stop", "destroy", "exited"}
  PROVE  pool \in DOMAIN Pools /\ pool \in Nat /\ Pools[pool] \in PoolNames
BY DEF Inv, TypeOK, PoolInRange, PoolNames

(* Sizes of the sets of threads are numbers.                               *)
LEMMA SizesAreNumbers ==
  ASSUME NEW S \in SUBSET Objects
  PROVE  IsFiniteSet(S) /\ Cardinality(S) \in Nat
BY FS_Subset, FS_CardinalityType

(* Threads joining a set of others.                                        *)
LEMMA SizeOfUnion ==
  ASSUME NEW S \in SUBSET Objects, NEW T \in SUBSET Objects, S \cap T = {}
  PROVE  Cardinality(S \cup T) = Cardinality(S) + Cardinality(T)
<1>1. /\ IsFiniteSet(S) /\ IsFiniteSet(T)
      /\ Cardinality(S) \in Nat /\ Cardinality(T) \in Nat
  BY SizesAreNumbers
<1>2. Cardinality(S \cap T) = 0
  BY FS_EmptySet
<1>3. Cardinality(S \cup T) =
        Cardinality(S) + Cardinality(T) - Cardinality(S \cap T)
  BY <1>1, FS_Union
<1> QED
  BY <1>1, <1>2, <1>3

(* A pool is started.                                                      *)
LEMMA StartPoolInv ==
  ASSUME Inv, StartPool, setting' = setting
  PROVE  Inv'
<1>1. TypeOK'
  BY DEF Inv, TypeOK, StartPool, groupVars, portVars, Goto
<1>2. GroupsAreApart'
  BY DEF Inv, GroupsAreApart, Known, StartPool, groupVars, portVars, Goto
<1>3. WhatExistsIsKnown'
  <2>1. main = "start"
    BY DEF StartPool
  <2>2. \A o \in active[Pools[pool]] : run[o] = "made"
    BY <2>1, AtPool DEF Inv, NotYetStarted
  <2>3. \A o \in Objects : run'[o] # "absent" <=> run[o] # "absent"
    BY <2>2 DEF StartPool
  <2>4. active' = active /\ exiting' = exiting /\ dead' = dead
    BY DEF StartPool, groupVars
  <2> QED
    BY <2>3, <2>4 DEF Inv, WhatExistsIsKnown, Known, StartPool
<1>4. AliveUntilLeft'
  <2>1. main = "start"
    BY DEF StartPool
  <2>2. \A o \in active[Pools[pool]] : run[o] = "made"
    BY <2>1, AtPool DEF Inv, NotYetStarted
  <2> QED
    BY <2>2 DEF Inv, AliveUntilLeft, StartPool
<1>5. DeadHaveLeft'
  <2>1. main = "start"
    BY DEF StartPool
  <2>2. \A o \in active[Pools[pool]] : run[o] = "made"
    BY <2>1, AtPool DEF Inv, NotYetStarted
  <2>3. /\ dead' = dead
        /\ run' = [o \in Objects |->
                     IF o \in active[Pools[pool]] THEN "loop" ELSE run[o]]
    BY DEF StartPool, groupVars
  <2>4. \A q \in PoolNames : \A o \in dead[q] :
          o \in Objects /\ run[o] \in {"ending", "finished"}
    BY DEF Inv, DeadHaveLeft, TypeOK, StartPool
  <2> QED
    BY <2>2, <2>3, <2>4 DEF DeadHaveLeft
<1>6. PoolInRange'
  BY DEF Inv, PoolInRange, TypeOK, StartPool, groupVars, portVars, Goto
<1>7. PoolsAreFull'
  BY DEF Inv, PoolsAreFull, TypeOK, StartPool, groupVars, portVars, Goto
<1>8. NotYetStarted'
  <2>1. main = "start" /\ active' = active /\ main' \in {"start", "look"}
    BY DEF StartPool, groupVars, Goto
  <2>2. ASSUME main' = "start", NEW i \in DOMAIN Pools, i >= pool',
               NEW o \in active[Pools[i]]
        PROVE  run'[o] = "made"
    <3>1. pool' = pool + 1
      BY <2>2, AtPool DEF StartPool, Goto
    <3>2. i >= pool /\ i # pool /\ i \in Nat
      BY <2>1, <2>2, <3>1, AtPool
    <3>3. Pools[i] \in PoolNames /\ Pools[i] # Pools[pool]
      BY <2>1, <3>2, AtPool DEF PoolNames
    <3>4. o \in Objects /\ run[o] = "made"
      BY <2>1, <2>2, <3>2, <3>3 DEF Inv, TypeOK, NotYetStarted
    <3>5. o \notin active[Pools[pool]]
      BY <2>1, <2>2, <3>3, AtPool DEF Inv, GroupsAreApart, Known
    <3> QED
      BY <3>4, <3>5 DEF StartPool
  <2> QED
    BY <2>1, <2>2 DEF NotYetStarted
<1>9. MalformedIsFatal'
  BY DEF Inv, MalformedIsFatal, TypeOK, StartPool, groupVars, portVars, Goto
<1>10. PoolsAreGone'
  BY DEF Inv, PoolsAreGone, Known, TypeOK, StartPool, groupVars, portVars, Goto
<1> QED
  BY <1>1, <1>2, <1>3, <1>4, <1>5, <1>6, <1>7, <1>8, <1>9, <1>10 DEF Inv

(* A thread comes to the head of its loop.                                 *)
LEMMA LoopHeadInv ==
  ASSUME NEW o \in Objects, Inv, LoopHead(o), setting' = setting
  PROVE  Inv'
<1>1. TypeOK'
  BY ZenonT(40) DEF Inv, TypeOK, LoopHead, mainVars, groupVars, SeesExit, Leave,
         PortIsTaken
<1>2. GroupsAreApart'
  BY DEF Inv, GroupsAreApart, Known, LoopHead, mainVars, groupVars, SeesExit,
         Leave, PortIsTaken
<1>3. WhatExistsIsKnown'
  BY DEF Inv, WhatExistsIsKnown, Known, TypeOK, LoopHead, mainVars, groupVars,
         SeesExit, Leave, PortIsTaken
<1>4. AliveUntilLeft'
  BY DEF Inv, AliveUntilLeft, TypeOK, LoopHead, mainVars, groupVars, SeesExit,
         Leave, PortIsTaken
<1>5. DeadHaveLeft'
  BY DEF Inv, DeadHaveLeft, TypeOK, LoopHead, mainVars, groupVars, SeesExit,
         Leave, PortIsTaken
<1>6. PoolInRange'
  BY DEF Inv, PoolInRange, TypeOK, LoopHead, mainVars, groupVars, SeesExit,
         Leave, PortIsTaken
<1>7. PoolsAreFull'
  BY DEF Inv, PoolsAreFull, TypeOK, LoopHead, mainVars, groupVars, SeesExit,
         Leave, PortIsTaken
<1>8. NotYetStarted'
  <2>1. /\ main' = main /\ pool' = pool /\ active' = active
        /\ run[o] = "loop"
        /\ \A u \in Objects \ {o} : run'[u] = run[u]
    BY DEF Inv, TypeOK, LoopHead, mainVars, groupVars, Leave
  <2>2. active \in [PoolNames -> SUBSET Objects]
    BY DEF Inv, TypeOK
  <2>3. \A i \in DOMAIN Pools : Pools[i] \in PoolNames
    BY DEF PoolNames
  <2> QED
    BY <2>1, <2>2, <2>3 DEF Inv, NotYetStarted
<1>9. MalformedIsFatal'
  BY DEF Inv, MalformedIsFatal, NotYetStarted, TypeOK, LoopHead, mainVars,
         SeesExit, Misconfigured
<1>10. PoolsAreGone'
  BY DEF Inv, PoolsAreGone, Known, TypeOK, LoopHead, mainVars, groupVars,
         SeesExit, Leave, PortIsTaken
<1> QED
  BY <1>1, <1>2, <1>3, <1>4, <1>5, <1>6, <1>7, <1>8, <1>9, <1>10 DEF Inv

(* A service sees that it is to end.                                       *)
LEMMA ServiceReturnsInv ==
  ASSUME NEW o \in Objects, Inv, ServiceReturns(o), setting' = setting
  PROVE  Inv'
<1>1. TypeOK'
  BY DEF Inv, TypeOK, ServiceReturns, mainVars, groupVars, portVars, SeesExit,
         Leave
<1>2. GroupsAreApart'
  BY DEF Inv, GroupsAreApart, Known, ServiceReturns, mainVars, groupVars,
         portVars, SeesExit, Leave
<1>3. WhatExistsIsKnown'
  BY DEF Inv, WhatExistsIsKnown, Known, TypeOK, ServiceReturns, mainVars,
         groupVars, portVars, SeesExit, Leave
<1>4. AliveUntilLeft'
  BY DEF Inv, AliveUntilLeft, TypeOK, ServiceReturns, mainVars, groupVars,
         portVars, SeesExit, Leave
<1>5. DeadHaveLeft'
  BY DEF Inv, DeadHaveLeft, TypeOK, ServiceReturns, mainVars, groupVars,
         portVars, SeesExit, Leave
<1>6. PoolInRange'
  BY DEF Inv, PoolInRange, TypeOK, ServiceReturns, mainVars, groupVars,
         portVars, SeesExit, Leave
<1>7. PoolsAreFull'
  BY DEF Inv, PoolsAreFull, TypeOK, ServiceReturns, mainVars, groupVars,
         portVars, SeesExit, Leave
<1>8. NotYetStarted'
  BY DEF Inv, NotYetStarted, TypeOK, ServiceReturns, mainVars, groupVars,
         portVars, SeesExit, Leave
<1>9. MalformedIsFatal'
  BY DEF Inv, MalformedIsFatal, TypeOK, ServiceReturns, mainVars, groupVars,
         portVars, SeesExit, Leave
<1>10. PoolsAreGone'
  BY DEF Inv, PoolsAreGone, Known, TypeOK, ServiceReturns, mainVars, groupVars,
         portVars, SeesExit, Leave
<1> QED
  BY <1>1, <1>2, <1>3, <1>4, <1>5, <1>6, <1>7, <1>8, <1>9, <1>10 DEF Inv

(* A thread ends.                                                          *)
LEMMA FinishInv ==
  ASSUME NEW o \in Objects, Inv, Finish(o), setting' = setting
  PROVE  Inv'
<1>1. TypeOK'
  BY DEF Inv, TypeOK, Finish, mainVars, groupVars, portVars
<1>2. GroupsAreApart'
  BY DEF Inv, GroupsAreApart, Known, Finish, mainVars, groupVars, portVars
<1>3. WhatExistsIsKnown'
  BY DEF Inv, WhatExistsIsKnown, Known, TypeOK, Finish, mainVars, groupVars,
         portVars
<1>4. AliveUntilLeft'
  BY DEF Inv, AliveUntilLeft, TypeOK, Finish, mainVars, groupVars, portVars
<1>5. DeadHaveLeft'
  BY DEF Inv, DeadHaveLeft, TypeOK, Finish, mainVars, groupVars, portVars
<1>6. PoolInRange'
  BY DEF Inv, PoolInRange, TypeOK, Finish, mainVars, groupVars, portVars
<1>7. PoolsAreFull'
  BY DEF Inv, PoolsAreFull, TypeOK, Finish, mainVars, groupVars, portVars
<1>8. NotYetStarted'
  BY DEF Inv, NotYetStarted, TypeOK, Finish, mainVars, groupVars, portVars
<1>9. MalformedIsFatal'
  BY DEF Inv, MalformedIsFatal, TypeOK, Finish, mainVars, groupVars, portVars
<1>10. PoolsAreGone'
  BY DEF Inv, PoolsAreGone, Known, TypeOK, Finish, mainVars, groupVars, portVars
<1> QED
  BY <1>1, <1>2, <1>3, <1>4, <1>5, <1>6, <1>7, <1>8, <1>9, <1>10 DEF Inv

(* Main looks at the exit flag.                                            *)
LEMMA LookInv ==
  ASSUME Inv, Look, setting' = setting
  PROVE  Inv'
<1>1. TypeOK'
  BY DEF Inv, TypeOK, Look, groupVars, threadVars, portVars, Goto
<1>2. GroupsAreApart'
  BY DEF Inv, GroupsAreApart, Known, Look, groupVars, threadVars, portVars,
         Goto
<1>3. WhatExistsIsKnown'
  BY DEF Inv, WhatExistsIsKnown, Known, TypeOK, Look, groupVars, threadVars,
         portVars, Goto
<1>4. AliveUntilLeft'
  BY DEF Inv, AliveUntilLeft, TypeOK, Look, groupVars, threadVars, portVars,
         Goto
<1>5. DeadHaveLeft'
  BY DEF Inv, DeadHaveLeft, TypeOK, Look, groupVars, threadVars, portVars,
         Goto
<1>6. PoolInRange'
  BY DEF Inv, PoolInRange, TypeOK, Look, groupVars, threadVars, portVars,
         Goto
<1>7. PoolsAreFull'
  BY DEF Inv, PoolsAreFull, TypeOK, Look, groupVars, threadVars, portVars,
         Goto
<1>8. NotYetStarted'
  BY DEF Inv, NotYetStarted, TypeOK, Look, groupVars, threadVars, portVars,
         Goto
<1>9. MalformedIsFatal'
  BY DEF Inv, MalformedIsFatal, TypeOK, Look, groupVars, threadVars, portVars,
         Goto
<1>10. PoolsAreGone'
  BY DEF Inv, PoolsAreGone, Known, TypeOK, Look, groupVars, threadVars, portVars,
         Goto
<1> QED
  BY <1>1, <1>2, <1>3, <1>4, <1>5, <1>6, <1>7, <1>8, <1>9, <1>10 DEF Inv

(* Main joins and destroys a dead thread.                                  *)
LEMMA BuryInv ==
  ASSUME Inv, Bury, setting' = setting
  PROVE  Inv'
<1>1. PICK o \in dead[Pools[pool]] :
        /\ run[o] = "finished"
        /\ dead' = [dead EXCEPT ![Pools[pool]] = dead[Pools[pool]] \ {o}]
        /\ EraseAll({o})
  BY DEF Bury
<1>2. /\ main = "bury" /\ UNCHANGED <<globalExit, mainVars>>
       /\ UNCHANGED <<active, exiting, leaked, otherListens>>
       /\ Pools[pool] \in PoolNames /\ pool \in DOMAIN Pools
  BY AtPool DEF Bury
<1>3. o \in Objects
  BY <1>2 DEF Inv, TypeOK
<1>4. TypeOK'
  <2>1. dead' \in [PoolNames -> SUBSET Objects]
    BY <1>1, <1>2 DEF Inv, TypeOK
  <2> QED
    BY <1>1, <1>2, <1>3, <2>1 DEF Inv, TypeOK, EraseAll, mainVars
<1>5. GroupsAreApart'
  BY DEF Inv, GroupsAreApart, Known, Bury, mainVars, EraseAll
<1>6. WhatExistsIsKnown'
  <2>1. \A u \in Objects :
          run'[u] # "absent" <=> run[u] # "absent" /\ u # o
    BY <1>1 DEF EraseAll
  <2>2. \A q \in PoolNames : Known(q)' = Known(q) \ {o}
    <3> SUFFICES ASSUME NEW q \in PoolNames PROVE Known(q)' = Known(q) \ {o}
      OBVIOUS
    <3>1. CASE q = Pools[pool]
      <4>1. o \notin active[q] /\ o \notin exiting[q]
        BY <1>2, <1>3, <3>1 DEF Inv, GroupsAreApart
      <4> QED
        BY <1>1, <1>2, <1>3, <3>1, <4>1 DEF Inv, TypeOK, Known
    <3>2. CASE q # Pools[pool]
      <4>1. o \notin Known(q)
        BY <1>2, <1>3, <3>2 DEF Inv, GroupsAreApart, Known
      <4> QED
        BY <1>1, <1>2, <1>3, <3>2, <4>1 DEF Inv, TypeOK, Known
    <3> QED
      BY <3>1, <3>2
  <2> QED
    BY <1>2, <1>3, <2>1, <2>2 DEF Inv, WhatExistsIsKnown, mainVars
<1>7. AliveUntilLeft'
  BY DEF Inv, AliveUntilLeft, TypeOK, Bury, mainVars, EraseAll
<1>8. DeadHaveLeft'
  <2>1. ASSUME NEW q \in PoolNames, NEW u \in dead'[q]
        PROVE  run'[u] \in {"ending", "finished"}
    <3>1. u \in dead[q] /\ u \in Objects
      BY <1>1, <1>2, <1>3, <2>1 DEF Inv, TypeOK
    <3>2. u # o
      <4>1. CASE q = Pools[pool]
        BY <1>1, <1>2, <1>3, <2>1, <4>1 DEF Inv, TypeOK
      <4>2. CASE q # Pools[pool]
        BY <1>2, <1>3, <3>1, <4>2 DEF Inv, GroupsAreApart, Known
      <4> QED
        BY <4>1, <4>2
    <3> QED
      BY <1>1, <1>2, <1>3, <3>1, <3>2 DEF Inv, DeadHaveLeft, EraseAll
  <2> QED
    BY <2>1 DEF DeadHaveLeft
<1>9. PoolInRange'
  BY DEF Inv, PoolInRange, TypeOK, Bury, mainVars, EraseAll
<1>10. PoolsAreFull'
  BY DEF Inv, PoolsAreFull, TypeOK, Bury, mainVars, EraseAll
<1>11. NotYetStarted'
  BY DEF Inv, NotYetStarted, TypeOK, Bury, mainVars, EraseAll
<1>12. MalformedIsFatal'
  BY DEF Inv, MalformedIsFatal, TypeOK, Bury, mainVars, EraseAll
<1>13. PoolsAreGone'
  BY DEF Inv, PoolsAreGone, Known, TypeOK, Bury, mainVars, EraseAll
<1> QED
  BY <1>4, <1>5, <1>6, <1>7, <1>8, <1>9, <1>10, <1>11, <1>12, <1>13 DEF Inv

(* The exit flag is set.                                                   *)
LEMMA SetExitInv ==
  ASSUME Inv, SetExit, setting' = setting
  PROVE  Inv'
<1>1. TypeOK'
  BY DEF Inv, TypeOK, SetExit, mainVars, groupVars, threadVars, portVars
<1>2. GroupsAreApart'
  BY DEF Inv, GroupsAreApart, Known, SetExit, mainVars, groupVars, threadVars,
         portVars
<1>3. WhatExistsIsKnown'
  BY DEF Inv, WhatExistsIsKnown, Known, TypeOK, SetExit, mainVars, groupVars,
         threadVars, portVars
<1>4. AliveUntilLeft'
  BY DEF Inv, AliveUntilLeft, TypeOK, SetExit, mainVars, groupVars,
         threadVars, portVars
<1>5. DeadHaveLeft'
  BY DEF Inv, DeadHaveLeft, TypeOK, SetExit, mainVars, groupVars, threadVars,
         portVars
<1>6. PoolInRange'
  BY DEF Inv, PoolInRange, TypeOK, SetExit, mainVars, groupVars, threadVars,
         portVars
<1>7. PoolsAreFull'
  BY DEF Inv, PoolsAreFull, TypeOK, SetExit, mainVars, groupVars, threadVars,
         portVars
<1>8. NotYetStarted'
  BY DEF Inv, NotYetStarted, TypeOK, SetExit, mainVars, groupVars, threadVars,
         portVars
<1>9. MalformedIsFatal'
  BY DEF Inv, MalformedIsFatal, TypeOK, SetExit, mainVars, groupVars,
         threadVars, portVars
<1>10. PoolsAreGone'
  BY DEF Inv, PoolsAreGone, Known, TypeOK, SetExit, mainVars, groupVars,
         threadVars, portVars
<1> QED
  BY <1>1, <1>2, <1>3, <1>4, <1>5, <1>6, <1>7, <1>8, <1>9, <1>10 DEF Inv

(* Main comes to the next pool to stop.                                    *)
LEMMA StopGroupInv ==
  ASSUME Inv, StopGroup, setting' = setting
  PROVE  Inv'
<1>1. TypeOK'
  BY DEF Inv, TypeOK, StopGroup, groupVars, threadVars, portVars, Goto
<1>2. GroupsAreApart'
  BY DEF Inv, GroupsAreApart, Known, StopGroup, groupVars, threadVars,
         portVars, Goto
<1>3. WhatExistsIsKnown'
  BY DEF Inv, WhatExistsIsKnown, Known, TypeOK, StopGroup, groupVars,
         threadVars, portVars, Goto
<1>4. AliveUntilLeft'
  BY DEF Inv, AliveUntilLeft, TypeOK, StopGroup, groupVars, threadVars,
         portVars, Goto
<1>5. DeadHaveLeft'
  BY DEF Inv, DeadHaveLeft, TypeOK, StopGroup, groupVars, threadVars,
         portVars, Goto
<1>6. PoolInRange'
  BY DEF Inv, PoolInRange, TypeOK, StopGroup, groupVars, threadVars, portVars,
         Goto
<1>7. PoolsAreFull'
  BY DEF Inv, PoolsAreFull, TypeOK, StopGroup, groupVars, threadVars,
         portVars, Goto
<1>8. NotYetStarted'
  BY DEF Inv, NotYetStarted, TypeOK, StopGroup, groupVars, threadVars,
         portVars, Goto
<1>9. MalformedIsFatal'
  BY DEF Inv, MalformedIsFatal, TypeOK, StopGroup, groupVars, threadVars,
         portVars, Goto
<1>10. PoolsAreGone'
  BY DEF Inv, PoolsAreGone, Known, TypeOK, StopGroup, groupVars, threadVars,
         portVars, Goto
<1> QED
  BY <1>1, <1>2, <1>3, <1>4, <1>5, <1>6, <1>7, <1>8, <1>9, <1>10 DEF Inv

(* Main tells a thread to end.                                             *)
LEMMA TellInv ==
  ASSUME Inv, Tell, setting' = setting
  PROVE  Inv'
<1>1. TypeOK'
  <2>1. toStop # {} => (CHOOSE o \in toStop : TRUE) \in toStop
    OBVIOUS
  <2> QED
    BY <2>1 DEF Inv, TypeOK, PoolInRange, Tell, groupVars, portVars, Goto
<1>2. GroupsAreApart'
  BY DEF Inv, GroupsAreApart, Known, Tell, groupVars, portVars, Goto
<1>3. WhatExistsIsKnown'
  BY DEF Inv, WhatExistsIsKnown, Known, TypeOK, Tell, groupVars, portVars,
         Goto
<1>4. AliveUntilLeft'
  BY DEF Inv, AliveUntilLeft, TypeOK, Tell, groupVars, portVars, Goto
<1>5. DeadHaveLeft'
  BY DEF Inv, DeadHaveLeft, TypeOK, Tell, groupVars, portVars, Goto
<1>6. PoolInRange'
  BY DEF Inv, PoolInRange, TypeOK, Tell, groupVars, portVars, Goto
<1>7. PoolsAreFull'
  BY DEF Inv, PoolsAreFull, TypeOK, Tell, groupVars, portVars, Goto
<1>8. NotYetStarted'
  BY DEF Inv, NotYetStarted, TypeOK, Tell, groupVars, portVars, Goto
<1>9. MalformedIsFatal'
  BY DEF Inv, MalformedIsFatal, TypeOK, Tell, groupVars, portVars, Goto
<1>10. PoolsAreGone'
  BY DEF Inv, PoolsAreGone, Known, TypeOK, Tell, groupVars, portVars, Goto
<1> QED
  BY <1>1, <1>2, <1>3, <1>4, <1>5, <1>6, <1>7, <1>8, <1>9, <1>10 DEF Inv

(* Main has waited for a thread.                                           *)
LEMMA StopReturnsInv ==
  ASSUME Inv, StopReturns, setting' = setting
  PROVE  Inv'
<1>1. TypeOK'
  BY DEF Inv, TypeOK, StopReturns, groupVars, threadVars, portVars
<1>2. GroupsAreApart'
  BY DEF Inv, GroupsAreApart, Known, StopReturns, groupVars, threadVars,
         portVars
<1>3. WhatExistsIsKnown'
  BY DEF Inv, WhatExistsIsKnown, Known, TypeOK, StopReturns, groupVars,
         threadVars, portVars
<1>4. AliveUntilLeft'
  BY DEF Inv, AliveUntilLeft, TypeOK, StopReturns, groupVars, threadVars,
         portVars
<1>5. DeadHaveLeft'
  BY DEF Inv, DeadHaveLeft, TypeOK, StopReturns, groupVars, threadVars,
         portVars
<1>6. PoolInRange'
  BY DEF Inv, PoolInRange, TypeOK, StopReturns, groupVars, threadVars,
         portVars
<1>7. PoolsAreFull'
  BY DEF Inv, PoolsAreFull, TypeOK, StopReturns, groupVars, threadVars,
         portVars
<1>8. NotYetStarted'
  BY DEF Inv, NotYetStarted, TypeOK, StopReturns, groupVars, threadVars,
         portVars
<1>9. MalformedIsFatal'
  BY DEF Inv, MalformedIsFatal, TypeOK, StopReturns, groupVars, threadVars,
         portVars
<1>10. PoolsAreGone'
  BY DEF Inv, PoolsAreGone, Known, TypeOK, StopReturns, groupVars, threadVars,
         portVars
<1> QED
  BY <1>1, <1>2, <1>3, <1>4, <1>5, <1>6, <1>7, <1>8, <1>9, <1>10 DEF Inv

(* Main joins the threads of a pool, the last one's first, and returns     *)
(* behind the first one.                                                   *)
LEMMA DestroyInv ==
  ASSUME Inv, Destroy, setting' = setting
  PROVE  Inv'
<1>1. /\ main = "destroy" /\ pool \in Nat /\ pool > 1
      /\ pool - 1 \in DOMAIN Pools /\ pool \in 1..(Len(Pools) + 1)
      /\ Len(Pools) \in Nat /\ DOMAIN Pools = 1..Len(Pools)
  <2>1. Len(Pools) \in Nat /\ DOMAIN Pools = 1..Len(Pools)
    OBVIOUS
  <2> QED
    BY <2>1 DEF Inv, TypeOK, PoolsAreGone, Destroy
<1>2. PICK p \in PoolNames : p = Pools[pool - 1]
  BY <1>1 DEF PoolNames
<1>3. /\ EraseAll(Known(p))
      /\ active' = [active EXCEPT ![p] = {}]
      /\ exiting' = [exiting EXCEPT ![p] = {}]
      /\ dead' = [dead EXCEPT ![p] = {}]
      /\ pool' = pool - 1
      /\ main' = IF pool > 2 THEN "destroy" ELSE "exited"
      /\ UNCHANGED <<globalExit, target, toStop, leaked, otherListens>>
  BY <1>1, <1>2 DEF Destroy, Goto
<1>4. /\ Known(p)' = {}
      /\ active'[p] = {} /\ exiting'[p] = {} /\ dead'[p] = {}
      /\ \A q \in PoolNames \ {p} : /\ active'[q] = active[q]
                                    /\ exiting'[q] = exiting[q]
                                    /\ dead'[q] = dead[q]
                                    /\ Known(q)' = Known(q)
                                    /\ Known(q) \cap Known(p) = {}
  BY <1>3 DEF Inv, TypeOK, GroupsAreApart, Known
<1>5. \A o \in Objects :
        /\ run'[o] = IF o \in Known(p) THEN "absent" ELSE run[o]
        /\ socket'[o] = IF o \in Known(p) THEN "none" ELSE socket[o]
        /\ o \in alive' <=> o \in alive /\ o \notin Known(p)
  BY <1>3 DEF EraseAll
<1>6. TypeOK'
  <2>1. /\ active' \in [PoolNames -> SUBSET Objects]
        /\ exiting' \in [PoolNames -> SUBSET Objects]
        /\ dead' \in [PoolNames -> SUBSET Objects]
    BY <1>3 DEF Inv, TypeOK
  <2>2. /\ run' \in [Objects -> {"absent", "made", "loop", "serving",
                                 "ending", "finished"}]
        /\ socket' \in [Objects -> {"none", "bound", "listening"}]
        /\ alive' \subseteq Objects /\ told' \subseteq Objects
    BY <1>3 DEF Inv, TypeOK, EraseAll
  <2>3. pool' \in 1..(Len(Pools) + 1) /\ main' \in {"destroy", "exited"}
    BY <1>1, <1>3
  <2> QED
    BY <1>3, <2>1, <2>2, <2>3 DEF Inv, TypeOK
<1>7. GroupsAreApart'
  <2>1. \A q \in PoolNames : /\ active'[q] \cap exiting'[q] = {}
                             /\ active'[q] \cap dead'[q] = {}
                             /\ exiting'[q] \cap dead'[q] = {}
    BY <1>4 DEF Inv, GroupsAreApart
  <2>2. ASSUME NEW q \in PoolNames, NEW r \in PoolNames \ {q}
        PROVE  Known(q)' \cap Known(r)' = {}
    BY <1>4 DEF Inv, GroupsAreApart
  <2> QED
    BY <2>1, <2>2 DEF GroupsAreApart
<1>8. WhatExistsIsKnown'
  <2>1. ASSUME NEW o \in Objects
        PROVE  run'[o] # "absent" <=> \E q \in PoolNames : o \in Known(q)'
    BY <1>4, <1>5 DEF Inv, WhatExistsIsKnown
  <2> QED
    BY <2>1 DEF WhatExistsIsKnown
<1>9. AliveUntilLeft'
  BY <1>5 DEF Inv, AliveUntilLeft
<1>10. DeadHaveLeft'
  <2>1. ASSUME NEW q \in PoolNames, NEW o \in dead'[q]
        PROVE  run'[o] \in {"ending", "finished"}
    <3>1. q # p /\ o \in dead[q] /\ o \in Known(q) /\ o \in Objects
      BY <1>4 DEF Inv, TypeOK, Known
    <3>2. o \notin Known(p)
      BY <1>4, <3>1
    <3> QED
      BY <1>5, <3>1, <3>2 DEF Inv, DeadHaveLeft
  <2> QED
    BY <2>1 DEF DeadHaveLeft
<1>11. PoolInRange' /\ PoolsAreFull' /\ NotYetStarted'
  BY <1>3 DEF PoolInRange, PoolsAreFull, NotYetStarted
<1>12. MalformedIsFatal'
  BY <1>1, <1>3, <1>5 DEF Inv, MalformedIsFatal, Misconfigured
<1>13. PoolsAreGone'
  <2>1. ASSUME NEW i \in DOMAIN Pools, i >= pool'
        PROVE  Known(Pools[i])' = {}
    <3>1. i = pool - 1 \/ i >= pool
      BY <1>1, <1>3, <2>1
    <3>2. Pools[i] \in PoolNames
      BY DEF PoolNames
    <3> QED
      BY <1>1, <1>2, <1>4, <3>1, <3>2 DEF Inv, PoolsAreGone
  <2>2. pool > 2 => pool' > 1
    BY <1>1, <1>3
  <2>3. ASSUME ~(pool > 2), NEW q \in PoolNames
        PROVE  Known(q)' = {}
    <3>1. pool' = 1
      BY <1>1, <1>3, <2>3
    <3>2. PICK i \in DOMAIN Pools : q = Pools[i]
      BY DEF PoolNames
    <3> QED
      BY <1>1, <2>1, <3>1, <3>2
  <2> QED
    BY <1>3, <2>1, <2>2, <2>3 DEF PoolsAreGone
<1> QED
  BY <1>6, <1>7, <1>8, <1>9, <1>10, <1>11, <1>12, <1>13 DEF Inv

(* Another process takes the port or leaves it.                            *)
LEMMA OtherProcessInv ==
  ASSUME Inv, OtherProcess, setting' = setting
  PROVE  Inv'
<1>1. TypeOK'
  BY DEF Inv, TypeOK, OtherProcess, mainVars, groupVars, threadVars,
         PortIsTaken
<1>2. GroupsAreApart'
  BY DEF Inv, GroupsAreApart, Known, OtherProcess, mainVars, groupVars,
         threadVars, PortIsTaken
<1>3. WhatExistsIsKnown'
  BY DEF Inv, WhatExistsIsKnown, Known, TypeOK, OtherProcess, mainVars,
         groupVars, threadVars, PortIsTaken
<1>4. AliveUntilLeft'
  BY DEF Inv, AliveUntilLeft, TypeOK, OtherProcess, mainVars, groupVars,
         threadVars, PortIsTaken
<1>5. DeadHaveLeft'
  BY DEF Inv, DeadHaveLeft, TypeOK, OtherProcess, mainVars, groupVars,
         threadVars, PortIsTaken
<1>6. PoolInRange'
  BY DEF Inv, PoolInRange, TypeOK, OtherProcess, mainVars, groupVars,
         threadVars, PortIsTaken
<1>7. PoolsAreFull'
  BY DEF Inv, PoolsAreFull, TypeOK, OtherProcess, mainVars, groupVars,
         threadVars, PortIsTaken
<1>8. NotYetStarted'
  BY DEF Inv, NotYetStarted, TypeOK, OtherProcess, mainVars, groupVars,
         threadVars, PortIsTaken
<1>9. MalformedIsFatal'
  BY DEF Inv, MalformedIsFatal, TypeOK, OtherProcess, mainVars, groupVars,
         threadVars, PortIsTaken
<1>10. PoolsAreGone'
  BY DEF Inv, PoolsAreGone, Known, TypeOK, OtherProcess, mainVars, groupVars,
         threadVars, PortIsTaken
<1> QED
  BY <1>1, <1>2, <1>3, <1>4, <1>5, <1>6, <1>7, <1>8, <1>9, <1>10 DEF Inv

(* New threads join a pool, whose others may change places.                *)
LEMMA GroupsGrow ==
  ASSUME Inv, NEW p \in PoolNames, NEW new \in SUBSET Unused,
         Known(p)' = Known(p) \cup new,
         active'[p] \cap exiting'[p] = {},
         active'[p] \cap dead'[p] = {},
         exiting'[p] \cap dead'[p] = {},
         \A q \in PoolNames \ {p} : /\ active'[q] = active[q]
                                    /\ exiting'[q] = exiting[q]
                                    /\ dead'[q] = dead[q],
         \A o \in Objects :
           run'[o] # "absent" <=> o \in new \/ run[o] # "absent"
  PROVE  GroupsAreApart' /\ WhatExistsIsKnown'
<1>1. \A q \in PoolNames \ {p} : Known(q)' = Known(q)
  BY DEF Known
<1>2. \A q \in PoolNames : Known(q) \cap new = {}
  BY DEF Inv, WhatExistsIsKnown, Unused
<1>3. GroupsAreApart'
  <2>1. ASSUME NEW q \in PoolNames, NEW r \in PoolNames \ {q}
        PROVE  Known(q)' \cap Known(r)' = {}
    <3>1. Known(q) \cap Known(r) = {}
      BY DEF Inv, GroupsAreApart
    <3>2. /\ Known(q)' \subseteq Known(q) \cup new
          /\ Known(r)' \subseteq Known(r) \cup new
          /\ q # p => Known(q)' = Known(q)
          /\ r # p => Known(r)' = Known(r)
      BY <1>1
    <3> QED
      BY <1>2, <3>1, <3>2
  <2>2. \A q \in PoolNames \ {p} : /\ active'[q] \cap exiting'[q] = {}
                                   /\ active'[q] \cap dead'[q] = {}
                                   /\ exiting'[q] \cap dead'[q] = {}
    BY DEF Inv, GroupsAreApart
  <2> QED
    BY <2>1, <2>2 DEF GroupsAreApart
<1>4. WhatExistsIsKnown'
  <2>1. ASSUME NEW o \in Objects
        PROVE  run'[o] # "absent" <=> \E q \in PoolNames : o \in Known(q)'
    <3>1. run[o] # "absent" <=> \E q \in PoolNames : o \in Known(q)
      BY DEF Inv, WhatExistsIsKnown
    <3>2. (\E q \in PoolNames : o \in Known(q)')
            <=> o \in new \/ \E q \in PoolNames : o \in Known(q)
      BY <1>1
    <3> QED
      BY <3>1, <3>2
  <2> QED
    BY <2>1 DEF WhatExistsIsKnown
<1> QED
  BY <1>3, <1>4

(* The listener's constructor: what it does to the sockets and the exit    *)
(* flag, in a pool that gets new threads.                                  *)
LEMMA BindKeeps ==
  ASSUME Inv, NEW p \in PoolNames, NEW new \in SUBSET Unused, Bind(p, new),
         setting' = setting
  PROVE  /\ globalExit' \in BOOLEAN /\ leaked' \in BOOLEAN
         /\ socket' \in [Objects -> {"none", "bound", "listening"}]
         /\ globalExit => globalExit'
         /\ \A o \in Objects : socket'[o] = "listening" => socket[o] = "listening"
         /\ p = Listener /\ new # {} /\ setting \in Misconfigured
              /\ setting.logged => globalExit'
<1>1. PICK works \in BindResults :
        /\ socket' = [o \in Objects |->
             IF o \in new
             THEN IF p = Listener /\ works THEN "bound" ELSE "none"
             ELSE socket[o]]
        /\ leaked' = (leaked \/ ((p = Listener /\ new # {}) /\ ~works))
        /\ Fatal((p = Listener /\ new # {})
                   /\ (setting \in Misconfigured \/ ~works))
  BY DEF Bind
<1>2. globalExit' = (globalExit \/ (((p = Listener /\ new # {})
                       /\ (setting \in Misconfigured \/ ~works))
                       /\ setting.logged))
  BY <1>1 DEF Fatal
<1>3. globalExit' \in BOOLEAN /\ leaked' \in BOOLEAN
  BY <1>1, <1>2
<1>4. /\ socket' \in [Objects -> {"none", "bound", "listening"}]
      /\ \A o \in Objects : socket'[o] = "listening" => socket[o] = "listening"
  BY <1>1 DEF Inv, TypeOK
<1> QED
  BY <1>2, <1>3, <1>4

(* The threads of a pool are constructed.                                  *)
LEMMA ConstructInv ==
  ASSUME Inv, Construct, setting' = setting
  PROVE  Inv'
<1>1. PICK p \in PoolNames : p = Pools[pool]
  BY AtPool DEF Construct
<1>2. PICK new : new = Recruits(p, {})
  OBVIOUS
<1>3. /\ main = "construct" /\ CanRecruit(p, {})
      /\ active' = [active EXCEPT ![p] = new]
      /\ run' = [o \in Objects |-> IF o \in new THEN "made" ELSE run[o]]
      /\ alive' = alive \cup new /\ told' = told \ new
      /\ Bind(p, new)
      /\ UNCHANGED <<target, toStop, exiting, dead, otherListens>>
      /\ \/ pool < Len(Pools) /\ pool' = pool + 1 /\ main' = "construct"
         \/ ~(pool < Len(Pools)) /\ pool' = 1 /\ main' = "start"
  BY <1>1, <1>2 DEF Construct, Goto
<1>4. /\ pool \in DOMAIN Pools /\ pool \in Nat
      /\ Len(Pools) \in Nat /\ DOMAIN Pools = 1..Len(Pools)
      /\ active[p] = {}
  <2>1. pool \in DOMAIN Pools /\ pool \in Nat /\ ~(pool < pool)
    BY <1>3, AtPool
  <2>2. active[p] = {}
    BY <1>1, <1>3, <2>1 DEF Inv, PoolsAreFull
  <2> QED
    BY <2>1, <2>2
<1>5. new \in SUBSET Unused /\ Cardinality(new) = Size[p]
  <2>1. Cardinality({}) = 0 /\ Size[p] \in Nat
    BY FS_EmptySet
  <2>2. Cardinality({}) \in Nat /\ Cardinality({}) <= Size[p]
    BY <2>1
  <2>3. /\ new \subseteq Unused
        /\ Cardinality(new) = Size[p] - Cardinality({})
    BY <1>2, <1>3, <2>2, RecruitsAreUnused
  <2> QED
    BY <2>1, <2>3
<1>6. new \subseteq Objects /\ \A o \in new : run[o] = "absent"
  BY <1>5 DEF Unused
<1>7. /\ active'[p] = new
      /\ \A q \in PoolNames \ {p} : active'[q] = active[q]
  BY <1>3, <1>4 DEF Inv, TypeOK
<1>8. TypeOK'
  BY <1>3, <1>4, <1>5, <1>6, BindKeeps DEF Inv, TypeOK
<1>9. GroupsAreApart' /\ WhatExistsIsKnown'
  <2>1. \A q \in PoolNames : new \cap Known(q) = {}
    BY <1>3, <1>5 DEF Inv, WhatExistsIsKnown, Unused
  <2>2. Known(p)' = Known(p) \cup new
    BY <1>3, <1>4, <1>7 DEF Known
  <2>3. /\ active'[p] \cap exiting'[p] = {}
        /\ active'[p] \cap dead'[p] = {}
        /\ exiting'[p] \cap dead'[p] = {}
    BY <1>3, <1>4, <1>7, <2>1 DEF Inv, GroupsAreApart, Known
  <2>4. \A q \in PoolNames \ {p} : /\ active'[q] = active[q]
                                   /\ exiting'[q] = exiting[q]
                                   /\ dead'[q] = dead[q]
    BY <1>3, <1>7
  <2>5. \A o \in Objects :
          run'[o] # "absent" <=> o \in new \/ run[o] # "absent"
    BY <1>3
  <2>6. new \in SUBSET Unused
    BY <1>3, <1>5
  <2> QED
    BY <2>2, <2>3, <2>4, <2>5, <2>6, GroupsGrow
<1>10. AliveUntilLeft'
  BY <1>3, <1>6 DEF Inv, AliveUntilLeft
<1>11. DeadHaveLeft'
  <2>1. \A q \in PoolNames : \A o \in dead[q] :
          o \in Objects /\ run[o] \in {"ending", "finished"}
    BY <1>3 DEF Inv, DeadHaveLeft, TypeOK
  <2> QED
    BY <1>3, <1>6, <2>1 DEF DeadHaveLeft
<1>12. PoolInRange'
  BY <1>3, <1>4 DEF PoolInRange
<1>13. PoolsAreFull'
  <2>1. ASSUME NEW i \in DOMAIN Pools
        PROVE  /\ i < pool => Cardinality(active'[Pools[i]]) = Size[Pools[i]]
               /\ i = pool => Cardinality(active'[Pools[i]]) = Size[Pools[i]]
               /\ i > pool => active'[Pools[i]] = {}
    <3>1. Pools[i] \in PoolNames /\ (i # pool => Pools[i] # p)
      BY <1>1, <1>4 DEF PoolNames
    <3> QED
      BY <1>1, <1>3, <1>4, <1>5, <1>7, <3>1 DEF Inv, PoolsAreFull
  <2>2. CASE pool < Len(Pools)
    <3>1. pool' = pool + 1 /\ main' = "construct"
      BY <1>3, <2>2
    <3>2. ASSUME NEW i \in DOMAIN Pools
          PROVE  IF i < pool' THEN Cardinality(active'[Pools[i]]) = Size[Pools[i]]
                              ELSE active'[Pools[i]] = {}
      <4>1. i \in Nat /\ (i < pool' <=> i < pool \/ i = pool)
        BY <1>4, <3>1
      <4>2. ~(i < pool') => i > pool
        BY <1>4, <4>1
      <4> QED
        BY <2>1, <4>1, <4>2
    <3> QED
      BY <3>1, <3>2 DEF PoolsAreFull
  <2>3. CASE ~(pool < Len(Pools))
    <3>1. \A i \in DOMAIN Pools : i <= pool
      BY <1>4, <2>3
    <3>2. \A i \in DOMAIN Pools : Cardinality(active'[Pools[i]]) = Size[Pools[i]]
      BY <1>4, <2>1, <3>1
    <3>3. \A q \in PoolNames : Cardinality(active'[q]) = Size[q]
      BY <3>2 DEF PoolNames
    <3> QED
      BY <1>3, <2>3, <3>3 DEF PoolsAreFull
  <2> QED
    BY <2>2, <2>3
<1>14. NotYetStarted'
  <2>1. \A o \in Objects : run'[o] \in {"absent", "made"}
    BY <1>3 DEF Inv, NotYetStarted
  <2>2. \A q \in PoolNames : \A o \in active'[q] : run'[o] # "absent"
    BY <1>3, <1>8, <1>9 DEF WhatExistsIsKnown, Known, TypeOK
  <2>3. \A q \in PoolNames : \A o \in active'[q] : run'[o] = "made"
    BY <1>8, <2>1, <2>2 DEF TypeOK
  <2> QED
    BY <2>1, <2>3 DEF NotYetStarted, PoolNames
<1>15. MalformedIsFatal'
  <2> SUFFICES ASSUME setting \in Misconfigured, setting.logged
               PROVE  /\ globalExit'
                      /\ \A o \in Objects : socket'[o] # "listening"
    BY DEF MalformedIsFatal, Misconfigured
  <2>1. \A o \in Objects : socket'[o] # "listening"
    BY <1>3, <1>4, <1>5, BindKeeps DEF Inv, MalformedIsFatal
  <2>2. CASE pool = 1
    <3>1. p = Listener /\ Size[p] # 0
      BY <1>1, <2>2 DEF Listener
    <3>2. new # {}
      BY <1>5, <3>1, FS_EmptySet
    <3> QED
      BY <1>3, <1>4, <1>5, <2>1, <3>1, <3>2, BindKeeps
  <2>3. CASE pool # 1
    <3>1. globalExit
      BY <2>3 DEF Inv, MalformedIsFatal
    <3> QED
      BY <1>3, <1>4, <1>5, <2>1, <3>1, BindKeeps
  <2> QED
    BY <2>2, <2>3
<1>16. PoolsAreGone'
  BY <1>3 DEF PoolsAreGone
<1> QED
  BY <1>8, <1>9, <1>10, <1>11, <1>12, <1>13, <1>14, <1>15, <1>16 DEF Inv

(* A pool is filled up behind those that have left or are leaving.         *)
LEMMA SwapInv ==
  ASSUME Inv, Swap, setting' = setting
  PROVE  Inv'
<1>1. PICK p \in PoolNames : p = Pools[pool]
  BY AtPool DEF Swap
<1>2. PICK gone : gone = DeadOf(active[p])
  OBVIOUS
<1>3. PICK ending : ending = {o \in active[p] \ gone : o \in told}
  OBVIOUS
<1>4. PICK staying : staying = active[p] \ (gone \cup ending)
  OBVIOUS
<1>5. PICK new : new = Recruits(p, staying)
  OBVIOUS
<1>6. /\ main = "bury" /\ dead[p] = {} /\ CanRecruit(p, staying)
      /\ dead' = [dead EXCEPT ![p] = DeadOf(exiting[p]) \cup gone]
      /\ exiting' = [exiting EXCEPT
                       ![p] = (exiting[p] \ DeadOf(exiting[p])) \cup ending]
      /\ active' = [active EXCEPT ![p] = staying \cup new]
      /\ run' = [o \in Objects |-> IF o \in new THEN "loop" ELSE run[o]]
      /\ alive' = alive \cup new /\ told' = told \ new
      /\ Bind(p, new)
      /\ UNCHANGED <<target, toStop, otherListens>>
      /\ \/ pool < Len(Pools) /\ pool' = pool + 1 /\ main' = "maintain"
         \/ pool' = 1 /\ main' = "look"
  BY <1>1, <1>2, <1>3, <1>4, <1>5 DEF Swap, Goto
<1>7. /\ pool \in DOMAIN Pools /\ pool \in Nat
      /\ Len(Pools) \in Nat /\ Len(Pools) >= 1
      /\ active[p] \in SUBSET Objects /\ exiting[p] \in SUBSET Objects
  BY <1>6, AtPool DEF Inv, TypeOK
<1>8. /\ gone \subseteq active[p] /\ gone \cap alive = {}
      /\ ending \subseteq active[p] /\ ending \cap gone = {}
      /\ staying \subseteq active[p]
      /\ staying \cap gone = {} /\ staying \cap ending = {}
      /\ active[p] = staying \cup ending \cup gone
      /\ DeadOf(exiting[p]) \subseteq exiting[p]
      /\ DeadOf(exiting[p]) \cap alive = {}
  BY <1>2, <1>3, <1>4 DEF DeadOf
<1>9. /\ Cardinality(active[p]) = Size[p]
      /\ Cardinality(staying) \in Nat /\ Cardinality(staying) <= Size[p]
      /\ Size[p] \in Nat
  <2>1. Cardinality(active[p]) = Size[p]
    BY <1>6, <1>7 DEF Inv, PoolsAreFull
  <2>2. staying \in SUBSET active[p] /\ staying \in SUBSET Objects
    BY <1>7, <1>8
  <2>3. Cardinality(staying) <= Cardinality(active[p])
    BY <1>7, <2>2, SizesAreNumbers, FS_Subset
  <2> QED
    BY <1>7, <2>1, <2>2, <2>3, SizesAreNumbers
<1>10. /\ new \in SUBSET Unused
      /\ Cardinality(new) = Size[p] - Cardinality(staying)
  BY <1>5, <1>6, <1>9, RecruitsAreUnused
<1>11. new \subseteq Objects /\ \A o \in new : run[o] = "absent"
  BY <1>10 DEF Unused
<1>12. /\ active'[p] = staying \cup new
      /\ exiting'[p] = (exiting[p] \ DeadOf(exiting[p])) \cup ending
      /\ dead'[p] = DeadOf(exiting[p]) \cup gone
      /\ \A q \in PoolNames \ {p} : /\ active'[q] = active[q]
                                    /\ exiting'[q] = exiting[q]
                                    /\ dead'[q] = dead[q]
  BY <1>6, <1>7 DEF Inv, TypeOK
<1>13. \A q \in PoolNames : new \cap Known(q) = {}
  BY <1>6, <1>10 DEF Inv, WhatExistsIsKnown, Unused
<1>14. TypeOK'
  <2>1. /\ active' \in [PoolNames -> SUBSET Objects]
        /\ exiting' \in [PoolNames -> SUBSET Objects]
        /\ dead' \in [PoolNames -> SUBSET Objects]
    BY <1>6, <1>7, <1>8, <1>11 DEF Inv, TypeOK
  <2> QED
    BY <1>6, <1>7, <1>10, <1>11, <2>1, BindKeeps DEF Inv, TypeOK
<1>15. GroupsAreApart' /\ WhatExistsIsKnown'
  <2>1. Known(p)' = Known(p) \cup new
    BY <1>6, <1>8, <1>12 DEF Known
  <2>2. active[p] \cap exiting[p] = {}
    BY <1>7 DEF Inv, GroupsAreApart
  <2>3. new \cap active[p] = {} /\ new \cap exiting[p] = {}
    BY <1>7, <1>13 DEF Known
  <2>4. /\ active'[p] \cap exiting'[p] = {}
        /\ active'[p] \cap dead'[p] = {}
        /\ exiting'[p] \cap dead'[p] = {}
    BY <1>8, <1>12, <2>2, <2>3
  <2>5. \A o \in Objects :
          run'[o] # "absent" <=> o \in new \/ run[o] # "absent"
    BY <1>6
  <2>6. /\ new \in SUBSET Unused
        /\ \A q \in PoolNames \ {p} : /\ active'[q] = active[q]
                                       /\ exiting'[q] = exiting[q]
                                       /\ dead'[q] = dead[q]
    BY <1>6, <1>10, <1>12
  <2> QED
    BY <2>1, <2>4, <2>5, <2>6, GroupsGrow
<1>16. AliveUntilLeft'
  BY <1>6, <1>11 DEF Inv, AliveUntilLeft
<1>17. DeadHaveLeft'
  <2>1. ASSUME NEW o \in Objects, NEW q \in PoolNames, o \in Known(q),
               o \notin alive
        PROVE  run'[o] \in {"ending", "finished"}
    <3>1. run[o] # "absent" /\ run[o] \notin {"made", "loop", "serving"}
      BY <1>6, <2>1 DEF Inv, WhatExistsIsKnown, AliveUntilLeft
    <3>2. run[o] \in {"ending", "finished"} /\ o \notin new
      BY <1>11, <3>1 DEF Inv, TypeOK
    <3> QED
      BY <1>6, <3>2
  <2>2. ASSUME NEW o \in dead'[p]
        PROVE  run'[o] \in {"ending", "finished"}
    <3>1. o \in Objects /\ o \notin alive /\ o \in Known(p)
      BY <1>7, <1>8, <1>12 DEF Known
    <3> QED
      BY <1>7, <2>1, <3>1
  <2>3. ASSUME NEW q \in PoolNames \ {p}, NEW o \in dead'[q]
        PROVE  run'[o] \in {"ending", "finished"}
    <3>1. o \in Objects /\ run[o] \in {"ending", "finished"}
      BY <1>6, <1>12, <2>3 DEF Inv, DeadHaveLeft, TypeOK
    <3> QED
      BY <1>6, <1>11, <3>1
  <2> QED
    BY <1>7, <2>2, <2>3 DEF DeadHaveLeft
<1>18. PoolInRange'
  BY <1>6, <1>7 DEF PoolInRange
<1>19. PoolsAreFull'
  <2>1. staying \in SUBSET Objects /\ new \in SUBSET Objects
    BY <1>7, <1>8, <1>11
  <2>2. staying \cap new = {}
    BY <1>7, <1>8, <1>13 DEF Known
  <2>3. Cardinality(active'[p]) = Size[p]
    <3>1. Cardinality(staying \cup new)
            = Cardinality(staying) + Cardinality(new)
      BY <2>1, <2>2, SizeOfUnion
    <3> QED
      BY <1>9, <1>10, <1>12, <3>1
  <2>4. \A q \in PoolNames \ {p} : Cardinality(active'[q]) = Size[q]
    BY <1>6, <1>12 DEF Inv, PoolsAreFull
  <2> QED
    BY <1>6, <2>3, <2>4 DEF PoolsAreFull
<1>20. NotYetStarted'
  BY <1>6 DEF NotYetStarted
<1>21. MalformedIsFatal'
  BY <1>6, <1>7, <1>10, BindKeeps DEF Inv, MalformedIsFatal, Misconfigured
<1>22. PoolsAreGone'
  BY <1>6 DEF PoolsAreGone
<1> QED
  BY <1>14, <1>15, <1>16, <1>17, <1>18, <1>19, <1>20, <1>21, <1>22 DEF Inv

(* The process begins without threads.                                     *)
LEMMA InitInv == Init => Inv
<1> SUFFICES ASSUME Init PROVE Inv
  OBVIOUS
<1>1. TypeOK
  <2>1. pool \in 1..(Len(Pools) + 1)
    <3>1. Len(Pools) \in Nat /\ Len(Pools) >= 1
      OBVIOUS
    <3> QED
      BY <3>1 DEF Init
  <2>2. otherListens \in BOOLEAN
    <3>1. MayTakePort \in BOOLEAN
      OBVIOUS
    <3> QED
      BY <3>1 DEF Init
  <2>3. /\ active \in [PoolNames -> SUBSET Objects]
        /\ exiting \in [PoolNames -> SUBSET Objects]
        /\ dead \in [PoolNames -> SUBSET Objects]
        /\ run \in [Objects -> {"absent", "made", "loop", "serving", "ending",
                                "finished"}]
        /\ socket \in [Objects -> {"none", "bound", "listening"}]
    BY DEF Init
  <2>4. /\ setting \in Settings /\ globalExit = FALSE /\ leaked = FALSE
        /\ main = "construct" /\ target = Nobody
        /\ toStop = {} /\ alive = {} /\ told = {}
    BY DEF Init
  <2> QED
    BY <2>1, <2>2, <2>3, <2>4 DEF TypeOK
<1>2. GroupsAreApart /\ WhatExistsIsKnown /\ AliveUntilLeft /\ DeadHaveLeft
  BY DEF Init, GroupsAreApart, WhatExistsIsKnown, AliveUntilLeft, DeadHaveLeft,
         Known
<1>3. PoolInRange /\ NotYetStarted /\ MalformedIsFatal /\ PoolsAreGone
  <2>1. PoolInRange
    <3>1. Len(Pools) \in Nat /\ Len(Pools) >= 1
      OBVIOUS
    <3> QED
      BY <3>1 DEF Init, PoolInRange
  <2>2. NotYetStarted
    BY DEF Init, NotYetStarted
  <2>3. MalformedIsFatal
    <3>1. /\ main = "construct" /\ pool = 1
          /\ \A o \in Objects : socket[o] = "none"
      BY DEF Init
    <3> QED
      BY <3>1 DEF MalformedIsFatal
  <2>4. PoolsAreGone
    BY DEF Init, PoolsAreGone
  <2> QED
    BY <2>1, <2>2, <2>3, <2>4
<1>4. PoolsAreFull
  <2>1. \A i \in DOMAIN Pools : ~(i < 1) /\ Pools[i] \in PoolNames
    BY DEF PoolNames
  <2> QED
    BY <2>1 DEF Init, PoolsAreFull
<1> QED
  BY <1>1, <1>2, <1>3, <1>4 DEF Inv

(* No step leaves the invariant.                                           *)
LEMMA NextInv == Inv /\ [Next]_vars => Inv'
<1> SUFFICES ASSUME Inv, [Next]_vars PROVE Inv'
  OBVIOUS
<1>1. CASE UNCHANGED vars \/ Exited
  <2>1. /\ main' = main /\ globalExit' = globalExit /\ pool' = pool
        /\ target' = target /\ toStop' = toStop /\ active' = active
        /\ exiting' = exiting /\ dead' = dead /\ run' = run
        /\ alive' = alive /\ told' = told /\ socket' = socket
        /\ leaked' = leaked /\ otherListens' = otherListens
        /\ setting' = setting
    BY <1>1 DEF vars, Exited, mainVars, groupVars, threadVars, portVars
  <2>2. TypeOK'
    BY <2>1 DEF Inv, TypeOK
  <2>3. GroupsAreApart' /\ WhatExistsIsKnown' /\ PoolsAreGone'
    BY <2>1 DEF Inv, GroupsAreApart, WhatExistsIsKnown, PoolsAreGone, Known
  <2>4. AliveUntilLeft' /\ DeadHaveLeft' /\ PoolInRange' /\ PoolsAreFull'
    BY <2>1 DEF Inv, AliveUntilLeft, DeadHaveLeft, PoolInRange, PoolsAreFull
  <2>5. NotYetStarted' /\ MalformedIsFatal'
    BY <2>1 DEF Inv, NotYetStarted, MalformedIsFatal, Misconfigured
  <2> QED
    BY <2>2, <2>3, <2>4, <2>5 DEF Inv
<1>2. CASE MainStep
  BY <1>2, ConstructInv, StartPoolInv, LookInv, BuryInv, SwapInv,
     StopGroupInv, TellInv, StopReturnsInv, DestroyInv DEF MainStep
<1>3. ASSUME NEW o \in Objects, Thread(o) PROVE Inv'
  BY <1>3, LoopHeadInv, ServiceReturnsInv, FinishInv DEF Thread
<1>4. CASE SetExit
  BY <1>4, SetExitInv DEF SetExit
<1>5. CASE OtherProcess
  BY <1>5, OtherProcessInv DEF OtherProcess
<1> QED
  BY <1>1, <1>2, <1>3, <1>4, <1>5 DEF Next

(* Whatever main and the threads do, the invariant holds.                  *)
THEOREM LifecycleInvariant == Spec => []Inv
<1> QED
  BY InitInv, NextInv, PTL DEF Spec

(* When main returns, no thread is left (cc_server.cpp:35).                *)
THEOREM NoThreadOutlivesMain == Spec => []NoThreadSurvives
<1>1. Inv => NoThreadSurvives
  BY DEF Inv, WhatExistsIsKnown, PoolsAreGone, NoThreadSurvives
<1> QED
  BY <1>1, LifecycleInvariant, PTL

(* Maintenance joins only threads that have left their loop: main is not   *)
(* held up by one that serves (cc_thread_group.h:57).                      *)
THEOREM BuriedHaveEnded == Spec => []OnlyTheEndedAreBuried
<1>1. Inv => OnlyTheEndedAreBuried
  BY DEF Inv, DeadHaveLeft, OnlyTheEndedAreBuried
<1> QED
  BY <1>1, LifecycleInvariant, PTL

(* A malformed address is never served on every interface by a server that *)
(* logs (cc_network_address.h:34).                                         *)
THEOREM MalformedIsNotServed == Spec => []ListensAsConfigured
<1>1. Inv => ListensAsConfigured
  <2> SUFFICES ASSUME Inv, NEW o \in Objects, socket[o] = "listening",
                      Interface[setting] = "any", setting.bindIp # <<>>,
                      setting.logged
               PROVE  FALSE
    BY DEF ListensAsConfigured
  <2>1. setting \in Settings
    BY DEF Inv, TypeOK
  <2>2. IsMalformed(setting.bindIp)
    BY <2>1 DEF Interface, BindAddress, InetAddr
  <2> QED
    BY <2>1, <2>2 DEF Inv, MalformedIsFatal, Misconfigured
<1> QED
  BY <1>1, LifecycleInvariant, PTL

(* Of a set of pools with at most one member, the cardinality.             *)
LEMMA AtMostOnePool ==
  ASSUME NEW S \in SUBSET PoolNames, \A p, q \in S : p = q
  PROVE  Cardinality(S) = IF S = {} THEN 0 ELSE 1
<1>1. CASE S = {}
  BY <1>1, FS_EmptySet
<1>2. ASSUME NEW p \in S PROVE Cardinality(S) = 1
  <2>1. S = {p}
    BY <1>2
  <2> QED
    BY <2>1, FS_Singleton
<1> QED
  BY <1>1, <1>2

(* Every thread is in exactly one set of one pool until it is destroyed,   *)
(* through all deaths and replacements, also when the exit flag is set in  *)
(* the middle of maintenance (cc_server.cpp:72).                           *)
THEOREM EveryThreadIsKept == Spec => []NoThreadIsLost
<1>1. ASSUME Inv, NEW o \in Objects
      PROVE  Cardinality({p \in PoolNames : o \in active[p]})
               + Cardinality({p \in PoolNames : o \in exiting[p]})
               + Cardinality({p \in PoolNames : o \in dead[p]})
             = IF run[o] = "absent" THEN 0 ELSE 1
  <2> DEFINE A == {p \in PoolNames : o \in active[p]}
             E == {p \in PoolNames : o \in exiting[p]}
             D == {p \in PoolNames : o \in dead[p]}
  <2>1. \A p, q \in PoolNames : o \in Known(p) /\ o \in Known(q) => p = q
    BY <1>1 DEF Inv, GroupsAreApart
  <2>2. /\ \A p, q \in A \cup E \cup D : p = q
        /\ A \cap E = {} /\ A \cap D = {} /\ E \cap D = {}
    BY <1>1, <2>1 DEF Inv, GroupsAreApart, Known
  <2>3. run[o] = "absent" <=> A \cup E \cup D = {}
    BY <1>1 DEF Inv, WhatExistsIsKnown, Known
  <2>4. /\ Cardinality(A) = IF A = {} THEN 0 ELSE 1
        /\ Cardinality(E) = IF E = {} THEN 0 ELSE 1
        /\ Cardinality(D) = IF D = {} THEN 0 ELSE 1
    <3>1. /\ A \in SUBSET PoolNames /\ \A p, q \in A : p = q
          /\ E \in SUBSET PoolNames /\ \A p, q \in E : p = q
          /\ D \in SUBSET PoolNames /\ \A p, q \in D : p = q
      BY <2>2
    <3> HIDE DEF A, E, D
    <3> QED
      BY <3>1, AtMostOnePool
  <2> HIDE DEF A, E, D
  <2>5. Cardinality(A) + Cardinality(E) + Cardinality(D)
          = IF run[o] = "absent" THEN 0 ELSE 1
    <3>1. A # {} => E = {} /\ D = {}
      BY <2>2
    <3>2. E # {} => A = {} /\ D = {}
      BY <2>2
    <3> QED
      BY <2>3, <2>4, <3>1, <3>2
  <2> QED
    BY <2>5 DEF A, E, D
<1>2. Inv => NoThreadIsLost
  BY <1>1 DEF NoThreadIsLost
<1> QED
  BY <1>2, LifecycleInvariant, PTL

(* From the start to the end every pool has as many threads as configured, *)
(* whatever has died and been replaced.                                    *)
THEOREM PoolsStayFull == Spec => []PoolsKeepTheirSize
<1>1. Inv => PoolsKeepTheirSize
  BY DEF Inv, PoolsAreFull, PoolsKeepTheirSize
<1> QED
  BY <1>1, LifecycleInvariant, PTL
=============================================================================
