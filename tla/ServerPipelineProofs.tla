------------------------ MODULE ServerPipelineProofs ------------------------
(***************************************************************************)
(* Proofs about ServerPipeline, for heaps, tables and pipes of any size    *)
(* and for every setting of its switches.  Inv is inductive: its typing    *)
(* and its two parts on locks each need the others.  Connected is about    *)
(* what the listener's table, the kernel's descriptors and the elements on *)
(* their way say of each other; most of the server's steps leave all three *)
(* alone, and cannot disturb more than which elements are on their way.    *)
(* Both hold for pools of any size.  Journey follows the elements from     *)
(* pipe to pipe, with one reader and one datamodel thread: every element   *)
(* waits where it will be taken up, so every locked connection is served.  *)
(* Passage, Settlement, Places and Traffic add what an element carries,    *)
(* what is left of it when the listener has it, where a connection is and  *)
(* where its last request is.  Together they show the server to implement  *)
(* RequestReply, with one thread in each pool, and tell whom it hangs up   *)
(* on.                                                                     *)
(***************************************************************************)
EXTENDS ServerPipeline, FiniteSetTheorems, SequenceTheorems,
        WellFoundedInduction, TLAPS

Inv == TypeOK /\ ScannerHoldsMutex /\ ElementOwnership

USE PoolsAssumption, ResourcesAssumption, SwitchesAssumption
-----------------------------------------------------------------------------
(* Every thread polls one of the four pipes.                               *)
LEMMA StageOfType ==
  ASSUME NEW t \in Threads
  PROVE  StageOf(t) \in Stage
BY DEF StageOf, Stage

(* A worker that succeeded pushes to one of the pipes.                     *)
LEMMA TargetPipeType ==
  ASSUME NEW t \in Workers
  PROVE  TargetPipe(t) \in Stage
BY DEF TargetPipe, NextStage, StageOf, Stage, Threads, Workers

(* What the operations on an element do to its type and to its lock: only  *)
(* LockedBy and Unlocked touch the lock.                                   *)
LEMMA ElementOperations ==
  ASSUME NEW el \in ElementType
  PROVE  /\ \A t \in Threads : /\ LockedBy(el, t) \in ElementType
                               /\ LockedBy(el, t).locked
                               /\ LockedBy(el, t).owner = t
         /\ Unlocked(el, Unowned) \in ElementType
         /\ \A S \in SUBSET Stage :
              /\ MarkDone(el, S) \in ElementType
              /\ MarkFailed(el, S) \in ElementType
         /\ MarkCloseRequired(el) \in ElementType
         /\ MarkCloseRequired(el).locked = el.locked
         /\ MarkCloseRequired(el).owner = el.owner
BY DEF ElementType, LockedBy, Unlocked, MarkDone, MarkFailed,
       MarkCloseRequired, Unowned, Threads

(* A fresh element and a destroyed one are well typed.                     *)
LEMMA NewElementType ==
  ASSUME NEW fd \in Nat, NEW c \in Conns \cup {NoConn}
  PROVE  NewElement(fd, c, Unowned) \in ElementType
BY DEF NewElement, ElementType, Unowned, Threads, NoText, Stage

(* An address nothing was allocated at is typed like an element.           *)
LEMMA BlankType == Blank \in ElementType
BY NewElementType DEF Blank

(* The connection behind an element is a connection or none.               *)
LEMMA SocketOfType ==
  ASSUME TypeOK, NEW e
  PROVE  SocketOf(e) \in Conns \cup {NoConn}
BY DEF TypeOK, SocketOf

(* The initial state.                                                      *)
LEMMA InitInv == Init => Inv
<1> SUFFICES ASSUME Init PROVE Inv
  OBVIOUS
<1>1. TypeOK
  BY BlankType DEF Init, TypeOK, LoopHead, EmptyTable, Vacant, Threads
<1>2. ScannerHoldsMutex
  BY StageOfType DEF Init, ScannerHoldsMutex, LoopHead, Threads
<1>3. ElementOwnership
  BY DEF Init, ElementOwnership, LoopHead
<1> QED BY <1>1, <1>2, <1>3 DEF Inv
-----------------------------------------------------------------------------
(* The steps of a scan leave tasks and locks alone.                        *)
Scanning == {"candidate", "rescan"}
Holding == {"work", "push", "finish"}

(* Starting a scan takes a mutex nobody holds, and no element.             *)
LEMMA ScanOwnership ==
  ASSUME Inv, NEW t \in Threads, NEW l, l \notin Holding, pc[t] \notin Holding,
         pc' = [pc EXCEPT ![t] = l], UNCHANGED <<elements, task>>
  PROVE  ElementOwnership'
BY DEF Inv, TypeOK, ElementOwnership, Holding

(* Taking a mutex for a scan.                                              *)
LEMMA ScanInv ==
  ASSUME Inv, NEW t \in Threads, Scan(t)
  PROVE  Inv'
<1> DEFINE s == StageOf(t)
<1>0. s \in Stage /\ MutexFree(s)
  BY StageOfType DEF Scan
<1>1. TypeOK'
  BY <1>0, SMTT(30) DEF Inv, TypeOK, Scan, tableVars, clientVars
<1>2. ScannerHoldsMutex'
  BY <1>0, StageOfType
     DEF Inv, TypeOK, ScannerHoldsMutex, Scan, MutexFree, PollPoint
<1>3. ElementOwnership'
  BY ScanOwnership DEF Scan, PollPoint, Holding
<1> QED BY <1>1, <1>2, <1>3 DEF Inv

(* A scan's candidate is an element of the heap.                           *)
LEMMA CandidateType ==
  ASSUME Inv, NEW t \in Threads, pc[t] \in {"candidate", "rescan"}
  PROVE  /\ mutex[StageOf(t)] = t
         /\ pipes[StageOf(t)][cursor[t]] \in Elements
<1>1. StageOf(t) \in Stage
  BY StageOfType
<1>2. pipes[StageOf(t)] \in Seq(Elements)
  BY <1>1 DEF Inv, TypeOK
<1>3. mutex[StageOf(t)] = t /\ cursor[t] \in DOMAIN pipes[StageOf(t)]
  BY DEF Inv, ScannerHoldsMutex
<1> QED BY <1>2, <1>3

(* Locking the candidate.                                                  *)
LEMMA LockElementInv ==
  ASSUME Inv, NEW t \in Threads, LockElement(t)
  PROVE  Inv'
<1> DEFINE s == StageOf(t)
           e == pipes[s][cursor[t]]
<1>0. s \in Stage /\ mutex[s] = t /\ e \in Elements
  BY CandidateType, StageOfType DEF LockElement
<1>1. elements[e] \in ElementType /\ ~elements[e].locked
  BY <1>0 DEF Inv, TypeOK, LockElement
<1>2. LockedBy(elements[e], t) \in ElementType
  BY <1>1, ElementOperations
<1> HIDE DEF e
<1>3. TypeOK'
  <2>1. /\ elements' = [elements EXCEPT ![e] = LockedBy(@, t)]
        /\ task' = [task EXCEPT ![t] = e]
        /\ cursor' = [cursor EXCEPT ![t] = 1]
        /\ mutex' = [mutex EXCEPT ![s] = NoThread]
        /\ pc' = [pc EXCEPT ![t] = "work"]
        /\ UNCHANGED <<pipes, outcome, tableVars, phase,
                       fdTable, backlog, inbox, clientVars, got>>
    BY DEF LockElement, e
  <2> QED BY <1>0, <1>2, <2>1 DEF Inv, TypeOK, tableVars, clientVars
<1>4. ScannerHoldsMutex'
  BY <1>0, StageOfType
     DEF Inv, TypeOK, ScannerHoldsMutex, LockElement
<1>5. ElementOwnership'
  <2>1. \A u \in Threads : task[u] # e
    BY <1>0, <1>1 DEF Inv, ElementOwnership
  <2>2. /\ elements' = [elements EXCEPT ![e] = LockedBy(@, t)]
        /\ task' = [task EXCEPT ![t] = e]
        /\ pc' = [pc EXCEPT ![t] = "work"]
    BY DEF LockElement, e
  <2>3. elements'[e] = LockedBy(elements[e], t)
    BY <1>0, <2>2 DEF Inv, TypeOK
  <2>4. elements'[e].locked /\ elements'[e].owner = t
    BY <1>1, <2>3, ElementOperations
  <2> QED BY <1>0, <2>1, <2>2, <2>4 DEF Inv, TypeOK, ElementOwnership
<1> QED BY <1>3, <1>4, <1>5 DEF Inv

(* The candidate is taken: the scan goes on, or ends and frees the mutex.  *)
LEMMA LockElementFailsInv ==
  ASSUME Inv, NEW t \in Threads, LockElementFails(t)
  PROVE  Inv'
<1>1. TypeOK'
  BY DEF Inv, TypeOK, LockElementFails, tableVars, clientVars
<1>2. ScannerHoldsMutex'
  BY StageOfType DEF Inv, TypeOK, ScannerHoldsMutex, LockElementFails
<1>3. ElementOwnership'
  BY ScanOwnership DEF LockElementFails, Holding
<1> QED BY <1>1, <1>2, <1>3 DEF Inv

(* A scan that has lost its candidate moves on to another one.             *)
LEMMA RescanFindsInv ==
  ASSUME Inv, NEW t \in Threads, RescanFinds(t)
  PROVE  Inv'
<1>0. /\ StageOf(t) \in Stage
      /\ pipes[StageOf(t)] \in Seq(Elements)
      /\ cursor[t] \in Nat \ {0}
  BY StageOfType DEF Inv, TypeOK
<1>1. TypeOK'
  <2>1. PICK i \in (cursor[t] + 1)..Len(pipes[StageOf(t)]) :
          cursor' = [cursor EXCEPT ![t] = i]
    BY DEF RescanFinds
  <2>2. i \in Nat \ {0}
    BY <1>0
  <2>3. cursor' \in [Threads -> Nat \ {0}]
    BY <2>1, <2>2 DEF Inv, TypeOK
  <2>4. /\ pc' = [pc EXCEPT ![t] = "candidate"]
        /\ UNCHANGED <<elements, pipes, mutex, task, outcome, table, pending, phase,
                       fdTable, backlog, inbox, client, sent, got>>
    BY DEF RescanFinds, tableVars, clientVars
  <2> QED
    BY <2>3, <2>4 DEF Inv, TypeOK
<1>2. ScannerHoldsMutex'
  BY <1>0, StageOfType DEF Inv, TypeOK, ScannerHoldsMutex, RescanFinds
<1>3. ElementOwnership'
  BY ScanOwnership DEF RescanFinds, Holding
<1> QED BY <1>1, <1>2, <1>3 DEF Inv

(* A scan that finds nothing more gives the mutex back.                    *)
LEMMA RescanEndsInv ==
  ASSUME Inv, NEW t \in Threads, RescanEnds(t)
  PROVE  Inv'
<1>0. StageOf(t) \in Stage /\ mutex[StageOf(t)] = t
  BY CandidateType, StageOfType DEF RescanEnds
<1>1. TypeOK'
  BY <1>0, SMTT(30) DEF Inv, TypeOK, RescanEnds, LoopHead, tableVars, clientVars
<1>2. ScannerHoldsMutex'
  BY <1>0, StageOfType
     DEF Inv, TypeOK, ScannerHoldsMutex, RescanEnds, LoopHead
<1>3. ElementOwnership'
  BY ScanOwnership DEF RescanEnds, LoopHead, Holding
<1> QED BY <1>1, <1>2, <1>3 DEF Inv
-----------------------------------------------------------------------------
(* Every other step leaves the scans and the locks of held elements alone: *)
(* the contents of a pipe change only while nobody scans it.               *)
LocksKept ==
  \A t \in Threads : task[t] # 0 =>
    /\ elements'[task[t]].locked = elements[task[t]].locked
    /\ elements'[task[t]].owner = elements[task[t]].owner

PipesKept ==
  \A s \in Stage : pipes'[s] = pipes[s] \/ mutex[s] = NoThread

ScansKept == \A t \in Threads : pc'[t] \in Scanning <=> pc[t] \in Scanning
HoldsKept == \A t \in Threads : pc'[t] \in Holding <=> pc[t] \in Holding
PhasesKept == ScansKept /\ HoldsKept

(* Steps that leave mutexes and scans alone keep the exclusion.            *)
LEMMA FrameScanner ==
  ASSUME Inv, PipesKept, ScansKept, UNCHANGED <<mutex, cursor>>
  PROVE  ScannerHoldsMutex'
<1> SUFFICES ASSUME NEW t \in Threads
             PROVE  /\ pc'[t] \in Scanning <=> mutex[StageOf(t)] = t
                    /\ pc'[t] \in Scanning =>
                         cursor[t] \in DOMAIN pipes'[StageOf(t)]
  BY DEF ScannerHoldsMutex, Scanning
<1>1. /\ pc[t] \in Scanning <=> mutex[StageOf(t)] = t
      /\ pc[t] \in Scanning => cursor[t] \in DOMAIN pipes[StageOf(t)]
  BY DEF Inv, ScannerHoldsMutex, Scanning
<1>2. StageOf(t) \in Stage /\ t # NoThread
  BY StageOfType
<1>3. \/ pipes'[StageOf(t)] = pipes[StageOf(t)]
      \/ mutex[StageOf(t)] = NoThread
  BY <1>2 DEF PipesKept
<1>4. pc'[t] \in Scanning <=> pc[t] \in Scanning
  BY DEF ScansKept
<1> QED BY <1>1, <1>2, <1>3, <1>4

(* Steps that leave holders and locks alone keep the ownership.            *)
LEMMA FrameOwnership ==
  ASSUME Inv, LocksKept, HoldsKept, UNCHANGED task
  PROVE  ElementOwnership'
BY DEF Inv, TypeOK, ElementOwnership, LocksKept, HoldsKept, Holding

(* Both together: what a step of the kernel or a client needs.             *)
LEMMA Frame ==
  ASSUME Inv, TypeOK', LocksKept, PipesKept, PhasesKept,
         UNCHANGED <<mutex, cursor, task>>
  PROVE  Inv'
BY FrameScanner, FrameOwnership DEF Inv, PhasesKept
-----------------------------------------------------------------------------
(* A worker's task is an element of the heap it holds the lock of.         *)
LEMMA TaskType ==
  ASSUME Inv, NEW t \in Threads, pc[t] \in Holding
  PROVE  /\ task[t] \in Elements
         /\ elements[task[t]] \in ElementType
         /\ elements[task[t]].owner = t
<1>1. task[t] # 0 /\ elements[task[t]].owner = t
  BY DEF Inv, ElementOwnership, Holding
<1>2. task[t] \in Elements \cup {0}
  BY DEF Inv, TypeOK
<1>3. elements \in [Elements -> ElementType]
  BY DEF Inv, TypeOK
<1> QED BY <1>1, <1>2, <1>3

(* An element changed in place, its lock untouched.                        *)
LEMMA InPlaceType ==
  ASSUME Inv, NEW e \in Elements, NEW el \in ElementType,
         \/ elements' = [elements EXCEPT ![e] = el]
         \/ elements' = elements
  PROVE  elements' \in [Elements -> ElementType]
<1>1. elements \in [Elements -> ElementType]
  BY DEF Inv, TypeOK
<1> QED BY <1>1

(* Work on an element in hand leaves every lock and owner as it was.       *)
LEMMA InPlaceLocks ==
  ASSUME Inv, NEW e \in Elements, NEW el,
         el.locked = elements[e].locked, el.owner = elements[e].owner,
         elements' = [elements EXCEPT ![e] = el]
  PROVE  LocksKept
<1>1. elements \in [Elements -> ElementType]
  BY DEF Inv, TypeOK
<1> QED BY <1>1 DEF LocksKept

(* The steps from work to push or finish.                                  *)
LEMMA WorkPhases ==
  ASSUME Inv, NEW t \in Threads, NEW l \in Holding, pc[t] \in Holding,
         pc' = [pc EXCEPT ![t] = l]
  PROVE  PhasesKept
BY DEF Inv, TypeOK, PhasesKept, ScansKept, HoldsKept, Holding, Scanning

(* c_network_reader_service::service with a request that was read.         *)
LEMMA ReadRequestInv ==
  ASSUME Inv, NEW t \in Workers, ReadRequest(t)
  PROVE  Inv'
<1> DEFINE e == task[t]
           c == SocketOf(e)
<1>0. t \in Threads /\ pc[t] \in Holding
  BY DEF ReadRequest, Threads, Holding
<1>1. e \in Elements /\ elements[e] \in ElementType
  BY <1>0, TaskType
<1>2. c \in Conns
  BY SocketOfType DEF ReadRequest, HasWholeRequest, Inv
<1>3. inbox[c] \in Seq(Request) /\ Len(inbox[c]) = 1
  BY <1>2 DEF Inv, TypeOK, ReadRequest, HasWholeRequest
<1>4. inbox[c][1] \in Request
  BY <1>3
<1> DEFINE el == [elements[e] EXCEPT !.request = inbox[c][1]]
<1>5. /\ el \in ElementType
      /\ el.locked = elements[e].locked
      /\ el.owner = elements[e].owner
  BY <1>1, <1>4 DEF ElementType
<1>6. \/ elements' = [elements EXCEPT ![e] = el]
      \/ elements' = elements
  BY DEF ReadRequest
<1>7. /\ inbox' = [inbox EXCEPT ![c] = <<>>]
      /\ \/ outcome' = [outcome EXCEPT ![t] = "ok"]
         \/ outcome' = [outcome EXCEPT ![t] = "drop"]
      /\ \/ pc' = [pc EXCEPT ![t] = "push"]
         \/ pc' = [pc EXCEPT ![t] = "finish"]
      /\ UNCHANGED <<pipes, mutex, cursor, task, tableVars, phase,
                     fdTable, backlog, clientVars, got>>
  BY DEF ReadRequest
<1> HIDE DEF e, c, el
<1>8. elements' \in [Elements -> ElementType]
  BY <1>1, <1>5, <1>6, InPlaceType
<1>9. TypeOK'
  <2>1. inbox' \in [Conns -> Seq(Request)]
    BY <1>2, <1>7 DEF Inv, TypeOK
  <2> QED BY <1>0, <1>7, <1>8, <2>1 DEF Inv, TypeOK, tableVars, clientVars
<1>10. LocksKept
  BY <1>1, <1>5, <1>6, InPlaceLocks DEF LocksKept, e
<1>11. PhasesKept
  BY <1>0, <1>7, WorkPhases DEF Holding
<1> QED BY <1>7, <1>9, <1>10, <1>11, Frame DEF PipesKept

(* Asking for the connection to be closed, and pushing next.               *)
LEMMA CloseRequiredInv ==
  ASSUME Inv, NEW t \in Threads, pc[t] = "work",
         elements' = [elements EXCEPT ![task[t]] = MarkCloseRequired(@)],
         outcome' = [outcome EXCEPT ![t] = "notOk"],
         pc' = [pc EXCEPT ![t] = "push"],
         inbox' \in [Conns -> Seq(Request)],
         UNCHANGED <<pipes, mutex, cursor, task, tableVars, phase,
                     fdTable, backlog, clientVars, got>>
  PROVE  Inv'
<1> DEFINE e == task[t]
           el == MarkCloseRequired(elements[e])
<1>1. e \in Elements /\ elements[e] \in ElementType
  BY TaskType DEF Holding
<1>2. /\ el \in ElementType
      /\ el.locked = elements[e].locked
      /\ el.owner = elements[e].owner
  BY <1>1, ElementOperations
<1>3. elements' = [elements EXCEPT ![e] = el]
  OBVIOUS
<1> HIDE DEF e, el
<1>4. TypeOK'
  <2>1. elements' \in [Elements -> ElementType]
    BY <1>1, <1>2, <1>3, InPlaceType
  <2> QED BY <2>1 DEF Inv, TypeOK, tableVars, clientVars
<1>5. LocksKept
  BY <1>1, <1>2, <1>3, InPlaceLocks
<1>6. PhasesKept
  BY WorkPhases DEF Holding
<1> QED BY <1>4, <1>5, <1>6, Frame DEF PipesKept

(* A request that could not be read.                                       *)
LEMMA ReadFailsInv ==
  ASSUME Inv, NEW t \in Workers, ReadFails(t)
  PROVE  Inv'
<1>1. inbox' \in [Conns -> Seq(Request)]
  BY DEF Inv, TypeOK, ReadFails
<1> QED BY <1>1, CloseRequiredInv DEF ReadFails, Threads

(* A request the datamodel refuses.                                        *)
LEMMA ProcessFailsInv ==
  ASSUME Inv, NEW t \in Workers, ProcessFails(t)
  PROVE  Inv'
<1>1. inbox' \in [Conns -> Seq(Request)]
  BY DEF Inv, TypeOK, ProcessFails
<1> QED BY <1>1, CloseRequiredInv DEF ProcessFails, Threads

(* A response that could not be sent.                                      *)
LEMMA WriteFailsInv ==
  ASSUME Inv, NEW t \in Workers, WriteFails(t)
  PROVE  Inv'
<1>1. inbox' \in [Conns -> Seq(Request)]
  BY DEF Inv, TypeOK, WriteFails
<1> QED BY <1>1, CloseRequiredInv DEF WriteFails, Threads

(* c_datamodel_service::service with a response that was set.              *)
LEMMA ProcessRequestInv ==
  ASSUME Inv, NEW t \in Workers, ProcessRequest(t)
  PROVE  Inv'
<1> DEFINE e == task[t]
           el == [elements[e] EXCEPT !.response = elements[e].request]
<1>0. t \in Threads /\ pc[t] \in Holding
  BY DEF ProcessRequest, Threads, Holding
<1>1. e \in Elements /\ elements[e] \in ElementType
  BY <1>0, TaskType
<1>2. /\ el \in ElementType
      /\ el.locked = elements[e].locked
      /\ el.owner = elements[e].owner
  BY <1>1 DEF ElementType
<1>3. \/ elements' = [elements EXCEPT ![e] = el]
      \/ elements' = elements
  BY DEF ProcessRequest
<1>4. /\ \/ outcome' = [outcome EXCEPT ![t] = "ok"]
         \/ outcome' = [outcome EXCEPT ![t] = "drop"]
      /\ \/ pc' = [pc EXCEPT ![t] = "push"]
         \/ pc' = [pc EXCEPT ![t] = "finish"]
      /\ UNCHANGED <<pipes, mutex, cursor, task, tableVars, phase,
                     fdTable, backlog, inbox, clientVars, got>>
  BY DEF ProcessRequest
<1> HIDE DEF e, el
<1>5. elements' \in [Elements -> ElementType]
  BY <1>1, <1>2, <1>3, InPlaceType
<1>6. TypeOK'
  BY <1>0, <1>4, <1>5 DEF Inv, TypeOK, tableVars, clientVars
<1>7. LocksKept
  BY <1>1, <1>2, <1>3, InPlaceLocks DEF LocksKept
<1>8. PhasesKept
  BY <1>0, <1>4, WorkPhases DEF Holding
<1> QED BY <1>4, <1>6, <1>7, <1>8, Frame DEF PipesKept

(* c_network_writer_service::service with a response that was sent.        *)
LEMMA WriteResponseInv ==
  ASSUME Inv, NEW t \in Workers, WriteResponse(t)
  PROVE  Inv'
<1> DEFINE e == task[t]
           c == SocketOf(e)
<1>0. t \in Threads /\ pc[t] \in Holding
  BY DEF WriteResponse, Threads, Holding
<1>1. e \in Elements /\ elements[e] \in ElementType
  BY <1>0, TaskType
<1>2. c \in Conns
  BY SocketOfType DEF WriteResponse, Inv
<1>3. elements[e].response \in {NoText} \cup Request
  BY <1>1 DEF ElementType
<1>4. got[c] \in Seq({NoText} \cup Request)
  BY <1>2 DEF Inv, TypeOK
<1>5. Append(got[c], elements[e].response) \in Seq({NoText} \cup Request)
  BY <1>3, <1>4
<1>6. \/ got' = [got EXCEPT ![c] = Append(@, elements[e].response)]
      \/ got' = got
  BY DEF WriteResponse
<1>7. /\ outcome' = [outcome EXCEPT ![t] = "ok"]
      /\ pc' = [pc EXCEPT ![t] = "push"]
      /\ UNCHANGED <<elements, pipes, mutex, cursor, task, tableVars, phase,
                     fdTable, backlog, inbox, clientVars>>
  BY DEF WriteResponse
<1> HIDE DEF e, c
<1>8. got' \in [Conns -> Seq({NoText} \cup Request)]
  BY <1>2, <1>5, <1>6 DEF Inv, TypeOK
<1>9. TypeOK'
  BY <1>0, <1>7, <1>8 DEF Inv, TypeOK, tableVars, clientVars
<1>10. LocksKept
  BY <1>7 DEF LocksKept
<1>11. PhasesKept
  BY <1>0, <1>7, WorkPhases DEF Holding
<1> QED BY <1>7, <1>9, <1>10, <1>11, Frame DEF PipesKept

(* Pushing the task on the next pipe: nobody scans that pipe meanwhile.    *)
LEMMA PushInv ==
  ASSUME Inv, NEW t \in Workers, Push(t)
  PROVE  Inv'
<1> DEFINE s == TargetPipe(t)
           e == task[t]
<1>0. t \in Threads /\ pc[t] \in Holding
  BY DEF Push, Threads, Holding
<1>1. e \in Elements /\ elements[e].owner = t
  BY <1>0, TaskType
<1>2. s \in Stage
  BY TargetPipeType
<1>3. mutex[s] = NoThread /\ pipes' = [pipes EXCEPT ![s] = Append(@, e)]
  BY <1>1 DEF Push, MutexFree
<1>4. outcome' = outcome
  BY <1>1 DEF Push
<1>5. /\ pc' = [pc EXCEPT ![t] = "finish"]
      /\ UNCHANGED <<elements, mutex, cursor, task, tableVars, phase,
                     fdTable, backlog, inbox, clientVars, got>>
  BY DEF Push
<1> HIDE DEF e, s
<1>6. pipes' \in [Stage -> Seq(Elements)]
  <2>1. pipes \in [Stage -> Seq(Elements)]
    BY DEF Inv, TypeOK
  <2>2. Append(pipes[s], e) \in Seq(Elements)
    BY <1>1, <1>2, <2>1
  <2> QED BY <1>2, <1>3, <2>1, <2>2
<1>7. TypeOK'
  BY <1>0, <1>4, <1>5, <1>6 DEF Inv, TypeOK, tableVars, clientVars
<1>8. PipesKept
  BY <1>2, <1>3 DEF PipesKept, Inv, TypeOK
<1>9. LocksKept
  BY <1>5 DEF LocksKept
<1>10. PhasesKept
  BY <1>0, <1>5, WorkPhases DEF Holding
<1> QED BY <1>5, <1>7, <1>8, <1>9, <1>10, Frame

(* Letting go of a task: no other thread's task is the same element.       *)
LEMMA ReleaseOwnership ==
  ASSUME Inv, NEW t \in Threads, pc[t] \in Holding, NEW el,
         NEW l, l \notin Holding,
         elements' = [elements EXCEPT ![task[t]] = el],
         task' = [task EXCEPT ![t] = 0],
         pc' = [pc EXCEPT ![t] = l]
  PROVE  ElementOwnership'
<1>1. /\ task \in [Threads -> Elements \cup {0}]
      /\ DOMAIN pc = Threads
      /\ DOMAIN elements = Elements
  BY DEF Inv, TypeOK
<1>2. task'[t] = 0 /\ pc'[t] = l
  BY <1>1
<1>3. \A u \in Threads \ {t} : /\ task'[u] = task[u]
                               /\ pc'[u] = pc[u]
                               /\ task[u] # task[t]
  BY <1>1 DEF Inv, ElementOwnership, Holding
<1>4. \A u \in Threads \ {t} :
        task[u] # 0 => elements'[task[u]] = elements[task[u]]
  BY <1>1, <1>3
<1> QED BY <1>2, <1>3, <1>4 DEF Inv, ElementOwnership, Holding

(* The marks and the unlocking keep an element well typed.                 *)
LEMMA ReleasedType ==
  ASSUME NEW el \in ElementType, NEW D \in SUBSET Stage,
         NEW F \in SUBSET Stage, NEW unlocks
  PROVE  /\ Released(MarkFailed(MarkDone(el, D), F), unlocks) \in ElementType
         /\ Released(MarkDone(el, D), unlocks) \in ElementType
<1>1. MarkDone(el, D) \in ElementType
  BY ElementOperations
<1>2. MarkFailed(MarkDone(el, D), F) \in ElementType
  BY <1>1, ElementOperations
<1> QED BY <1>1, <1>2, ElementOperations DEF Released

(* Marking and unlocking: the only step of a worker that frees an element. *)
LEMMA FinishInv ==
  ASSUME Inv, NEW t \in Workers, Finish(t)
  PROVE  Inv'
<1> DEFINE e == task[t]
<1>0. t \in Threads /\ pc[t] \in Holding
  BY DEF Finish, Threads, Holding
<1>1. e \in Elements /\ elements[e] \in ElementType
  BY <1>0, TaskType
<1>2. Published(t) \in SUBSET Stage /\ {StageOf(t)} \in SUBSET Stage
  BY <1>0, StageOfType DEF Published, Stage
<1>3. PICK fails \in AutocallRuns, unlocks \in AutocallRuns :
        LET failures == IF fails /\ outcome[t] # "ok" THEN {StageOf(t)} ELSE {}
        IN  elements' = [elements EXCEPT ![e] =
              Released(MarkFailed(MarkDone(@, Published(t)), failures), unlocks)]
  BY DEF Finish
<1> DEFINE F == IF fails /\ outcome[t] # "ok" THEN {StageOf(t)} ELSE {}
           el == Released(MarkFailed(MarkDone(elements[e], Published(t)), F),
                          unlocks)
<1>4. F \in SUBSET Stage
  BY <1>2
<1>5. el \in ElementType
  <2> HIDE DEF F
  <2> QED BY <1>1, <1>2, <1>4, ReleasedType
<1>6. elements' = [elements EXCEPT ![e] = el]
  BY <1>3
<1> HIDE DEF el
<1>7. /\ task' = [task EXCEPT ![t] = 0]
      /\ outcome' = [outcome EXCEPT ![t] = "none"]
      /\ pc' = [pc EXCEPT ![t] = "idle"]
      /\ UNCHANGED <<pipes, mutex, cursor, tableVars, phase,
                     fdTable, backlog, inbox, clientVars, got>>
  BY DEF Finish
<1>8. ElementOwnership'
  BY <1>0, <1>6, <1>7, ReleaseOwnership DEF Holding
<1> HIDE DEF e
<1>9. TypeOK'
  <2>1. elements' \in [Elements -> ElementType]
    BY <1>1, <1>5, <1>6, InPlaceType
  <2> QED BY <1>0, <1>7, <2>1 DEF Inv, TypeOK, tableVars, clientVars
<1>10. ScansKept
  BY <1>0, <1>7 DEF Inv, TypeOK, ScansKept, Holding, Scanning
<1>11. ScannerHoldsMutex'
  BY <1>7, <1>10, FrameScanner DEF PipesKept
<1> QED BY <1>8, <1>9, <1>11 DEF Inv
-----------------------------------------------------------------------------
(* The listener.  Its loop outside a scan holds no element and no mutex.   *)
TableType == [1..MaxClients -> [fd : {0} \cup Fds, locked : BOOLEAN]]

(* Where a thread's loop begins it neither scans nor holds anything.       *)
LEMMA LoopPhases ==
  ASSUME Inv, NEW t \in Threads, NEW l,
         pc[t] \notin Holding \cup Scanning, l \notin Holding \cup Scanning,
         pc' = [pc EXCEPT ![t] = l]
  PROVE  PhasesKept
BY DEF Inv, TypeOK, PhasesKept, ScansKept, HoldsKept

(* Writing a slot, inside the table or not.                                *)
LEMMA SlotWritten ==
  ASSUME NEW tbl \in TableType, NEW i,
         NEW slot, i \in 1..MaxClients =>
                     slot \in [fd : {0} \cup Fds, locked : BOOLEAN]
  PROVE  [tbl EXCEPT ![i] = slot] \in TableType
<1> DEFINE T == [fd : {0} \cup Fds, locked : BOOLEAN]
<1>1. tbl \in [1..MaxClients -> T] /\ (i \in 1..MaxClients => slot \in T)
  BY DEF TableType
<1>2. TableType = [1..MaxClients -> T]
  BY DEF TableType
<1> HIDE DEF T
<1> QED BY <1>1, <1>2

(* The operations on the connection table keep its type.                   *)
LEMMA TableReleased ==
  ASSUME NEW tbl \in TableType, NEW f
  PROVE  /\ RemoveConnection(tbl, f) \in TableType
         /\ UnlockConnection(tbl, f) \in TableType
<1> DEFINE k == ServedSlot(tbl, f)
           unlocked == [tbl[k] EXCEPT !.locked = FALSE]
<1>1. /\ Vacant \in [fd : {0} \cup Fds, locked : BOOLEAN]
      /\ k \in 1..MaxClients =>
           unlocked \in [fd : {0} \cup Fds, locked : BOOLEAN]
  <2> HIDE DEF k
  <2> QED BY DEF Vacant, TableType
<1>2. RemoveConnection(tbl, f) \in {tbl, [tbl EXCEPT ![k] = Vacant]}
  BY DEF RemoveConnection
<1>3. UnlockConnection(tbl, f) \in {tbl, [tbl EXCEPT ![k] = unlocked]}
  BY DEF UnlockConnection
<1> HIDE DEF k, unlocked
<1>4. RemoveConnection(tbl, f) \in TableType
  BY <1>1, <1>2, SlotWritten
<1>5. UnlockConnection(tbl, f) \in TableType
  BY <1>1, <1>3, SlotWritten
<1> QED BY <1>4, <1>5

(* Adding a connection keeps the table's type.                             *)
LEMMA TableAdded ==
  ASSUME NEW tbl \in TableType, NEW f \in Fds
  PROVE  AddConnection(tbl, f) \in TableType
<1>1. [fd |-> f, locked |-> FALSE] \in [fd : {0} \cup Fds, locked : BOOLEAN]
  OBVIOUS
<1> QED BY <1>1, SlotWritten DEF AddConnection

(* What select leaves behind: a typed table, typed pending descriptors.    *)
LEMMA QueueActiveType ==
  ASSUME Inv, NEW tbl \in TableType, NEW ready, QueueActive(tbl, ready)
  PROVE  /\ table' \in TableType
         /\ pending' \in Seq(Fds)
         /\ \E l \in {"update", "publish"} : pc' = [pc EXCEPT ![Listener] = l]
<1> DEFINE active == ActiveSlots(tbl, ready)
<1>1. table' \in TableType
  <2>1. table' = LockActive(tbl, ready)
    BY DEF QueueActive
  <2>2. LockActive(tbl, ready) \in TableType
    BY DEF LockActive, TableType
  <2> QED BY <2>1, <2>2
<1>2. active \subseteq 1..MaxClients
  BY DEF ActiveSlots, TableType
<1>3. Cardinality(active) \in Nat
  <2>1. IsFiniteSet(1..MaxClients)
    BY FS_Interval
  <2>2. active \in SUBSET (1..MaxClients)
    BY <1>2
  <2> HIDE DEF active
  <2>3. IsFiniteSet(active)
    BY <2>1, <2>2, FS_Subset
  <2> QED BY <2>3, FS_CardinalityType
<1>4. \A i \in active : tbl[i].fd \in Fds
  BY DEF ActiveSlots, IsActive, TableType
<1>5. PICK order \in Ascending(active) :
        pending' = pending \o [n \in DOMAIN order |-> tbl[order[n]].fd]
  BY DEF QueueActive
<1> DEFINE fds == [n \in DOMAIN order |-> tbl[order[n]].fd]
<1>6. order \in [1..Cardinality(active) -> active]
  BY <1>5 DEF Ascending
<1> HIDE DEF active
<1>7. fds \in [1..Cardinality(active) -> Fds]
  BY <1>4, <1>6
<1>8. fds \in Seq(Fds)
  BY <1>3, <1>7
<1> HIDE DEF fds
<1>9. pending \in Seq(Fds)
  BY DEF Inv, TypeOK
<1>10. pending' = pending \o fds
  BY <1>5 DEF fds
<1>11. pending' \in Seq(Fds)
  BY <1>8, <1>9, <1>10, ConcatProperties
<1>12. \E l \in {"update", "publish"} : pc' = [pc EXCEPT ![Listener] = l]
  BY DEF QueueActive
<1> QED BY <1>1, <1>11, <1>12

(* One turn of select, whichever way it ends.                              *)
LEMMA SelectTurn ==
  ASSUME Inv, NEW tbl \in TableType, NEW ready, QueueActive(tbl, ready),
         AtSelect, fdTable' \in [Fds -> Conns \cup {NoConn}],
         backlog' \in Seq(Conns),
         UNCHANGED <<elements, pipes, mutex, cursor, task, outcome, phase,
                     inbox, clientVars, got>>
  PROVE  Inv'
<1>1. /\ table' \in TableType
      /\ pending' \in Seq(Fds)
      /\ \E l \in {"update", "publish"} : pc' = [pc EXCEPT ![Listener] = l]
  BY QueueActiveType
<1>2. PICK l \in {"update", "publish"} : pc' = [pc EXCEPT ![Listener] = l]
  BY <1>1
<1>3. Listener \in Threads
  BY DEF Threads
<1>4. TypeOK'
  BY <1>1, <1>2, <1>3 DEF Inv, TypeOK, TableType, clientVars
<1>5. PhasesKept
  BY <1>2, <1>3, LoopPhases DEF AtSelect, Holding, Scanning
<1> QED BY <1>4, <1>5, Frame DEF LocksKept, PipesKept

(* The table's part of the type invariant.                                 *)
LEMMA TableIsTyped == Inv => table \in TableType
BY DEF Inv, TypeOK, TableType

(* The listener's select returns.                                          *)
LEMMA SelectInv == ASSUME Inv, Select PROVE Inv'
<1>1. /\ fdTable' \in [Fds -> Conns \cup {NoConn}]
      /\ backlog' \in Seq(Conns)
  BY DEF Inv, TypeOK, Select
<1> QED BY <1>1, SelectTurn, TableIsTyped DEF Select

(* The listener's select fails.                                            *)
LEMMA SelectFailsInv == ASSUME Inv, SelectFails PROVE Inv'
<1>1. /\ fdTable' \in [Fds -> Conns \cup {NoConn}]
      /\ backlog' \in Seq(Conns)
  BY DEF Inv, TypeOK, SelectFails
<1> QED BY <1>1, SelectTurn, TableIsTyped DEF SelectFails

(* A connection the table has no slot for is closed.                       *)
LEMMA TurnAwayInv == ASSUME Inv, TurnAway PROVE Inv'
<1>1. backlog \in Seq(Conns) /\ backlog # <<>> /\ backlog' = Tail(backlog)
  BY DEF Inv, TypeOK, TurnAway
<1>2. /\ fdTable' \in [Fds -> Conns \cup {NoConn}]
      /\ backlog' \in Seq(Conns)
  BY <1>1 DEF Inv, TypeOK, TurnAway
<1> QED BY <1>2, SelectTurn, TableIsTyped DEF TurnAway

(* A connection is accepted and gets a slot.                               *)
LEMMA AcceptInv == ASSUME Inv, Accept PROVE Inv'
<1>1. backlog \in Seq(Conns) /\ backlog # <<>> /\ backlog' = Tail(backlog)
  BY DEF Inv, TypeOK, Accept
<1>2. backlog' \in Seq(Conns) /\ Head(backlog) \in Conns
  BY <1>1
<1>3. PICK f \in FreeFds :
        /\ fdTable' = [fdTable EXCEPT ![f] = Head(backlog)]
        /\ QueueActive(AddConnection(table, f), Ready)
  BY DEF Accept
<1>4. f \in Fds
  BY DEF FreeFds
<1>5. fdTable' \in [Fds -> Conns \cup {NoConn}]
  BY <1>2, <1>3 DEF Inv, TypeOK
<1>6. AddConnection(table, f) \in TableType
  BY <1>4, TableIsTyped, TableAdded
<1> QED BY <1>2, <1>3, <1>5, <1>6, SelectTurn DEF Accept

(* Steps of the listener's loop that move its control alone.               *)
LEMMA LoopTurn ==
  ASSUME Inv, NEW t \in Threads,
         NEW l \in {"idle", "select", "publish", "update", "drain", "stopped"},
         pc[t] \notin Holding \cup Scanning,
         pc' = [pc EXCEPT ![t] = l],
         UNCHANGED <<elements, pipes, mutex, cursor, task, outcome, tableVars,
                     phase, fdTable, backlog, inbox, clientVars, got>>
  PROVE  Inv'
<1>1. TypeOK'
  BY DEF Inv, TypeOK, tableVars, clientVars
<1>2. PhasesKept
  BY LoopPhases DEF Holding, Scanning
<1> QED BY <1>1, <1>2, Frame DEF LocksKept, PipesKept

(* The wait for the request pipe's mutex expires.                          *)
LEMMA PublishExpiresInv == ASSUME Inv, PublishExpires PROVE Inv'
BY LoopTurn DEF PublishExpires, Holding, Scanning, Threads

(* The listener turns to the completed pipe.                               *)
LEMMA UpdateInv == ASSUME Inv, Update PROVE Inv'
BY LoopTurn DEF Update, Holding, Scanning, Threads

(* The listener has emptied the completed pipe.                            *)
LEMMA DrainEndsInv == ASSUME Inv, DrainEnds PROVE Inv'
BY LoopTurn DEF DrainEnds, Holding, Scanning, Threads

(* A thread that sees the exit flag at the head of its loop ends.          *)
LEMMA StopThreadInv ==
  ASSUME Inv, NEW t \in Threads, StopThread(t)
  PROVE  Inv'
BY LoopTurn DEF StopThread, LoopHead, Holding, Scanning

(* New elements take addresses nobody refers to, tasks among them.         *)
LEMMA PublishConnectionsInv == ASSUME Inv, PublishConnections PROVE Inv'
<1> DEFINE free == Elements \ Referenced(pipes, task)
<1>1. PICK q \in [DOMAIN pending -> free] :
        /\ elements' = [e \in Elements |->
             IF \E i \in DOMAIN q : q[i] = e
             THEN LET fd == pending[CHOOSE i \in DOMAIN q : q[i] = e]
                  IN  NewElement(fd, fdTable[fd], Unowned)
             ELSE elements[e]]
        /\ pipes' = [pipes EXCEPT !["request"] = @ \o q]
  BY DEF PublishConnections
<1>2. /\ pc[Listener] = "publish" /\ mutex["request"] = NoThread
      /\ pending' = <<>>
      /\ pc' = [pc EXCEPT ![Listener] = "update"]
      /\ UNCHANGED <<mutex, cursor, task, outcome, table, phase,
                     fdTable, backlog, inbox, clientVars, got>>
  BY DEF PublishConnections, MutexFree
<1>3. Listener \in Threads /\ "request" \in Stage
  BY DEF Threads, Stage
<1>4. pending \in Seq(Fds)
  BY DEF Inv, TypeOK
<1>5. q \in Seq(Elements)
  <2>1. q \in [1..Len(pending) -> Elements]
    BY <1>4
  <2> QED BY <1>4, <2>1
<1>6. elements' \in [Elements -> ElementType]
  <2> SUFFICES ASSUME NEW e \in Elements PROVE elements'[e] \in ElementType
    BY <1>1
  <2> DEFINE k == CHOOSE i \in DOMAIN q : q[i] = e
  <2>1. CASE \E i \in DOMAIN q : q[i] = e
    <3>1. k \in DOMAIN pending
      BY <2>1
    <3> HIDE DEF k
    <3>2. pending[k] \in Fds
      BY <1>4, <3>1
    <3>3. pending[k] \in Nat /\ fdTable[pending[k]] \in Conns \cup {NoConn}
      BY <3>2 DEF Inv, TypeOK
    <3>4. elements'[e] = NewElement(pending[k], fdTable[pending[k]], Unowned)
      BY <1>1, <2>1 DEF k
    <3> QED BY <3>3, <3>4, NewElementType
  <2>2. CASE ~\E i \in DOMAIN q : q[i] = e
    BY <1>1, <2>2 DEF Inv, TypeOK
  <2> QED BY <2>1, <2>2
<1>7. pipes' \in [Stage -> Seq(Elements)]
  <2>1. pipes \in [Stage -> Seq(Elements)]
    BY DEF Inv, TypeOK
  <2>2. pipes["request"] \o q \in Seq(Elements)
    BY <1>3, <1>5, <2>1, ConcatProperties
  <2> QED BY <1>1, <2>1, <2>2
<1>8. TypeOK'
  BY <1>2, <1>3, <1>6, <1>7, SMTT(30) DEF Inv, TypeOK, clientVars
<1>9. LocksKept
  <2> SUFFICES ASSUME NEW t \in Threads, task[t] # 0
               PROVE  elements'[task[t]] = elements[task[t]]
    BY DEF LocksKept
  <2>1. task[t] \in Elements
    BY DEF Inv, TypeOK
  <2>2. task[t] \notin free
    BY DEF Referenced
  <2>3. ~\E i \in DOMAIN q : q[i] = task[t]
    BY <2>2
  <2> QED BY <1>1, <2>1, <2>3
<1>10. PipesKept
  BY <1>1, <1>2, <1>3 DEF PipesKept, Inv, TypeOK
<1>11. PhasesKept
  BY <1>2, <1>3, LoopPhases DEF Holding, Scanning
<1> QED BY <1>2, <1>8, <1>9, <1>10, <1>11, Frame

(* A connection is let go: its element is no longer the listener's task.   *)
LEMMA CompleteInv == ASSUME Inv, Complete PROVE Inv'
<1> DEFINE e == task[Listener]
           f == elements[e].fd
<1>0. Listener \in Threads /\ pc[Listener] \in Holding
  BY DEF Complete, Threads, Holding
<1>1. e \in Elements /\ elements[e] \in ElementType
  BY <1>0, TaskType
<1>2. PICK unlocks \in AutocallRuns :
        elements' = [elements EXCEPT ![e] =
                       Released(MarkDone(@, {"completed"}), unlocks)]
  BY DEF Complete
<1> DEFINE el == Released(MarkDone(elements[e], {"completed"}), unlocks)
<1>3. el \in ElementType /\ elements' = [elements EXCEPT ![e] = el]
  BY <1>1, <1>2, ReleasedType DEF Stage
<1>4. \/ /\ table' = RemoveConnection(table, f)
         /\ fdTable' = [fdTable EXCEPT ![f] = NoConn]
      \/ table' = UnlockConnection(table, f) /\ fdTable' = fdTable
  BY DEF Complete
<1>5. /\ task' = [task EXCEPT ![Listener] = 0]
      /\ pc' = [pc EXCEPT ![Listener] = "drain"]
      /\ UNCHANGED <<pipes, mutex, cursor, outcome, pending, phase,
                     backlog, inbox, clientVars, got>>
  BY DEF Complete
<1> HIDE DEF el
<1>6. ElementOwnership'
  BY <1>0, <1>3, <1>5, ReleaseOwnership DEF Holding
<1> HIDE DEF e, f
<1>7. table' \in TableType
  BY <1>4, TableIsTyped, TableReleased
<1>8. fdTable' \in [Fds -> Conns \cup {NoConn}]
  BY <1>4 DEF Inv, TypeOK
<1>9. TypeOK'
  <2>1. elements' \in [Elements -> ElementType]
    BY <1>1, <1>3, InPlaceType
  <2> QED BY <1>0, <1>5, <1>7, <1>8, <2>1 DEF Inv, TypeOK, TableType, clientVars
<1>10. ScansKept
  BY <1>0, <1>5 DEF Inv, TypeOK, ScansKept, Holding, Scanning
<1>11. ScannerHoldsMutex'
  BY <1>5, <1>10, FrameScanner DEF PipesKept
<1> QED BY <1>6, <1>9, <1>11 DEF Inv
-----------------------------------------------------------------------------
(* main and the clients.                                                   *)

(* Maintenance takes elements from a pipe nobody scans, and destroys those *)
(* no thread has.                                                          *)
LEMMA MaintainInv ==
  ASSUME Inv, NEW s \in Stage, Maintain(s)
  PROVE  Inv'
<1>1. PICK k \in 1..Len(pipes[s]) :
        pipes' = [pipes EXCEPT ![s] = SubSeq(@, k + 1, Len(@))]
  BY DEF Maintain
<1>2. /\ mutex[s] = NoThread
      /\ elements' = [e \in Elements |->
           IF e \in Referenced(pipes', task) THEN elements[e] ELSE Blank]
      /\ UNCHANGED <<mutex, threadVars, tableVars, phase,
                     fdTable, backlog, inbox, clientVars, got>>
  BY DEF Maintain, MutexFree
<1>3. elements' \in [Elements -> ElementType]
  BY <1>2, BlankType DEF Inv, TypeOK
<1>4. pipes' \in [Stage -> Seq(Elements)]
  <2>1. pipes \in [Stage -> Seq(Elements)]
    BY DEF Inv, TypeOK
  <2>2. pipes[s] \in Seq(Elements) /\ k \in 1..Len(pipes[s])
    BY <1>1, <2>1
  <2>3. SubSeq(pipes[s], k + 1, Len(pipes[s])) \in Seq(Elements)
    <3> DEFINE p == pipes[s]
    <3>1. p \in Seq(Elements) /\ k \in 1..Len(p)
      BY <2>2
    <3> HIDE DEF p
    <3>2. SubSeq(p, k + 1, Len(p)) \in Seq(Elements)
      BY <3>1
    <3> QED BY <3>2 DEF p
  <2> QED BY <1>1, <2>1, <2>3
<1>5. TypeOK'
  BY <1>2, <1>3, <1>4 DEF Inv, TypeOK, threadVars, tableVars, clientVars
<1>6. LocksKept
  <2> SUFFICES ASSUME NEW t \in Threads, task[t] # 0
               PROVE  elements'[task[t]] = elements[task[t]]
    BY DEF LocksKept
  <2>1. task[t] \in Elements
    BY DEF Inv, TypeOK
  <2>2. task[t] \in Referenced(pipes', task)
    BY DEF Referenced
  <2> QED BY <1>2, <2>1, <2>2
<1>7. PipesKept
  BY <1>1, <1>2 DEF PipesKept, Inv, TypeOK
<1>8. PhasesKept
  BY <1>2 DEF PhasesKept, ScansKept, HoldsKept, threadVars
<1> QED BY <1>2, <1>5, <1>6, <1>7, <1>8, Frame DEF threadVars

(* Steps that leave the threads and the elements alone.                    *)
LEMMA OutsideInv ==
  ASSUME Inv, TypeOK', UNCHANGED <<elements, pipes, mutex, threadVars>>
  PROVE  Inv'
<1>1. LocksKept /\ PipesKept /\ PhasesKept
  BY DEF LocksKept, PipesKept, PhasesKept, ScansKept, HoldsKept, threadVars
<1> QED BY <1>1, Frame DEF threadVars

(* A signal sets the exit flag.                                            *)
LEMMA ExitInv ==
  ASSUME Inv, MaintenanceFails \/ Signal
  PROVE  Inv'
<1>1. TypeOK'
  BY DEF Inv, TypeOK, MaintenanceFails, Signal, threadVars, tableVars, clientVars
<1> QED BY <1>1, OutsideInv DEF MaintenanceFails, Signal

(* The process ends, and the kernel closes its descriptors.                *)
LEMMA StopProcessInv == ASSUME Inv, StopProcess PROVE Inv'
<1>1. TypeOK'
  BY DEF Inv, TypeOK, StopProcess, EmptyTable, Vacant, threadVars, clientVars
<1> QED BY <1>1, OutsideInv DEF StopProcess

(* The clients' steps.                                                     *)
LEMMA ClientInv ==
  ASSUME Inv, NEW c \in Conns, Client(c)
  PROVE  Inv'
<1>1. CASE Connect(c)
  <2>1. backlog' \in Seq(Conns)
    BY <1>1 DEF Inv, TypeOK, Connect
  <2>2. TypeOK'
    BY <1>1, <2>1 DEF Inv, TypeOK, Connect, threadVars, tableVars
  <2> QED BY <1>1, <2>2, OutsideInv DEF Connect
<1>2. CASE SendRequest(c)
  <2>1. <<c, sent[c] + 1>> \in Request /\ inbox[c] \in Seq(Request)
    BY DEF Inv, TypeOK, Request
  <2>2. Append(inbox[c], <<c, sent[c] + 1>>) \in Seq(Request)
    BY <2>1
  <2>3. inbox' = [inbox EXCEPT ![c] = Append(@, <<c, sent[c] + 1>>)]
    BY <1>2 DEF SendRequest
  <2>4. inbox' \in [Conns -> Seq(Request)]
    BY <2>2, <2>3 DEF Inv, TypeOK
  <2>5. sent' \in [Conns -> Nat]
    BY <1>2 DEF Inv, TypeOK, SendRequest
  <2>6. UNCHANGED <<elements, pipes, mutex, threadVars, tableVars, phase,
                    fdTable, backlog, client, got>>
    BY <1>2 DEF SendRequest
  <2>7. TypeOK'
    BY <2>4, <2>5, <2>6 DEF Inv, TypeOK, threadVars, tableVars
  <2> QED BY <2>6, <2>7, OutsideInv
<1>3. CASE HangUp(c)
  <2>1. TypeOK'
    BY <1>3 DEF Inv, TypeOK, HangUp, threadVars, tableVars
  <2> QED BY <1>3, <2>1, OutsideInv DEF HangUp
<1> QED BY <1>1, <1>2, <1>3 DEF Client
-----------------------------------------------------------------------------
(* Every step keeps the invariant.                                         *)
LEMMA NextInv ==
  ASSUME Inv, [Next]_vars
  PROVE  Inv'
<1>1. CASE \E t \in Threads : Poll(t) \/ StopThread(t)
  BY <1>1, ScanInv, LockElementInv, LockElementFailsInv, RescanFindsInv,
     RescanEndsInv, StopThreadInv DEF Poll
<1>2. CASE \E t \in Workers : Work(t)
  BY <1>2, ReadRequestInv, ReadFailsInv, ProcessRequestInv, ProcessFailsInv,
     WriteResponseInv, WriteFailsInv, PushInv, FinishInv DEF Work
<1>3. CASE Listen
  BY <1>3, SelectInv, AcceptInv, TurnAwayInv, SelectFailsInv,
     PublishConnectionsInv, PublishExpiresInv, UpdateInv, DrainEndsInv,
     CompleteInv DEF Listen
<1>4. CASE UNCHANGED vars
  <2>1. TypeOK'
    BY <1>4 DEF Inv, TypeOK, vars, threadVars, tableVars, clientVars
  <2> QED BY <1>4, <2>1, OutsideInv DEF vars
<1>5. CASE Main
  BY <1>4, <1>5, MaintainInv, ExitInv, StopProcessInv DEF Main, Stopped
<1>6. CASE \E c \in Conns : Client(c)
  BY <1>6, ClientInv
<1> QED BY <1>1, <1>2, <1>3, <1>4, <1>5, <1>6 DEF Next

(* The invariant holds of every behaviour.                                 *)
LEMMA InvHolds == Spec => []Inv
<1>1. Init => Inv
  BY InitInv
<1>2. Inv /\ [Next]_vars => Inv'
  BY NextInv
<1> QED BY <1>1, <1>2, PTL DEF Spec

(* The variables keep their types in every behaviour.                      *)
THEOREM TypeCorrect == Spec => []TypeOK
<1>1. Inv => TypeOK
  BY DEF Inv
<1> QED BY <1>1, InvHolds, PTL

(* However many threads poll however many pipes, an element is in the      *)
(* hands of one thread at a time, from lock_with_owner_lockable to unlock, *)
(* and its owner check in publish_to_*_pipe never fails.                   *)
THEOREM ElementsHaveOneHolder == Spec => []ElementOwnership
<1>1. Inv => ElementOwnership
  BY DEF Inv
<1> QED BY <1>1, InvHolds, PTL

(* The mutex of a pipe is held exactly by its one scanner, and no push or  *)
(* maintenance shifts the deque under the scanner's index.                 *)
THEOREM ScansAreExclusive == Spec => []ScannerHoldsMutex
<1>1. Inv => ScannerHoldsMutex
  BY DEF Inv
<1> QED BY <1>1, InvHolds, PTL
-----------------------------------------------------------------------------
(* A slot of the table is locked for this descriptor.                      *)
LockedIn(tbl, f) == \E i \in DOMAIN tbl : tbl[i].fd = f /\ tbl[i].locked

AllLockedIn(tbl, q) == \A k \in DOMAIN q : LockedIn(tbl, q[k])

FdsAreApart(tbl) ==
  \A i, j \in DOMAIN tbl : i # j /\ tbl[i].fd # 0 => tbl[i].fd # tbl[j].fd

Distinct(q) == \A j, k \in DOMAIN q : q[j] = q[k] => j = k

(* A pending descriptor is locked and pending once.                        *)
PendingAreLocked == AllLockedIn(table, pending) /\ Distinct(pending)

(* An unfinished element names a connection that is locked, that is still  *)
(* the one it was created for, and that is neither pending nor another     *)
(* element's.                                                              *)
ElementsAreLocked ==
  \A e \in Unfinished :
    /\ elements[e].fd \in Fds
    /\ LockedIn(table, elements[e].fd)
    /\ fdTable[elements[e].fd] = elements[e].conn
    /\ \A k \in DOMAIN pending : pending[k] # elements[e].fd
    /\ \A d \in Unfinished : elements[d].fd = elements[e].fd => d = e

(* What the listener is about to complete has not been completed.          *)
ListenerTakesUnfinished ==
  /\ pc[Listener] = "candidate" =>
       "completed" \notin elements[pipes["completed"][cursor[Listener]]].done
  /\ task[Listener] # 0 => "completed" \notin elements[task[Listener]].done

StoppedForGood == phase = "stopped" => \A t \in Threads : pc[t] = "stopped"

Connected ==
  /\ TableMatchesDescriptors /\ ListenerTakesUnfinished /\ StoppedForGood
  /\ phase # "stopped" => PendingAreLocked /\ ElementsAreLocked
-----------------------------------------------------------------------------
(* The table.                                                              *)

(* std::find_if finds a slot, if there is one.                             *)
LEMMA FirstSlotIsIn ==
  ASSUME NEW slots \in SUBSET Nat, slots # {}
  PROVE  FirstSlot(slots) \in slots
<1> DEFINE less == {ss \in Nat \X Nat : ss[1] < ss[2]}
<1>1. IsWellFoundedOn(less, Nat)
  BY NatLessThanWellFounded DEF OpToRel
<1>2. PICK i \in slots : \A j \in slots : ~(<<j, i>> \in less)
  <2> HIDE DEF less
  <2> QED
    BY <1>1, WFMin
<1>3. ASSUME NEW j \in slots PROVE i <= j
  <2>1. i \in Nat /\ j \in Nat /\ ~(j < i)
    BY <1>2
  <2> QED
    BY <2>1
<1> QED
  BY <1>3 DEF FirstSlot

(* The slots of a table are numbered.                                      *)
LEMMA TableSlots ==
  ASSUME NEW tbl \in TableType
  PROVE  /\ DOMAIN tbl = 1..MaxClients
         /\ DOMAIN tbl \subseteq Nat
         /\ \A i \in DOMAIN tbl : tbl[i].fd \in {0} \cup Fds
  BY DEF TableType

(* add_connection: the descriptor is new to the table.                     *)
LEMMA Added ==
  ASSUME NEW tbl \in TableType, FdsAreApart(tbl), HasVacancy(tbl),
         NEW f \in Fds, f \notin TableFds(tbl)
  PROVE  /\ FdsAreApart(AddConnection(tbl, f))
         /\ TableFds(AddConnection(tbl, f)) = TableFds(tbl) \cup {f}
         /\ \A g \in Fds : LockedIn(AddConnection(tbl, f), g) <=> LockedIn(tbl, g)
<1> DEFINE vacant == {i \in DOMAIN tbl : tbl[i] = Vacant}
<1>1. FirstSlot(vacant) \in vacant
  BY FirstSlotIsIn, TableSlots DEF HasVacancy
<1>2. PICK n \in DOMAIN tbl : n = FirstSlot(vacant) /\ tbl[n] = Vacant
  BY <1>1
<1>3. PICK new : new = AddConnection(tbl, f)
  OBVIOUS
<1>4. new = [tbl EXCEPT ![n] = [fd |-> f, locked |-> FALSE]]
  BY <1>2, <1>3 DEF AddConnection
<1>5. f # 0
  OBVIOUS
<1>6. tbl[n].fd = 0 /\ ~tbl[n].locked
  BY <1>2 DEF Vacant
<1>7. /\ DOMAIN new = DOMAIN tbl
      /\ new[n].fd = f
      /\ \A i \in DOMAIN tbl : i # n => new[i] = tbl[i]
  BY <1>4
<1>8. \A i \in DOMAIN tbl : tbl[i].fd # f
  BY <1>5 DEF TableFds
<1>9. FdsAreApart(new)
  BY <1>7, <1>8 DEF FdsAreApart
<1>10. TableFds(new) = TableFds(tbl) \cup {f}
  BY <1>2, <1>5, <1>6, <1>7 DEF TableFds
<1>11. \A g \in Fds : LockedIn(new, g) <=> LockedIn(tbl, g)
  <2>1. ~new[n].locked
    BY <1>2, <1>4
  <2> QED
    BY <1>6, <1>7, <2>1 DEF LockedIn
<1> QED
  BY <1>3, <1>9, <1>10, <1>11

(* The slot that remove_connection and unlock_connection find.             *)
LEMMA ServedSlotIsFound ==
  ASSUME NEW tbl \in TableType, NEW f, LockedIn(tbl, f)
  PROVE  /\ ServedSlot(tbl, f) \in DOMAIN tbl
         /\ ServedSlot(tbl, f) # 0
         /\ tbl[ServedSlot(tbl, f)].fd = f
<1> DEFINE slots == {i \in DOMAIN tbl : tbl[i].fd = f /\ tbl[i].locked}
<1>1. FirstSlot(slots) \in slots
  BY FirstSlotIsIn, TableSlots DEF LockedIn
<1>2. PICK n \in 1..MaxClients : n = ServedSlot(tbl, f) /\ tbl[n].fd = f
  BY <1>1, TableSlots DEF ServedSlot
<1>3. n \in DOMAIN tbl /\ n # 0
  BY TableSlots
<1> QED
  BY <1>2, <1>3

(* Once it is unlocked, the others are locked as before.                   *)
LEMMA UnlockedOne ==
  ASSUME NEW tbl \in TableType, FdsAreApart(tbl), NEW f \in Fds, LockedIn(tbl, f)
  PROVE  /\ FdsAreApart(UnlockConnection(tbl, f))
         /\ TableFds(UnlockConnection(tbl, f)) = TableFds(tbl)
         /\ \A g \in Fds \ {f} :
              LockedIn(tbl, g) => LockedIn(UnlockConnection(tbl, f), g)
         /\ \A g \in Fds :
              LockedIn(UnlockConnection(tbl, f), g) => g # f /\ LockedIn(tbl, g)
<1>1. PICK n \in DOMAIN tbl : n = ServedSlot(tbl, f) /\ n # 0 /\ tbl[n].fd = f
  BY ServedSlotIsFound
<1>2. PICK new : new = UnlockConnection(tbl, f)
  OBVIOUS
<1>3. new = [tbl EXCEPT ![n].locked = FALSE]
  BY <1>1, <1>2 DEF UnlockConnection
<1>4. /\ DOMAIN new = DOMAIN tbl
      /\ \A i \in DOMAIN tbl : new[i].fd = tbl[i].fd
      /\ \A i \in DOMAIN tbl : i # n => new[i] = tbl[i]
  BY <1>3 DEF TableType
<1>5. FdsAreApart(new)
  BY <1>4 DEF FdsAreApart
<1>6. TableFds(new) = TableFds(tbl)
  BY <1>4 DEF TableFds
<1>7. \A g \in Fds \ {f} : LockedIn(tbl, g) => LockedIn(new, g)
  BY <1>1, <1>4 DEF LockedIn
<1>8. \A g \in Fds : LockedIn(new, g) => g # f /\ LockedIn(tbl, g)
  <2>1. ~new[n].locked
    BY <1>1, <1>3 DEF TableType
  <2>2. \A i \in DOMAIN tbl : i # n => tbl[i].fd # f
    BY <1>1 DEF FdsAreApart
  <2> QED
    BY <1>4, <2>1, <2>2 DEF LockedIn
<1> QED
  BY <1>2, <1>5, <1>6, <1>7, <1>8

(* Once it is removed, its descriptor is gone.                             *)
LEMMA RemovedOne ==
  ASSUME NEW tbl \in TableType, FdsAreApart(tbl), NEW f \in Fds, LockedIn(tbl, f)
  PROVE  /\ FdsAreApart(RemoveConnection(tbl, f))
         /\ TableFds(RemoveConnection(tbl, f)) = TableFds(tbl) \ {f}
         /\ \A g \in Fds \ {f} :
              LockedIn(tbl, g) => LockedIn(RemoveConnection(tbl, f), g)
         /\ \A g \in Fds :
              LockedIn(RemoveConnection(tbl, f), g) => g # f /\ LockedIn(tbl, g)
<1>1. PICK n \in DOMAIN tbl : n = ServedSlot(tbl, f) /\ n # 0 /\ tbl[n].fd = f
  BY ServedSlotIsFound
<1>2. PICK new : new = RemoveConnection(tbl, f)
  OBVIOUS
<1>3. new = [tbl EXCEPT ![n] = Vacant]
  BY <1>1, <1>2 DEF RemoveConnection
<1>4. f # 0
  OBVIOUS
<1>5. /\ DOMAIN new = DOMAIN tbl
      /\ new[n].fd = 0
      /\ \A i \in DOMAIN tbl : i # n => new[i] = tbl[i]
  BY <1>3 DEF Vacant
<1>6. \A i \in DOMAIN tbl : i # n => tbl[i].fd # f
  BY <1>1, <1>4 DEF FdsAreApart
<1>7. FdsAreApart(new)
  BY <1>5 DEF FdsAreApart
<1>8. TableFds(new) = TableFds(tbl) \ {f}
  BY <1>1, <1>5, <1>6 DEF TableFds
<1>9. \A g \in Fds \ {f} : LockedIn(tbl, g) => LockedIn(new, g)
  BY <1>1, <1>5 DEF LockedIn
<1>10. \A g \in Fds : LockedIn(new, g) => g # f /\ LockedIn(tbl, g)
  BY <1>5, <1>6 DEF LockedIn
<1> QED
  BY <1>2, <1>7, <1>8, <1>9, <1>10

(* The pending descriptors, and behind them those of the active slots.      *)
QueueOf(tbl, pend, order) == pend \o [k \in DOMAIN order |-> tbl[order[k]].fd]

(* get_active_connections: what it queues is locked, once, and was not     *)
(* locked before.                                                          *)
LEMMA Queued ==
  ASSUME NEW tbl \in TableType, FdsAreApart(tbl), NEW ready,
         NEW pend \in Seq(Fds), AllLockedIn(tbl, pend), Distinct(pend),
         NEW order \in Ascending(ActiveSlots(tbl, ready)),
         NEW queue,
         queue = QueueOf(tbl, pend, order)
  PROVE  /\ FdsAreApart(LockActive(tbl, ready))
         /\ TableFds(LockActive(tbl, ready)) = TableFds(tbl)
         /\ \A g : LockedIn(tbl, g) => LockedIn(LockActive(tbl, ready), g)
         /\ AllLockedIn(LockActive(tbl, ready), queue)
         /\ Distinct(queue)
         /\ \A k \in DOMAIN queue :
              \/ \E j \in DOMAIN pend : pend[j] = queue[k]
              \/ ~LockedIn(tbl, queue[k]) /\ queue[k] \in ready
         /\ \A j \in DOMAIN pend : \E k \in DOMAIN queue : queue[k] = pend[j]
         /\ \A g : LockedIn(LockActive(tbl, ready), g) =>
              LockedIn(tbl, g) \/ \E k \in DOMAIN queue : queue[k] = g
<1>1. PICK active \in SUBSET (1..MaxClients) : active = ActiveSlots(tbl, ready)
  BY DEF ActiveSlots, TableType
<1>2. PICK n \in Nat : n = Cardinality(active)
  <2>1. IsFiniteSet(1..MaxClients)
    BY FS_Interval
  <2>2. IsFiniteSet(active)
    BY <2>1, FS_Subset
  <2> QED
    BY <2>2, FS_CardinalityType
<1>3. /\ order \in [1..n -> active]
      /\ \A j, k \in 1..n : j < k => order[j] < order[k]
  BY <1>1, <1>2 DEF Ascending
<1>4. \A j, k \in 1..n : order[j] = order[k] => j = k
  <2> SUFFICES ASSUME NEW j \in 1..n, NEW k \in 1..n, j # k
               PROVE  order[j] # order[k]
    OBVIOUS
  <2>1. order[j] \in 1..MaxClients /\ order[k] \in 1..MaxClients
    BY <1>3
  <2>2. order[j] < order[k] \/ order[k] < order[j]
    BY <1>3
  <2> QED
    BY <2>1, <2>2
<1>5. \A i \in active : /\ i \in DOMAIN tbl
                        /\ tbl[i].fd \in Fds
                        /\ tbl[i].fd # 0
                        /\ tbl[i].fd \in ready
                        /\ ~tbl[i].locked
  BY <1>1 DEF ActiveSlots, IsActive, TableType
<1>6. PICK fds \in Seq(Fds) : /\ queue = pend \o fds
                             /\ Len(fds) = n
                             /\ \A k \in 1..n : fds[k] = tbl[order[k]].fd
  <2>1. PICK fds : fds = [k \in DOMAIN order |-> tbl[order[k]].fd]
    OBVIOUS
  <2>2. fds \in [1..n -> Fds]
    BY <1>3, <1>5, <2>1
  <2>3. fds \in Seq(Fds) /\ Len(fds) = n
    BY <2>2
  <2> QED
    BY <1>3, <2>1, <2>3 DEF QueueOf
<1>7. PICK m \in Nat : m = Len(pend)
  OBVIOUS
<1>8. /\ DOMAIN queue = 1..(m + n)
      /\ \A k \in 1..m : queue[k] = pend[k]
      /\ \A k \in (m + 1)..(m + n) : queue[k] = fds[k - m]
  <2>1. /\ queue \in Seq(Fds)
        /\ Len(queue) = m + n
        /\ \A k \in 1..(m + n) :
             queue[k] = IF k <= m THEN pend[k] ELSE fds[k - m]
    <3>1. /\ pend \o fds \in Seq(Fds)
          /\ Len(pend \o fds) = Len(pend) + Len(fds)
          /\ \A k \in 1..(Len(pend) + Len(fds)) :
               (pend \o fds)[k] = IF k <= Len(pend) THEN pend[k]
                                  ELSE fds[k - Len(pend)]
      BY ConcatProperties
    <3> QED
      BY <1>6, <1>7, <3>1
  <2>2. DOMAIN queue = 1..(m + n)
    BY <2>1
  <2>3. \A k \in 1..m : k \in 1..(m + n) /\ k <= m
    BY <1>2, <1>7
  <2>4. \A k \in (m + 1)..(m + n) : k \in 1..(m + n) /\ ~(k <= m)
    BY <1>2, <1>7
  <2> QED
    BY <2>1, <2>2, <2>3, <2>4
<1>9. PICK new : new = LockActive(tbl, ready)
  OBVIOUS
<1>10. /\ DOMAIN new = DOMAIN tbl
       /\ \A i \in DOMAIN tbl : new[i].fd = tbl[i].fd
       /\ \A i \in DOMAIN tbl : tbl[i].locked => new[i].locked
       /\ \A i \in active : new[i].locked
  BY <1>1, <1>9 DEF LockActive, ActiveSlots, TableType
<1>11. FdsAreApart(new)
  BY <1>10 DEF FdsAreApart
<1>12. TableFds(new) = TableFds(tbl)
  BY <1>10 DEF TableFds
<1>13. \A g : LockedIn(tbl, g) => LockedIn(new, g)
  BY <1>10 DEF LockedIn
<1>14. \A k \in (m + 1)..(m + n) :
         /\ k - m \in 1..n
         /\ order[k - m] \in active
         /\ queue[k] = tbl[order[k - m]].fd
  BY <1>3, <1>6, <1>8
<1>15. \A i \in active : /\ LockedIn(new, tbl[i].fd)
                         /\ ~LockedIn(tbl, tbl[i].fd) /\ tbl[i].fd \in ready
  BY <1>5, <1>10 DEF LockedIn, FdsAreApart
<1>16. \A k \in DOMAIN queue : k \in 1..m \/ k \in (m + 1)..(m + n)
  BY <1>8
<1>17. \A k \in 1..m : k \in DOMAIN pend /\ LockedIn(tbl, pend[k])
  <2>1. \A k \in 1..m : k \in DOMAIN pend
    BY <1>7
  <2> QED
    BY <2>1 DEF AllLockedIn
<1>18. AllLockedIn(new, queue)
  BY <1>8, <1>13, <1>14, <1>15, <1>16, <1>17 DEF AllLockedIn
<1>19. \A k \in DOMAIN queue :
         \/ \E j \in DOMAIN pend : pend[j] = queue[k]
         \/ ~LockedIn(tbl, queue[k]) /\ queue[k] \in ready
  BY <1>8, <1>14, <1>15, <1>16, <1>17
<1>20. Distinct(queue)
  <2> SUFFICES ASSUME NEW j \in DOMAIN queue, NEW k \in DOMAIN queue,
                      queue[j] = queue[k]
               PROVE  j = k
    BY DEF Distinct
  <2>1. CASE j \in 1..m /\ k \in 1..m
    BY <1>8, <1>17, <2>1 DEF Distinct
  <2>2. CASE j \in 1..m /\ k \notin 1..m
    <3>1. LockedIn(tbl, queue[j])
      BY <1>8, <1>17, <2>2
    <3>2. k \in (m + 1)..(m + n)
      BY <1>16, <2>2
    <3>3. ~LockedIn(tbl, queue[k])
      BY <1>14, <1>15, <3>2
    <3> QED
      BY <3>1, <3>3
  <2>3. CASE j \notin 1..m /\ k \in 1..m
    <3>1. LockedIn(tbl, queue[k])
      BY <1>8, <1>17, <2>3
    <3>2. j \in (m + 1)..(m + n)
      BY <1>16, <2>3
    <3>3. ~LockedIn(tbl, queue[j])
      BY <1>14, <1>15, <3>2
    <3> QED
      BY <3>1, <3>3
  <2>4. CASE j \notin 1..m /\ k \notin 1..m
    <3>1. /\ j \in (m + 1)..(m + n)
          /\ k \in (m + 1)..(m + n)
      BY <1>16, <2>4
    <3>2. PICK a \in active : a = order[j - m] /\ queue[j] = tbl[a].fd
      BY <1>14, <3>1
    <3>3. PICK b \in active : b = order[k - m] /\ queue[k] = tbl[b].fd
      BY <1>14, <3>1
    <3>4. a = b
      BY <1>5, <3>2, <3>3 DEF FdsAreApart
    <3>5. j - m = k - m
      BY <1>4, <1>14, <3>1, <3>2, <3>3, <3>4
    <3> QED
      BY <1>7, <3>1, <3>5
  <2> QED
    BY <2>1, <2>2, <2>3, <2>4
<1>21. \A j \in DOMAIN pend : \E k \in DOMAIN queue : queue[k] = pend[j]
  BY <1>2, <1>7, <1>8
<1>22. \A g : LockedIn(new, g) =>
         LockedIn(tbl, g) \/ \E k \in DOMAIN queue : queue[k] = g
  <2> SUFFICES ASSUME NEW i \in DOMAIN tbl, new[i].locked, ~tbl[i].locked
               PROVE  \E k \in DOMAIN queue : queue[k] = tbl[i].fd
    BY <1>10 DEF LockedIn
  <2>1. i \in active
    BY <1>1, <1>9 DEF LockActive, ActiveSlots
  <2>2. PICK k \in 1..n : order[k] = i
    <3>1. order \in Injection(1..n, active)
      BY <1>3, <1>4 DEF Injection, IsInjective
    <3>2. IsFiniteSet(active)
      <4>1. IsFiniteSet(1..MaxClients)
        BY FS_Interval
      <4> QED
        BY <4>1, FS_Subset
    <3>3. Cardinality(1..n) = n
      BY <1>2, FS_Interval
    <3>4. order \in Surjection(1..n, active)
      BY <1>2, <3>1, <3>2, <3>3, FS_Injection
    <3> QED
      BY <2>1, <3>4 DEF Surjection
  <2>3. k + m \in (m + 1)..(m + n) /\ k + m \in DOMAIN queue /\ (k + m) - m = k
    BY <1>2, <1>7, <1>8
  <2> QED
    BY <1>14, <2>2, <2>3
<1> QED
  BY <1>9, <1>11, <1>12, <1>13, <1>18, <1>19, <1>20, <1>21, <1>22
-----------------------------------------------------------------------------
(* Most steps take no part: the table, the pending descriptors and the     *)
(* descriptors stay, an element that is unfinished afterwards was so       *)
(* before, and none of them is completed.                                  *)

ElementsKept ==
  \A e \in Unfinished' :
    /\ e \in Unfinished
    /\ elements'[e].fd = elements[e].fd
    /\ elements'[e].conn = elements[e].conn

NoneCompleted ==
  \A e \in Elements :
    "completed" \in elements'[e].done => "completed" \in elements[e].done

(* An unfinished element is on the heap and is a connection's.             *)
LEMMA ReferencedType ==
  ASSUME Inv, NEW e \in Referenced(pipes, task)
  PROVE  e \in Elements
<1>1. /\ pipes \in [Stage -> Seq(Elements)]
      /\ task \in [Threads -> Elements \cup {0}]
  BY DEF Inv, TypeOK
<1>2. CASE e \in {task[t] : t \in Threads} \ {0}
  BY <1>1, <1>2
<1>3. CASE e \in UNION {{pipes[s][i] : i \in DOMAIN pipes[s]} : s \in Stage}
  <2>1. PICK s \in Stage : \E i \in DOMAIN pipes[s] : e = pipes[s][i]
    BY <1>3
  <2>2. pipes[s] \in Seq(Elements)
    BY <1>1
  <2> QED
    BY <2>1, <2>2
<1> QED
  BY <1>2, <1>3 DEF Referenced

(* A step that takes no part in the connections.                           *)
LEMMA ConnectionsKept ==
  ASSUME Connected, ElementsKept, phase # "stopped",
         UNCHANGED <<table, pending, fdTable>>
  PROVE  /\ TableMatchesDescriptors'
         /\ PendingAreLocked'
         /\ ElementsAreLocked'
<1>1. TableMatchesDescriptors'
  BY DEF Connected, TableMatchesDescriptors
<1>2. PendingAreLocked'
  BY DEF Connected, PendingAreLocked
<1>3. ElementsAreLocked'
  <2> SUFFICES ASSUME NEW e \in Unfinished'
               PROVE  /\ elements'[e].fd \in Fds
                      /\ LockedIn(table', elements'[e].fd)
                      /\ fdTable'[elements'[e].fd] = elements'[e].conn
                      /\ \A k \in DOMAIN pending' : pending'[k] # elements'[e].fd
                      /\ \A d \in Unfinished' :
                           elements'[d].fd = elements'[e].fd => d = e
    BY DEF ElementsAreLocked
  <2>1. /\ e \in Unfinished
        /\ elements'[e].fd = elements[e].fd
        /\ elements'[e].conn = elements[e].conn
    BY DEF ElementsKept
  <2>2. \A d \in Unfinished' : /\ d \in Unfinished
                               /\ elements'[d].fd = elements[d].fd
    BY DEF ElementsKept
  <2>3. ElementsAreLocked
    BY DEF Connected
  <2> QED
    BY <2>1, <2>2, <2>3 DEF ElementsAreLocked
<1> QED
  BY <1>1, <1>2, <1>3

(* The listener's candidate and task stay as they are.                     *)
LEMMA ListenerStays ==
  ASSUME Inv, Connected, PipesKept, NoneCompleted,
         pc'[Listener] = "candidate" =>
           pc[Listener] = "candidate" /\ cursor'[Listener] = cursor[Listener],
         task'[Listener] \in {0, task[Listener]}
  PROVE  ListenerTakesUnfinished'
<1>1. Listener \in Threads /\ StageOf(Listener) = "completed"
  BY DEF Threads, StageOf, Workers
<1>2. ASSUME pc'[Listener] = "candidate"
      PROVE  "completed" \notin elements'[pipes'["completed"][cursor'[Listener]]].done
  <2>1. PICK e : e = pipes["completed"][cursor[Listener]]
    OBVIOUS
  <2>2. pc[Listener] = "candidate" /\ cursor'[Listener] = cursor[Listener]
    BY <1>2
  <2>3. /\ mutex["completed"] = Listener
        /\ e \in Elements
    BY <1>1, <2>1, <2>2, CandidateType
  <2>4. pipes'["completed"] = pipes["completed"]
    BY <1>1, <2>3 DEF PipesKept, Stage
  <2>5. "completed" \notin elements[e].done
    BY <2>1, <2>2 DEF Connected, ListenerTakesUnfinished
  <2>6. "completed" \notin elements'[e].done
    BY <2>3, <2>5 DEF NoneCompleted
  <2> QED
    BY <2>1, <2>2, <2>4, <2>6
<1>3. ASSUME task'[Listener] # 0
      PROVE  "completed" \notin elements'[task'[Listener]].done
  <2>1. task'[Listener] = task[Listener] /\ task[Listener] \in Elements
    BY <1>1, <1>3 DEF Inv, TypeOK
  <2> QED
    BY <1>3, <2>1 DEF Connected, ListenerTakesUnfinished, NoneCompleted
<1> QED
  BY <1>2, <1>3 DEF ListenerTakesUnfinished

(* A thread's step that takes no part.                                     *)
LEMMA ThreadStays ==
  ASSUME Inv, Connected, NEW t \in Threads, pc[t] # "stopped",
         ElementsKept, ListenerTakesUnfinished',
         UNCHANGED <<table, pending, fdTable, phase>>
  PROVE  Connected'
<1>1. phase # "stopped"
  BY DEF Connected, StoppedForGood
<1>2. StoppedForGood'
  BY <1>1 DEF StoppedForGood
<1>3. /\ TableMatchesDescriptors'
      /\ PendingAreLocked'
      /\ ElementsAreLocked'
  BY <1>1, ConnectionsKept
<1> QED
  BY <1>2, <1>3 DEF Connected
-----------------------------------------------------------------------------
(* The workers.                                                            *)

(* What the operations on an element leave alone, and the marks they set.  *)
LEMMA ElementIdentity ==
  ASSUME NEW el \in ElementType, NEW D, NEW F, NEW t, NEW unlocks
  PROVE  /\ LockedBy(el, t).fd = el.fd
         /\ LockedBy(el, t).conn = el.conn
         /\ LockedBy(el, t).done = el.done
         /\ MarkCloseRequired(el).fd = el.fd
         /\ MarkCloseRequired(el).conn = el.conn
         /\ MarkCloseRequired(el).done = el.done
         /\ Released(MarkFailed(MarkDone(el, D), F), unlocks).fd = el.fd
         /\ Released(MarkFailed(MarkDone(el, D), F), unlocks).conn = el.conn
         /\ Released(MarkFailed(MarkDone(el, D), F), unlocks).done = el.done \cup D
BY DEF ElementType, LockedBy, MarkCloseRequired, MarkDone, MarkFailed, Released,
       Unlocked

(* A held element, changed in place but for the listener's mark.           *)
LEMMA ChangedInPlace ==
  ASSUME Inv, NEW e \in Elements, NEW el,
         el.fd = elements[e].fd, el.conn = elements[e].conn,
         "completed" \in el.done <=> "completed" \in elements[e].done,
         \/ elements' = elements
         \/ elements' = [elements EXCEPT ![e] = el],
         Referenced(pipes', task') \subseteq Referenced(pipes, task)
  PROVE  ElementsKept /\ NoneCompleted
<1>1. DOMAIN elements = Elements
  BY DEF Inv, TypeOK
<1>2. \A d \in Elements : /\ elements'[d].fd = elements[d].fd
                          /\ elements'[d].conn = elements[d].conn
                          /\ "completed" \in elements'[d].done <=>
                               "completed" \in elements[d].done
  BY <1>1
<1>3. NoneCompleted
  BY <1>2 DEF NoneCompleted
<1>4. ElementsKept
  <2> SUFFICES ASSUME NEW d \in Unfinished'
               PROVE  /\ d \in Unfinished
                      /\ elements'[d].fd = elements[d].fd
                      /\ elements'[d].conn = elements[d].conn
    BY DEF ElementsKept
  <2>1. /\ d \in Referenced(pipes, task)
        /\ "completed" \notin elements'[d].done
    BY DEF Unfinished
  <2>2. d \in Elements
    BY <2>1, ReferencedType
  <2> QED
    BY <1>2, <2>1, <2>2 DEF Unfinished
<1> QED
  BY <1>3, <1>4

(* Letting go of a task refers to nothing new.                             *)
LEMMA TaskReleased ==
  ASSUME Inv, NEW t \in Threads,
         task' = task \/ task' = [task EXCEPT ![t] = 0]
  PROVE  Referenced(pipes, task') \subseteq Referenced(pipes, task)
<1>1. DOMAIN task = Threads
  BY DEF Inv, TypeOK
<1>2. \A u \in Threads : task'[u] \in {0, task[u]}
  BY <1>1
<1> QED
  BY <1>2 DEF Referenced

(* A worker with an element in hand.                                       *)
LEMMA WorkerStays ==
  ASSUME Inv, Connected, NEW t \in Workers, pc[t] \in Holding,
         ElementsKept, NoneCompleted, PipesKept,
         NEW l, pc' = [pc EXCEPT ![t] = l],
         task' = task \/ task' = [task EXCEPT ![t] = 0],
         UNCHANGED <<cursor, table, pending, fdTable, phase>>
  PROVE  Connected'
<1>1. t \in Threads /\ Listener \in Threads /\ t # Listener
  BY DEF Threads
<1>2. pc'[Listener] = pc[Listener] /\ task'[Listener] = task[Listener]
  BY <1>1 DEF Inv, TypeOK
<1>3. ListenerTakesUnfinished'
  BY <1>2, ListenerStays
<1>4. pc[t] # "stopped"
  BY DEF Holding
<1> QED
  BY <1>1, <1>3, <1>4, ThreadStays

(* The six ways a worker's work on its element can end.                    *)
LEMMA WorkKeeps ==
  ASSUME Inv, NEW t \in Workers,
         \/ ReadRequest(t) \/ ReadFails(t) \/ ProcessRequest(t)
         \/ ProcessFails(t) \/ WriteResponse(t) \/ WriteFails(t)
  PROVE  ElementsKept /\ NoneCompleted
<1>1. t \in Threads /\ pc[t] \in Holding
  BY DEF Threads, Holding, ReadRequest, ReadFails, ProcessRequest,
         ProcessFails, WriteResponse, WriteFails
<1>2. PICK e \in Elements : e = task[t]
  BY <1>1, TaskType
<1>3. elements[e] \in ElementType
  BY <1>1, <1>2, TaskType
<1>4. PICK el : /\ el.fd = elements[e].fd
                /\ el.conn = elements[e].conn
                /\ el.done = elements[e].done
                /\ \/ elements' = elements
                   \/ elements' = [elements EXCEPT ![e] = el]
  <2>1. CASE ReadRequest(t)
    <3>1. PICK text : \/ elements' = elements
                      \/ elements' = [elements EXCEPT ![e].request = text]
      BY <1>2, <2>1 DEF ReadRequest
    <3> WITNESS [elements[e] EXCEPT !.request = text]
    <3> QED
      BY <1>3, <3>1 DEF ElementType
  <2>2. CASE ProcessRequest(t)
    <3>1. PICK text : \/ elements' = elements
                      \/ elements' = [elements EXCEPT ![e].response = text]
      BY <1>2, <2>2 DEF ProcessRequest
    <3> WITNESS [elements[e] EXCEPT !.response = text]
    <3> QED
      BY <1>3, <3>1 DEF ElementType
  <2>3. CASE WriteResponse(t)
    BY <2>3 DEF WriteResponse
  <2>4. CASE ReadFails(t) \/ ProcessFails(t) \/ WriteFails(t)
    <3>1. elements' = [elements EXCEPT ![e] = MarkCloseRequired(@)]
      BY <1>2, <2>4 DEF ReadFails, ProcessFails, WriteFails
    <3> WITNESS MarkCloseRequired(elements[e])
    <3> QED
      BY <1>3, <3>1, ElementIdentity
  <2> QED
    BY <2>1, <2>2, <2>3, <2>4
<1>5. UNCHANGED <<pipes, task>>
  BY DEF ReadRequest, ReadFails, ProcessRequest, ProcessFails, WriteResponse,
         WriteFails
<1> QED
  BY <1>4, <1>5, ChangedInPlace

LEMMA WorkConnected ==
  ASSUME Inv, Connected, NEW t \in Workers,
         \/ ReadRequest(t) \/ ReadFails(t) \/ ProcessRequest(t)
         \/ ProcessFails(t) \/ WriteResponse(t) \/ WriteFails(t)
  PROVE  Connected'
<1>1. pc[t] \in Holding
  BY DEF Holding, ReadRequest, ReadFails, ProcessRequest, ProcessFails,
         WriteResponse, WriteFails
<1>2. PICK l : pc' = [pc EXCEPT ![t] = l]
  BY DEF ReadRequest, ReadFails, ProcessRequest, ProcessFails, WriteResponse,
         WriteFails
<1>3. UNCHANGED <<pipes, cursor, task, table, pending, fdTable, phase>>
  BY DEF tableVars, ReadRequest, ReadFails, ProcessRequest, ProcessFails,
         WriteResponse, WriteFails
<1>4. ElementsKept /\ NoneCompleted
  BY WorkKeeps
<1>5. PipesKept
  BY <1>3 DEF PipesKept
<1> QED
  BY <1>1, <1>2, <1>3, <1>4, <1>5, WorkerStays

(* Pushing a task refers to nothing new.                                   *)
LEMMA PushKeeps ==
  ASSUME Inv, NEW t \in Workers, Push(t)
  PROVE  /\ ElementsKept /\ NoneCompleted /\ PipesKept
         /\ task[t] \in Elements
         /\ TargetPipe(t) \in Stage /\ mutex[TargetPipe(t)] = NoThread
         /\ pipes' = [pipes EXCEPT ![TargetPipe(t)] = Append(@, task[t])]
         /\ pc' = [pc EXCEPT ![t] = "finish"]
         /\ UNCHANGED <<elements, cursor, task, outcome>>
<1>1. t \in Threads /\ pc[t] \in Holding
  BY DEF Threads, Holding, Push
<1>2. PICK e \in Elements : e = task[t] /\ elements[e].owner = t
  BY <1>1, TaskType
<1>3. PICK s \in Stage : s = TargetPipe(t)
  BY TargetPipeType
<1>4. mutex[s] = NoThread /\ pipes' = [pipes EXCEPT ![s] = Append(@, e)]
  BY <1>2, <1>3 DEF Push, MutexFree
<1>5. /\ pc' = [pc EXCEPT ![t] = "finish"]
      /\ UNCHANGED <<elements, cursor, task, outcome>>
  BY <1>2 DEF Push
<1>6. pipes \in [Stage -> Seq(Elements)]
  BY DEF Inv, TypeOK
<1>7. e \in Referenced(pipes, task)
  BY <1>1, <1>2 DEF Referenced
<1>8. \A r \in Stage :
        {pipes'[r][i] : i \in DOMAIN pipes'[r]}
          \subseteq {pipes[r][i] : i \in DOMAIN pipes[r]} \cup {e}
  <2> SUFFICES ASSUME NEW r \in Stage, NEW i \in DOMAIN pipes'[r]
               PROVE  pipes'[r][i] = e \/ \E j \in DOMAIN pipes[r] :
                                            pipes'[r][i] = pipes[r][j]
    OBVIOUS
  <2>1. PICK q \in Seq(Elements) : q = pipes[r]
    BY <1>6
  <2>2. CASE r = s
    <3>1. pipes'[r] = Append(q, e)
      BY <1>4, <1>6, <2>1, <2>2
    <3> QED
      BY <2>1, <3>1
  <2>3. CASE r # s
    BY <1>4, <1>6, <2>3
  <2> QED
    BY <2>2, <2>3
<1>9. Referenced(pipes', task') \subseteq Referenced(pipes, task)
  BY <1>5, <1>7, <1>8 DEF Referenced
<1>10. ElementsKept /\ NoneCompleted
  BY <1>5, <1>9, ChangedInPlace
<1>11. PipesKept
  BY <1>3, <1>4, <1>6 DEF PipesKept
<1> QED
  BY <1>2, <1>3, <1>4, <1>5, <1>10, <1>11

LEMMA PushConnected ==
  ASSUME Inv, Connected, NEW t \in Workers, Push(t)
  PROVE  Connected'
<1>1. /\ pc[t] \in Holding
      /\ UNCHANGED <<table, pending, fdTable, phase>>
  BY DEF Holding, Push, tableVars
<1> QED
  BY <1>1, PushKeeps, WorkerStays

(* A worker's marks are those of its own stage, or of the response's.      *)
LEMMA FinishKeeps ==
  ASSUME Inv, NEW t \in Workers, Finish(t)
  PROVE  ElementsKept /\ NoneCompleted
<1>1. t \in Threads /\ pc[t] \in Holding
  BY DEF Threads, Holding, Finish
<1>2. PICK e \in Elements : e = task[t]
  BY <1>1, TaskType
<1>3. elements[e] \in ElementType
  BY <1>1, <1>2, TaskType
<1>4. "completed" \notin Published(t)
  BY DEF Published, StageOf, Workers
<1>5. PICK F, unlocks :
        elements' = [elements EXCEPT ![e] =
          Released(MarkFailed(MarkDone(@, Published(t)), F), unlocks)]
  BY <1>2 DEF Finish
<1>6. PICK el :
        el = Released(MarkFailed(MarkDone(elements[e], Published(t)), F), unlocks)
  OBVIOUS
<1>7. /\ el.fd = elements[e].fd
      /\ el.conn = elements[e].conn
      /\ "completed" \in el.done <=> "completed" \in elements[e].done
  BY <1>3, <1>4, <1>6, ElementIdentity
<1>8. /\ task' = [task EXCEPT ![t] = 0]
      /\ UNCHANGED pipes
  BY DEF Finish
<1>9. Referenced(pipes', task') \subseteq Referenced(pipes, task)
  BY <1>1, <1>8, TaskReleased
<1> QED
  BY <1>5, <1>6, <1>7, <1>9, ChangedInPlace

LEMMA FinishConnected ==
  ASSUME Inv, Connected, NEW t \in Workers, Finish(t)
  PROVE  Connected'
<1>1. /\ pc[t] \in Holding
      /\ task' = [task EXCEPT ![t] = 0]
      /\ pc' = [pc EXCEPT ![t] = "idle"]
      /\ PipesKept
      /\ UNCHANGED <<cursor, table, pending, fdTable, phase>>
  BY DEF Holding, Finish, PipesKept, tableVars
<1> QED
  BY <1>1, FinishKeeps, WorkerStays
-----------------------------------------------------------------------------
(* The scans.                                                              *)

(* What a thread takes from a pipe it refers to already.                   *)
LEMMA ScannedIsReferenced ==
  ASSUME Inv, NEW t \in Threads, pc[t] \in Scanning
  PROVE  pipes[StageOf(t)][cursor[t]] \in Referenced(pipes, task)
<1>1. StageOf(t) \in Stage /\ cursor[t] \in DOMAIN pipes[StageOf(t)]
  BY StageOfType DEF Inv, ScannerHoldsMutex, Scanning
<1> QED
  BY <1>1 DEF Referenced

(* Locking an element changes none of its marks.                           *)
LEMMA LockKeeps ==
  ASSUME Inv, NEW t \in Threads, LockElement(t)
  PROVE  /\ ElementsKept /\ NoneCompleted
         /\ \E e \in Elements : /\ e = pipes[StageOf(t)][cursor[t]]
                               /\ task' = [task EXCEPT ![t] = e]
<1>1. pc[t] = "candidate" /\ StageOf(t) \in Stage
  BY StageOfType DEF LockElement
<1>2. PICK e \in Elements : e = pipes[StageOf(t)][cursor[t]]
  BY <1>1, CandidateType
<1>3. /\ elements[e] \in ElementType
      /\ DOMAIN task = Threads
      /\ DOMAIN elements = Elements
  BY DEF Inv, TypeOK
<1>4. /\ elements' = [elements EXCEPT ![e] = LockedBy(@, t)]
      /\ task' = [task EXCEPT ![t] = e]
      /\ UNCHANGED pipes
  BY <1>2 DEF LockElement
<1>5. PICK el : el = LockedBy(elements[e], t)
  OBVIOUS
<1>6. /\ el.fd = elements[e].fd
      /\ el.conn = elements[e].conn
      /\ el.done = elements[e].done
      /\ elements' = [elements EXCEPT ![e] = el]
  BY <1>3, <1>4, <1>5, ElementIdentity
<1>7. e \in Referenced(pipes, task)
  BY <1>1, <1>2, ScannedIsReferenced DEF Scanning
<1>8. Referenced(pipes', task') \subseteq Referenced(pipes, task)
  <2>1. \A u \in Threads : task'[u] \in {task[u], e}
    BY <1>3, <1>4
  <2> QED
    BY <1>4, <1>7, <2>1 DEF Referenced
<1>9. ElementsKept /\ NoneCompleted
  BY <1>6, <1>8, ChangedInPlace
<1> QED
  BY <1>2, <1>4, <1>9

LEMMA LockConnected ==
  ASSUME Inv, Connected, NEW t \in Threads, LockElement(t)
  PROVE  Connected'
<1>1. PICK e \in Elements : /\ e = pipes[StageOf(t)][cursor[t]]
                           /\ task' = [task EXCEPT ![t] = e]
  BY LockKeeps
<1>2. ElementsKept /\ NoneCompleted
  BY LockKeeps
<1>3. /\ pc[t] = "candidate"
      /\ cursor' = [cursor EXCEPT ![t] = 1]
      /\ pc' = [pc EXCEPT ![t] = "work"]
      /\ UNCHANGED <<pipes, table, pending, fdTable, phase>>
  BY DEF LockElement, tableVars
<1>4. /\ Listener \in Threads /\ StageOf(Listener) = "completed"
      /\ DOMAIN pc = Threads /\ DOMAIN cursor = Threads /\ DOMAIN task = Threads
  BY DEF Threads, StageOf, Workers, Inv, TypeOK
<1>5. ListenerTakesUnfinished'
  <2>1. CASE t = Listener
    <3>1. "completed" \notin elements[e].done
      BY <1>1, <1>3, <1>4, <2>1 DEF Connected, ListenerTakesUnfinished
    <3>2. pc'[Listener] = "work" /\ task'[Listener] = e
      BY <1>1, <1>3, <1>4, <2>1
    <3> QED
      BY <1>2, <3>1, <3>2 DEF ListenerTakesUnfinished, NoneCompleted
  <2>2. CASE t # Listener
    <3>1. /\ pc'[Listener] = pc[Listener]
          /\ cursor'[Listener] = cursor[Listener]
          /\ task'[Listener] = task[Listener]
      BY <1>1, <1>3, <1>4, <2>2
    <3>2. PipesKept
      BY <1>3 DEF PipesKept
    <3> QED
      BY <1>2, <3>1, <3>2, ListenerStays
  <2> QED
    BY <2>1, <2>2
<1> QED
  BY <1>2, <1>3, <1>5, ThreadStays

(* A step that moves the control of a thread alone.                        *)
LEMMA ControlConnected ==
  ASSUME Inv, Connected, NEW t \in Threads, pc[t] # "stopped",
         ListenerTakesUnfinished',
         UNCHANGED <<elements, pipes, task, table, pending, fdTable, phase>>
  PROVE  Connected'
<1>1. ElementsKept
  BY DEF ElementsKept, Unfinished
<1> QED
  BY <1>1, ThreadStays

(* Control that does not reach a candidate.                                *)
LEMMA LoopConnected ==
  ASSUME Inv, Connected, NEW t \in Threads, pc[t] # "stopped",
         NEW l, l # "candidate", pc' = [pc EXCEPT ![t] = l],
         cursor' = cursor \/ cursor' = [cursor EXCEPT ![t] = 1],
         UNCHANGED <<elements, pipes, task, table, pending, fdTable, phase>>
  PROVE  Connected'
<1>1. DOMAIN pc = Threads /\ DOMAIN cursor = Threads /\ Listener \in Threads
  BY DEF Inv, TypeOK, Threads
<1>2. pc'[Listener] = "candidate" =>
        pc[Listener] = "candidate" /\ cursor'[Listener] = cursor[Listener]
  BY <1>1
<1>3. PipesKept /\ NoneCompleted
  BY DEF PipesKept, NoneCompleted
<1>4. ListenerTakesUnfinished'
  BY <1>2, <1>3, ListenerStays
<1> QED
  BY <1>4, ControlConnected

(* A scan stops at an element the thread has not processed.                *)
LEMMA CandidateConnected ==
  ASSUME Inv, Connected, NEW t \in Threads, pc[t] # "stopped",
         NEW k, NEW i, IsCandidate(StageOf(t), k, i),
         pc' = [pc EXCEPT ![t] = "candidate"],
         cursor' = [cursor EXCEPT ![t] = i],
         UNCHANGED <<elements, pipes, task, table, pending, fdTable, phase>>
  PROVE  Connected'
<1>1. /\ DOMAIN pc = Threads /\ DOMAIN cursor = Threads
      /\ Listener \in Threads /\ StageOf(Listener) = "completed"
  BY DEF Inv, TypeOK, Threads, StageOf, Workers
<1>2. ListenerTakesUnfinished'
  <2>1. CASE t = Listener
    <3>1. "completed" \notin elements[pipes["completed"][i]].done
      BY <1>1, <2>1 DEF IsCandidate, Processed
    <3>2. cursor'[Listener] = i
      BY <1>1, <2>1
    <3> QED
      BY <3>1, <3>2 DEF Connected, ListenerTakesUnfinished
  <2>2. CASE t # Listener
    <3>1. /\ pc'[Listener] = pc[Listener]
          /\ cursor'[Listener] = cursor[Listener]
      BY <1>1, <2>2
    <3>2. PipesKept /\ NoneCompleted
      BY DEF PipesKept, NoneCompleted
    <3> QED
      BY <3>1, <3>2, ListenerStays
  <2> QED
    BY <2>1, <2>2
<1> QED
  BY <1>2, ControlConnected

(* Scanning, but for the lock of the candidate.                            *)
LEMMA PollConnected ==
  ASSUME Inv, Connected, NEW t \in Threads, Poll(t) \/ StopThread(t)
  PROVE  Connected'
<1>1. CASE Scan(t)
  <2>1. PICK i : /\ IsCandidate(StageOf(t), 1, i)
                 /\ cursor' = [cursor EXCEPT ![t] = i]
    BY <1>1 DEF Scan
  <2>2. /\ pc[t] # "stopped"
        /\ pc' = [pc EXCEPT ![t] = "candidate"]
        /\ UNCHANGED <<elements, pipes, task, table, pending, fdTable, phase>>
    BY <1>1 DEF Scan, PollPoint, tableVars
  <2> QED
    BY <2>1, <2>2, CandidateConnected
<1>2. CASE LockElement(t)
  BY <1>2, LockConnected
<1>3. CASE LockElementFails(t)
  <2>1. /\ pc[t] # "stopped"
        /\ pc' = [pc EXCEPT ![t] = "rescan"]
        /\ UNCHANGED <<elements, pipes, cursor, task, table, pending, fdTable,
                       phase>>
    BY <1>3 DEF LockElementFails, tableVars
  <2> QED
    BY <2>1, LoopConnected
<1>4. CASE RescanFinds(t)
  <2>1. PICK i : /\ IsCandidate(StageOf(t), cursor[t] + 1, i)
                 /\ cursor' = [cursor EXCEPT ![t] = i]
    BY <1>4 DEF RescanFinds
  <2>2. /\ pc[t] # "stopped"
        /\ pc' = [pc EXCEPT ![t] = "candidate"]
        /\ UNCHANGED <<elements, pipes, task, table, pending, fdTable, phase>>
    BY <1>4 DEF RescanFinds, tableVars
  <2> QED
    BY <2>1, <2>2, CandidateConnected
<1>5. CASE RescanEnds(t)
  <2>1. /\ pc[t] # "stopped" /\ LoopHead(t) # "candidate"
        /\ pc' = [pc EXCEPT ![t] = LoopHead(t)]
        /\ cursor' = [cursor EXCEPT ![t] = 1]
        /\ UNCHANGED <<elements, pipes, task, table, pending, fdTable, phase>>
    BY <1>5 DEF RescanEnds, LoopHead, tableVars
  <2> QED
    BY <2>1, LoopConnected
<1>6. CASE StopThread(t)
  <2>1. /\ pc[t] # "stopped"
        /\ pc' = [pc EXCEPT ![t] = "stopped"]
        /\ UNCHANGED <<elements, pipes, cursor, task, table, pending, fdTable,
                       phase>>
    BY <1>6 DEF StopThread, LoopHead, tableVars
  <2> QED
    BY <2>1, LoopConnected
<1> QED
  BY <1>1, <1>2, <1>3, <1>4, <1>5, <1>6 DEF Poll
-----------------------------------------------------------------------------
(* The listener.                                                           *)

(* The steps of its loop that only move on.                                *)
LEMMA ListenerLoopConnected ==
  ASSUME Inv, Connected, PublishExpires \/ Update \/ DrainEnds
  PROVE  Connected'
<1>1. /\ pc[Listener] # "stopped" /\ Listener \in Threads
      /\ \E l \in {"update", "drain", "select"} : pc' = [pc EXCEPT ![Listener] = l]
      /\ UNCHANGED <<elements, pipes, cursor, task, table, pending, fdTable,
                     phase>>
  BY DEF PublishExpires, Update, DrainEnds, tableVars, Threads
<1>2. PICK l : l # "candidate" /\ pc' = [pc EXCEPT ![Listener] = l]
  BY <1>1
<1> QED
  BY <1>1, <1>2, LoopConnected

(* One turn of select: the connections on their way keep their             *)
(* descriptors, and what joins them is not on its way yet.                 *)
LEMMA SelectConnected ==
  ASSUME Inv, Connected, AtSelect,
         NEW tbl \in TableType, NEW ready, QueueActive(tbl, ready),
         FdsAreApart(tbl),
         TableFds(tbl) = {f \in Fds : fdTable'[f] # NoConn},
         \A g \in Fds : LockedIn(table, g) =>
           LockedIn(tbl, g) /\ fdTable'[g] = fdTable[g],
         UNCHANGED <<elements, pipes, cursor, task, phase>>
  PROVE  Connected'
<1>1. /\ phase # "stopped" /\ pc[Listener] = "select"
      /\ Listener \in Threads
  BY DEF AtSelect, Threads
<1>2. PICK order \in Ascending(ActiveSlots(tbl, ready)) :
        pending' = QueueOf(tbl, pending, order)
  BY DEF QueueActive, QueueOf
<1>3. pending \in Seq(Fds)
  BY DEF Inv, TypeOK
<1>4. \A k \in DOMAIN pending : LockedIn(table, pending[k]) /\ pending[k] \in Fds
  BY <1>1, <1>3 DEF Connected, PendingAreLocked, AllLockedIn
<1>5. AllLockedIn(tbl, pending) /\ Distinct(pending)
  BY <1>1, <1>4 DEF Connected, PendingAreLocked, AllLockedIn
<1>6. PICK queue : queue = pending'
  OBVIOUS
<1>7. PICK new : new = LockActive(tbl, ready)
  OBVIOUS
<1>8. /\ FdsAreApart(new)
      /\ TableFds(new) = TableFds(tbl)
      /\ \A g : LockedIn(tbl, g) => LockedIn(new, g)
      /\ AllLockedIn(new, queue)
      /\ Distinct(queue)
      /\ \A k \in DOMAIN queue : \/ \E j \in DOMAIN pending : pending[j] = queue[k]
                                 \/ ~LockedIn(tbl, queue[k])
  <2>1. queue = QueueOf(tbl, pending, order)
    BY <1>2, <1>6
  <2> QED
    BY <1>3, <1>5, <1>7, <2>1, Queued
<1>9. table' = new
  BY <1>7 DEF QueueActive
<1>10. TableMatchesDescriptors'
  BY <1>8, <1>9 DEF TableMatchesDescriptors, FdsAreApart
<1>11. PendingAreLocked'
  BY <1>6, <1>8, <1>9 DEF PendingAreLocked
<1>12. Unfinished' = Unfinished
  BY DEF Unfinished
<1>13. ElementsAreLocked'
  <2> SUFFICES ASSUME NEW e \in Unfinished
               PROVE  /\ elements[e].fd \in Fds
                      /\ LockedIn(new, elements[e].fd)
                      /\ fdTable'[elements[e].fd] = elements[e].conn
                      /\ \A k \in DOMAIN queue : queue[k] # elements[e].fd
                      /\ \A d \in Unfinished :
                           elements[d].fd = elements[e].fd => d = e
    BY <1>6, <1>9, <1>12 DEF ElementsAreLocked
  <2>1. /\ elements[e].fd \in Fds
        /\ LockedIn(table, elements[e].fd)
        /\ fdTable[elements[e].fd] = elements[e].conn
        /\ \A k \in DOMAIN pending : pending[k] # elements[e].fd
        /\ \A d \in Unfinished : elements[d].fd = elements[e].fd => d = e
    BY <1>1 DEF Connected, ElementsAreLocked
  <2>2. /\ LockedIn(tbl, elements[e].fd)
        /\ fdTable'[elements[e].fd] = elements[e].conn
    BY <2>1
  <2>3. \A k \in DOMAIN queue : queue[k] # elements[e].fd
    BY <1>8, <2>1, <2>2
  <2> QED
    BY <1>8, <2>1, <2>2, <2>3
<1>14. ListenerTakesUnfinished'
  <2>1. pc'[Listener] # "candidate"
    BY <1>1 DEF QueueActive, Inv, TypeOK
  <2> QED
    BY <2>1 DEF Connected, ListenerTakesUnfinished
<1> QED
  BY <1>1, <1>10, <1>11, <1>13, <1>14 DEF Connected, StoppedForGood

(* select and its failure, with and without a connection waiting.          *)
LEMMA SelectTurnConnected ==
  ASSUME Inv, Connected, Select \/ Accept \/ TurnAway \/ SelectFails
  PROVE  Connected'
<1>1. /\ table \in TableType /\ FdsAreApart(table)
      /\ TableFds(table) = {f \in Fds : fdTable[f] # NoConn}
  BY TableIsTyped DEF Connected, TableMatchesDescriptors, FdsAreApart
<1>2. CASE Select \/ TurnAway \/ SelectFails
  <2>1. PICK ready : QueueActive(table, ready)
    BY <1>2 DEF Select, TurnAway, SelectFails
  <2>2. /\ AtSelect
        /\ UNCHANGED <<elements, pipes, cursor, task, phase, fdTable>>
    BY <1>2 DEF Select, TurnAway, SelectFails
  <2>3. TableFds(table) = {f \in Fds : fdTable'[f] # NoConn}
    BY <1>1, <2>2
  <2>4. \A g \in Fds : LockedIn(table, g) =>
          LockedIn(table, g) /\ fdTable'[g] = fdTable[g]
    BY <2>2
  <2> QED
    BY <1>1, <2>1, <2>2, <2>3, <2>4, SelectConnected
<1>3. CASE Accept
  <2>1. /\ AtSelect /\ backlog # <<>> /\ HasVacancy(table)
        /\ UNCHANGED <<elements, pipes, cursor, task, phase>>
    BY <1>3 DEF Accept
  <2>2. PICK f \in Fds :
          /\ fdTable[f] = NoConn
          /\ fdTable' = [fdTable EXCEPT ![f] = Head(backlog)]
          /\ QueueActive(AddConnection(table, f), Ready)
    BY <1>3 DEF Accept, FreeFds
  <2>3. PICK tbl, ready : tbl = AddConnection(table, f) /\ ready = Ready
    OBVIOUS
  <2>4. Head(backlog) # NoConn
    <3>1. backlog \in Seq(Conns)
      BY DEF Inv, TypeOK
    <3> QED
      BY <2>1, <3>1
  <2>5. f \notin TableFds(table)
    BY <1>1, <2>2
  <2>6. /\ tbl \in TableType
        /\ FdsAreApart(tbl)
        /\ TableFds(tbl) = TableFds(table) \cup {f}
        /\ \A g \in Fds : LockedIn(table, g) => LockedIn(tbl, g)
    BY <1>1, <2>1, <2>3, <2>5, Added, TableAdded
  <2>7. DOMAIN fdTable = Fds
    BY DEF Inv, TypeOK
  <2>8. \A g \in Fds : fdTable'[g] = IF g = f THEN Head(backlog) ELSE fdTable[g]
    BY <2>2, <2>7
  <2>9. TableFds(tbl) = {g \in Fds : fdTable'[g] # NoConn}
    BY <1>1, <2>4, <2>6, <2>8
  <2>10. ~LockedIn(table, f)
    BY <2>5 DEF LockedIn, TableFds
  <2>11. \A g \in Fds : LockedIn(table, g) =>
           LockedIn(tbl, g) /\ fdTable'[g] = fdTable[g]
    BY <2>6, <2>8, <2>10
  <2>12. QueueActive(tbl, ready)
    BY <2>2, <2>3
  <2> QED
    BY <2>1, <2>6, <2>9, <2>11, <2>12, SelectConnected
<1> QED
  BY <1>2, <1>3

(* What an element is constructed with.                                    *)
LEMMA NewElementIs ==
  ASSUME NEW f, NEW c
  PROVE  /\ NewElement(f, c, Unowned).fd = f
         /\ NewElement(f, c, Unowned).conn = c
         /\ NewElement(f, c, Unowned).done = {}
BY DEF NewElement

(* The pending descriptors become elements, one each.                      *)
IsBatch(q) ==
  /\ \A j, k \in DOMAIN q : q[j] = q[k] => j = k
  /\ \A k \in DOMAIN q :
       elements'[q[k]] = NewElement(pending[k], fdTable[pending[k]], Unowned)
  /\ \A e \in Elements : \/ \E k \in DOMAIN q : q[k] = e
                        \/ elements'[e] = elements[e]
  /\ \A e \in Unfinished' : \/ e \in Unfinished /\ elements'[e] = elements[e]
                           \/ \E k \in DOMAIN q : q[k] = e

LEMMA PublishedAreNew ==
  ASSUME Inv, PublishConnections
  PROVE  \E q \in [DOMAIN pending -> Elements \ Referenced(pipes, task)] :
           /\ IsBatch(q)
           /\ q \in Seq(Elements)
           /\ pipes' = [pipes EXCEPT !["request"] = @ \o q]
           /\ PipesKept
<1>1. PICK q \in [DOMAIN pending -> Elements \ Referenced(pipes, task)] :
        /\ IsAllocation(q)
        /\ elements' = [e \in Elements |->
             IF \E i \in DOMAIN q : q[i] = e
             THEN LET fd == pending[CHOOSE i \in DOMAIN q : q[i] = e]
                  IN  NewElement(fd, fdTable[fd], Unowned)
             ELSE elements[e]]
        /\ pipes' = [pipes EXCEPT !["request"] = @ \o q]
  BY DEF PublishConnections
<1>2. mutex["request"] = NoThread /\ UNCHANGED task
  BY DEF PublishConnections, MutexFree
<1>3. /\ pending \in Seq(Fds)
      /\ pipes \in [Stage -> Seq(Elements)]
  BY DEF Inv, TypeOK
<1>4. /\ DOMAIN q = DOMAIN pending
      /\ \A k \in DOMAIN q : /\ q[k] \in Elements
                             /\ q[k] \notin Referenced(pipes, task)
                             /\ pending[k] \in Fds
  BY <1>3
<1>5. \A j, k \in DOMAIN q : q[j] = q[k] => j = k
  <2> SUFFICES ASSUME NEW j \in DOMAIN q, NEW k \in DOMAIN q, j # k
               PROVE  q[j] # q[k]
    OBVIOUS
  <2>1. j \in 1..Len(pending) /\ k \in 1..Len(pending) /\ Len(pending) \in Nat
    BY <1>3, <1>4
  <2>2. j < k \/ k < j
    BY <2>1
  <2>3. q[j] < q[k] \/ q[k] < q[j]
    BY <1>1, <2>2 DEF IsAllocation
  <2>4. q[j] \in Elements /\ q[k] \in Elements
    BY <1>4
  <2>5. q[j] \in Nat /\ q[k] \in Nat
    BY <2>4
  <2> QED
    BY <2>3, <2>5
<1>6. \A k \in DOMAIN q :
        elements'[q[k]] = NewElement(pending[k], fdTable[pending[k]], Unowned)
  <2> SUFFICES ASSUME NEW k \in DOMAIN q
               PROVE  elements'[q[k]]
                        = NewElement(pending[k], fdTable[pending[k]], Unowned)
    OBVIOUS
  <2>1. (CHOOSE i \in DOMAIN q : q[i] = q[k]) = k
    BY <1>5
  <2> QED
    BY <1>1, <1>4, <2>1
<1>7. \A e \in Elements : \/ \E k \in DOMAIN q : q[k] = e
                          \/ elements'[e] = elements[e]
  BY <1>1
<1>8. q \in Seq(Elements)
  <2>1. q \in [1..Len(pending) -> Elements]
    BY <1>3, <1>4
  <2>2. Len(pending) \in Nat
    BY <1>3
  <2> QED
    BY <2>1, <2>2
<1>9. \A e \in Referenced(pipes', task') :
        e \in Referenced(pipes, task) \/ \E k \in DOMAIN q : q[k] = e
  <2> SUFFICES ASSUME NEW e \in Referenced(pipes', task'),
                      e \notin {task[t] : t \in Threads} \ {0}
               PROVE  e \in Referenced(pipes, task) \/ \E k \in DOMAIN q : q[k] = e
    BY DEF Referenced
  <2>1. PICK s \in Stage : \E i \in DOMAIN pipes'[s] : e = pipes'[s][i]
    BY <1>2 DEF Referenced
  <2>2. PICK i \in DOMAIN pipes'[s] : e = pipes'[s][i]
    BY <2>1
  <2>3. CASE s = "request"
    <3>1. PICK p \in Seq(Elements) : p = pipes[s]
      BY <1>3
    <3>2. q \in Seq(Elements)
      BY <1>8
    <3>3. pipes'[s] = p \o q
      BY <1>1, <1>3, <2>3, <3>1
    <3>4. /\ p \o q \in Seq(Elements)
          /\ Len(p \o q) = Len(p) + Len(q)
          /\ \A k \in 1..(Len(p) + Len(q)) :
               (p \o q)[k] = IF k <= Len(p) THEN p[k] ELSE q[k - Len(p)]
      BY <3>2, ConcatProperties
    <3>5. i \in 1..(Len(p) + Len(q))
      BY <2>2, <3>3, <3>4
    <3>6. CASE i <= Len(p)
      <4>1. i \in DOMAIN pipes[s] /\ e = pipes[s][i]
        BY <2>2, <3>1, <3>3, <3>4, <3>5, <3>6
      <4> QED
        BY <4>1 DEF Referenced
    <3>7. CASE ~(i <= Len(p))
      <4>1. i - Len(p) \in 1..Len(q)
        BY <3>1, <3>2, <3>5, <3>7
      <4>2. i - Len(p) \in DOMAIN q /\ e = q[i - Len(p)]
        BY <2>2, <3>2, <3>3, <3>4, <3>5, <3>7, <4>1
      <4> QED
        BY <4>2
    <3> QED
      BY <3>6, <3>7
  <2>4. CASE s # "request"
    <3>1. pipes'[s] = pipes[s]
      BY <1>1, <1>3, <2>4
    <3> QED
      BY <2>2, <3>1 DEF Referenced
  <2> QED
    BY <2>3, <2>4
<1>10. \A e \in Unfinished' :
         \/ e \in Unfinished /\ elements'[e] = elements[e]
         \/ \E k \in DOMAIN q : q[k] = e
  <2> SUFFICES ASSUME NEW e \in Unfinished', ~\E k \in DOMAIN q : q[k] = e
               PROVE  e \in Unfinished /\ elements'[e] = elements[e]
    OBVIOUS
  <2>1. e \in Referenced(pipes, task) /\ "completed" \notin elements'[e].done
    BY <1>9 DEF Unfinished
  <2>2. elements'[e] = elements[e]
    BY <1>7, <2>1, ReferencedType
  <2> QED
    BY <2>1, <2>2 DEF Unfinished
<1>11. PipesKept
  BY <1>1, <1>2, <1>3 DEF PipesKept
<1>12. IsBatch(q)
  BY <1>5, <1>6, <1>7, <1>10 DEF IsBatch
<1> QED
  BY <1>1, <1>8, <1>11, <1>12

(* They are pending no longer.                                             *)
LEMMA PublishConnected ==
  ASSUME Inv, Connected, PublishConnections
  PROVE  Connected'
<1>1. PICK q \in [DOMAIN pending -> Elements \ Referenced(pipes, task)] :
        IsBatch(q) /\ PipesKept
  BY PublishedAreNew
<1>2. /\ pc[Listener] = "publish"
      /\ pending' = <<>>
      /\ pc' = [pc EXCEPT ![Listener] = "update"]
      /\ UNCHANGED <<cursor, task, table, fdTable, phase>>
  BY DEF PublishConnections
<1>3. /\ phase # "stopped" /\ Listener \in Threads
      /\ pending \in Seq(Fds)
  BY <1>2 DEF Connected, StoppedForGood, Inv, TypeOK, Threads
<1>4. /\ DOMAIN q = DOMAIN pending
      /\ \A k \in DOMAIN q : /\ q[k] \in Elements
                             /\ q[k] \notin Referenced(pipes, task)
                             /\ pending[k] \in Fds
  BY <1>3
<1>5. \A k \in DOMAIN q : /\ elements'[q[k]].fd = pending[k]
                          /\ elements'[q[k]].conn = fdTable[pending[k]]
                          /\ elements'[q[k]].done = {}
  BY <1>1, NewElementIs DEF IsBatch
<1>6. \A e \in Elements : \/ \E k \in DOMAIN q : q[k] = e
                          \/ elements'[e] = elements[e]
  BY <1>1 DEF IsBatch
<1>7. \A e \in Unfinished' :
         \/ e \in Unfinished /\ elements'[e] = elements[e]
         \/ \E k \in DOMAIN q : q[k] = e
  BY <1>1 DEF IsBatch
<1>8. /\ AllLockedIn(table, pending) /\ Distinct(pending)
       /\ ElementsAreLocked /\ TableMatchesDescriptors
  BY <1>3 DEF Connected, PendingAreLocked
<1>9. ElementsAreLocked'
  <2> SUFFICES ASSUME NEW e \in Unfinished'
               PROVE  /\ elements'[e].fd \in Fds
                      /\ LockedIn(table, elements'[e].fd)
                      /\ fdTable[elements'[e].fd] = elements'[e].conn
                      /\ \A d \in Unfinished' :
                           elements'[d].fd = elements'[e].fd => d = e
    BY <1>2 DEF ElementsAreLocked
  <2>1. CASE e \in Unfinished /\ elements'[e] = elements[e]
    <3>1. /\ elements[e].fd \in Fds
          /\ LockedIn(table, elements[e].fd)
          /\ fdTable[elements[e].fd] = elements[e].conn
          /\ \A k \in DOMAIN pending : pending[k] # elements[e].fd
          /\ \A d \in Unfinished : elements[d].fd = elements[e].fd => d = e
      BY <1>8, <2>1 DEF ElementsAreLocked
    <3>2. \A d \in Unfinished' : elements'[d].fd = elements[e].fd => d = e
      BY <1>4, <1>5, <1>7, <3>1
    <3> QED
      BY <2>1, <3>1, <3>2
  <2>2. CASE \E k \in DOMAIN q : q[k] = e
    <3>1. PICK k \in DOMAIN q : q[k] = e
      BY <2>2
    <3>2. /\ elements'[e].fd = pending[k]
          /\ pending[k] \in Fds
          /\ LockedIn(table, pending[k])
          /\ elements'[e].conn = fdTable[pending[k]]
      BY <1>4, <1>5, <1>8, <3>1 DEF AllLockedIn
    <3>3. ASSUME NEW d \in Unfinished', elements'[d].fd = pending[k]
          PROVE  d = e
      <4>1. CASE d \in Unfinished /\ elements'[d] = elements[d]
        BY <1>4, <1>8, <3>3, <4>1 DEF ElementsAreLocked
      <4>2. CASE \E j \in DOMAIN q : q[j] = d
        <5>1. PICK j \in DOMAIN q : q[j] = d
          BY <4>2
        <5>2. pending[j] = pending[k]
          BY <1>5, <3>3, <5>1
        <5>3. j = k
          BY <1>4, <1>8, <5>2 DEF Distinct
        <5> QED
          BY <3>1, <5>1, <5>3
      <4> QED
        BY <1>7, <4>1, <4>2
    <3> QED
      BY <3>2, <3>3
  <2> QED
    BY <1>7, <2>1, <2>2
<1>10. PendingAreLocked'
  BY <1>2 DEF PendingAreLocked, AllLockedIn, Distinct
<1>11. TableMatchesDescriptors'
  BY <1>2, <1>8 DEF TableMatchesDescriptors
<1>12. ListenerTakesUnfinished'
  <2>1. NoneCompleted
    BY <1>5, <1>6 DEF NoneCompleted
  <2>2. pc'[Listener] # "candidate"
    BY <1>2, <1>3 DEF Inv, TypeOK
  <2> QED
    BY <1>1, <1>2, <2>1, <2>2, ListenerStays
<1> QED
  BY <1>2, <1>3, <1>9, <1>10, <1>11, <1>12 DEF Connected, StoppedForGood

(* The listener completes one unfinished element: e, of descriptor f.       *)
IsCompleted(e, f) ==
  /\ e = task[Listener] /\ e \in Unfinished
  /\ f = elements[e].fd
  /\ LockedIn(table, f)
  /\ \A k \in DOMAIN pending : pending[k] # f
  /\ \A d \in Unfinished : elements[d].fd = f => d = e
  /\ "completed" \in elements'[e].done
  /\ \A d \in Elements : d # e => elements'[d] = elements[d]
  /\ \A d \in Unfinished' : d \in Unfinished /\ d # e

LEMMA OneIsCompleted ==
  ASSUME Inv, Connected, Complete
  PROVE  \E e \in Elements, f \in Fds : IsCompleted(e, f)
<1>1. Listener \in Threads /\ pc[Listener] = "work"
  BY DEF Threads, Complete
<1>2. PICK e \in Elements : e = task[Listener]
  BY <1>1, TaskType DEF Holding
<1>3. elements[e] \in ElementType /\ e # 0
  BY <1>1, <1>2, TaskType DEF Holding
<1>4. phase # "stopped"
  BY <1>1 DEF Connected, StoppedForGood
<1>5. ElementsAreLocked
  BY <1>4 DEF Connected
<1>6. e \in Unfinished
  <2>1. e \in Referenced(pipes, task)
    BY <1>1, <1>2, <1>3 DEF Referenced
  <2> QED
    BY <1>2, <1>3, <2>1 DEF Connected, ListenerTakesUnfinished, Unfinished
<1>7. PICK f \in Fds : /\ f = elements[e].fd
                       /\ LockedIn(table, f)
                       /\ \A k \in DOMAIN pending : pending[k] # f
                       /\ \A d \in Unfinished : elements[d].fd = f => d = e
  BY <1>5, <1>6 DEF ElementsAreLocked
<1>8. PICK unlocks : elements' = [elements EXCEPT ![e] =
                       Released(MarkDone(@, {"completed"}), unlocks)]
  BY <1>2 DEF Complete
<1>9. /\ "completed" \in elements'[e].done
      /\ \A d \in Elements : d # e => elements'[d] = elements[d]
  <2>1. DOMAIN elements = Elements
    BY DEF Inv, TypeOK
  <2>2. elements'[e] = Released(MarkDone(elements[e], {"completed"}), unlocks)
    BY <1>8, <2>1
  <2>3. \A D : Released(MarkDone(elements[e], D), unlocks).done
                = elements[e].done \cup D
    BY <1>3 DEF ElementType, MarkDone, Released, Unlocked
  <2> QED
    BY <1>8, <2>1, <2>2, <2>3
<1>10. /\ task' = [task EXCEPT ![Listener] = 0]
       /\ UNCHANGED pipes
  BY DEF Complete
<1>11. \A d \in Unfinished' : d \in Unfinished /\ d # e
  <2> SUFFICES ASSUME NEW d \in Unfinished'
               PROVE  d \in Unfinished /\ d # e
    OBVIOUS
  <2>1. Referenced(pipes, task') \subseteq Referenced(pipes, task)
    BY <1>1, <1>10, TaskReleased
  <2>2. d \in Referenced(pipes, task) /\ "completed" \notin elements'[d].done
    BY <1>10, <2>1 DEF Unfinished
  <2>3. d \in Elements /\ d # e
    BY <1>9, <2>2, ReferencedType
  <2> QED
    BY <1>9, <2>2, <2>3 DEF Unfinished
<1> QED
  BY <1>2, <1>6, <1>7, <1>9, <1>11 DEF IsCompleted

(* Its connection is let go, and only that.                                *)
LEMMA ConnectionIsLetGo ==
  ASSUME Inv, Connected, Complete, NEW e \in Elements, NEW f \in Fds,
         IsCompleted(e, f)
  PROVE  /\ FdsAreApart(table')
         /\ TableFds(table') = {g \in Fds : fdTable'[g] # NoConn}
         /\ \A g \in Fds \ {f} : LockedIn(table, g) =>
              LockedIn(table', g) /\ fdTable'[g] = fdTable[g]
         /\ \A g \in Fds : LockedIn(table', g) => g # f /\ LockedIn(table, g)
<1>1. e = task[Listener] /\ f = elements[e].fd /\ LockedIn(table, f)
  BY DEF IsCompleted
<1>2. /\ table \in TableType /\ FdsAreApart(table)
      /\ TableFds(table) = {g \in Fds : fdTable[g] # NoConn}
  BY TableIsTyped DEF Connected, TableMatchesDescriptors, FdsAreApart
<1>3. PICK new : new = table'
  OBVIOUS
<1>4. CASE /\ new = RemoveConnection(table, f)
           /\ fdTable' = [fdTable EXCEPT ![f] = NoConn]
  <2>1. /\ FdsAreApart(new)
        /\ TableFds(new) = TableFds(table) \ {f}
        /\ \A g \in Fds \ {f} : LockedIn(table, g) => LockedIn(new, g)
        /\ \A g \in Fds : LockedIn(new, g) => g # f /\ LockedIn(table, g)
    <3>1. PICK tbl \in TableType :
            tbl = table /\ FdsAreApart(tbl) /\ LockedIn(tbl, f)
      BY <1>1, <1>2
    <3>2. FdsAreApart(RemoveConnection(tbl, f))
      BY <3>1, RemovedOne
    <3>3. TableFds(RemoveConnection(tbl, f)) = TableFds(tbl) \ {f}
      BY <3>1, RemovedOne
    <3>4. \A g \in Fds \ {f} :
            LockedIn(tbl, g) => LockedIn(RemoveConnection(tbl, f), g)
      BY <3>1, RemovedOne
    <3>5. \A g \in Fds :
            LockedIn(RemoveConnection(tbl, f), g) => g # f /\ LockedIn(tbl, g)
      BY <3>1, RemovedOne
    <3> QED
      BY <1>4, <3>1, <3>2, <3>3, <3>4, <3>5
  <2>2. DOMAIN fdTable = Fds
    BY DEF Inv, TypeOK
  <2>3. \A g \in Fds : fdTable'[g] = IF g = f THEN NoConn ELSE fdTable[g]
    BY <1>4, <2>2
  <2>4. TableFds(new) = {g \in Fds : fdTable'[g] # NoConn}
    BY <1>2, <2>1, <2>3
  <2> QED
    BY <1>3, <2>1, <2>3, <2>4
<1>5. CASE new = UnlockConnection(table, f) /\ fdTable' = fdTable
  <2>1. /\ FdsAreApart(new)
        /\ TableFds(new) = TableFds(table)
        /\ \A g \in Fds \ {f} : LockedIn(table, g) => LockedIn(new, g)
        /\ \A g \in Fds : LockedIn(new, g) => g # f /\ LockedIn(table, g)
    BY <1>1, <1>2, <1>5, UnlockedOne
  <2> QED
    BY <1>2, <1>3, <1>5, <2>1
<1> QED
  BY <1>1, <1>3, <1>4, <1>5 DEF Complete

LEMMA CompleteConnected ==
  ASSUME Inv, Connected, Complete
  PROVE  Connected'
<1>1. Listener \in Threads /\ pc[Listener] = "work"
  BY DEF Threads, Complete
<1>2. PICK e \in Elements, f \in Fds : IsCompleted(e, f)
  BY OneIsCompleted
<1>3. e = task[Listener] /\ f = elements[e].fd
  BY <1>2 DEF IsCompleted
<1>4. phase # "stopped"
  BY <1>1 DEF Connected, StoppedForGood
<1>5. /\ AllLockedIn(table, pending) /\ Distinct(pending)
      /\ ElementsAreLocked
      /\ table \in TableType /\ FdsAreApart(table)
      /\ TableFds(table) = {g \in Fds : fdTable[g] # NoConn}
  BY <1>4, TableIsTyped DEF Connected, PendingAreLocked, TableMatchesDescriptors,
                            FdsAreApart
<1>6. /\ f = elements[e].fd
      /\ LockedIn(table, f)
      /\ \A k \in DOMAIN pending : pending[k] # f
      /\ \A d \in Unfinished : elements[d].fd = f => d = e
  BY <1>2 DEF IsCompleted
<1>7. /\ task' = [task EXCEPT ![Listener] = 0]
       /\ pc' = [pc EXCEPT ![Listener] = "drain"]
       /\ UNCHANGED <<cursor, pending, phase>>
  BY DEF Complete
<1>8. \A d \in Unfinished' : /\ d \in Unfinished
                              /\ d # e
                              /\ elements'[d] = elements[d]
  <2>1. \A d \in Unfinished : d \in Elements
    BY ReferencedType DEF Unfinished
  <2> QED
    BY <1>2, <2>1 DEF IsCompleted
<1>9. PICK new, sockets :
         /\ new = table' /\ sockets = fdTable'
         /\ FdsAreApart(new)
         /\ TableFds(new) = {g \in Fds : sockets[g] # NoConn}
         /\ \A g \in Fds \ {f} : LockedIn(table, g) =>
              LockedIn(new, g) /\ sockets[g] = fdTable[g]
  BY <1>2, ConnectionIsLetGo
<1>10. TableMatchesDescriptors'
  BY <1>9 DEF TableMatchesDescriptors, FdsAreApart
<1>11. PendingAreLocked'
  <2>1. \A k \in DOMAIN pending : pending[k] \in Fds
    BY DEF Inv, TypeOK
  <2>2. AllLockedIn(new, pending)
    BY <1>5, <1>6, <1>9, <2>1 DEF AllLockedIn
  <2> QED
    BY <1>5, <1>7, <1>9, <2>2 DEF PendingAreLocked
<1>12. ElementsAreLocked'
  <2> SUFFICES ASSUME NEW d \in Unfinished'
               PROVE  /\ elements'[d].fd \in Fds
                      /\ LockedIn(new, elements'[d].fd)
                      /\ sockets[elements'[d].fd] = elements'[d].conn
                      /\ \A k \in DOMAIN pending : pending[k] # elements'[d].fd
                      /\ \A c \in Unfinished' :
                           elements'[c].fd = elements'[d].fd => c = d
    BY <1>7, <1>9 DEF ElementsAreLocked
  <2>1. d \in Unfinished /\ d # e /\ elements'[d] = elements[d]
    BY <1>8
  <2>2. /\ elements[d].fd \in Fds
        /\ LockedIn(table, elements[d].fd)
        /\ fdTable[elements[d].fd] = elements[d].conn
        /\ \A k \in DOMAIN pending : pending[k] # elements[d].fd
        /\ \A c \in Unfinished : elements[c].fd = elements[d].fd => c = d
    BY <1>5, <2>1 DEF ElementsAreLocked
  <2>3. elements[d].fd # f
    BY <1>6, <2>1
  <2>4. LockedIn(new, elements[d].fd) /\ sockets[elements[d].fd] = elements[d].conn
    BY <1>9, <2>2, <2>3
  <2>5. \A c \in Unfinished' : elements'[c].fd = elements[d].fd => c = d
    BY <1>8, <2>2
  <2> QED
    BY <2>1, <2>2, <2>4, <2>5
<1>13. ListenerTakesUnfinished'
  <2>1. pc'[Listener] # "candidate" /\ task'[Listener] = 0
    BY <1>1, <1>7 DEF Inv, TypeOK
  <2> QED
    BY <2>1 DEF ListenerTakesUnfinished
<1> QED
  BY <1>4, <1>7, <1>10, <1>11, <1>12, <1>13 DEF Connected, StoppedForGood
-----------------------------------------------------------------------------
(* main and the clients.                                                   *)

(* Maintenance forgets elements and destroys those nothing refers to.      *)
LEMMA MaintainKeeps ==
  ASSUME Inv, NEW s \in Stage, Maintain(s)
  PROVE  /\ ElementsKept /\ NoneCompleted /\ PipesKept
         /\ \A e \in Unfinished' : elements'[e] = elements[e]
<1>1. PICK n \in 1..Len(pipes[s]) :
        pipes' = [pipes EXCEPT ![s] = SubSeq(@, n + 1, Len(@))]
  BY DEF Maintain
<1>2. /\ mutex[s] = NoThread
      /\ elements' = [e \in Elements |->
           IF e \in Referenced(pipes', task) THEN elements[e] ELSE Blank]
      /\ UNCHANGED task
  BY DEF Maintain, MutexFree, threadVars
<1>3. pipes \in [Stage -> Seq(Elements)]
  BY DEF Inv, TypeOK
<1>4. \A r \in Stage : \A i \in DOMAIN pipes'[r] :
        \E j \in DOMAIN pipes[r] : pipes'[r][i] = pipes[r][j]
  <2> SUFFICES ASSUME NEW r \in Stage, NEW i \in DOMAIN pipes'[r]
               PROVE  \E j \in DOMAIN pipes[r] : pipes'[r][i] = pipes[r][j]
    OBVIOUS
  <2>1. CASE r = s
    <3>1. PICK p \in Seq(Elements) : p = pipes[s]
      BY <1>3
    <3>2. pipes'[r] = SubSeq(p, n + 1, Len(p)) /\ n \in 1..Len(p)
      BY <1>1, <1>3, <2>1, <3>1
    <3>3. i + n \in DOMAIN p /\ pipes'[r][i] = p[i + n]
      BY <3>1, <3>2
    <3> QED
      BY <2>1, <3>1, <3>3
  <2>2. CASE r # s
    BY <1>1, <1>3, <2>2
  <2> QED
    BY <2>1, <2>2
<1>5. Referenced(pipes', task') \subseteq Referenced(pipes, task)
  BY <1>2, <1>4 DEF Referenced
<1>6. \A e \in Unfinished' : e \in Unfinished /\ elements'[e] = elements[e]
  <2> SUFFICES ASSUME NEW e \in Unfinished'
               PROVE  e \in Unfinished /\ elements'[e] = elements[e]
    OBVIOUS
  <2>1. /\ e \in Referenced(pipes', task)
        /\ e \in Referenced(pipes, task)
        /\ "completed" \notin elements'[e].done
    BY <1>2, <1>5 DEF Unfinished
  <2>2. elements'[e] = elements[e]
    BY <1>2, <2>1, ReferencedType
  <2> QED
    BY <2>1, <2>2 DEF Unfinished
<1>7. NoneCompleted
  <2>1. Blank.done = {}
    BY NewElementIs DEF Blank
  <2> QED
    BY <1>2, <2>1 DEF NoneCompleted
<1>8. PipesKept
  BY <1>1, <1>2, <1>3 DEF PipesKept
<1> QED
  BY <1>6, <1>7, <1>8 DEF ElementsKept

LEMMA MaintainConnected ==
  ASSUME Inv, Connected, NEW s \in Stage, Maintain(s)
  PROVE  Connected'
<1>1. ElementsKept /\ NoneCompleted /\ PipesKept
  BY MaintainKeeps
<1>2. /\ phase # "stopped"
      /\ UNCHANGED <<pc, cursor, task, table, pending, fdTable, phase>>
  BY DEF Maintain, threadVars, tableVars
<1>3. ListenerTakesUnfinished'
  BY <1>1, <1>2, ListenerStays
<1>4. /\ TableMatchesDescriptors'
      /\ PendingAreLocked'
      /\ ElementsAreLocked'
  BY <1>1, <1>2, ConnectionsKept
<1> QED
  BY <1>2, <1>3, <1>4 DEF Connected, StoppedForGood

(* Steps outside the process, but for the exit flag.                       *)
LEMMA OutsideConnected ==
  ASSUME Connected, phase' # "stopped" \/ phase' = phase,
         phase' = "stopped" \/ phase # "stopped",
         UNCHANGED <<elements, pipes, pc, cursor, task, table, pending, fdTable>>
  PROVE  Connected'
<1>1. Unfinished' = Unfinished
  BY DEF Unfinished
<1> QED
  BY <1>1 DEF Connected, TableMatchesDescriptors, ListenerTakesUnfinished,
              StoppedForGood, PendingAreLocked, ElementsAreLocked

(* The process ends: its table's connections go, and there are no others.  *)
LEMMA StopConnected ==
  ASSUME Inv, Connected, StopProcess
  PROVE  Connected'
<1>1. /\ table' = EmptyTable(MaxClients)
      /\ fdTable' = [f \in Fds |->
                       IF f \in TableFds(table) THEN NoConn ELSE fdTable[f]]
      /\ phase' = "stopped"
      /\ \A t \in Threads : pc[t] = "stopped"
      /\ UNCHANGED <<elements, pipes, pc, cursor, task>>
  BY DEF StopProcess, threadVars
<1>2. TableFds(table) = {f \in Fds : fdTable[f] # NoConn}
  BY DEF Connected, TableMatchesDescriptors
<1>3. \A f \in Fds : fdTable'[f] = NoConn
  BY <1>1, <1>2
<1>4. \A i \in DOMAIN table' : table'[i].fd = 0
  BY <1>1 DEF EmptyTable, Vacant
<1>5. TableMatchesDescriptors'
  BY <1>3, <1>4 DEF TableMatchesDescriptors, TableFds
<1>6. ListenerTakesUnfinished'
  BY <1>1 DEF Connected, ListenerTakesUnfinished
<1> QED
  BY <1>1, <1>5, <1>6 DEF Connected, StoppedForGood
-----------------------------------------------------------------------------
(* At the start nothing is connected.                                      *)
LEMMA InitConnected == Init => Connected
<1> SUFFICES ASSUME Init PROVE Connected
  OBVIOUS
<1>1. /\ pipes = [s \in Stage |-> <<>>]
      /\ pc = [t \in Threads |-> LoopHead(t)]
      /\ task = [t \in Threads |-> 0]
      /\ table = EmptyTable(MaxClients)
      /\ pending = <<>>
      /\ phase = "running"
      /\ fdTable = [f \in Fds |-> NoConn]
  BY DEF Init
<1>2. Listener \in Threads
  BY DEF Threads
<1>3. Referenced(pipes, task) = {}
  BY <1>1 DEF Referenced
<1>4. \A i \in DOMAIN table : table[i].fd = 0
  BY <1>1 DEF EmptyTable, Vacant
<1>5. TableMatchesDescriptors
  BY <1>1, <1>4 DEF TableMatchesDescriptors, TableFds
<1>6. ListenerTakesUnfinished
  BY <1>1, <1>2 DEF ListenerTakesUnfinished, LoopHead
<1>7. PendingAreLocked
  BY <1>1 DEF PendingAreLocked, AllLockedIn, Distinct
<1>8. ElementsAreLocked
  BY <1>3 DEF ElementsAreLocked, Unfinished
<1> QED
  BY <1>1, <1>5, <1>6, <1>7, <1>8 DEF Connected, StoppedForGood

(* Every step keeps it.                                                    *)
LEMMA NextConnected ==
  ASSUME Inv, Connected, [Next]_vars
  PROVE  Connected'
<1>1. CASE \E t \in Threads : Poll(t) \/ StopThread(t)
  BY <1>1, PollConnected
<1>2. CASE \E t \in Workers : Work(t)
  BY <1>2, WorkConnected, PushConnected, FinishConnected DEF Work
<1>3. CASE Listen
  BY <1>3, SelectTurnConnected, PublishConnected, ListenerLoopConnected,
     CompleteConnected DEF Listen
<1>4. CASE UNCHANGED vars
  BY <1>4, OutsideConnected DEF vars, threadVars, tableVars
<1>5. CASE MaintenanceFails \/ Signal
  BY <1>5, OutsideConnected DEF MaintenanceFails, Signal, threadVars, tableVars
<1>6. CASE Main
  BY <1>4, <1>5, <1>6, MaintainConnected, StopConnected DEF Main, Stopped
<1>7. CASE \E c \in Conns : Client(c)
  BY <1>7, OutsideConnected
     DEF Client, Connect, SendRequest, HangUp, threadVars, tableVars
<1> QED
  BY <1>1, <1>2, <1>3, <1>4, <1>6, <1>7 DEF Next

(* It holds of every behaviour.                                            *)
LEMMA ConnectedHolds == Spec => []Connected
<1>1. Init => Connected
  BY InitConnected
<1>2. Inv /\ Connected /\ [Next]_vars => Connected'
  BY NextConnected
<1> QED
  BY <1>1, <1>2, InvHolds, PTL DEF Spec

(* The listener's table holds exactly the open descriptors, each in one    *)
(* slot: no connection is closed and kept, or dropped and left open.       *)
THEOREM TableIsExact == Spec => []TableMatchesDescriptors
<1>1. Connected => TableMatchesDescriptors
  BY DEF Connected
<1> QED
  BY <1>1, ConnectedHolds, PTL

(* However long an element travels, the descriptor it carries still stands *)
(* for the connection it was created for: no worker reads from, answers or *)
(* closes a connection that was given the number since.                    *)
THEOREM DescriptorsStayCurrent == Spec => []DescriptorIsCurrent
<1>1. Connected => DescriptorIsCurrent
  BY DEF Connected, ElementsAreLocked, DescriptorIsCurrent, SocketOf
<1> QED
  BY <1>1, ConnectedHolds, PTL
-----------------------------------------------------------------------------
(* e waits in the pipe of stage s.                                          *)
InPipe(s, e) == \E i \in DOMAIN pipes[s] : pipes[s][i] = e

(* The elements whose connection the server has not begun to give back.    *)
OnTheWay == {e \in Unfinished : ~InPipe("completed", e)}

(* A thread has the element in its hands, or is about to try its lock.     *)
LooksAt(t, e) ==
  \/ task[t] = e
  \/ pc[t] = "candidate" /\ pipes[StageOf(t)][cursor[t]] = e

(* An element waits in the pipe of the stage its marks say is next.        *)
WaitsForNextStage(e) ==
  /\ elements[e].failed = {}
  /\ "response" \notin elements[e].done
  /\ "datamodel" \in elements[e].done => InPipe("response", e)
  /\ "request" \in elements[e].done =>
       "datamodel" \in elements[e].done \/ InPipe("datamodel", e)
  /\ "request" \notin elements[e].done =>
       "datamodel" \notin elements[e].done /\ InPipe("request", e)

(* What has a text was worked on; it is in the datamodel's pipe only then. *)
TextsAreMarked(e) ==
  /\ elements[e].request # NoText =>
       \/ "request" \in elements[e].done
       \/ \E t \in Readers : task[t] = e /\ pc[t] \in {"push", "finish"}
  /\ elements[e].response # NoText =>
       \/ "datamodel" \in elements[e].done
       \/ \E t \in Datamodels : task[t] = e /\ pc[t] \in {"push", "finish"}
  /\ InPipe("datamodel", e) =>
       \/ "request" \in elements[e].done
       \/ \E t \in Readers : task[t] = e

(* No stage is gone through twice, or before its turn.                     *)
WorkedOnInTurn(e) ==
  /\ \A t \in Readers : LooksAt(t, e) => "request" \notin elements[e].done
  /\ \A t \in Datamodels : LooksAt(t, e) => "datamodel" \notin elements[e].done
  /\ \A t \in Datamodels : task[t] = e => "request" \in elements[e].done
  /\ \A t \in Workers : task[t] = e /\ pc[t] = "finish" =>
       outcome[t] = "ok" /\ InPipe(NextStage[StageOf(t)], e)

Travels(e) == WaitsForNextStage(e) /\ TextsAreMarked(e) /\ WorkedOnInTurn(e)

PushersHaveOutcomes ==
  \A t \in Workers : pc[t] = "push" => outcome[t] \in {"ok", "notOk"}

Journey == PushersHaveOutcomes /\ \A e \in OnTheWay : Travels(e)

(* One reader and one datamodel thread, and any number of writers.         *)
OneReaderOneDatamodel ==
  /\ \A t, u \in Readers : t = u
  /\ \A t, u \in Datamodels : t = u
-----------------------------------------------------------------------------
(* A thread that scans has the mutex of a pipe nobody else changes.        *)
LEMMA LooksKept ==
  ASSUME Inv, PipesKept, NEW u \in Threads, NEW e,
         pc'[u] = "candidate" => pc[u] = "candidate" /\ cursor'[u] = cursor[u],
         task'[u] = e => task[u] = e,
         LooksAt(u, e)'
  PROVE  LooksAt(u, e)
<1>1. CASE task'[u] = e
  BY <1>1 DEF LooksAt
<1>2. CASE pc'[u] = "candidate" /\ pipes'[StageOf(u)][cursor'[u]] = e
  <2>1. mutex[StageOf(u)] = u /\ StageOf(u) \in Stage
    BY <1>2, CandidateType, StageOfType
  <2>2. pipes'[StageOf(u)] = pipes[StageOf(u)]
    BY <2>1 DEF PipesKept
  <2> QED
    BY <1>2, <2>2 DEF LooksAt
<1> QED
  BY <1>1, <1>2 DEF LooksAt

(* A step that neither marks an element nor changes hands keeps it on its  *)
(* way, even if it leaves a pipe it has been processed in.                 *)
LEMMA TravelKept ==
  ASSUME NEW e \in OnTheWay, Travels(e),
         elements'[e].done = elements[e].done,
         elements'[e].failed = elements[e].failed,
         elements'[e].request = elements[e].request,
         elements'[e].response = elements[e].response,
         ASSUME NEW s \in Stage
         PROVE  /\ InPipe(s, e)' => InPipe(s, e)
                /\ InPipe(s, e) => InPipe(s, e)' \/ Processed(s, elements[e]),
         ASSUME NEW t \in Workers
         PROVE  /\ LooksAt(t, e)' => LooksAt(t, e)
                /\ task'[t] = e <=> task[t] = e
                /\ task[t] = e => pc'[t] = pc[t] /\ outcome'[t] = outcome[t]
  PROVE  Travels(e)'
<1>1. /\ {"request", "datamodel", "response"} \subseteq Stage
      /\ Readers \subseteq Workers /\ Datamodels \subseteq Workers
  BY DEF Stage, Workers
<1>2. /\ elements[e].failed = {}
      /\ "response" \notin elements[e].done
  BY DEF Travels, WaitsForNextStage
<1>3. ASSUME NEW s \in Stage, s \notin elements[e].done
      PROVE  InPipe(s, e) => InPipe(s, e)'
  BY <1>2, <1>3 DEF Processed
<1>4. WaitsForNextStage(e)'
  BY <1>1, <1>2, <1>3 DEF Travels, WaitsForNextStage
<1>5. TextsAreMarked(e)'
  <2>1. InPipe("datamodel", e)' => InPipe("datamodel", e)
    BY <1>1
  <2>2. \A t \in Readers \cup Datamodels :
          task[t] = e => task'[t] = e /\ pc'[t] = pc[t]
    BY <1>1
  <2> QED
    BY <2>1, <2>2 DEF Travels, TextsAreMarked
<1>6. WorkedOnInTurn(e)'
  <2>1. ASSUME NEW t \in Workers, task'[t] = e, pc'[t] = "finish"
        PROVE  outcome'[t] = "ok" /\ InPipe(NextStage[StageOf(t)], e)'
    <3>1. /\ task[t] = e /\ pc[t] = "finish" /\ outcome'[t] = outcome[t]
      BY <2>1
    <3>2. outcome[t] = "ok" /\ InPipe(NextStage[StageOf(t)], e)
      BY <3>1 DEF Travels, WorkedOnInTurn
    <3>3. NextStage[StageOf(t)] # "completed"
      BY <3>2 DEF OnTheWay
    <3>4. CASE t \in Readers
      <4>1. NextStage[StageOf(t)] = "datamodel"
        BY <3>4 DEF NextStage, StageOf
      <4>2. LooksAt(t, e)
        BY <3>1 DEF LooksAt
      <4>3. "datamodel" \notin elements[e].done
        BY <3>4, <4>2 DEF Travels, WorkedOnInTurn, WaitsForNextStage
      <4> QED
        BY <1>1, <1>3, <3>1, <3>2, <4>1, <4>3
    <3>5. CASE t \in Datamodels
      <4>1. NextStage[StageOf(t)] = "response"
        BY <3>5 DEF NextStage, StageOf
      <4> QED
        BY <1>1, <1>2, <1>3, <3>1, <3>2, <4>1
    <3>6. CASE t \in Writers
      <4>1. StageOf(t) = "response"
        BY <3>6 DEF StageOf
      <4> QED
        BY <3>3, <4>1 DEF NextStage
    <3> QED
      BY <3>4, <3>5, <3>6 DEF Workers
  <2>2. ASSUME NEW t \in Readers, LooksAt(t, e)'
        PROVE  "request" \notin elements'[e].done
    <3>1. LooksAt(t, e)
      BY <1>1, <2>2
    <3> QED
      BY <3>1 DEF Travels, WorkedOnInTurn
  <2>3. ASSUME NEW t \in Datamodels, LooksAt(t, e)'
        PROVE  "datamodel" \notin elements'[e].done
    <3>1. LooksAt(t, e)
      BY <1>1, <2>3
    <3> QED
      BY <3>1 DEF Travels, WorkedOnInTurn
  <2>4. ASSUME NEW t \in Datamodels, task'[t] = e
        PROVE  "request" \in elements'[e].done
    <3>1. task[t] = e
      BY <1>1, <2>4
    <3> QED
      BY <3>1 DEF Travels, WorkedOnInTurn
  <2> QED
    BY <2>1, <2>2, <2>3, <2>4 DEF WorkedOnInTurn
<1> QED
  BY <1>4, <1>5, <1>6 DEF Travels

(* Control that moves outside the work, to a candidate at most.            *)
LEMMA ControlJourney ==
  ASSUME Inv, Journey, NEW t \in Threads, pc[t] \notin Holding,
         NEW l, l \notin Holding, pc' = [pc EXCEPT ![t] = l],
         l = "candidate" =>
           ~Processed(StageOf(t), elements[pipes[StageOf(t)][cursor'[t]]]),
         ASSUME NEW u \in Threads \ {t} PROVE cursor'[u] = cursor[u],
         UNCHANGED <<elements, pipes, task, outcome>>
  PROVE  Journey'
<1>1. /\ Workers \subseteq Threads
      /\ DOMAIN pc = Threads
      /\ task \in [Threads -> Elements \cup {0}]
  BY DEF Threads, Inv, TypeOK
<1>2. task[t] = 0
  BY DEF Inv, ElementOwnership, Holding
<1>3. PushersHaveOutcomes'
  BY <1>1 DEF Journey, PushersHaveOutcomes, Holding
<1>4. OnTheWay' = OnTheWay
  BY DEF OnTheWay, Unfinished, InPipe
<1>5. ASSUME NEW e \in OnTheWay
      PROVE  Travels(e)'
  <2>1. Travels(e) /\ e \in Elements /\ e # 0
    BY ReferencedType DEF Journey, OnTheWay, Unfinished
  <2>2. \A u \in Threads \ {t} : pc'[u] = pc[u]
    BY <1>1
  <2>3. ASSUME NEW u \in Workers, LooksAt(u, e)', u # t
        PROVE  LooksAt(u, e)
    <3>1. cursor'[u] = cursor[u] /\ pc'[u] = pc[u]
      BY <1>1, <2>2, <2>3
    <3> QED
      BY <2>3, <3>1 DEF LooksAt
  <2>4. WaitsForNextStage(e)'
    BY <2>1 DEF Travels, WaitsForNextStage, InPipe
  <2>5. \A u \in Workers : task[u] = e => pc'[u] = pc[u]
    BY <1>1, <1>2, <2>1, <2>2
  <2>6. TextsAreMarked(e)'
    <3>1. Readers \subseteq Workers /\ Datamodels \subseteq Workers
      BY DEF Workers
    <3> QED
      BY <2>1, <2>5, <3>1 DEF Travels, TextsAreMarked, InPipe
  <2>7. ASSUME LooksAt(t, e)'
        PROVE  ~Processed(StageOf(t), elements[e])
    BY <1>1, <1>2, <2>1, <2>7 DEF LooksAt
  <2>8. ASSUME NEW u \in Readers, LooksAt(u, e)'
        PROVE  "request" \notin elements[e].done
    <3>1. CASE u = t
      BY <2>7, <2>8, <3>1 DEF Processed, StageOf
    <3>2. CASE u # t
      BY <2>1, <2>3, <2>8, <3>2 DEF Workers, Travels, WorkedOnInTurn
    <3> QED
      BY <3>1, <3>2
  <2>9. ASSUME NEW u \in Datamodels, LooksAt(u, e)'
        PROVE  "datamodel" \notin elements[e].done
    <3>1. CASE u = t
      <4>1. StageOf(t) = "datamodel"
        BY <3>1 DEF StageOf
      <4> QED
        BY <2>7, <2>9, <3>1, <4>1 DEF Processed
    <3>2. CASE u # t
      BY <2>1, <2>3, <2>9, <3>2 DEF Workers, Travels, WorkedOnInTurn
    <3> QED
      BY <3>1, <3>2
  <2>10. WorkedOnInTurn(e)'
    BY <2>1, <2>5, <2>8, <2>9 DEF Travels, WorkedOnInTurn, InPipe
  <2> QED
    BY <2>4, <2>6, <2>10 DEF Travels
<1> QED
  BY <1>3, <1>4, <1>5 DEF Journey
-----------------------------------------------------------------------------
(* The work of the pools.                                                  *)

(* A worker's step on its own element keeps the others on their way.       *)
LEMMA OthersTravel ==
  ASSUME Inv, Journey, NEW t \in Workers, pc[t] \in Holding,
         NEW l, l # "candidate", pc' = [pc EXCEPT ![t] = l],
         NEW o, outcome' = [outcome EXCEPT ![t] = o] \/ outcome' = outcome,
         task' = task \/ task' = [task EXCEPT ![t] = 0],
         UNCHANGED cursor, PipesKept,
         NEW e \in OnTheWay, e # task[t], elements'[e] = elements[e],
         \A s \in Stage : InPipe(s, e)' <=> InPipe(s, e)
  PROVE  Travels(e)'
<1>1. /\ Workers \subseteq Threads
      /\ DOMAIN pc = Threads /\ DOMAIN outcome = Threads /\ DOMAIN task = Threads
  BY DEF Threads, Inv, TypeOK
<1>2. Travels(e) /\ e \in Elements /\ e # 0
  BY ReferencedType DEF Journey, OnTheWay, Unfinished
<1>3. ASSUME NEW u \in Workers
      PROVE  /\ LooksAt(u, e)' => LooksAt(u, e)
             /\ task'[u] = e <=> task[u] = e
             /\ task[u] = e => pc'[u] = pc[u] /\ outcome'[u] = outcome[u]
  <2>1. task'[u] = e <=> task[u] = e
    BY <1>1, <1>2
  <2>2. task[u] = e => pc'[u] = pc[u] /\ outcome'[u] = outcome[u]
    BY <1>1
  <2>3. pc'[u] = "candidate" => pc[u] = "candidate" /\ cursor'[u] = cursor[u]
    BY <1>1
  <2>4. LooksAt(u, e)' => LooksAt(u, e)
    BY <1>1, <2>1, <2>3, LooksKept
  <2> QED
    BY <2>1, <2>2, <2>4
<1> QED
  BY <1>2, <1>3, TravelKept

(* A worker whose element is on its way: what its stage has found.         *)
LEMMA NothingDropped ==
  ASSUME Inv, Journey, OneReaderOneDatamodel, NEW t \in Workers, pc[t] = "work",
         NEW e \in OnTheWay, e = task[t]
  PROVE  /\ t \in Readers => elements[e].request = NoText
         /\ t \in Datamodels => elements[e].response = NoText
<1>1. Travels(e) /\ LooksAt(t, e)
  BY DEF Journey, LooksAt
<1>2. CASE t \in Readers
  <2>1. "request" \notin elements[e].done
    BY <1>1, <1>2 DEF Travels, WorkedOnInTurn
  <2>2. \A u \in Readers : pc[u] = "work"
    BY <1>2 DEF OneReaderOneDatamodel
  <2>3. t \notin Datamodels
    BY <1>2
  <2> QED
    BY <1>1, <2>1, <2>2, <2>3 DEF Travels, TextsAreMarked
<1>3. CASE t \in Datamodels
  <2>1. "datamodel" \notin elements[e].done
    BY <1>1, <1>3 DEF Travels, WorkedOnInTurn
  <2>2. \A u \in Datamodels : pc[u] = "work"
    BY <1>3 DEF OneReaderOneDatamodel
  <2>3. t \notin Readers
    BY <1>3
  <2> QED
    BY <1>1, <2>1, <2>2, <2>3 DEF Travels, TextsAreMarked
<1> QED
  BY <1>2, <1>3

(* Work that ends in a push, and the element it was done on.               *)
LEMMA WorkedTravels ==
  ASSUME Inv, Journey, NEW t \in Workers, pc[t] = "work",
         NEW e \in OnTheWay, e = task[t],
         pc' = [pc EXCEPT ![t] = "push"],
         elements'[e].done = elements[e].done,
         elements'[e].failed = elements[e].failed,
         elements'[e].request = elements[e].request \/ t \in Readers,
         elements'[e].response = elements[e].response \/ t \in Datamodels,
         UNCHANGED <<pipes, cursor, task>>
  PROVE  Travels(e)'
<1>1. Workers \subseteq Threads /\ DOMAIN pc = Threads
  BY DEF Threads, Inv, TypeOK
<1>2. Travels(e)
  BY DEF Journey
<1>3. pc'[t] = "push" /\ \A u \in Workers \ {t} : pc'[u] = pc[u]
  BY <1>1
<1>4. WaitsForNextStage(e)'
  BY <1>2 DEF Travels, WaitsForNextStage, InPipe
<1>5. TextsAreMarked(e)'
  <2>1. \A u \in Readers \cup Datamodels :
          pc[u] \in {"push", "finish"} => pc'[u] \in {"push", "finish"}
    BY <1>3 DEF Workers
  <2> QED
    BY <1>2, <1>3, <2>1 DEF Travels, TextsAreMarked, InPipe
<1>6. WorkedOnInTurn(e)'
  <2>1. \A u \in Workers : LooksAt(u, e)' => LooksAt(u, e)
    BY <1>3 DEF LooksAt
  <2>2. \A u \in Workers : pc'[u] = "finish" => pc[u] = "finish" /\ u # t
    BY <1>3
  <2>3. \A u \in Workers \ {t} : task[u] # e
    BY <1>1 DEF Inv, ElementOwnership, OnTheWay
  <2>4. \A u \in Workers : task'[u] = e => u = t
    BY <2>3
  <2>5. Readers \subseteq Workers /\ Datamodels \subseteq Workers
    BY DEF Workers
  <2> QED
    BY <1>2, <2>1, <2>2, <2>4, <2>5 DEF Travels, WorkedOnInTurn
<1> QED
  BY <1>4, <1>5, <1>6 DEF Travels

(* The ends of a worker's work: it has an outcome to push, or it drops an  *)
(* element that is not on its way.                                         *)
LEMMA WorkEndsJourney ==
  ASSUME Inv, Journey, NEW t \in Workers, pc[t] = "work",
         NEW e \in Elements, e = task[t],
         NEW el, el.fd = elements[e].fd, el.conn = elements[e].conn,
         el.done = elements[e].done, el.failed = elements[e].failed,
         el.request = elements[e].request \/ t \in Readers,
         el.response = elements[e].response \/ t \in Datamodels,
         elements' = elements \/ elements' = [elements EXCEPT ![e] = el],
         NEW l, pc' = [pc EXCEPT ![t] = l],
         NEW o, outcome' = [outcome EXCEPT ![t] = o],
         \/ l = "push" /\ o \in {"ok", "notOk"}
         \/ l = "finish" /\ e \notin OnTheWay,
         UNCHANGED <<pipes, cursor, task>>
  PROVE  Journey'
<1>1. /\ Workers \subseteq Threads /\ pc[t] \in Holding /\ l # "candidate"
      /\ DOMAIN pc = Threads /\ DOMAIN outcome = Threads
      /\ DOMAIN elements = Elements
  BY DEF Threads, Inv, TypeOK, Holding
<1>2. ElementsKept
  BY ChangedInPlace
<1>3. OnTheWay' \subseteq OnTheWay
  BY <1>2 DEF ElementsKept, OnTheWay, InPipe
<1>4. PushersHaveOutcomes'
  BY <1>1 DEF Journey, PushersHaveOutcomes
<1>5. ASSUME NEW d \in OnTheWay
      PROVE  Travels(d)'
  <2>1. CASE d = e
    <3>1. l = "push"
      BY <1>5, <2>1
    <3>2. /\ elements'[e].done = elements[e].done
          /\ elements'[e].failed = elements[e].failed
          /\ elements'[e].request = elements[e].request \/ t \in Readers
          /\ elements'[e].response = elements[e].response \/ t \in Datamodels
      BY <1>1
    <3> QED
      BY <2>1, <3>1, <3>2, WorkedTravels
  <2>2. CASE d # e
    <3>1. d \in Elements
      BY ReferencedType DEF OnTheWay, Unfinished
    <3>2. PipesKept /\ elements'[d] = elements[d]
      BY <1>1, <2>2, <3>1 DEF PipesKept
    <3>3. \A s \in Stage : InPipe(s, d)' <=> InPipe(s, d)
      BY DEF InPipe
    <3> QED
      BY <1>1, <2>2, <3>1, <3>2, <3>3, OthersTravel
  <2> QED
    BY <2>1, <2>2
<1> QED
  BY <1>3, <1>4, <1>5 DEF Journey

(* The six ways a worker's work on its element can end.                    *)
LEMMA WorkJourney ==
  ASSUME Inv, Journey, OneReaderOneDatamodel, NEW t \in Workers,
         \/ ReadRequest(t) \/ ReadFails(t) \/ ProcessRequest(t)
         \/ ProcessFails(t) \/ WriteResponse(t) \/ WriteFails(t)
  PROVE  Journey'
<1>1. t \in Threads /\ pc[t] \in Holding /\ pc[t] = "work"
  BY DEF Threads, Holding, ReadRequest, ReadFails, ProcessRequest,
         ProcessFails, WriteResponse, WriteFails
<1>2. PICK e \in Elements : e = task[t]
  BY <1>1, TaskType
<1>3. elements[e] \in ElementType
  BY <1>1, <1>2, TaskType
<1>4. UNCHANGED <<pipes, cursor, task>>
  BY DEF ReadRequest, ReadFails, ProcessRequest, ProcessFails, WriteResponse,
         WriteFails
<1>5. CASE ReadRequest(t)
  <2>1. PICK text, l, o :
          /\ \/ elements' = elements
             \/ elements' = [elements EXCEPT ![e].request = text]
          /\ pc' = [pc EXCEPT ![t] = l]
          /\ outcome' = [outcome EXCEPT ![t] = o]
          /\ \/ l = "push" /\ o \in {"ok", "notOk"}
             \/ l = "finish" /\ elements[e].request # NoText
    BY <1>2, <1>5 DEF ReadRequest
  <2>2. PICK el : el = [elements[e] EXCEPT !.request = text]
    OBVIOUS
  <2>3. t \in Readers
    BY <1>5 DEF ReadRequest
  <2>4. /\ el.fd = elements[e].fd /\ el.conn = elements[e].conn
        /\ el.done = elements[e].done /\ el.failed = elements[e].failed
        /\ el.response = elements[e].response
        /\ elements' = elements \/ elements' = [elements EXCEPT ![e] = el]
    BY <1>3, <2>1, <2>2 DEF ElementType
  <2>5. \/ l = "push" /\ o \in {"ok", "notOk"}
        \/ l = "finish" /\ e \notin OnTheWay
    BY <1>1, <1>2, <2>1, <2>3, NothingDropped
  <2>6. /\ elements' = elements \/ elements' = [elements EXCEPT ![e] = el]
        /\ pc' = [pc EXCEPT ![t] = l]
        /\ outcome' = [outcome EXCEPT ![t] = o]
    BY <2>1, <2>4
  <2> QED
    BY ZenonT(60), <1>1, <1>2, <1>4, <2>3, <2>4, <2>5, <2>6, WorkEndsJourney
<1>6. CASE ProcessRequest(t)
  <2>1. PICK text, l, o :
          /\ \/ elements' = elements
             \/ elements' = [elements EXCEPT ![e].response = text]
          /\ pc' = [pc EXCEPT ![t] = l]
          /\ outcome' = [outcome EXCEPT ![t] = o]
          /\ \/ l = "push" /\ o \in {"ok", "notOk"}
             \/ l = "finish" /\ elements[e].response # NoText
    BY <1>2, <1>6 DEF ProcessRequest
  <2>2. PICK el : el = [elements[e] EXCEPT !.response = text]
    OBVIOUS
  <2>3. t \in Datamodels
    BY <1>6 DEF ProcessRequest
  <2>4. /\ el.fd = elements[e].fd /\ el.conn = elements[e].conn
        /\ el.done = elements[e].done /\ el.failed = elements[e].failed
        /\ el.request = elements[e].request
        /\ elements' = elements \/ elements' = [elements EXCEPT ![e] = el]
    BY <1>3, <2>1, <2>2 DEF ElementType
  <2>5. \/ l = "push" /\ o \in {"ok", "notOk"}
        \/ l = "finish" /\ e \notin OnTheWay
    BY <1>1, <1>2, <2>1, <2>3, NothingDropped
  <2>6. /\ elements' = elements \/ elements' = [elements EXCEPT ![e] = el]
        /\ pc' = [pc EXCEPT ![t] = l]
        /\ outcome' = [outcome EXCEPT ![t] = o]
    BY <2>1, <2>4
  <2> QED
    BY ZenonT(60), <1>1, <1>2, <1>4, <2>3, <2>4, <2>5, <2>6, WorkEndsJourney
<1>7. CASE \/ ReadFails(t) \/ ProcessFails(t) \/ WriteResponse(t) \/ WriteFails(t)
  <2>1. PICK el : el = MarkCloseRequired(elements[e])
    OBVIOUS
  <2>2. PICK o \in {"ok", "notOk"} : outcome' = [outcome EXCEPT ![t] = o]
    BY <1>7 DEF ReadFails, ProcessFails, WriteResponse, WriteFails
  <2>3. /\ elements' = elements \/ elements' = [elements EXCEPT ![e] = el]
        /\ pc' = [pc EXCEPT ![t] = "push"]
    BY <1>2, <1>7, <2>1
       DEF ReadFails, ProcessFails, WriteResponse, WriteFails
  <2>4. /\ el.fd = elements[e].fd /\ el.conn = elements[e].conn
        /\ el.done = elements[e].done /\ el.failed = elements[e].failed
        /\ el.request = elements[e].request
        /\ el.response = elements[e].response
    BY <1>3, <2>1 DEF ElementType, MarkCloseRequired
  <2> QED
    BY ZenonT(60), <1>1, <1>2, <1>4, <2>2, <2>3, <2>4, WorkEndsJourney
<1> QED
  BY <1>5, <1>6, <1>7

(* Another worker holds another element.                                   *)
LEMMA OnlyHolder ==
  ASSUME Inv, NEW t \in Threads, pc[t] \in Holding, NEW u \in Threads,
         task[u] = task[t]
  PROVE  u = t
<1>1. task[t] # 0
  BY DEF Inv, ElementOwnership, Holding
<1> QED
  BY <1>1 DEF Inv, ElementOwnership

(* What a push adds to a pipe.                                             *)
LEMMA Appended ==
  ASSUME NEW s \in Stage, NEW r \in Stage, NEW e \in Elements,
         pipes \in [Stage -> Seq(Elements)],
         pipes' = [pipes EXCEPT ![s] = Append(@, e)],
         NEW d
  PROVE  InPipe(r, d)' <=> InPipe(r, d) \/ (r = s /\ d = e)
<1>1. PICK q \in Seq(Elements) : q = pipes[r]
  OBVIOUS
<1>2. CASE r # s
  BY <1>2 DEF InPipe
<1>3. CASE r = s
  <2>1. pipes'[r] = Append(q, e)
    BY <1>1, <1>3
  <2>2. /\ DOMAIN Append(q, e) = 1..(Len(q) + 1)
        /\ \A i \in 1..Len(q) : Append(q, e)[i] = q[i]
        /\ Append(q, e)[Len(q) + 1] = e
        /\ DOMAIN q = 1..Len(q)
        /\ Len(q) \in Nat
    OBVIOUS
  <2>3. (\E i \in 1..(Len(q) + 1) : Append(q, e)[i] = d)
          <=> (\E i \in 1..Len(q) : q[i] = d) \/ d = e
    <3>1. \A i \in 1..(Len(q) + 1) : i \in 1..Len(q) \/ i = Len(q) + 1
      <4>1. PICK n \in Nat : n = Len(q)
        BY <2>2
      <4>2. \A i \in 1..(n + 1) : i \in 1..n \/ i = n + 1
        OBVIOUS
      <4> QED
        BY <4>1, <4>2
    <3>2. Len(q) + 1 \in 1..(Len(q) + 1)
      BY <2>2
    <3>3. \A i \in 1..Len(q) : i \in 1..(Len(q) + 1)
      BY <2>2
    <3> QED
      BY <2>2, <3>1, <3>2, <3>3
  <2> QED
    BY <1>1, <1>3, <2>1, <2>2, <2>3 DEF InPipe
<1> QED
  BY <1>2, <1>3

(* A pushed element is in the pipe of the next stage, or has been given    *)
(* back.                                                                   *)
LEMMA PushJourney ==
  ASSUME Inv, Journey, NEW t \in Workers, Push(t)
  PROVE  Journey'
<1>1. /\ t \in Threads /\ pc[t] \in Holding /\ pc[t] = "push"
      /\ DOMAIN pc = Threads /\ Workers \subseteq Threads
      /\ pipes \in [Stage -> Seq(Elements)]
  BY DEF Threads, Holding, Push, Inv, TypeOK
<1>2. PICK e \in Elements, s \in Stage : e = task[t] /\ s = TargetPipe(t)
  BY PushKeeps
<1>3. /\ ElementsKept /\ PipesKept
      /\ pipes' = [pipes EXCEPT ![s] = Append(@, e)]
      /\ pc' = [pc EXCEPT ![t] = "finish"]
      /\ UNCHANGED <<elements, cursor, task, outcome>>
  BY <1>2, PushKeeps
<1>4. ASSUME NEW r \in Stage, NEW d
      PROVE  InPipe(r, d)' <=> InPipe(r, d) \/ (r = s /\ d = e)
  BY <1>1, <1>3, Appended
<1>5. OnTheWay' \subseteq OnTheWay
  BY <1>3, <1>4 DEF ElementsKept, OnTheWay, Stage
<1>6. PushersHaveOutcomes'
  BY <1>1, <1>3 DEF Journey, PushersHaveOutcomes
<1>7. ASSUME NEW d \in OnTheWay'
      PROVE  Travels(d)'
  <2>1. d \in OnTheWay /\ Travels(d)
    BY <1>5, <1>7 DEF Journey
  <2>2. CASE d # e
    <3>1. \A r \in Stage : InPipe(r, d)' <=> InPipe(r, d)
      BY <1>4, <2>2
    <3> QED
      BY <1>1, <1>2, <1>3, <2>1, <2>2, <3>1, OthersTravel
  <2>3. CASE d = e
    <3>1. s # "completed"
      BY <1>4, <1>7, <2>3 DEF OnTheWay
    <3>2. outcome[t] = "ok" /\ s = NextStage[StageOf(t)]
      BY <1>1, <1>2, <3>1 DEF Journey, PushersHaveOutcomes, TargetPipe
    <3>3. \/ t \in Readers /\ s = "datamodel"
          \/ t \in Datamodels /\ s = "response"
      <4>1. t \in Writers => s = "completed"
        BY <3>2 DEF StageOf, NextStage
      <4>2. t \in Readers => s = "datamodel"
        BY <3>2 DEF StageOf, NextStage
      <4>3. t \in Datamodels => s = "response"
        BY <3>2 DEF StageOf, NextStage
      <4> QED
        BY <3>1, <4>1, <4>2, <4>3 DEF Workers
    <3>4. WaitsForNextStage(e)'
      <4>1. /\ InPipe("request", e) => InPipe("request", e)'
            /\ InPipe("datamodel", e) => InPipe("datamodel", e)'
            /\ InPipe("response", e) => InPipe("response", e)'
        BY <1>4 DEF Stage
      <4>2. WaitsForNextStage(e) /\ elements' = elements
        BY <1>3, <2>1, <2>3 DEF Travels
      <4> QED
        BY <4>1, <4>2 DEF WaitsForNextStage
    <3>5. TextsAreMarked(e)'
      <4>1. InPipe("datamodel", e)' => InPipe("datamodel", e) \/ t \in Readers
        BY <1>4, <3>3 DEF Stage
      <4>2. \A u \in Readers \cup Datamodels :
              pc[u] \in {"push", "finish"} => pc'[u] \in {"push", "finish"}
        BY <1>1, <1>3 DEF Workers
      <4> QED
        BY <1>2, <1>3, <2>1, <2>3, <4>1, <4>2 DEF Travels, TextsAreMarked
    <3>6. WorkedOnInTurn(e)'
      <4>1. ASSUME NEW u \in Workers, LooksAt(u, e)'
            PROVE  LooksAt(u, e)
        BY <1>1, <1>3, <4>1, LooksKept
      <4>2. \A u \in Workers : task[u] = e => u = t
        BY <1>1, <1>2, OnlyHolder
      <4>3. outcome'[t] = "ok" /\ InPipe(NextStage[StageOf(t)], e)'
        BY <1>3, <1>4, <3>2
      <4>4. Readers \subseteq Workers /\ Datamodels \subseteq Workers
        BY DEF Workers
      <4> QED
        BY <1>3, <2>1, <2>3, <4>1, <4>2, <4>3, <4>4 DEF Travels, WorkedOnInTurn
    <3> QED
      BY <2>3, <3>4, <3>5, <3>6 DEF Travels
  <2> QED
    BY <2>2, <2>3
<1> QED
  BY <1>6, <1>7 DEF Journey

(* The marks a successful stage sets are those of its turn; a failure is   *)
(* marked on an element that has been given back.                          *)
LEMMA FinishJourney ==
  ASSUME Inv, Journey, OneReaderOneDatamodel, NEW t \in Workers, Finish(t)
  PROVE  Journey'
<1>1. /\ t \in Threads /\ pc[t] \in Holding /\ pc[t] = "finish"
      /\ DOMAIN pc = Threads /\ DOMAIN task = Threads /\ Workers \subseteq Threads
      /\ DOMAIN elements = Elements
  BY DEF Threads, Holding, Finish, Inv, TypeOK
<1>2. PICK e \in Elements : e = task[t] /\ elements[e] \in ElementType
  BY <1>1, TaskType
<1>3. PICK fails, unlocks :
        elements' = [elements EXCEPT ![e] =
          Released(MarkFailed(MarkDone(@, Published(t)),
                              IF fails /\ outcome[t] # "ok" THEN {StageOf(t)} ELSE {}),
                   unlocks)]
  BY <1>2 DEF Finish
<1>4. /\ task' = [task EXCEPT ![t] = 0]
      /\ outcome' = [outcome EXCEPT ![t] = "none"]
      /\ pc' = [pc EXCEPT ![t] = "idle"]
      /\ UNCHANGED <<pipes, cursor>>
  BY DEF Finish
<1>5. ElementsKept
  BY FinishKeeps
<1>6. OnTheWay' \subseteq OnTheWay
  BY <1>4, <1>5 DEF ElementsKept, OnTheWay, InPipe
<1>7. PushersHaveOutcomes'
  BY <1>1, <1>4 DEF Journey, PushersHaveOutcomes, Inv, TypeOK
<1>8. ASSUME NEW d \in OnTheWay'
      PROVE  Travels(d)'
  <2>1. d \in OnTheWay /\ Travels(d) /\ d \in Elements /\ d # 0
    BY <1>6, <1>8, ReferencedType DEF Journey, OnTheWay, Unfinished
  <2>2. CASE d # e
    <3>1. elements'[d] = elements[d]
      BY <1>1, <1>3, <2>1, <2>2
    <3>2. PipesKept
      BY <1>4 DEF PipesKept
    <3>3. \A r \in Stage : InPipe(r, d)' <=> InPipe(r, d)
      BY <1>4 DEF InPipe
    <3> QED
      BY <1>1, <1>2, <1>4, <2>1, <2>2, <3>1, <3>2, <3>3, OthersTravel
  <2>3. CASE d = e
    <3>1. outcome[t] = "ok" /\ InPipe(NextStage[StageOf(t)], e)
      BY <1>1, <1>2, <2>1, <2>3 DEF Travels, WorkedOnInTurn
    <3>2. t \notin Writers
      <4>1. ASSUME t \in Writers PROVE NextStage[StageOf(t)] = "completed"
        BY <4>1 DEF StageOf, NextStage
      <4> QED
        BY <2>1, <2>3, <3>1, <4>1 DEF OnTheWay
    <3>3. /\ elements'[e].failed = elements[e].failed
          /\ elements'[e].done = elements[e].done \cup {StageOf(t)}
          /\ elements'[e].request = elements[e].request
          /\ elements'[e].response = elements[e].response
      BY <1>1, <1>2, <1>3, <3>1
         DEF Published, Released, Unlocked, MarkFailed, MarkDone, ElementType
    <3>4. \A u \in Workers : task[u] = e => u = t
      BY <1>1, <1>2, OnlyHolder
    <3>5. /\ \A u \in Workers : task'[u] # e
          /\ \A u \in Workers : LooksAt(u, e)' => LooksAt(u, e) /\ u # t
      <4>1. \A u \in Workers : task'[u] # e
        BY <1>1, <1>4, <2>1, <2>3, <3>4
      <4>2. pc'[t] # "candidate"
        BY <1>1, <1>4
      <4>3. \A u \in Workers \ {t} : pc'[u] = pc[u] /\ cursor'[u] = cursor[u]
        BY <1>1, <1>4
      <4> QED
        BY <1>4, <4>1, <4>2, <4>3 DEF LooksAt
    <3>6. LooksAt(t, e)
      BY <1>2 DEF LooksAt
    <3>7. Readers \subseteq Workers /\ Datamodels \subseteq Workers
      BY DEF Workers
    <3>8. CASE t \in Readers
      <4>1. StageOf(t) = "request" /\ NextStage[StageOf(t)] = "datamodel"
        BY <3>8 DEF StageOf, NextStage
      <4>2. /\ "request" \notin elements[e].done
            /\ "datamodel" \notin elements[e].done
        BY <2>1, <2>3, <3>6, <3>8
           DEF Travels, WorkedOnInTurn, WaitsForNextStage
      <4>3. elements'[e].done = elements[e].done \cup {"request"}
        BY <3>3, <4>1
      <4>4. WaitsForNextStage(e)'
        BY <1>4, <2>1, <2>3, <3>1, <3>3, <4>1, <4>2, <4>3
           DEF Travels, WaitsForNextStage, InPipe
      <4>5. TextsAreMarked(e)'
        <5>1. elements[e].response = NoText
          BY <2>1, <2>3, <3>4, <3>8, <4>2 DEF Travels, TextsAreMarked, Workers
        <5> QED
          BY <3>3, <4>3, <5>1 DEF TextsAreMarked
      <4>6. WorkedOnInTurn(e)'
        <5>1. \A u \in Readers : ~LooksAt(u, e)'
          BY <3>5, <3>7, <3>8 DEF OneReaderOneDatamodel
        <5>2. "datamodel" \notin elements'[e].done
          BY <4>2, <4>3
        <5> QED
          BY <3>5, <3>7, <5>1, <5>2 DEF WorkedOnInTurn
      <4> QED
        BY <2>3, <4>4, <4>5, <4>6 DEF Travels
    <3>9. CASE t \in Datamodels
      <4>1. StageOf(t) = "datamodel" /\ NextStage[StageOf(t)] = "response"
        BY <3>9 DEF StageOf, NextStage
      <4>2. "request" \in elements[e].done
        BY <1>2, <2>1, <2>3, <3>9 DEF Travels, WorkedOnInTurn
      <4>3. elements'[e].done = elements[e].done \cup {"datamodel"}
        BY <3>3, <4>1
      <4>4. WaitsForNextStage(e)'
        BY <1>4, <2>1, <2>3, <3>1, <3>3, <4>1, <4>2, <4>3
           DEF Travels, WaitsForNextStage, InPipe
      <4>5. TextsAreMarked(e)'
        BY <4>2, <4>3 DEF TextsAreMarked
      <4>6. WorkedOnInTurn(e)'
        <5>1. \A u \in Datamodels : ~LooksAt(u, e)'
          BY <3>5, <3>7, <3>9 DEF OneReaderOneDatamodel
        <5>2. \A u \in Readers : ~LooksAt(u, e)
          BY <2>1, <2>3, <4>2 DEF Travels, WorkedOnInTurn
        <5>3. \A u \in Readers : ~LooksAt(u, e)'
          BY <3>5, <3>7, <5>2
        <5> QED
          BY <3>5, <3>7, <5>1, <5>3 DEF WorkedOnInTurn
      <4> QED
        BY <2>3, <4>4, <4>5, <4>6 DEF Travels
    <3> QED
      BY <3>2, <3>8, <3>9 DEF Workers
  <2> QED
    BY <2>2, <2>3
<1> QED
  BY <1>7, <1>8 DEF Journey
-----------------------------------------------------------------------------
(* The other steps.                                                        *)

(* Steps that move a worker neither to nor from an element.                *)
LEMMA BystandersTravel ==
  ASSUME Inv, PipesKept, NEW e \in OnTheWay, Travels(e),
         elements'[e] = elements[e],
         ASSUME NEW s \in Stage
         PROVE  /\ InPipe(s, e)' => InPipe(s, e)
                /\ InPipe(s, e) => InPipe(s, e)' \/ Processed(s, elements[e]),
         ASSUME NEW u \in Workers
         PROVE  /\ task'[u] = e <=> task[u] = e
                /\ task[u] = e => pc'[u] = pc[u]
                /\ pc'[u] = "candidate" =>
                     pc[u] = "candidate" /\ cursor'[u] = cursor[u],
         UNCHANGED outcome
  PROVE  Travels(e)'
<1>1. ASSUME NEW u \in Workers
      PROVE  /\ LooksAt(u, e)' => LooksAt(u, e)
             /\ task'[u] = e <=> task[u] = e
             /\ task[u] = e => pc'[u] = pc[u] /\ outcome'[u] = outcome[u]
  <2>1. u \in Threads
    BY DEF Threads
  <2>2. /\ task'[u] = e <=> task[u] = e
        /\ task[u] = e => pc'[u] = pc[u]
        /\ pc'[u] = "candidate" => pc[u] = "candidate" /\ cursor'[u] = cursor[u]
    OBVIOUS
  <2>3. LooksAt(u, e)' => LooksAt(u, e)
    BY <2>1, <2>2, LooksKept
  <2> QED
    BY <2>2, <2>3
<1> QED
  BY <1>1, TravelKept

(* Nobody has an unlocked element in hand: its stages are marked.          *)
LEMMA LockJourney ==
  ASSUME Inv, Journey, NEW t \in Threads, LockElement(t)
  PROVE  Journey'
<1>1. /\ pc[t] = "candidate"
      /\ DOMAIN pc = Threads /\ DOMAIN task = Threads /\ DOMAIN cursor = Threads
      /\ DOMAIN elements = Elements /\ Workers \subseteq Threads
  BY DEF Threads, LockElement, Inv, TypeOK
<1>2. PICK e \in Elements : /\ e = pipes[StageOf(t)][cursor[t]]
                           /\ task' = [task EXCEPT ![t] = e]
  BY LockKeeps
<1>3. /\ ElementsKept
      /\ elements' = [elements EXCEPT ![e] = LockedBy(@, t)]
      /\ ~elements[e].locked
      /\ cursor' = [cursor EXCEPT ![t] = 1]
      /\ pc' = [pc EXCEPT ![t] = "work"]
      /\ UNCHANGED <<pipes, outcome>>
  BY <1>2, LockKeeps DEF LockElement
<1>4. task[t] = 0
  BY <1>1 DEF Inv, ElementOwnership
<1>5. OnTheWay' \subseteq OnTheWay
  BY <1>3 DEF ElementsKept, OnTheWay, InPipe
<1>6. PushersHaveOutcomes'
  BY <1>1, <1>3 DEF Journey, PushersHaveOutcomes
<1>7. ASSUME NEW d \in OnTheWay'
      PROVE  Travels(d)'
  <2>1. d \in OnTheWay /\ Travels(d) /\ d \in Elements /\ d # 0
    BY <1>5, <1>7, ReferencedType DEF Journey, OnTheWay, Unfinished
  <2>2. ASSUME NEW s \in Stage
        PROVE  InPipe(s, d)' <=> InPipe(s, d)
    BY <1>3 DEF InPipe
  <2>3. PipesKept
    BY <1>3 DEF PipesKept
  <2>4. \A u \in Workers : pc'[u] = "candidate" =>
          pc[u] = "candidate" /\ cursor'[u] = cursor[u]
    BY <1>1, <1>3
  <2>5. CASE d # e
    <3>1. elements'[d] = elements[d]
      BY <1>1, <1>3, <2>1, <2>5
    <3>2. ASSUME NEW u \in Workers
          PROVE  /\ task'[u] = d <=> task[u] = d
                 /\ task[u] = d => pc'[u] = pc[u]
      BY <1>1, <1>2, <1>3, <1>4, <2>1, <2>5
    <3> QED
      BY <1>3, <2>1, <2>2, <2>3, <2>4, <3>1, <3>2, BystandersTravel
  <2>6. CASE d = e
    <3>1. /\ elements'[e].done = elements[e].done
          /\ elements'[e].failed = elements[e].failed
          /\ elements'[e].request = elements[e].request
          /\ elements'[e].response = elements[e].response
      <4>1. elements[e] \in ElementType
        BY DEF Inv, TypeOK
      <4> QED
        BY <1>1, <1>3, <4>1 DEF LockedBy, ElementType
    <3>2. /\ \A u \in Threads : task[u] # e
          /\ \A u \in Workers : task'[u] = e => u = t
      <4>1. \A u \in Threads : task[u] # e
        BY <1>3, <2>1, <2>6 DEF Inv, ElementOwnership
      <4> QED
        BY <1>1, <1>2, <4>1
    <3>3. pc'[t] = "work"
      BY <1>1, <1>3
    <3>4. Readers \subseteq Threads /\ Datamodels \subseteq Threads
      BY DEF Threads, Workers
    <3>5. WaitsForNextStage(e)'
      BY <1>3, <2>1, <2>6, <3>1 DEF Travels, WaitsForNextStage, InPipe
    <3>6. /\ elements[e].request # NoText => "request" \in elements[e].done
          /\ elements[e].response # NoText => "datamodel" \in elements[e].done
          /\ InPipe("datamodel", e) => "request" \in elements[e].done
      BY <2>1, <2>6, <3>2, <3>4 DEF Travels, TextsAreMarked
    <3>7. TextsAreMarked(e)'
      BY <1>3, <3>1, <3>6 DEF TextsAreMarked, InPipe
    <3>8. ASSUME NEW u \in Workers, LooksAt(u, e)'
          PROVE  LooksAt(u, e)
      <4>1. CASE u = t
        BY <1>1, <1>2, <4>1 DEF LooksAt
      <4>2. CASE u # t
        BY <1>1, <1>3, <3>2, <3>8, <4>2 DEF LooksAt
      <4> QED
        BY <4>1, <4>2
    <3>9. ASSUME t \in Datamodels
          PROVE  "request" \in elements[e].done
      <4>1. StageOf(t) = "datamodel"
        BY <3>9 DEF StageOf
      <4>2. cursor[t] \in DOMAIN pipes["datamodel"]
        BY <1>1, <4>1 DEF Inv, ScannerHoldsMutex
      <4>3. InPipe("datamodel", e)
        BY <1>2, <4>1, <4>2 DEF InPipe
      <4> QED
        BY <3>6, <4>3
    <3>10. WorkedOnInTurn(e)'
      <4>1. Readers \subseteq Workers /\ Datamodels \subseteq Workers
        BY DEF Workers
      <4>2. \A u \in Datamodels : task'[u] = e => "request" \in elements[e].done
        BY <3>2, <3>9, <4>1
      <4> QED
        BY <2>1, <2>6, <3>1, <3>2, <3>3, <3>8, <4>1, <4>2
           DEF Travels, WorkedOnInTurn
    <3> QED
      BY <2>6, <3>5, <3>7, <3>10 DEF Travels
  <2> QED
    BY <2>5, <2>6
<1> QED
  BY <1>6, <1>7 DEF Journey

(* What a batch adds to the request pipe.                                  *)
LEMMA BatchAppended ==
  ASSUME NEW r \in Stage, NEW q \in Seq(Elements),
         pipes \in [Stage -> Seq(Elements)],
         pipes' = [pipes EXCEPT !["request"] = @ \o q],
         NEW d
  PROVE  InPipe(r, d)' <=>
           \/ InPipe(r, d)
           \/ r = "request" /\ \E k \in DOMAIN q : q[k] = d
<1>1. PICK p \in Seq(Elements) : p = pipes[r]
  OBVIOUS
<1>2. CASE r # "request"
  BY <1>2 DEF InPipe
<1>3. CASE r = "request"
  <2>1. pipes'[r] = p \o q
    BY <1>1, <1>3
  <2>2. PICK m \in Nat, n \in Nat : m = Len(p) /\ n = Len(q)
    OBVIOUS
  <2>3. PICK w : w = p \o q
    OBVIOUS
  <2>4. /\ DOMAIN w = 1..(m + n) /\ DOMAIN p = 1..m /\ DOMAIN q = 1..n
        /\ \A k \in 1..(m + n) : w[k] = IF k <= m THEN p[k] ELSE q[k - m]
    BY <2>2, <2>3, ConcatProperties
  <2>5. ASSUME NEW k \in DOMAIN w
        PROVE  (k \in DOMAIN p /\ w[k] = p[k]) \/ \E j \in DOMAIN q : w[k] = q[j]
    <3>1. CASE k <= m
      BY <2>4, <3>1
    <3>2. CASE ~(k <= m)
      <4>1. k - m \in 1..n
        BY <2>4, <3>2
      <4> QED
        BY <2>4, <3>2, <4>1
    <3> QED
      BY <3>1, <3>2
  <2>6. ASSUME NEW k \in DOMAIN p
        PROVE  k \in DOMAIN w /\ w[k] = p[k]
    <3>1. k \in 1..(m + n) /\ k <= m
      BY <2>4
    <3> QED
      BY <2>4, <3>1
  <2>7. ASSUME NEW k \in DOMAIN q
        PROVE  k + m \in DOMAIN w /\ w[k + m] = q[k]
    <3>1. k + m \in 1..(m + n) /\ ~(k + m <= m) /\ (k + m) - m = k
      BY <2>4
    <3> QED
      BY <2>4, <3>1
  <2>8. (\E k \in DOMAIN w : w[k] = d)
          <=> (\E k \in DOMAIN p : p[k] = d) \/ (\E k \in DOMAIN q : q[k] = d)
    BY <2>5, <2>6, <2>7
  <2> QED
    BY <1>1, <1>3, <2>1, <2>3, <2>8 DEF InPipe
<1> QED
  BY <1>2, <1>3

(* A new element waits in the request pipe.                                *)
LEMMA PublishJourney ==
  ASSUME Inv, Journey, PublishConnections
  PROVE  Journey'
<1>1. PICK q \in [DOMAIN pending -> Elements \ Referenced(pipes, task)] :
        /\ IsBatch(q)
        /\ q \in Seq(Elements)
        /\ pipes' = [pipes EXCEPT !["request"] = @ \o q]
        /\ PipesKept
  BY PublishedAreNew
<1>2. /\ pc' = [pc EXCEPT ![Listener] = "update"]
      /\ UNCHANGED <<cursor, task, outcome>>
      /\ pipes \in [Stage -> Seq(Elements)]
      /\ DOMAIN pc = Threads
  BY DEF PublishConnections, Inv, TypeOK
<1>3. ASSUME NEW u \in Workers
      PROVE  pc'[u] = pc[u] /\ u \in Threads
  BY <1>2 DEF Threads
<1>4. PushersHaveOutcomes'
  BY <1>2, <1>3 DEF Journey, PushersHaveOutcomes
<1>5. ASSUME NEW r \in Stage, NEW d
      PROVE  InPipe(r, d)' <=>
               \/ InPipe(r, d)
               \/ r = "request" /\ \E k \in DOMAIN q : q[k] = d
  BY <1>1, <1>2, BatchAppended
<1>6. ASSUME NEW d, d \notin Referenced(pipes, task), NEW u \in Workers
      PROVE  task'[u] # d \/ d = 0
  BY <1>2, <1>3, <1>6 DEF Referenced
<1>7. ASSUME NEW d \in OnTheWay'
      PROVE  Travels(d)'
  <2>1. d \in Unfinished' /\ ~InPipe("completed", d)
    BY <1>5, <1>7 DEF OnTheWay, Stage
  <2>2. CASE d \in Unfinished /\ elements'[d] = elements[d]
    <3>1. d \in OnTheWay /\ Travels(d)
      BY <2>1, <2>2 DEF Journey, OnTheWay
    <3>2. ~\E k \in DOMAIN q : q[k] = d
      BY <1>1, <2>2 DEF Unfinished
    <3>3. ASSUME NEW s \in Stage
          PROVE  InPipe(s, d)' <=> InPipe(s, d)
      BY <1>5, <3>2
    <3> QED
      BY <1>1, <1>2, <1>3, <2>2, <3>1, <3>3, BystandersTravel
  <2>3. CASE \E k \in DOMAIN q : q[k] = d
    <3>1. PICK k \in DOMAIN q : q[k] = d
      BY <2>3
    <3>2. d \in Elements /\ d # 0 /\ d \notin Referenced(pipes, task)
      BY <1>1, <3>1
    <3>3. /\ elements'[d].done = {}
          /\ elements'[d].failed = {}
          /\ elements'[d].request = NoText
          /\ elements'[d].response = NoText
      <4>1. PICK g, c : elements'[d] = NewElement(g, c, Unowned)
        BY <1>1, <3>1 DEF IsBatch
      <4> QED
        BY <4>1 DEF NewElement
    <3>4. InPipe("request", d)'
      BY <1>5, <2>3 DEF Stage
    <3>5. ~InPipe("datamodel", d)'
      <4>1. ~InPipe("datamodel", d)
        BY <3>2 DEF Referenced, InPipe, Stage
      <4> QED
        BY <1>5, <4>1 DEF Stage
    <3>6. \A u \in Workers : task'[u] # d
      BY <1>6, <3>2
    <3>7. WaitsForNextStage(d)'
      BY <3>3, <3>4 DEF WaitsForNextStage
    <3>8. TextsAreMarked(d)'
      BY <3>3, <3>5 DEF TextsAreMarked
    <3>9. WorkedOnInTurn(d)'
      <4>1. Readers \subseteq Workers /\ Datamodels \subseteq Workers
        BY DEF Workers
      <4> QED
        BY <3>3, <3>6, <4>1 DEF WorkedOnInTurn
    <3> QED
      BY <3>7, <3>8, <3>9 DEF Travels
  <2> QED
    BY <1>1, <2>1, <2>2, <2>3 DEF IsBatch
<1> QED
  BY <1>4, <1>7 DEF Journey

(* A completed element is on its way no longer.                            *)
LEMMA CompleteJourney ==
  ASSUME Inv, Connected, Journey, Complete
  PROVE  Journey'
<1>1. PICK e \in Elements, f \in Fds : IsCompleted(e, f)
  BY OneIsCompleted
<1>2. /\ task' = [task EXCEPT ![Listener] = 0]
      /\ pc' = [pc EXCEPT ![Listener] = "drain"]
      /\ UNCHANGED <<pipes, cursor, outcome>>
      /\ DOMAIN pc = Threads /\ DOMAIN task = Threads
  BY DEF Complete, Inv, TypeOK
<1>3. ASSUME NEW u \in Workers
      PROVE  pc'[u] = pc[u] /\ task'[u] = task[u] /\ u \in Threads
  BY <1>2 DEF Threads
<1>4. PushersHaveOutcomes'
  BY <1>2, <1>3 DEF Journey, PushersHaveOutcomes
<1>5. ASSUME NEW d \in OnTheWay'
      PROVE  Travels(d)'
  <2>1. d \in Unfinished /\ d # e
    BY <1>1, <1>5 DEF IsCompleted, OnTheWay
  <2>2. d \in Elements
    BY <2>1, ReferencedType DEF Unfinished
  <2>3. elements'[d] = elements[d]
    BY <1>1, <2>1, <2>2 DEF IsCompleted
  <2>4. d \in OnTheWay
    BY <1>2, <1>5, <2>1 DEF OnTheWay, InPipe
  <2>5. Travels(d) /\ PipesKept
    BY <1>2, <2>4 DEF Journey, PipesKept
  <2>6. ASSUME NEW s \in Stage
        PROVE  InPipe(s, d)' <=> InPipe(s, d)
    BY <1>2 DEF InPipe
  <2> QED
    BY <1>2, <1>3, <2>3, <2>4, <2>5, <2>6, BystandersTravel
<1> QED
  BY <1>4, <1>5 DEF Journey

(* What maintenance leaves in the pipes.                                   *)
LEMMA PipesMaintained ==
  ASSUME Inv, NEW s \in Stage, Maintain(s), NEW r \in Stage, NEW d
  PROVE  /\ InPipe(r, d)' => InPipe(r, d)
         /\ InPipe(r, d) => InPipe(r, d)' \/ Processed(r, elements[d])
<1>1. PICK p \in Seq(Elements) : p = pipes[s]
  BY DEF Inv, TypeOK
<1>2. PICK m \in Nat : m = Len(p)
  OBVIOUS
<1>3. PICK n \in 1..m :
        /\ \A j \in 1..n : Processed(s, elements[p[j]])
        /\ pipes' = [pipes EXCEPT ![s] = SubSeq(@, n + 1, Len(@))]
  BY <1>1, <1>2 DEF Maintain
<1>4. DOMAIN pipes = Stage
  BY DEF Inv, TypeOK
<1>5. CASE r # s
  BY <1>3, <1>4, <1>5 DEF InPipe
<1>6. CASE r = s
  <2>1. PICK w : w = SubSeq(p, n + 1, m)
    OBVIOUS
  <2>2. pipes'[r] = w
    BY <1>1, <1>2, <1>3, <1>4, <1>6, <2>1
  <2>3. /\ DOMAIN w = 1..(m - n) /\ DOMAIN p = 1..m
        /\ \A k \in 1..(m - n) : w[k] = p[k + n]
    BY <1>2, <2>1
  <2>4. ASSUME NEW k \in DOMAIN w
        PROVE  k + n \in DOMAIN p /\ w[k] = p[k + n]
    BY <1>3, <2>3
  <2>5. ASSUME NEW k \in DOMAIN p, ~(k \in 1..n)
        PROVE  k - n \in DOMAIN w /\ w[k - n] = p[k]
    <3>1. k - n \in 1..(m - n) /\ (k - n) + n = k
      BY <1>3, <2>3, <2>5
    <3> QED
      BY <2>3, <3>1
  <2>6. /\ (\E k \in DOMAIN w : w[k] = d) => \E k \in DOMAIN p : p[k] = d
        /\ (\E k \in DOMAIN p : p[k] = d) =>
             (\E k \in DOMAIN w : w[k] = d) \/ Processed(s, elements[d])
    BY <1>3, <2>4, <2>5
  <2> QED
    BY <1>1, <1>6, <2>2, <2>6 DEF InPipe
<1> QED
  BY <1>5, <1>6

(* Maintenance takes an element from no pipe whose turn has not come.      *)
LEMMA MaintainJourney ==
  ASSUME Inv, Journey, NEW s \in Stage, Maintain(s)
  PROVE  Journey'
<1>1. /\ ElementsKept /\ PipesKept
      /\ \A e \in Unfinished' : elements'[e] = elements[e]
  BY MaintainKeeps
<1>2. UNCHANGED <<pc, cursor, task, outcome>>
  BY DEF Maintain, threadVars
<1>3. PushersHaveOutcomes'
  BY <1>2 DEF Journey, PushersHaveOutcomes
<1>4. ASSUME NEW d \in OnTheWay'
      PROVE  Travels(d)'
  <2>1. d \in Unfinished /\ elements'[d] = elements[d]
    BY <1>1, <1>4 DEF ElementsKept, OnTheWay
  <2>2. ASSUME NEW r \in Stage
        PROVE  /\ InPipe(r, d)' => InPipe(r, d)
               /\ InPipe(r, d) => InPipe(r, d)' \/ Processed(r, elements[d])
    BY PipesMaintained
  <2>3. ~InPipe("completed", d)
    <3>1. ~Processed("completed", elements[d])
      BY <2>1 DEF Processed, FailuresSkippedBy, Unfinished
    <3> QED
      BY <1>4, <2>2, <3>1 DEF OnTheWay, Stage
  <2>4. d \in OnTheWay /\ Travels(d)
    BY <2>1, <2>3 DEF OnTheWay, Journey
  <2> QED
    BY <1>1, <1>2, <2>1, <2>2, <2>4, BystandersTravel
<1> QED
  BY <1>3, <1>4 DEF Journey

(* Steps that leave the elements and the threads alone.                    *)
LEMMA OutsideJourney ==
  ASSUME Journey, UNCHANGED <<elements, pipes, threadVars>>
  PROVE  Journey'
BY DEF Journey, PushersHaveOutcomes, OnTheWay, Unfinished, InPipe, Travels,
       WaitsForNextStage, TextsAreMarked, WorkedOnInTurn, LooksAt, threadVars

(* Polling, and leaving the loop.                                          *)
LEMMA PollJourney ==
  ASSUME Inv, Journey, NEW t \in Threads, Poll(t) \/ StopThread(t)
  PROVE  Journey'
<1>1. DOMAIN cursor = Threads
  BY DEF Inv, TypeOK
<1>2. CASE Scan(t) \/ RescanFinds(t)
  <2>1. PICK i, k : /\ IsCandidate(StageOf(t), k, i)
                    /\ cursor' = [cursor EXCEPT ![t] = i]
    BY <1>2 DEF Scan, RescanFinds
  <2>2. /\ pc[t] \notin Holding
        /\ pc' = [pc EXCEPT ![t] = "candidate"] /\ "candidate" \notin Holding
        /\ UNCHANGED <<elements, pipes, task, outcome>>
    BY <1>2 DEF Scan, RescanFinds, PollPoint, Holding
  <2>3. ~Processed(StageOf(t), elements[pipes[StageOf(t)][cursor'[t]]])
    BY <1>1, <2>1 DEF IsCandidate
  <2>4. ASSUME NEW u \in Threads \ {t}
        PROVE  cursor'[u] = cursor[u]
    BY <1>1, <2>1
  <2> QED
    BY <2>2, <2>3, <2>4, ControlJourney
<1>3. CASE LockElementFails(t) \/ RescanEnds(t) \/ StopThread(t)
  <2>1. PICK l \in {"rescan", "idle", "select", "stopped"} :
          pc' = [pc EXCEPT ![t] = l]
    BY <1>3 DEF LockElementFails, RescanEnds, StopThread, LoopHead
  <2>2. /\ pc[t] \notin Holding /\ l \notin Holding /\ l # "candidate"
        /\ UNCHANGED <<elements, pipes, task, outcome>>
    BY <1>3, <2>1 DEF LockElementFails, RescanEnds, StopThread, LoopHead, Holding
  <2>3. ASSUME NEW u \in Threads \ {t}
        PROVE  cursor'[u] = cursor[u]
    BY <1>1, <1>3 DEF LockElementFails, RescanEnds, StopThread
  <2> QED
    BY <2>1, <2>2, <2>3, ControlJourney
<1> QED
  BY <1>2, <1>3, LockJourney DEF Poll

(* The listener's loop, but for its work.                                  *)
LEMMA ListenerJourney ==
  ASSUME Inv, Journey,
         \/ Select \/ Accept \/ TurnAway \/ SelectFails
         \/ PublishExpires \/ Update \/ DrainEnds
  PROVE  Journey'
<1>1. Listener \in Threads
  BY DEF Threads
<1>2. PICK l \in {"publish", "update", "drain", "select"} :
        pc' = [pc EXCEPT ![Listener] = l]
  <2>1. CASE Select \/ Accept \/ TurnAway \/ SelectFails
    BY <2>1 DEF Select, Accept, TurnAway, SelectFails, QueueActive
  <2>2. CASE PublishExpires \/ Update \/ DrainEnds
    BY <2>2 DEF PublishExpires, Update, DrainEnds
  <2> QED
    BY <2>1, <2>2
<1>3. /\ pc[Listener] \notin Holding /\ l \notin Holding /\ l # "candidate"
      /\ UNCHANGED <<elements, pipes, task, cursor, outcome>>
  BY <1>2 DEF Select, Accept, TurnAway, SelectFails, AtSelect, PublishExpires,
              Update, DrainEnds, Holding
<1> QED
  BY <1>1, <1>2, <1>3, ControlJourney

(* Nothing has set out at the start.                                       *)
LEMMA InitJourney == Init => Journey
<1> SUFFICES ASSUME Init PROVE Journey
  OBVIOUS
<1>1. Referenced(pipes, task) = {}
  BY DEF Init, Referenced
<1>2. \A t \in Workers : pc[t] = "idle"
  BY DEF Init, LoopHead, Threads
<1> QED
  BY <1>1, <1>2 DEF Journey, PushersHaveOutcomes, OnTheWay, Unfinished

(* Every step keeps the elements on their way.                             *)
LEMMA NextJourney ==
  ASSUME Inv, Connected, Journey, OneReaderOneDatamodel, [Next]_vars
  PROVE  Journey'
<1>1. CASE \E t \in Threads : Poll(t) \/ StopThread(t)
  BY <1>1, PollJourney
<1>2. CASE \E t \in Workers : Work(t)
  BY <1>2, WorkJourney, PushJourney, FinishJourney DEF Work
<1>3. CASE Listen
  BY <1>3, ListenerJourney, PublishJourney, CompleteJourney DEF Listen
<1>4. CASE UNCHANGED vars
  BY <1>4, OutsideJourney DEF vars
<1>5. CASE MaintenanceFails \/ Signal \/ StopProcess
  BY <1>5, OutsideJourney DEF MaintenanceFails, Signal, StopProcess
<1>6. CASE Main
  BY <1>4, <1>5, <1>6, MaintainJourney DEF Main, Stopped
<1>7. CASE \E c \in Conns : Client(c)
  BY <1>7, OutsideJourney DEF Client, Connect, SendRequest, HangUp
<1> QED
  BY <1>1, <1>2, <1>3, <1>4, <1>6, <1>7 DEF Next

(* It holds of every behaviour.                                            *)
LEMMA JourneyHolds ==
  ASSUME OneReaderOneDatamodel
  PROVE  Spec => []Journey
<1>1. Init => Journey
  BY InitJourney
<1>2. Inv /\ Connected /\ Journey /\ [Next]_vars => Journey'
  BY NextJourney
<1> QED
  BY <1>1, <1>2, InvHolds, ConnectedHolds, PTL DEF Spec

(* An unfinished element waits in a pipe that does not pass over it.       *)
LEMMA SomePipeServes ==
  ASSUME Journey, NEW e \in Unfinished
  PROVE  \E s \in Stage : InPipe(s, e) /\ ~Processed(s, elements[e])
<1>1. CASE e \notin OnTheWay
  <2>1. InPipe("completed", e)
    BY <1>1 DEF OnTheWay
  <2>2. ~Processed("completed", elements[e])
    BY DEF Processed, FailuresSkippedBy, Unfinished
  <2> QED
    BY <2>1, <2>2 DEF Stage
<1>2. CASE e \in OnTheWay
  <2>1. PICK s \in {"request", "datamodel", "response"} :
          InPipe(s, e) /\ s \notin elements[e].done
    BY <1>2 DEF Journey, Travels, WaitsForNextStage
  <2>2. ~Processed(s, elements[e])
    BY <1>2, <2>1 DEF Processed, Journey, Travels, WaitsForNextStage
  <2> QED
    BY <2>1, <2>2 DEF Stage
<1> QED
  BY <1>1, <1>2

(* With one reader and one datamodel thread, and any number of writers, no *)
(* failure flag and no interleaving leaves an element where no thread      *)
(* would ever take it up.                                                  *)
THEOREM NoElementIsStranded ==
  ASSUME OneReaderOneDatamodel
  PROVE  Spec => []NothingStranded
<1>1. Journey => NothingStranded
  <2> SUFFICES ASSUME Journey, NEW e \in Unfinished
               PROVE  \E s \in Stage : /\ \E i \in DOMAIN pipes[s] : pipes[s][i] = e
                                       /\ ~Processed(s, elements[e])
    BY DEF NothingStranded
  <2> QED
    BY SomePipeServes DEF InPipe
<1> QED
  BY <1>1, JourneyHolds, PTL
-----------------------------------------------------------------------------
(* A connection that is locked has somebody to unlock it.                  *)

Pends(f) == \E k \in DOMAIN pending : pending[k] = f

Carried(f) == \E e \in Unfinished : elements[e].fd = f

ConnectionsServed ==
  phase # "stopped" => \A f \in Fds : LockedIn(table, f) => Pends(f) \/ Carried(f)

StaysStopped == phase = "stopped" => phase' = "stopped"

ElementsRemain ==
  \A e \in Unfinished : e \in Unfinished' /\ elements'[e].fd = elements[e].fd

(* An element the listener has not completed is not forgotten: a pipe      *)
(* keeps what it does not pass over.                                       *)
LEMMA NoneForgotten ==
  ASSUME Inv, Journey, ElementsKept, NoneCompleted,
         ASSUME NEW s \in Stage, NEW e
         PROVE  InPipe(s, e) => InPipe(s, e)' \/ Processed(s, elements[e])
  PROVE  ElementsRemain
<1> SUFFICES ASSUME NEW e \in Unfinished
             PROVE  e \in Unfinished' /\ elements'[e].fd = elements[e].fd
  BY DEF ElementsRemain
<1>1. PICK s \in Stage : InPipe(s, e) /\ ~Processed(s, elements[e])
  BY SomePipeServes
<1>2. e \in Referenced(pipes', task')
  BY <1>1 DEF InPipe, Referenced
<1>3. e \in Elements /\ "completed" \notin elements[e].done
  BY ReferencedType DEF Unfinished
<1>4. e \in Unfinished'
  BY <1>2, <1>3 DEF NoneCompleted, Unfinished
<1> QED
  BY <1>4 DEF ElementsKept

(* The table and the pending descriptors stay, and no element goes.        *)
LEMMA ServedKept ==
  ASSUME ConnectionsServed, ElementsRemain, StaysStopped,
         UNCHANGED <<table, pending>>
  PROVE  ConnectionsServed'
BY DEF ConnectionsServed, Pends, Carried, ElementsRemain, StaysStopped

(* Steps that leave the elements alone, too.                               *)
LEMMA OutsideServed ==
  ASSUME ConnectionsServed, StaysStopped,
         UNCHANGED <<elements, pipes, task, table, pending>>
  PROVE  ConnectionsServed'
<1>1. ElementsRemain
  BY DEF ElementsRemain, Unfinished
<1> QED
  BY <1>1, ServedKept

(* The pools.                                                              *)
LEMMA WorkServed ==
  ASSUME Inv, Journey, ConnectionsServed, NEW t \in Workers, Work(t)
  PROVE  ConnectionsServed'
<1>1. ElementsKept /\ NoneCompleted
  BY WorkKeeps, PushKeeps, FinishKeeps DEF Work
<1>2. UNCHANGED <<table, pending>> /\ StaysStopped
  BY DEF Work, ReadRequest, ReadFails, ProcessRequest, ProcessFails,
         WriteResponse, WriteFails, Push, Finish, tableVars, StaysStopped
<1>3. ASSUME NEW s \in Stage, NEW e
      PROVE  InPipe(s, e) => InPipe(s, e)' \/ Processed(s, elements[e])
  <2>1. CASE Push(t)
    <3>1. PICK d \in Elements, r \in Stage :
            pipes' = [pipes EXCEPT ![r] = Append(@, d)]
      BY <2>1, PushKeeps
    <3>2. pipes \in [Stage -> Seq(Elements)]
      BY DEF Inv, TypeOK
    <3> QED
      BY <3>1, <3>2, Appended
  <2>2. CASE ~Push(t)
    <3>1. UNCHANGED pipes
      BY <2>2 DEF Work, ReadRequest, ReadFails, ProcessRequest, ProcessFails,
                  WriteResponse, WriteFails, Finish
    <3> QED
      BY <3>1 DEF InPipe
  <2> QED
    BY <2>1, <2>2
<1>4. ElementsRemain
  BY <1>1, <1>3, NoneForgotten
<1> QED
  BY <1>2, <1>4, ServedKept

(* The scans.                                                              *)
LEMMA PollServed ==
  ASSUME Inv, Journey, ConnectionsServed, NEW t \in Threads,
         Poll(t) \/ StopThread(t)
  PROVE  ConnectionsServed'
<1>1. CASE LockElement(t)
  <2>1. ElementsKept /\ NoneCompleted
    BY <1>1, LockKeeps
  <2>2. UNCHANGED <<pipes, table, pending>> /\ StaysStopped
    BY <1>1 DEF LockElement, tableVars, StaysStopped
  <2>3. ASSUME NEW s \in Stage, NEW e
        PROVE  InPipe(s, e) => InPipe(s, e)' \/ Processed(s, elements[e])
    BY <2>2 DEF InPipe
  <2>4. ElementsRemain
    BY <2>1, <2>3, NoneForgotten
  <2> QED
    BY <2>2, <2>4, ServedKept
<1>2. CASE ~LockElement(t)
  <2>1. UNCHANGED <<elements, pipes, task, table, pending>> /\ StaysStopped
    BY <1>2 DEF Poll, Scan, LockElementFails, RescanFinds, RescanEnds, StopThread,
                tableVars, StaysStopped
  <2> QED
    BY <2>1, OutsideServed
<1> QED
  BY <1>1, <1>2

(* Maintenance takes what its pipe passes over.                            *)
LEMMA MaintainServed ==
  ASSUME Inv, Journey, ConnectionsServed, NEW s \in Stage, Maintain(s)
  PROVE  ConnectionsServed'
<1>1. ElementsKept /\ NoneCompleted
  BY MaintainKeeps
<1>2. UNCHANGED <<table, pending>> /\ StaysStopped
  BY DEF Maintain, tableVars, StaysStopped
<1>3. ASSUME NEW r \in Stage, NEW e
      PROVE  InPipe(r, e) => InPipe(r, e)' \/ Processed(r, elements[e])
  BY PipesMaintained
<1>4. ElementsRemain
  BY <1>1, <1>3, NoneForgotten
<1> QED
  BY <1>2, <1>4, ServedKept

(* A turn of select locks what it queues, and queues what was pending.     *)
LEMMA SelectServed ==
  ASSUME Inv, Connected, ConnectionsServed, AtSelect,
         NEW tbl \in TableType, NEW ready, QueueActive(tbl, ready),
         FdsAreApart(tbl),
         \A g \in Fds : LockedIn(tbl, g) <=> LockedIn(table, g),
         UNCHANGED <<elements, pipes, task>>
  PROVE  ConnectionsServed'
<1>1. phase # "stopped"
  BY DEF AtSelect
<1>2. PICK order \in Ascending(ActiveSlots(tbl, ready)) :
        pending' = QueueOf(tbl, pending, order)
  BY DEF QueueActive, QueueOf
<1>3. pending \in Seq(Fds)
  BY DEF Inv, TypeOK
<1>4. \A k \in DOMAIN pending : LockedIn(table, pending[k]) /\ pending[k] \in Fds
  BY <1>1, <1>3 DEF Connected, PendingAreLocked, AllLockedIn
<1>5. AllLockedIn(tbl, pending) /\ Distinct(pending)
  BY <1>1, <1>4 DEF Connected, PendingAreLocked, AllLockedIn
<1>6. PICK queue : queue = pending'
  OBVIOUS
<1>7. PICK new : new = LockActive(tbl, ready) /\ new = table'
  BY DEF QueueActive
<1>8. /\ \A j \in DOMAIN pending : \E k \in DOMAIN queue : queue[k] = pending[j]
      /\ \A g : LockedIn(new, g) =>
           LockedIn(tbl, g) \/ \E k \in DOMAIN queue : queue[k] = g
  <2>1. queue = QueueOf(tbl, pending, order)
    BY <1>2, <1>6
  <2>2. new = LockActive(tbl, ready)
    BY <1>7
  <2>3. \A j \in DOMAIN pending : \E k \in DOMAIN queue : queue[k] = pending[j]
    BY <1>3, <1>5, <2>1, Queued
  <2>4. \A g : LockedIn(LockActive(tbl, ready), g) =>
          LockedIn(tbl, g) \/ \E k \in DOMAIN queue : queue[k] = g
    BY <1>3, <1>5, <2>1, Queued
  <2> QED
    BY <2>2, <2>3, <2>4
<1>9. ASSUME NEW f \in Fds, LockedIn(new, f)
      PROVE  Pends(f)' \/ Carried(f)'
  <2>1. ASSUME \E k \in DOMAIN queue : queue[k] = f
        PROVE  Pends(f)'
    BY <1>6, <2>1 DEF Pends
  <2>2. ASSUME LockedIn(tbl, f)
        PROVE  Pends(f)' \/ Carried(f)'
    <3>1. Pends(f) \/ Carried(f)
      BY <1>1, <2>2 DEF ConnectionsServed
    <3>2. Carried(f) => Carried(f)'
      BY DEF Carried, Unfinished
    <3>3. Pends(f) => Pends(f)'
      BY <1>6, <1>8 DEF Pends
    <3> QED
      BY <3>1, <3>2, <3>3
  <2>3. LockedIn(tbl, f) \/ \E k \in DOMAIN queue : queue[k] = f
    BY <1>8, <1>9
  <2> QED
    BY <2>1, <2>2, <2>3
<1> QED
  BY <1>7, <1>9 DEF ConnectionsServed

LEMMA SelectTurnServed ==
  ASSUME Inv, Connected, ConnectionsServed,
         Select \/ Accept \/ TurnAway \/ SelectFails
  PROVE  ConnectionsServed'
<1>1. /\ table \in TableType /\ FdsAreApart(table)
      /\ TableFds(table) = {f \in Fds : fdTable[f] # NoConn}
  BY TableIsTyped DEF Connected, TableMatchesDescriptors, FdsAreApart
<1>2. AtSelect /\ UNCHANGED <<elements, pipes, task>>
  BY DEF Select, Accept, TurnAway, SelectFails
<1>3. CASE Select \/ TurnAway \/ SelectFails
  <2>1. PICK ready : QueueActive(table, ready)
    BY <1>3 DEF Select, TurnAway, SelectFails
  <2>2. \A g \in Fds : LockedIn(table, g) <=> LockedIn(table, g)
    OBVIOUS
  <2> QED
    BY <1>1, <1>2, <2>1, <2>2, SelectServed
<1>4. CASE Accept
  <2>1. PICK f \in Fds : /\ fdTable[f] = NoConn
                         /\ QueueActive(AddConnection(table, f), Ready)
    BY <1>4 DEF Accept, FreeFds
  <2>2. PICK tbl, ready : /\ tbl = AddConnection(table, f) /\ ready = Ready
                          /\ QueueActive(tbl, ready)
    BY <2>1
  <2>3. HasVacancy(table) /\ f \notin TableFds(table)
    BY <1>1, <1>4, <2>1 DEF Accept
  <2>4. /\ tbl \in TableType
        /\ FdsAreApart(tbl)
        /\ \A g \in Fds : LockedIn(tbl, g) <=> LockedIn(table, g)
    BY <1>1, <2>2, <2>3, Added, TableAdded
  <2> QED
    BY <1>2, <2>2, <2>4, SelectServed
<1> QED
  BY <1>3, <1>4

(* What was pending is carried now.                                        *)
LEMMA PublishServed ==
  ASSUME Inv, ConnectionsServed, PublishConnections
  PROVE  ConnectionsServed'
<1>1. PICK q \in [DOMAIN pending -> Elements \ Referenced(pipes, task)] :
        /\ IsBatch(q)
        /\ q \in Seq(Elements)
        /\ pipes' = [pipes EXCEPT !["request"] = @ \o q]
  BY PublishedAreNew
<1>2. /\ pipes \in [Stage -> Seq(Elements)]
      /\ UNCHANGED <<task, table, phase>>
      /\ DOMAIN q = DOMAIN pending
  BY <1>1 DEF PublishConnections, Inv, TypeOK
<1>3. ASSUME NEW r \in Stage, NEW d
      PROVE  InPipe(r, d)' <=> \/ InPipe(r, d)
                               \/ r = "request" /\ \E k \in DOMAIN q : q[k] = d
  BY <1>1, <1>2, BatchAppended
<1>4. ASSUME NEW d \in Unfinished
      PROVE  d \in Unfinished' /\ elements'[d] = elements[d]
  <2>1. d \in Referenced(pipes', task')
    <3>1. CASE \E r \in Stage : InPipe(r, d)
      <4>1. PICK r \in Stage : InPipe(r, d)'
        BY <1>3, <3>1
      <4> QED
        BY <4>1 DEF Referenced, InPipe
    <3>2. CASE d \in {task[t] : t \in Threads} \ {0}
      BY <1>2, <3>2 DEF Referenced
    <3> QED
      BY <3>1, <3>2 DEF Unfinished, Referenced, InPipe
  <2>2. d \in Elements /\ d \in Referenced(pipes, task)
    BY ReferencedType DEF Unfinished
  <2>3. elements'[d] = elements[d]
    <3>1. \A e \in Elements : \/ \E k \in DOMAIN q : q[k] = e
                             \/ elements'[e] = elements[e]
      BY <1>1 DEF IsBatch
    <3>2. \A k \in DOMAIN q : q[k] # d
      BY <1>1, <2>2
    <3> QED
      BY <2>2, <3>1, <3>2
  <2> QED
    BY <2>1, <2>3 DEF Unfinished
<1>5. ASSUME NEW k \in DOMAIN pending
      PROVE  q[k] \in Unfinished' /\ elements'[q[k]].fd = pending[k]
  <2>1. PICK c : elements'[q[k]] = NewElement(pending[k], c, Unowned)
    BY <1>1, <1>2 DEF IsBatch
  <2>2. elements'[q[k]].fd = pending[k] /\ elements'[q[k]].done = {}
    BY <2>1, NewElementIs
  <2>3. InPipe("request", q[k])' /\ "request" \in Stage
    BY <1>2, <1>3 DEF Stage
  <2>4. q[k] \in Referenced(pipes', task')
    BY <2>3 DEF InPipe, Referenced
  <2> QED
    BY <2>2, <2>4 DEF Unfinished
<1>6. \A f \in Fds : Pends(f) \/ Carried(f) => Carried(f)'
  BY <1>4, <1>5 DEF Pends, Carried
<1> QED
  BY <1>2, <1>6 DEF ConnectionsServed

(* The connection of the completed element is unlocked or gone, the others *)
(* keep what carries them.                                                 *)
LEMMA CompleteServed ==
  ASSUME Inv, Connected, Journey, ConnectionsServed, Complete
  PROVE  ConnectionsServed'
<1>1. PICK e \in Elements, f \in Fds : IsCompleted(e, f)
  BY OneIsCompleted
<1>2. \A g \in Fds : LockedIn(table', g) => g # f /\ LockedIn(table, g)
  BY <1>1, ConnectionIsLetGo
<1>3. UNCHANGED <<pipes, pending, phase>>
  BY DEF Complete
<1>4. ASSUME NEW d \in Unfinished, d # e
      PROVE  d \in Unfinished' /\ elements'[d] = elements[d]
  <2>1. PICK s \in Stage : InPipe(s, d)
    BY SomePipeServes
  <2>2. d \in Referenced(pipes', task')
    BY <1>3, <2>1 DEF InPipe, Referenced
  <2>3. elements'[d] = elements[d]
    BY <1>1, <1>4, ReferencedType DEF IsCompleted, Unfinished
  <2> QED
    BY <2>2, <2>3 DEF Unfinished
<1>5. f = elements[e].fd
  BY <1>1 DEF IsCompleted
<1>6. ASSUME NEW g \in Fds, g # f
      PROVE  Pends(g) \/ Carried(g) => Pends(g)' \/ Carried(g)'
  BY <1>3, <1>4, <1>5, <1>6 DEF Pends, Carried
<1> QED
  BY <1>2, <1>3, <1>6 DEF ConnectionsServed

LEMMA NextServed ==
  ASSUME Inv, Connected, Journey, ConnectionsServed, [Next]_vars
  PROVE  ConnectionsServed'
<1>1. CASE \E t \in Threads : Poll(t) \/ StopThread(t)
  BY <1>1, PollServed
<1>2. CASE \E t \in Workers : Work(t)
  BY <1>2, WorkServed
<1>3. CASE Select \/ Accept \/ TurnAway \/ SelectFails
  BY <1>3, SelectTurnServed
<1>4. CASE PublishExpires \/ Update \/ DrainEnds
  BY <1>4, OutsideServed DEF PublishExpires, Update, DrainEnds, tableVars,
                             StaysStopped
<1>5. CASE UNCHANGED vars
  BY <1>5, OutsideServed DEF vars, threadVars, tableVars, StaysStopped
<1>6. CASE MaintenanceFails \/ Signal
  BY <1>6, OutsideServed DEF MaintenanceFails, Signal, threadVars, tableVars,
                             StaysStopped
<1>7. CASE StopProcess
  BY <1>7 DEF StopProcess, ConnectionsServed
<1>8. CASE Main
  BY <1>5, <1>6, <1>7, <1>8, MaintainServed DEF Main, Stopped
<1>9. CASE \E c \in Conns : Client(c)
  BY <1>9, OutsideServed DEF Client, Connect, SendRequest, HangUp, threadVars,
                             tableVars, StaysStopped
<1> QED
  BY <1>1, <1>2, <1>3, <1>4, <1>5, <1>8, <1>9, PublishServed, CompleteServed
     DEF Next, Listen

LEMMA ServedHolds ==
  ASSUME OneReaderOneDatamodel
  PROVE  Spec => []ConnectionsServed
<1>1. Init => ConnectionsServed
  BY DEF Init, EmptyTable, Vacant, LockedIn, ConnectionsServed
<1>2. Inv /\ Connected /\ Journey /\ ConnectionsServed /\ [Next]_vars
        => ConnectionsServed'
  BY NextServed
<1> QED
  BY <1>1, <1>2, InvHolds, ConnectedHolds, JourneyHolds, PTL DEF Spec

(* A set whose members are all equal has one of them, or none.             *)
LEMMA OneOrNone ==
  ASSUME NEW S, \A x, y \in S : x = y
  PROVE  /\ S = {} => Cardinality(S) = 0
         /\ S # {} => Cardinality(S) = 1
<1>1. S = {} => Cardinality(S) = 0
  BY FS_EmptySet
<1>2. ASSUME S # {} PROVE Cardinality(S) = 1
  <2>1. PICK x \in S : S = {x}
    BY <1>2
  <2> QED
    BY <2>1, FS_Singleton
<1> QED
  BY <1>1, <1>2

(* What is on its way for a descriptor: itself or an element, never both.  *)
LEMMA FlightsCounted ==
  ASSUME Inv, Connected, ConnectionsServed, phase # "stopped", NEW f \in Fds
  PROVE  InFlight(f) = IF LockedIn(table, f) THEN 1 ELSE 0
<1>1. PendingAreLocked /\ ElementsAreLocked
  BY DEF Connected
<1>2. PICK P, E : /\ P = {i \in DOMAIN pending : pending[i] = f}
                  /\ E = {e \in Unfinished : elements[e].fd = f}
  OBVIOUS
<1>3. InFlight(f) = Cardinality(P) + Cardinality(E)
  BY <1>2 DEF InFlight
<1>4. \A i, j \in P : i = j
  BY <1>1, <1>2 DEF PendingAreLocked, Distinct
<1>5. \A d, e \in E : d = e
  BY <1>1, <1>2 DEF ElementsAreLocked
<1>6. P # {} => E = {}
  BY <1>1, <1>2 DEF ElementsAreLocked
<1>7. P # {} \/ E # {} => LockedIn(table, f)
  BY <1>1, <1>2 DEF ElementsAreLocked, PendingAreLocked, AllLockedIn
<1>8. LockedIn(table, f) => P # {} \/ E # {}
  BY <1>2 DEF ConnectionsServed, Pends, Carried
<1>9. /\ P = {} => Cardinality(P) = 0
      /\ P # {} => Cardinality(P) = 1
  BY <1>4, OneOrNone
<1>10. /\ E = {} => Cardinality(E) = 0
       /\ E # {} => Cardinality(E) = 1
  BY <1>5, OneOrNone
<1> QED
  BY <1>3, <1>6, <1>7, <1>8, <1>9, <1>10

(* With one reader and one datamodel thread, a connection is locked        *)
(* exactly while one pending descriptor or one element serves it, never    *)
(* two and never none: no client is forgotten, and no two elements are     *)
(* about the same client.                                                  *)
THEOREM LockedAreServed ==
  ASSUME OneReaderOneDatamodel
  PROVE  Spec => []LockedConnectionIsServed
<1>1. Inv /\ Connected /\ ConnectionsServed => LockedConnectionIsServed
  <2> SUFFICES ASSUME Inv, Connected, ConnectionsServed, phase # "stopped",
                      NEW i \in DOMAIN table, table[i].fd # 0
               PROVE  InFlight(table[i].fd) = IF table[i].locked THEN 1 ELSE 0
    BY DEF LockedConnectionIsServed
  <2>1. table[i].fd \in Fds
    BY DEF Inv, TypeOK
  <2>2. LockedIn(table, table[i].fd) <=> table[i].locked
    BY DEF LockedIn, Connected, TableMatchesDescriptors
  <2> QED
    BY <2>1, <2>2, FlightsCounted
<1> QED
  BY <1>1, InvHolds, ConnectedHolds, ServedHolds, PTL
-----------------------------------------------------------------------------
(* A step that is not about an element: it stays as it was in the pipes    *)
(* and in the threads' hands, its marks can only grow, and a worker that   *)
(* comes to look at it found it unprocessed.                               *)
TextsKept(e) ==
  /\ elements'[e].fd = elements[e].fd
  /\ elements'[e].conn = elements[e].conn
  /\ elements'[e].request = elements[e].request
  /\ elements'[e].response = elements[e].response
  /\ elements'[e].closeRequired = elements[e].closeRequired
  /\ elements[e].done \subseteq elements'[e].done
  /\ elements[e].failed \subseteq elements'[e].failed

HoldersKept(e) ==
  \A t \in Workers :
    /\ task'[t] = e <=> task[t] = e
    /\ task[t] = e => pc'[t] = pc[t] /\ outcome'[t] = outcome[t]

LookersKept(e) ==
  \A t \in Workers : LooksAt(t, e)' =>
    \/ LooksAt(t, e)
    \/ /\ InPipe(StageOf(t), e)
       /\ ~Processed(StageOf(t), elements[e])
       /\ task[t] # e

Undisturbed(e) ==
  /\ TextsKept(e) /\ HoldersKept(e) /\ LookersKept(e)
  /\ \A s \in Stage : InPipe(s, e)' => InPipe(s, e)

(* Moving control, to a candidate at most.                                 *)
LEMMA ControlUndisturbs ==
  ASSUME Inv, NEW t \in Threads, pc[t] \notin Holding,
         NEW l, l \notin Holding, pc' = [pc EXCEPT ![t] = l],
         l = "candidate" =>
           /\ InPipe(StageOf(t), pipes[StageOf(t)][cursor'[t]])
           /\ ~Processed(StageOf(t), elements[pipes[StageOf(t)][cursor'[t]]]),
         ASSUME NEW u \in Threads \ {t} PROVE cursor'[u] = cursor[u],
         UNCHANGED <<elements, pipes, task, outcome>>,
         NEW e \in Elements
  PROVE  Undisturbed(e)
<1>1. /\ Workers \subseteq Threads
      /\ DOMAIN pc = Threads
  BY DEF Threads, Inv, TypeOK
<1>2. task[t] = 0 /\ e # 0
  BY DEF Inv, ElementOwnership, Holding
<1>3. \A u \in Threads \ {t} : pc'[u] = pc[u]
  BY <1>1
<1>4. HoldersKept(e)
  BY <1>1, <1>2, <1>3 DEF HoldersKept
<1>5. LookersKept(e)
  <2> SUFFICES ASSUME NEW u \in Workers, LooksAt(u, e)'
               PROVE  \/ LooksAt(u, e)
                      \/ /\ InPipe(StageOf(u), e)
                         /\ ~Processed(StageOf(u), elements[e])
                         /\ task[u] # e
    BY DEF LookersKept
  <2>1. CASE u # t
    <3>1. cursor'[u] = cursor[u] /\ pc'[u] = pc[u]
      BY <1>1, <1>3, <2>1
    <3> QED
      BY <3>1 DEF LooksAt
  <2>2. CASE u = t
    <3>1. l = "candidate" /\ pipes[StageOf(t)][cursor'[t]] = e
      BY <1>1, <1>2, <2>2 DEF LooksAt
    <3> QED
      BY <1>2, <2>2, <3>1
  <2> QED
    BY <2>1, <2>2
<1>6. TextsKept(e) /\ \A s \in Stage : InPipe(s, e)' => InPipe(s, e)
  BY DEF TextsKept, InPipe
<1> QED
  BY <1>4, <1>5, <1>6 DEF Undisturbed

(* A step of one thread on another element.                                *)
LEMMA OthersUndisturbed ==
  ASSUME Inv, PipesKept, NEW t \in Threads,
         NEW l, l # "candidate", pc' = [pc EXCEPT ![t] = l],
         NEW o, outcome' = [outcome EXCEPT ![t] = o] \/ outcome' = outcome,
         NEW d, task' = task \/ task' = [task EXCEPT ![t] = d],
         cursor' = cursor \/ cursor' = [cursor EXCEPT ![t] = 1],
         NEW e \in Elements, t \in Workers => task[t] # e /\ d # e,
         TextsKept(e),
         ASSUME NEW s \in Stage PROVE InPipe(s, e)' => InPipe(s, e)
  PROVE  Undisturbed(e)
<1>1. /\ Workers \subseteq Threads
      /\ DOMAIN pc = Threads /\ DOMAIN outcome = Threads /\ DOMAIN task = Threads
      /\ DOMAIN cursor = Threads
  BY DEF Threads, Inv, TypeOK
<1>2. ASSUME NEW u \in Workers
      PROVE  /\ task'[u] = e <=> task[u] = e
             /\ task[u] = e => pc'[u] = pc[u] /\ outcome'[u] = outcome[u]
             /\ pc'[u] = "candidate" => pc[u] = "candidate" /\ cursor'[u] = cursor[u]
  <2>1. CASE u = t
    BY <1>1, <2>1
  <2>2. CASE u # t
    BY <1>1, <2>2
  <2> QED
    BY <2>1, <2>2
<1>3. HoldersKept(e)
  BY <1>2 DEF HoldersKept
<1>4. LookersKept(e)
  <2> SUFFICES ASSUME NEW u \in Workers, LooksAt(u, e)'
               PROVE  LooksAt(u, e)
    BY DEF LookersKept
  <2> QED
    BY <1>1, <1>2, LooksKept
<1> QED
  BY <1>3, <1>4 DEF Undisturbed

(* A step that leaves the workers alone.                                   *)
LEMMA BystandersUndisturbed ==
  ASSUME Inv, PipesKept, NEW e \in Elements, TextsKept(e),
         ASSUME NEW u \in Workers
         PROVE  /\ pc'[u] = pc[u] /\ cursor'[u] = cursor[u]
                /\ task'[u] = task[u] /\ outcome'[u] = outcome[u],
         ASSUME NEW s \in Stage PROVE InPipe(s, e)' => InPipe(s, e)
  PROVE  Undisturbed(e)
<1>1. Workers \subseteq Threads
  BY DEF Threads
<1>2. HoldersKept(e)
  BY DEF HoldersKept
<1>3. LookersKept(e)
  <2> SUFFICES ASSUME NEW u \in Workers, LooksAt(u, e)'
               PROVE  LooksAt(u, e)
    BY DEF LookersKept
  <2> QED
    BY <1>1, LooksKept
<1> QED
  BY <1>2, <1>3 DEF Undisturbed

LEMMA PollUndisturbs ==
  ASSUME Inv, NEW t \in Threads, Poll(t) \/ StopThread(t), ~LockElement(t),
         NEW e \in Elements
  PROVE  Undisturbed(e)
<1>1. /\ DOMAIN cursor = Threads /\ StageOf(t) \in Stage
      /\ pipes \in [Stage -> Seq(Elements)]
      /\ cursor \in [Threads -> Nat \ {0}]
  BY StageOfType DEF Inv, TypeOK
<1>2. CASE Scan(t) \/ RescanFinds(t)
  <2>1. PICK i, k \in Nat \ {0} : /\ IsCandidate(StageOf(t), k, i)
                                 /\ cursor' = [cursor EXCEPT ![t] = i]
    BY <1>1, <1>2 DEF Scan, RescanFinds
  <2>2. /\ pc[t] \notin Holding
        /\ pc' = [pc EXCEPT ![t] = "candidate"] /\ "candidate" \notin Holding
        /\ UNCHANGED <<elements, pipes, task, outcome>>
    BY <1>2 DEF Scan, RescanFinds, PollPoint, Holding
  <2>3. cursor'[t] = i /\ ~Processed(StageOf(t), elements[pipes[StageOf(t)][i]])
    BY <1>1, <2>1 DEF IsCandidate
  <2>4. InPipe(StageOf(t), pipes[StageOf(t)][i])
    <3>1. PICK p \in Seq(Elements) : p = pipes[StageOf(t)]
      BY <1>1
    <3>2. i \in k..Len(p)
      BY <2>1, <3>1 DEF IsCandidate
    <3>3. i \in DOMAIN p
      BY <3>1, <3>2
    <3> QED
      BY <3>1, <3>3 DEF InPipe
  <2>5. ASSUME NEW u \in Threads \ {t}
        PROVE  cursor'[u] = cursor[u]
    BY <1>1, <2>1
  <2> QED
    BY <2>2, <2>3, <2>4, <2>5, ControlUndisturbs
<1>3. CASE LockElementFails(t) \/ RescanEnds(t) \/ StopThread(t)
  <2>1. PICK l \in {"rescan", "idle", "select", "stopped"} :
          pc' = [pc EXCEPT ![t] = l]
    BY <1>3 DEF LockElementFails, RescanEnds, StopThread, LoopHead
  <2>2. /\ pc[t] \notin Holding /\ l \notin Holding /\ l # "candidate"
        /\ UNCHANGED <<elements, pipes, task, outcome>>
    BY <1>3, <2>1 DEF LockElementFails, RescanEnds, StopThread, LoopHead, Holding
  <2>3. ASSUME NEW u \in Threads \ {t}
        PROVE  cursor'[u] = cursor[u]
    BY <1>1, <1>3 DEF LockElementFails, RescanEnds, StopThread
  <2> QED
    BY <2>1, <2>2, <2>3, ControlUndisturbs
<1> QED
  BY <1>2, <1>3 DEF Poll

(* Locking an element is not about the others.                             *)
LEMMA LockUndisturbs ==
  ASSUME Inv, NEW t \in Threads, LockElement(t), NEW e \in Elements,
         t \in Workers => pipes[StageOf(t)][cursor[t]] # e
  PROVE  Undisturbed(e)
<1>1. PICK d \in Elements : /\ d = pipes[StageOf(t)][cursor[t]]
                           /\ task' = [task EXCEPT ![t] = d]
  BY LockKeeps
<1>2. /\ DOMAIN elements = Elements
      /\ elements \in [Elements -> ElementType]
      /\ elements' = [elements EXCEPT ![d] = LockedBy(@, t)]
      /\ cursor' = [cursor EXCEPT ![t] = 1]
      /\ pc[t] = "candidate" /\ pc' = [pc EXCEPT ![t] = "work"]
      /\ UNCHANGED <<pipes, outcome>>
  BY <1>1 DEF LockElement, Inv, TypeOK
<1>3. TextsKept(e)
  BY <1>2 DEF LockedBy, ElementType, TextsKept
<1>4. task[t] = 0 /\ e # 0
  BY <1>2 DEF Inv, ElementOwnership
<1>5. t \in Workers => task[t] # e /\ d # e
  BY <1>1, <1>4
<1>6. PipesKept
  BY <1>2 DEF PipesKept
<1>7. ASSUME NEW s \in Stage PROVE InPipe(s, e)' => InPipe(s, e)
  BY <1>2 DEF InPipe
<1>8. PICK l : l # "candidate" /\ pc' = [pc EXCEPT ![t] = l]
  BY <1>2
<1>9. /\ outcome' = outcome /\ task' = [task EXCEPT ![t] = d]
      /\ cursor' = [cursor EXCEPT ![t] = 1]
  BY <1>1, <1>2
<1> QED
  BY <1>3, <1>5, <1>6, <1>7, <1>8, <1>9, OthersUndisturbed

(* So is the work on an element.                                           *)
LEMMA WorkUndisturbs ==
  ASSUME Inv, NEW t \in Workers, Work(t), NEW e \in Elements, e # task[t]
  PROVE  Undisturbed(e)
<1>1. /\ t \in Threads /\ DOMAIN elements = Elements /\ e # 0
      /\ pipes \in [Stage -> Seq(Elements)]
  BY DEF Threads, Inv, TypeOK
<1>2. PICK l, o : /\ l # "candidate" /\ pc' = [pc EXCEPT ![t] = l]
                  /\ outcome' = [outcome EXCEPT ![t] = o] \/ outcome' = outcome
  BY DEF Work, ReadRequest, ReadFails, ProcessRequest, ProcessFails,
         WriteResponse, WriteFails, Push, Finish
<1>3. /\ task' = task \/ task' = [task EXCEPT ![t] = 0]
      /\ UNCHANGED cursor
  BY DEF Work, ReadRequest, ReadFails, ProcessRequest, ProcessFails,
         WriteResponse, WriteFails, Push, Finish
<1>4. PICK el : elements' = elements \/ elements' = [elements EXCEPT ![task[t]] = el]
  <2>1. CASE ReadRequest(t) \/ ProcessRequest(t)
    BY <2>1 DEF ReadRequest, ProcessRequest
  <2>2. CASE ReadFails(t) \/ ProcessFails(t) \/ WriteFails(t)
    BY <2>2 DEF ReadFails, ProcessFails, WriteFails
  <2>3. CASE Finish(t)
    BY <2>3 DEF Finish
  <2>4. CASE WriteResponse(t) \/ Push(t)
    BY <2>4 DEF WriteResponse, Push
  <2> QED
    BY <2>1, <2>2, <2>3, <2>4 DEF Work
<1>5. elements'[e] = elements[e]
  BY <1>1, <1>4
<1>6. TextsKept(e)
  BY <1>5 DEF TextsKept
<1>7. CASE Push(t)
  <2>1. PICK d \in Elements, s \in Stage :
          /\ d = task[t]
          /\ pipes' = [pipes EXCEPT ![s] = Append(@, d)]
    BY <1>7, PushKeeps
  <2>2. PipesKept
    BY <1>7, PushKeeps
  <2>3. ASSUME NEW r \in Stage PROVE InPipe(r, e)' => InPipe(r, e)
    BY <1>1, <2>1, Appended
  <2> QED
    BY <1>1, <1>2, <1>3, <1>6, <2>2, <2>3, OthersUndisturbed
<1>8. CASE ~Push(t)
  <2>1. UNCHANGED pipes
    BY <1>8 DEF Work, ReadRequest, ReadFails, ProcessRequest, ProcessFails,
                WriteResponse, WriteFails, Finish
  <2>2. PipesKept
    BY <2>1 DEF PipesKept
  <2>3. ASSUME NEW r \in Stage PROVE InPipe(r, e)' => InPipe(r, e)
    BY <2>1 DEF InPipe
  <2> QED
    BY <1>1, <1>2, <1>3, <1>6, <2>2, <2>3, OthersUndisturbed
<1> QED
  BY <1>7, <1>8

(* The listener's loop but for its publishing.                             *)
LEMMA ListenUndisturbs ==
  ASSUME Inv, Connected, Listen, ~PublishConnections, NEW e \in Elements
  PROVE  Undisturbed(e)
<1>1. Listener \in Threads /\ Listener \notin Workers
  BY DEF Threads
<1>2. CASE \/ Select \/ Accept \/ TurnAway \/ SelectFails
           \/ PublishExpires \/ Update \/ DrainEnds
  <2>1. PICK l \in {"publish", "update", "drain", "select"} :
          pc' = [pc EXCEPT ![Listener] = l]
    <3>1. CASE Select \/ Accept \/ TurnAway \/ SelectFails
      BY <3>1 DEF Select, Accept, TurnAway, SelectFails, QueueActive
    <3>2. CASE PublishExpires \/ Update \/ DrainEnds
      BY <3>2 DEF PublishExpires, Update, DrainEnds
    <3> QED
      BY <1>2, <3>1, <3>2
  <2>2. /\ pc[Listener] \notin Holding /\ l \notin Holding /\ l # "candidate"
        /\ UNCHANGED <<elements, pipes, task, cursor, outcome>>
    BY <1>2, <2>1 DEF Select, Accept, TurnAway, SelectFails, AtSelect,
                      PublishExpires, Update, DrainEnds, Holding
  <2> QED
    BY <1>1, <2>1, <2>2, ControlUndisturbs
<1>3. CASE Complete
  <2>1. PICK d \in Elements, f \in Fds : IsCompleted(d, f)
    BY <1>3, OneIsCompleted
  <2>2. d = task[Listener] /\ elements[d] \in ElementType
    BY <2>1 DEF IsCompleted, Inv, TypeOK
  <2>3. PICK unlocks : elements' = [elements EXCEPT ![d] =
                         Released(MarkDone(@, {"completed"}), unlocks)]
    BY <1>3, <2>2 DEF Complete
  <2>4. TextsKept(e)
    <3>1. DOMAIN elements = Elements
      BY DEF Inv, TypeOK
    <3> QED
      BY <2>2, <2>3, <3>1 DEF Released, Unlocked, MarkDone, ElementType, TextsKept
  <2>5. /\ pc' = [pc EXCEPT ![Listener] = "drain"]
        /\ task' = [task EXCEPT ![Listener] = 0]
        /\ UNCHANGED <<pipes, cursor, outcome>>
    BY <1>3 DEF Complete
  <2>6. PipesKept
    BY <2>5 DEF PipesKept
  <2>7. ASSUME NEW r \in Stage PROVE InPipe(r, e)' => InPipe(r, e)
    BY <2>5 DEF InPipe
  <2> QED
    BY <1>1, <2>4, <2>5, <2>6, <2>7, OthersUndisturbed
<1> QED
  BY <1>2, <1>3 DEF Listen

(* Nor is publishing about the elements there are.                         *)
LEMMA PublishUndisturbs ==
  ASSUME Inv, PublishConnections, NEW e \in Referenced(pipes, task)
  PROVE  Undisturbed(e)
<1>1. PICK q \in [DOMAIN pending -> Elements \ Referenced(pipes, task)] :
        /\ IsBatch(q)
        /\ q \in Seq(Elements)
        /\ pipes' = [pipes EXCEPT !["request"] = @ \o q]
        /\ PipesKept
  BY PublishedAreNew
<1>2. /\ pc' = [pc EXCEPT ![Listener] = "update"]
      /\ UNCHANGED <<cursor, task, outcome>>
      /\ pipes \in [Stage -> Seq(Elements)]
      /\ DOMAIN pc = Threads
  BY DEF PublishConnections, Inv, TypeOK
<1>3. e \in Elements /\ \A k \in DOMAIN q : q[k] # e
  BY <1>1, ReferencedType
<1>4. elements'[e] = elements[e]
  BY <1>1, <1>3 DEF IsBatch
<1>5. TextsKept(e)
  BY <1>4 DEF TextsKept
<1>6. ASSUME NEW u \in Workers
      PROVE  /\ pc'[u] = pc[u] /\ cursor'[u] = cursor[u]
             /\ task'[u] = task[u] /\ outcome'[u] = outcome[u]
  BY <1>2 DEF Threads
<1>7. ASSUME NEW s \in Stage PROVE InPipe(s, e)' => InPipe(s, e)
  BY <1>1, <1>2, <1>3, BatchAppended
<1> QED
  BY <1>1, <1>3, <1>5, <1>6, <1>7, BystandersUndisturbed

(* Nor is maintenance about those that are left.                           *)
LEMMA MaintainUndisturbs ==
  ASSUME Inv, NEW s \in Stage, Maintain(s), NEW e \in Elements,
         e \in Referenced(pipes', task')
  PROVE  Undisturbed(e)
<1>1. /\ elements' = [d \in Elements |->
           IF d \in Referenced(pipes', task) THEN elements[d] ELSE Blank]
      /\ UNCHANGED <<pc, cursor, task, outcome>>
  BY DEF Maintain, threadVars
<1>2. elements'[e] = elements[e]
  BY <1>1
<1>3. TextsKept(e) /\ PipesKept
  BY <1>2, MaintainKeeps DEF TextsKept
<1>4. ASSUME NEW r \in Stage PROVE InPipe(r, e)' => InPipe(r, e)
  BY PipesMaintained
<1> QED
  BY <1>1, <1>3, <1>4, BystandersUndisturbed

(* Nor are the steps outside the server's threads.                         *)
LEMMA OutsideUndisturbs ==
  ASSUME Inv, UNCHANGED <<elements, pipes, threadVars>>, NEW e \in Elements
  PROVE  Undisturbed(e)
<1>1. UNCHANGED <<pc, cursor, task, outcome>>
  BY DEF threadVars
<1>2. TextsKept(e) /\ PipesKept
  BY DEF TextsKept, PipesKept
<1>3. ASSUME NEW r \in Stage PROVE InPipe(r, e)' => InPipe(r, e)
  BY DEF InPipe
<1> QED
  BY <1>1, <1>2, <1>3, BystandersUndisturbed

(* A worker's step on its own element, or its taking one.                  *)
WorksOn(t, e) ==
  \/ Work(t) /\ e = task[t]
  \/ LockElement(t) /\ e = pipes[StageOf(t)][cursor[t]]

(* An element no worker's step is about, whatever the step.                *)
LEMMA Bystander ==
  ASSUME Inv, Connected, [Next]_vars, NEW e,
         e \in Referenced(pipes, task), e \in Referenced(pipes', task'),
         \A t \in Workers : ~WorksOn(t, e)
  PROVE  Undisturbed(e)
<1>1. e \in Elements
  BY ReferencedType
<1>2. CASE \E t \in Threads : Poll(t) \/ StopThread(t)
  <2>1. PICK t \in Threads : Poll(t) \/ StopThread(t)
    BY <1>2
  <2>2. CASE LockElement(t)
    BY <1>1, <2>2, LockUndisturbs DEF WorksOn
  <2>3. CASE ~LockElement(t)
    BY <1>1, <2>1, <2>3, PollUndisturbs
  <2> QED
    BY <2>2, <2>3
<1>3. CASE \E t \in Workers : Work(t)
  BY <1>1, <1>3, WorkUndisturbs DEF WorksOn
<1>4. CASE Listen
  BY <1>1, <1>4, ListenUndisturbs, PublishUndisturbs
<1>5. CASE UNCHANGED vars
  BY <1>1, <1>5, OutsideUndisturbs DEF vars
<1>6. CASE MaintenanceFails \/ Signal \/ StopProcess
  BY <1>1, <1>6, OutsideUndisturbs DEF MaintenanceFails, Signal, StopProcess
<1>7. CASE Main
  BY <1>1, <1>5, <1>6, <1>7, MaintainUndisturbs DEF Main, Stopped
<1>8. CASE \E c \in Conns : Client(c)
  BY <1>1, <1>8, OutsideUndisturbs DEF Client, Connect, SendRequest, HangUp
<1> QED
  BY <1>2, <1>3, <1>4, <1>5, <1>7, <1>8 DEF Next
-----------------------------------------------------------------------------
(* Which elements are on their way after a step.                           *)

OneThreadPerPool == OneReaderOneDatamodel /\ \A t, u \in Writers : t = u

(* What leaves a pipe is passed over there.                                *)
LEMMA LeftWhenProcessed ==
  ASSUME Inv, [Next]_vars, NEW s \in Stage, NEW e, InPipe(s, e)
  PROVE  InPipe(s, e)' \/ Processed(s, elements[e])
<1>1. pipes \in [Stage -> Seq(Elements)]
  BY DEF Inv, TypeOK
<1>2. CASE UNCHANGED pipes
  BY <1>2 DEF InPipe
<1>3. CASE \E t \in Workers : Push(t)
  <2>1. PICK d \in Elements, r \in Stage :
          pipes' = [pipes EXCEPT ![r] = Append(@, d)]
    BY <1>3, PushKeeps
  <2> QED
    BY <1>1, <2>1, Appended
<1>4. CASE PublishConnections
  <2>1. PICK q \in Seq(Elements) : pipes' = [pipes EXCEPT !["request"] = @ \o q]
    BY <1>4, PublishedAreNew
  <2> QED
    BY <1>1, <2>1, BatchAppended
<1>5. CASE \E r \in Stage : Maintain(r)
  BY <1>5, PipesMaintained
<1>6. CASE \E t \in Threads : Poll(t) \/ StopThread(t)
  BY <1>2, <1>6 DEF Poll, Scan, LockElement, LockElementFails, RescanFinds,
                    RescanEnds, StopThread
<1>7. CASE \E t \in Workers : Work(t)
  BY <1>2, <1>3, <1>7 DEF Work, ReadRequest, ReadFails, ProcessRequest,
                          ProcessFails, WriteResponse, WriteFails, Finish
<1>8. CASE Listen
  BY <1>2, <1>4, <1>8 DEF Listen, Select, Accept, TurnAway, SelectFails,
                          PublishExpires, Update, DrainEnds, Complete
<1>9. CASE Main \/ UNCHANGED vars
  BY <1>2, <1>5, <1>9 DEF Main, MaintenanceFails, Signal, StopProcess, Stopped, vars
<1>10. CASE \E c \in Conns : Client(c)
  BY <1>2, <1>10 DEF Client, Connect, SendRequest, HangUp
<1> QED
  BY <1>6, <1>7, <1>8, <1>9, <1>10 DEF Next

(* An element is unfinished before the step, or it is new.                 *)
LEMMA UnfinishedBefore ==
  ASSUME Inv, Connected, [Next]_vars, NEW e \in Unfinished'
  PROVE  e \in Unfinished \/ (PublishConnections /\ e \notin Referenced(pipes, task))
<1>1. CASE UNCHANGED <<elements, pipes, task>>
  BY <1>1 DEF Unfinished
<1>2. CASE ElementsKept
  BY <1>2 DEF ElementsKept
<1>3. CASE PublishConnections
  <2>1. PICK q \in [DOMAIN pending -> Elements \ Referenced(pipes, task)] : IsBatch(q)
    BY <1>3, PublishedAreNew
  <2>2. e \in Unfinished \/ \E k \in DOMAIN q : q[k] = e
    BY <2>1 DEF IsBatch
  <2> QED
    BY <1>3, <2>1, <2>2
<1>4. CASE Complete
  BY <1>4, OneIsCompleted DEF IsCompleted
<1>5. CASE \E t \in Threads : Poll(t) \/ StopThread(t)
  BY <1>1, <1>2, <1>5, LockKeeps DEF Poll, Scan, LockElementFails, RescanFinds,
                                     RescanEnds, StopThread
<1>6. CASE \E t \in Workers : Work(t)
  BY <1>2, <1>6, WorkKeeps, PushKeeps, FinishKeeps DEF Work
<1>7. CASE Listen
  BY <1>1, <1>3, <1>4, <1>7 DEF Listen, Select, Accept, TurnAway, SelectFails,
                                PublishExpires, Update, DrainEnds
<1>8. CASE Main \/ UNCHANGED vars
  BY <1>1, <1>2, <1>8, MaintainKeeps
     DEF Main, MaintenanceFails, Signal, StopProcess, Stopped, vars, threadVars
<1>9. CASE \E c \in Conns : Client(c)
  BY <1>1, <1>9 DEF Client, Connect, SendRequest, HangUp, threadVars
<1> QED
  BY <1>5, <1>6, <1>7, <1>8, <1>9 DEF Next

LEMMA OnTheWayBefore ==
  ASSUME Inv, Connected, [Next]_vars, NEW e \in OnTheWay'
  PROVE  e \in OnTheWay \/ (PublishConnections /\ e \notin Referenced(pipes, task))
<1> SUFFICES ASSUME e \in Unfinished
             PROVE  ~InPipe("completed", e)
  BY UnfinishedBefore DEF OnTheWay
<1>1. ~Processed("completed", elements[e])
  BY DEF Processed, FailuresSkippedBy, Unfinished
<1> QED
  BY <1>1, LeftWhenProcessed DEF OnTheWay, Stage

(* A new element is blank but for its connection, and waits for a reader.  *)
LEMMA PublishedIs ==
  ASSUME Inv, PublishConnections, NEW e \in Unfinished',
         e \notin Referenced(pipes, task)
  PROVE  /\ \E k \in DOMAIN pending :
              elements'[e] = NewElement(pending[k], fdTable[pending[k]], Unowned)
         /\ \A s \in Stage : InPipe(s, e)' => s = "request"
         /\ \A t \in Threads : task'[t] # e
         /\ \A t \in Workers : ~LooksAt(t, e)'
<1>1. PICK q \in [DOMAIN pending -> Elements \ Referenced(pipes, task)] :
        /\ IsBatch(q)
        /\ q \in Seq(Elements)
        /\ pipes' = [pipes EXCEPT !["request"] = @ \o q]
        /\ PipesKept
  BY PublishedAreNew
<1>2. /\ pc' = [pc EXCEPT ![Listener] = "update"]
      /\ UNCHANGED <<cursor, task, outcome>>
      /\ pipes \in [Stage -> Seq(Elements)]
      /\ DOMAIN pc = Threads /\ Workers \subseteq Threads
  BY DEF PublishConnections, Inv, TypeOK, Threads
<1>3. PICK k \in DOMAIN q : q[k] = e
  BY <1>1 DEF IsBatch, Unfinished
<1>4. /\ k \in DOMAIN pending /\ e \in Elements /\ e # 0
      /\ elements'[e] = NewElement(pending[k], fdTable[pending[k]], Unowned)
  BY <1>1, <1>3 DEF IsBatch
<1>5. ASSUME NEW s \in Stage, InPipe(s, e)'
      PROVE  s = "request"
  <2>1. ~InPipe(s, e)
    BY DEF InPipe, Referenced
  <2> QED
    BY <1>1, <1>2, <1>5, <2>1, BatchAppended
<1>6. ASSUME NEW t \in Threads
      PROVE  task[t] # e
  BY <1>4 DEF Referenced
<1>7. ASSUME NEW t \in Workers, LooksAt(t, e)'
      PROVE  FALSE
  <2>1. t \in Threads /\ pc'[t] = pc[t] /\ cursor'[t] = cursor[t] /\ task'[t] = task[t]
    BY <1>2
  <2>2. LooksAt(t, e)
    BY <1>1, <1>7, <2>1, LooksKept
  <2>3. pc[t] = "candidate" /\ pipes[StageOf(t)][cursor[t]] = e
    BY <1>6, <2>1, <2>2 DEF LooksAt
  <2> QED
    BY <2>1, <2>3, ScannedIsReferenced DEF Scanning
<1> QED
  BY <1>2, <1>4, <1>5, <1>6, <1>7
-----------------------------------------------------------------------------
(* What an element on its way carries through the pipes.                   *)

StagesFollow(e) ==
  /\ InPipe("datamodel", e) =>
       \/ "request" \in elements[e].done
       \/ \E t \in Readers : task[t] = e /\ pc[t] = "finish"
  /\ InPipe("response", e) =>
       \/ "datamodel" \in elements[e].done
       \/ \E t \in Datamodels : task[t] = e /\ pc[t] = "finish"
  /\ \A t \in Writers : task[t] = e => "datamodel" \in elements[e].done

TextsFollow(e) ==
  /\ InPipe("datamodel", e) => elements[e].request # NoText
  /\ InPipe("response", e) => elements[e].response # NoText
  /\ elements[e].response # NoText => elements[e].response = elements[e].request
  /\ \A t \in Workers : task[t] = e /\ pc[t] = "push" /\ outcome[t] = "ok" =>
       /\ t \in Readers => elements[e].request # NoText
       /\ t \in Datamodels => elements[e].response # NoText

(* Only what its worker is about to hand to the listener is to be closed.  *)
RefusedLeaves(e) ==
  elements[e].closeRequired =>
    \E t \in Workers : task[t] = e /\ pc[t] = "push" /\ outcome[t] = "notOk"

Passes(e) == StagesFollow(e) /\ TextsFollow(e) /\ RefusedLeaves(e)

Passage == \A e \in OnTheWay : Passes(e)

LEMMA PassKept ==
  ASSUME NEW e, Passes(e), Undisturbed(e),
         elements[e].failed \subseteq elements'[e].failed
  PROVE  Passes(e)'
<1>1. /\ {"datamodel", "response"} \subseteq Stage
      /\ Readers \subseteq Workers /\ Datamodels \subseteq Workers
      /\ Writers \subseteq Workers
  BY DEF Stage, Workers
<1>2. /\ InPipe("datamodel", e)' => InPipe("datamodel", e)
      /\ InPipe("response", e)' => InPipe("response", e)
  BY <1>1 DEF Undisturbed
<1>3. /\ elements'[e].request = elements[e].request
      /\ elements'[e].response = elements[e].response
      /\ elements'[e].closeRequired = elements[e].closeRequired
      /\ elements[e].done \subseteq elements'[e].done
  BY DEF Undisturbed, TextsKept
<1>4. \A t \in Workers : /\ task'[t] = e <=> task[t] = e
                         /\ task[t] = e => pc'[t] = pc[t] /\ outcome'[t] = outcome[t]
  BY DEF Undisturbed, HoldersKept
<1>5. StagesFollow(e)'
  BY <1>1, <1>2, <1>3, <1>4 DEF Passes, StagesFollow
<1>6. TextsFollow(e)'
  BY <1>1, <1>2, <1>3, <1>4 DEF Passes, TextsFollow
<1>7. RefusedLeaves(e)'
  BY <1>3, <1>4 DEF Passes, RefusedLeaves
<1> QED
  BY <1>5, <1>6, <1>7 DEF Passes

(* A worker takes it: nobody held it, so nobody was just done with it.     *)
LEMMA LockPasses ==
  ASSUME Inv, NEW t \in Workers, LockElement(t), NEW e \in Elements,
         e = pipes[StageOf(t)][cursor[t]], Passes(e)
  PROVE  Passes(e)'
<1>1. /\ t \in Threads /\ Workers \subseteq Threads
      /\ DOMAIN pc = Threads /\ DOMAIN task = Threads /\ DOMAIN elements = Elements
      /\ elements[e] \in ElementType
  BY DEF Threads, Inv, TypeOK
<1>2. /\ ~elements[e].locked
      /\ elements' = [elements EXCEPT ![e] = LockedBy(@, t)]
      /\ task' = [task EXCEPT ![t] = e]
      /\ pc' = [pc EXCEPT ![t] = "work"]
      /\ pc[t] = "candidate"
      /\ UNCHANGED <<pipes, outcome>>
  BY DEF LockElement
<1>3. /\ elements'[e].done = elements[e].done
      /\ elements'[e].request = elements[e].request
      /\ elements'[e].response = elements[e].response
      /\ elements'[e].closeRequired = elements[e].closeRequired
  BY <1>1, <1>2 DEF LockedBy, ElementType
<1>4. \A u \in Threads : task[u] # e
  <2>1. e # 0
    OBVIOUS
  <2> QED
    BY <1>2, <2>1 DEF Inv, ElementOwnership
<1>5. /\ Readers \subseteq Threads /\ Datamodels \subseteq Threads
      /\ Writers \subseteq Threads
  BY DEF Threads, Workers
<1>6. /\ InPipe("datamodel", e) => "request" \in elements[e].done
      /\ InPipe("response", e) => "datamodel" \in elements[e].done
  BY <1>4, <1>5 DEF Passes, StagesFollow
<1>7. \A u \in Workers : task'[u] = e => u = t
  BY <1>1, <1>2, <1>4
<1>8. t \in Writers => InPipe("response", e)
  <2>1. ASSUME t \in Writers PROVE StageOf(t) = "response"
    BY <2>1 DEF StageOf
  <2>2. cursor[t] \in DOMAIN pipes[StageOf(t)]
    BY <1>1, <1>2 DEF Inv, ScannerHoldsMutex
  <2> QED
    BY <2>1, <2>2 DEF InPipe
<1>9. StagesFollow(e)'
  <2>1. \A u \in Writers : task'[u] = e => "datamodel" \in elements'[e].done
    BY <1>3, <1>6, <1>7, <1>8 DEF Workers
  <2>2. /\ InPipe("datamodel", e)' => InPipe("datamodel", e)
        /\ InPipe("response", e)' => InPipe("response", e)
    BY <1>2 DEF InPipe
  <2> QED
    BY <1>3, <1>6, <2>1, <2>2 DEF StagesFollow
<1>10. TextsFollow(e)'
  <2>1. pc'[t] = "work"
    BY <1>1, <1>2
  <2> QED
    BY <1>2, <1>3, <1>7, <2>1 DEF Passes, TextsFollow, InPipe
<1>11. RefusedLeaves(e)'
  BY <1>1, <1>3, <1>4 DEF Passes, RefusedLeaves
<1> QED
  BY <1>9, <1>10, <1>11 DEF Passes

(* Its worker has worked on it.                                            *)
LEMMA WorkedPasses ==
  ASSUME Inv, Journey, Passage, OneThreadPerPool, NEW t \in Workers,
         NEW e \in OnTheWay, e = task[t],
         \/ ReadRequest(t) \/ ReadFails(t) \/ ProcessRequest(t)
         \/ ProcessFails(t) \/ WriteResponse(t) \/ WriteFails(t)
  PROVE  Passes(e)'
<1>1. /\ t \in Threads /\ pc[t] \in Holding /\ pc[t] = "work"
      /\ DOMAIN pc = Threads /\ DOMAIN outcome = Threads /\ DOMAIN elements = Elements
      /\ Workers \subseteq Threads
  BY DEF Threads, Holding, ReadRequest, ReadFails, ProcessRequest,
         ProcessFails, WriteResponse, WriteFails, Inv, TypeOK
<1>2. e \in Elements /\ elements[e] \in ElementType
  BY <1>1, TaskType
<1>3. UNCHANGED <<pipes, task>>
  BY DEF ReadRequest, ReadFails, ProcessRequest, ProcessFails, WriteResponse,
         WriteFails
<1>4. Passes(e) /\ Travels(e)
  BY DEF Passage, Journey
<1>5. \A u \in Workers : task[u] = e => u = t
  BY <1>1, OnlyHolder
<1>6. /\ InPipe("datamodel", e) => "request" \in elements[e].done
      /\ InPipe("response", e) => "datamodel" \in elements[e].done
  BY <1>1, <1>4, <1>5 DEF Passes, StagesFollow, Workers
<1>7. ~elements[e].closeRequired
  BY <1>1, <1>4, <1>5 DEF Passes, RefusedLeaves
<1>8. /\ t \in Readers => elements[e].request = NoText
      /\ t \in Datamodels => elements[e].response = NoText
  BY <1>1, NothingDropped DEF OneThreadPerPool
<1>9. ASSUME elements'[e].done = elements[e].done
      PROVE  StagesFollow(e)'
  BY <1>3, <1>4, <1>6, <1>9 DEF Passes, StagesFollow, InPipe
<1>10. CASE ReadRequest(t)
  <2>1. PICK text \in Request :
          /\ elements' = [elements EXCEPT ![e].request = text]
          /\ outcome' = [outcome EXCEPT ![t] = "ok"]
          /\ pc' = [pc EXCEPT ![t] = "push"]
    <3>1. PICK c : c = SocketOf(e) /\ HasWholeRequest(c)
      BY <1>10 DEF ReadRequest
    <3>2. PICK q \in Seq(Request) : q = inbox[c] /\ Len(q) = 1
      BY <3>1, SocketOfType DEF HasWholeRequest, Inv, TypeOK
    <3>3. q[1] \in Request
      BY <3>2
    <3>4. t \in Readers
      BY <1>10 DEF ReadRequest
    <3> QED
      BY <1>8, <1>10, <3>1, <3>2, <3>3, <3>4 DEF ReadRequest
  <2>2. /\ elements'[e].done = elements[e].done
        /\ elements'[e].request = text
        /\ elements'[e].response = elements[e].response
        /\ elements'[e].closeRequired = elements[e].closeRequired
    BY <1>1, <1>2, <2>1 DEF ElementType
  <2>3. text # NoText
    BY DEF NoText, Request
  <2>4. elements[e].response = NoText
    <3>1. t \in Readers /\ LooksAt(t, e)
      BY <1>10 DEF ReadRequest, LooksAt
    <3>2. "datamodel" \notin elements[e].done
      BY <1>4, <3>1 DEF Travels, WorkedOnInTurn, WaitsForNextStage
    <3> QED
      BY <1>4, <1>5, <3>1, <3>2 DEF Travels, TextsAreMarked, Workers
  <2>5. TextsFollow(e)'
    <3>1. t \notin Datamodels
      BY <1>10 DEF ReadRequest
    <3> QED
      BY <1>3, <1>4, <1>5, <2>2, <2>3, <2>4, <3>1 DEF Passes, TextsFollow, InPipe
  <2>6. RefusedLeaves(e)'
    BY <1>7, <2>2 DEF RefusedLeaves
  <2> QED
    BY <1>9, <2>2, <2>5, <2>6 DEF Passes
<1>11. CASE ProcessRequest(t)
  <2>1. t \in Datamodels
    BY <1>11 DEF ProcessRequest
  <2>2. /\ elements' = [elements EXCEPT ![e].response = elements[e].request]
        /\ outcome' = [outcome EXCEPT ![t] = "ok"]
        /\ pc' = [pc EXCEPT ![t] = "push"]
    BY <1>8, <1>11, <2>1 DEF ProcessRequest
  <2>3. /\ elements'[e].done = elements[e].done
        /\ elements'[e].request = elements[e].request
        /\ elements'[e].response = elements[e].request
        /\ elements'[e].closeRequired = elements[e].closeRequired
    BY <1>1, <1>2, <2>2 DEF ElementType
  <2>4. elements[e].request # NoText
    <3>1. LooksAt(t, e)
      BY DEF LooksAt
    <3>2. "request" \in elements[e].done /\ "datamodel" \notin elements[e].done
      BY <1>4, <2>1, <3>1 DEF Travels, WorkedOnInTurn
    <3> QED
      BY <1>4, <3>2 DEF Travels, WaitsForNextStage, Passes, TextsFollow
  <2>5. TextsFollow(e)'
    BY <1>3, <1>4, <1>5, <2>1, <2>3, <2>4 DEF Passes, TextsFollow, InPipe
  <2>6. RefusedLeaves(e)'
    BY <1>7, <2>3 DEF RefusedLeaves
  <2> QED
    BY <1>9, <2>3, <2>5, <2>6 DEF Passes
<1>12. CASE ReadFails(t) \/ ProcessFails(t) \/ WriteFails(t)
  <2>1. /\ elements' = [elements EXCEPT ![e] = MarkCloseRequired(@)]
        /\ outcome' = [outcome EXCEPT ![t] = "notOk"]
        /\ pc' = [pc EXCEPT ![t] = "push"]
    BY <1>12 DEF ReadFails, ProcessFails, WriteFails
  <2>2. /\ elements'[e].done = elements[e].done
        /\ elements'[e].request = elements[e].request
        /\ elements'[e].response = elements[e].response
    BY <1>1, <1>2, <2>1 DEF ElementType, MarkCloseRequired
  <2>3. outcome'[t] = "notOk" /\ pc'[t] = "push"
    BY <1>1, <2>1
  <2>4. TextsFollow(e)'
    BY <1>3, <1>4, <1>5, <2>2, <2>3 DEF Passes, TextsFollow, InPipe
  <2>5. RefusedLeaves(e)'
    BY <1>3, <2>3 DEF RefusedLeaves
  <2> QED
    BY <1>9, <2>2, <2>4, <2>5 DEF Passes
<1>13. CASE WriteResponse(t)
  <2>1. t \in Writers /\ UNCHANGED elements
    BY <1>13 DEF WriteResponse
  <2>2. t \notin Readers /\ t \notin Datamodels
    BY <2>1
  <2>3. TextsFollow(e)'
    BY <1>3, <1>4, <1>5, <2>1, <2>2 DEF Passes, TextsFollow, InPipe
  <2>4. RefusedLeaves(e)'
    BY <1>7, <2>1 DEF RefusedLeaves
  <2> QED
    BY <1>9, <2>1, <2>3, <2>4 DEF Passes
<1> QED
  BY <1>10, <1>11, <1>12, <1>13

(* Its worker has pushed it on the next pipe.                              *)
LEMMA PushedPasses ==
  ASSUME Inv, Journey, Passage, NEW t \in Workers, Push(t),
         NEW e \in OnTheWay, e = task[t], e \in OnTheWay'
  PROVE  Passes(e)'
<1>1. /\ t \in Threads /\ pc[t] = "push" /\ pc[t] \in Holding
      /\ DOMAIN pc = Threads /\ Workers \subseteq Threads
      /\ pipes \in [Stage -> Seq(Elements)]
  BY DEF Threads, Holding, Push, Inv, TypeOK
<1>2. PICK s \in Stage :
        /\ s = TargetPipe(t) /\ e \in Elements
        /\ pipes' = [pipes EXCEPT ![s] = Append(@, e)]
        /\ pc' = [pc EXCEPT ![t] = "finish"]
        /\ UNCHANGED <<elements, task, outcome>>
  BY PushKeeps
<1>3. Passes(e) /\ Travels(e)
  BY DEF Passage, Journey
<1>4. \A u \in Workers : task[u] = e => u = t
  BY <1>1, OnlyHolder
<1>5. ASSUME NEW r \in Stage
      PROVE  InPipe(r, e)' <=> InPipe(r, e) \/ r = s
  <2>1. /\ e \in Elements /\ pipes \in [Stage -> Seq(Elements)]
        /\ pipes' = [pipes EXCEPT ![s] = Append(@, e)]
    BY <1>1, <1>2
  <2> QED
    BY <2>1, Appended
<1>6. s # "completed"
  BY <1>5 DEF OnTheWay, Stage
<1>7. outcome[t] = "ok" /\ s = NextStage[StageOf(t)]
  BY <1>2, <1>6 DEF TargetPipe
<1>8. t \in Readers => s = "datamodel"
  BY <1>7 DEF NextStage, StageOf
<1>9. t \in Datamodels => s = "response"
  BY <1>7 DEF NextStage, StageOf
<1>10. t \notin Writers
  BY <1>6, <1>7 DEF NextStage, StageOf
<1>11. /\ InPipe("datamodel", e)' <=> InPipe("datamodel", e) \/ t \in Readers
       /\ InPipe("response", e)' <=> InPipe("response", e) \/ t \in Datamodels
  <2>1. t \in Readers => t \notin Datamodels
    OBVIOUS
  <2> QED
    BY <1>5, <1>8, <1>9, <1>10, <2>1 DEF Stage, Workers
<1>12. pc'[t] = "finish" /\ \A u \in Workers : task'[u] = e => u = t
  BY <1>1, <1>2, <1>4
<1>13. StagesFollow(e)'
  <2>1. ASSUME InPipe("datamodel", e)'
        PROVE  \/ "request" \in elements'[e].done
               \/ \E u \in Readers : task'[u] = e /\ pc'[u] = "finish"
    <3>1. CASE t \in Readers
      BY <1>2, <1>12, <3>1
    <3>2. CASE InPipe("datamodel", e)
      BY <1>1, <1>2, <1>3, <1>4, <1>12, <3>2 DEF Passes, StagesFollow, Workers
    <3> QED
      BY <1>11, <2>1, <3>1, <3>2
  <2>2. ASSUME InPipe("response", e)'
        PROVE  \/ "datamodel" \in elements'[e].done
               \/ \E u \in Datamodels : task'[u] = e /\ pc'[u] = "finish"
    <3>1. CASE t \in Datamodels
      BY <1>2, <1>12, <3>1
    <3>2. CASE InPipe("response", e)
      BY <1>1, <1>2, <1>3, <1>4, <1>12, <3>2 DEF Passes, StagesFollow, Workers
    <3> QED
      BY <1>11, <2>2, <3>1, <3>2
  <2>3. \A u \in Writers : task'[u] = e => "datamodel" \in elements'[e].done
    BY <1>10, <1>12 DEF Workers
  <2> QED
    BY <2>1, <2>2, <2>3 DEF StagesFollow
<1>14. TextsFollow(e)'
  <2>1. /\ t \in Readers => elements[e].request # NoText
        /\ t \in Datamodels => elements[e].response # NoText
    BY <1>1, <1>3, <1>7 DEF Passes, TextsFollow
  <2> QED
    BY <1>2, <1>3, <1>11, <1>12, <2>1 DEF Passes, TextsFollow
<1>15. RefusedLeaves(e)'
  BY <1>2, <1>3, <1>4, <1>7 DEF Passes, RefusedLeaves
<1> QED
  BY <1>13, <1>14, <1>15 DEF Passes

(* Its worker has marked it and let it go.                                 *)
LEMMA FinishedPasses ==
  ASSUME Inv, Journey, Passage, NEW t \in Workers, Finish(t),
         NEW e \in OnTheWay, e = task[t]
  PROVE  Passes(e)'
<1>1. /\ t \in Threads /\ pc[t] = "finish" /\ pc[t] \in Holding
      /\ DOMAIN task = Threads /\ DOMAIN elements = Elements /\ Workers \subseteq Threads
  BY DEF Threads, Holding, Finish, Inv, TypeOK
<1>2. e \in Elements /\ e # 0 /\ elements[e] \in ElementType
  BY <1>1, TaskType
<1>3. Passes(e) /\ Travels(e)
  BY DEF Passage, Journey
<1>4. \A u \in Workers : task[u] = e => u = t
  BY <1>1, OnlyHolder
<1>5. outcome[t] = "ok"
  BY <1>1, <1>3 DEF Travels, WorkedOnInTurn
<1>6. PICK fails, unlocks :
        elements' = [elements EXCEPT ![e] =
          Released(MarkFailed(MarkDone(@, Published(t)),
                              IF fails /\ outcome[t] # "ok" THEN {StageOf(t)} ELSE {}),
                   unlocks)]
  BY DEF Finish
<1>7. /\ elements'[e].done = elements[e].done \cup {StageOf(t)}
      /\ elements'[e].request = elements[e].request
      /\ elements'[e].response = elements[e].response
      /\ elements'[e].closeRequired = elements[e].closeRequired
  BY <1>1, <1>2, <1>5, <1>6
     DEF Published, Released, Unlocked, MarkFailed, MarkDone, ElementType
<1>8. task' = [task EXCEPT ![t] = 0] /\ UNCHANGED pipes
  BY DEF Finish
<1>9. \A u \in Workers : task'[u] # e
  BY <1>1, <1>2, <1>4, <1>8
<1>10. /\ \A u \in Readers : u = t => StageOf(t) = "request"
       /\ \A u \in Datamodels : u = t => StageOf(t) = "datamodel"
  BY DEF StageOf
<1>11. StagesFollow(e)'
  <2>1. InPipe("datamodel", e) => "request" \in elements'[e].done
    BY <1>3, <1>4, <1>7, <1>10 DEF Passes, StagesFollow, Workers
  <2>2. InPipe("response", e) => "datamodel" \in elements'[e].done
    BY <1>3, <1>4, <1>7, <1>10 DEF Passes, StagesFollow, Workers
  <2> QED
    BY <1>8, <1>9, <2>1, <2>2 DEF StagesFollow, InPipe, Workers
<1>12. TextsFollow(e)'
  BY <1>3, <1>7, <1>8, <1>9 DEF Passes, TextsFollow, InPipe
<1>13. RefusedLeaves(e)'
  BY <1>1, <1>3, <1>4, <1>7 DEF Passes, RefusedLeaves
<1> QED
  BY <1>11, <1>12, <1>13 DEF Passes

LEMMA NextPassage ==
  ASSUME Inv, Connected, Journey, Passage, OneThreadPerPool, [Next]_vars
  PROVE  Passage'
<1> SUFFICES ASSUME NEW e \in OnTheWay'
             PROVE  Passes(e)'
  BY DEF Passage
<1>1. CASE PublishConnections /\ e \notin Referenced(pipes, task)
  <2>1. e \in Unfinished'
    BY DEF OnTheWay
  <2>2. PICK g, c : elements'[e] = NewElement(g, c, Unowned)
    BY <1>1, <2>1, PublishedIs
  <2>3. /\ elements'[e].request = NoText /\ elements'[e].response = NoText
        /\ ~elements'[e].closeRequired
    BY <2>2 DEF NewElement
  <2>4. ~InPipe("datamodel", e)' /\ ~InPipe("response", e)'
    BY <1>1, <2>1, PublishedIs DEF Stage
  <2>5. \A t \in Workers : task'[t] # e
    BY <1>1, <2>1, PublishedIs DEF Threads
  <2> QED
    BY <2>3, <2>4, <2>5 DEF Passes, StagesFollow, TextsFollow, RefusedLeaves, Workers
<1>2. CASE e \in OnTheWay
  <2>1. /\ Passes(e) /\ e \in Elements
        /\ e \in Referenced(pipes, task) /\ e \in Referenced(pipes', task')
    BY <1>2, ReferencedType DEF Passage, OnTheWay, Unfinished
  <2>2. CASE \A t \in Workers : ~WorksOn(t, e)
    <3>1. Undisturbed(e)
      BY <2>1, <2>2, Bystander
    <3> QED
      BY <2>1, <3>1, PassKept DEF Undisturbed, TextsKept
  <2>3. ASSUME NEW t \in Workers, Work(t), e = task[t]
        PROVE  Passes(e)'
    BY <1>2, <2>3, WorkedPasses, PushedPasses, FinishedPasses DEF Work
  <2>4. ASSUME NEW t \in Workers, LockElement(t), e = pipes[StageOf(t)][cursor[t]]
        PROVE  Passes(e)'
    BY <2>1, <2>4, LockPasses
  <2> QED
    BY <2>2, <2>3, <2>4 DEF WorksOn
<1> QED
  BY <1>1, <1>2, OnTheWayBefore

LEMMA PassageHolds ==
  ASSUME OneThreadPerPool
  PROVE  Spec => []Passage
<1>1. Init => Passage
  <2> SUFFICES ASSUME Init PROVE OnTheWay = {}
    BY DEF Passage
  <2> QED
    BY DEF Init, Referenced, OnTheWay, Unfinished
<1>2. Inv /\ Connected /\ Journey /\ Passage /\ [Next]_vars => Passage'
  BY NextPassage
<1>3. OneReaderOneDatamodel
  BY DEF OneThreadPerPool
<1>4. Spec => []Journey
  BY <1>3, JourneyHolds
<1> QED
  BY <1>1, <1>2, <1>4, InvHolds, ConnectedHolds, PTL DEF Spec
-----------------------------------------------------------------------------
(* What is no longer on its way.                                           *)

(* Every stage is through with it, or its worker is.                       *)
Settled(e) ==
  \A t \in Workers :
    \/ task[t] = e /\ pc[t] = "finish"
    \/ /\ InPipe(StageOf(t), e) => Processed(StageOf(t), elements[e])
       /\ ~LooksAt(t, e)

ListenerTakesCompleted ==
  task[Listener] # 0 => InPipe("completed", task[Listener])

Settlement ==
  /\ \A e \in Referenced(pipes, task) \ OnTheWay : Settled(e)
  /\ ListenerTakesCompleted

(* How an element gets into a pipe.                                        *)
LEMMA InPipeBefore ==
  ASSUME Inv, [Next]_vars, NEW s \in Stage, NEW e, InPipe(s, e)'
  PROVE  \/ InPipe(s, e)
         \/ \E t \in Workers : Push(t) /\ e = task[t] /\ s = TargetPipe(t)
         \/ PublishConnections /\ e \in Unfinished' /\ s = "request"
<1>1. pipes \in [Stage -> Seq(Elements)]
  BY DEF Inv, TypeOK
<1>2. CASE UNCHANGED pipes
  BY <1>2 DEF InPipe
<1>3. ASSUME NEW t \in Workers, Push(t)
      PROVE  InPipe(s, e) \/ (e = task[t] /\ s = TargetPipe(t))
  <2>1. PICK d \in Elements, r \in Stage :
          /\ d = task[t] /\ r = TargetPipe(t)
          /\ pipes' = [pipes EXCEPT ![r] = Append(@, d)]
    BY <1>3, PushKeeps
  <2> QED
    BY <1>1, <2>1, Appended
<1>4. CASE PublishConnections
  <2>1. PICK q \in [DOMAIN pending -> Elements \ Referenced(pipes, task)] :
          /\ IsBatch(q)
          /\ q \in Seq(Elements)
          /\ pipes' = [pipes EXCEPT !["request"] = @ \o q]
    BY <1>4, PublishedAreNew
  <2>2. ASSUME s = "request", NEW k \in DOMAIN q, q[k] = e
        PROVE  e \in Unfinished'
    <3>1. elements'[e].done = {}
      BY <2>1, <2>2, NewElementIs DEF IsBatch
    <3>2. e \in Referenced(pipes', task')
      <4>1. e # 0
        BY <2>1, <2>2
      <4> QED
        BY <4>1 DEF InPipe, Referenced
    <3> QED
      BY <3>1, <3>2 DEF Unfinished
  <2> QED
    BY <1>1, <1>4, <2>1, <2>2, BatchAppended
<1>5. CASE \E r \in Stage : Maintain(r)
  BY <1>5, PipesMaintained
<1>6. CASE \E t \in Threads : Poll(t) \/ StopThread(t)
  BY <1>2, <1>6 DEF Poll, Scan, LockElement, LockElementFails, RescanFinds,
                    RescanEnds, StopThread
<1>7. CASE \E t \in Workers : Work(t)
  BY <1>2, <1>3, <1>7 DEF Work, ReadRequest, ReadFails, ProcessRequest,
                          ProcessFails, WriteResponse, WriteFails, Finish
<1>8. CASE Listen
  BY <1>2, <1>4, <1>8 DEF Listen, Select, Accept, TurnAway, SelectFails,
                          PublishExpires, Update, DrainEnds, Complete
<1>9. CASE Main \/ UNCHANGED vars
  BY <1>2, <1>5, <1>9 DEF Main, MaintenanceFails, Signal, StopProcess, Stopped, vars
<1>10. CASE \E c \in Conns : Client(c)
  BY <1>2, <1>10 DEF Client, Connect, SendRequest, HangUp
<1> QED
  BY <1>6, <1>7, <1>8, <1>9, <1>10 DEF Next

(* How a thread gets its task, and keeps it.                               *)
LEMMA TaskBefore ==
  ASSUME Inv, [Next]_vars, NEW t \in Threads, task'[t] # task[t]
  PROVE  \/ task'[t] = 0
         \/ LockElement(t) /\ task'[t] = pipes[StageOf(t)][cursor[t]]
<1>1. DOMAIN task = Threads /\ Workers \subseteq Threads /\ Listener \in Threads
  BY DEF Inv, TypeOK, Threads
<1>2. CASE \E u \in Threads : Poll(u) \/ StopThread(u)
  <2>1. ASSUME NEW u \in Threads, LockElement(u)
        PROVE  u = t /\ task'[t] = pipes[StageOf(t)][cursor[t]]
    BY <1>1, <2>1 DEF LockElement
  <2> QED
    BY <1>2, <2>1 DEF Poll, Scan, LockElementFails, RescanFinds, RescanEnds,
                      StopThread
<1>3. CASE \E u \in Workers : Work(u)
  <2>1. ASSUME NEW u \in Workers, Finish(u)
        PROVE  task'[t] = 0
    BY <1>1, <2>1 DEF Finish
  <2> QED
    BY <1>3, <2>1 DEF Work, ReadRequest, ReadFails, ProcessRequest, ProcessFails,
                      WriteResponse, WriteFails, Push
<1>4. CASE Listen
  <2>1. CASE Complete
    BY <1>1, <2>1 DEF Complete
  <2> QED
    BY <1>4, <2>1 DEF Listen, Select, Accept, TurnAway, SelectFails,
                      PublishConnections, PublishExpires, Update, DrainEnds
<1>5. CASE Main \/ UNCHANGED vars
  BY <1>5 DEF Main, Maintain, MaintenanceFails, Signal, StopProcess, Stopped, vars,
              threadVars
<1>6. CASE \E c \in Conns : Client(c)
  BY <1>6 DEF Client, Connect, SendRequest, HangUp, threadVars
<1> QED
  BY <1>2, <1>3, <1>4, <1>5, <1>6 DEF Next

LEMMA ReferencedBefore ==
  ASSUME Inv, [Next]_vars, NEW e \in Referenced(pipes', task')
  PROVE  e \in Referenced(pipes, task) \/ (PublishConnections /\ e \in Unfinished')
<1>1. /\ pipes' \in [Stage -> Seq(Elements)]
      /\ e # 0
      /\ Workers \subseteq Threads
  <2>1. Inv'
    BY NextInv
  <2>2. pipes' \in [Stage -> Seq(Elements)]
    BY <2>1 DEF Inv, TypeOK
  <2>3. ASSUME NEW s \in Stage, NEW i \in DOMAIN pipes'[s] PROVE pipes'[s][i] # 0
    <3>1. pipes'[s] \in Seq(Elements)
      BY <2>2
    <3>2. pipes'[s][i] \in Elements
      BY <3>1
    <3> QED
      BY <3>2
  <2> QED
    BY <2>2, <2>3 DEF Referenced, Threads
<1>2. ASSUME NEW s \in Stage, InPipe(s, e)
      PROVE  e \in Referenced(pipes, task)
  BY <1>2 DEF InPipe, Referenced
<1>3. ASSUME NEW t \in Threads, task[t] = e
      PROVE  e \in Referenced(pipes, task)
  BY <1>1, <1>3 DEF Referenced
<1>4. CASE \E s \in Stage : InPipe(s, e)'
  <2>1. PICK s \in Stage : InPipe(s, e)'
    BY <1>4
  <2> QED
    BY <1>1, <1>2, <1>3, <2>1, InPipeBefore
<1>5. CASE \E t \in Threads : task'[t] = e
  <2>1. PICK t \in Threads : task'[t] = e
    BY <1>5
  <2>2. CASE task'[t] # task[t]
    <3>1. LockElement(t) /\ e = pipes[StageOf(t)][cursor[t]]
      BY <1>1, <2>1, <2>2, TaskBefore
    <3>2. pc[t] \in Scanning
      BY <3>1 DEF LockElement, Scanning
    <3> QED
      BY <3>1, <3>2, ScannedIsReferenced
  <2> QED
    BY <1>3, <2>1, <2>2
<1> QED
  BY <1>4, <1>5 DEF Referenced, InPipe

(* Its last worker hands an element to the listener: no other stage is     *)
(* left that would take it up.                                             *)
LEMMA PushSettles ==
  ASSUME Inv, Journey, Passage, OneThreadPerPool, NEW t \in Workers, Push(t),
         NEW e \in OnTheWay, e = task[t], InPipe("completed", e)'
  PROVE  Settled(e)'
<1>1. /\ t \in Threads /\ pc[t] = "push" /\ pc[t] \in Holding
      /\ DOMAIN pc = Threads /\ Workers \subseteq Threads
      /\ pipes \in [Stage -> Seq(Elements)]
      /\ "completed" \in Stage
  BY DEF Threads, Holding, Push, Inv, TypeOK, Stage
<1>2. PICK s \in Stage :
        /\ s = TargetPipe(t) /\ e \in Elements
        /\ pipes' = [pipes EXCEPT ![s] = Append(@, e)]
        /\ pc' = [pc EXCEPT ![t] = "finish"]
        /\ UNCHANGED <<elements, cursor, task, outcome>>
        /\ PipesKept
  BY PushKeeps
<1>3. Passes(e) /\ Travels(e)
  BY DEF Passage, Journey
<1>4. \A u \in Workers : task[u] = e => u = t
  BY <1>1, OnlyHolder
<1>5. s = "completed"
  BY <1>1, <1>2, Appended DEF OnTheWay
<1>6. ASSUME NEW r \in Stage, r # "completed", InPipe(r, e)'
      PROVE  InPipe(r, e)
  BY <1>1, <1>2, <1>5, <1>6, Appended
<1>7. task'[t] = e /\ pc'[t] = "finish"
  BY <1>1, <1>2
<1>8. ASSUME NEW u \in Workers, u # t
      PROVE  /\ InPipe(StageOf(u), e) => Processed(StageOf(u), elements[e])
             /\ pc[u] = "candidate" => pipes[StageOf(u)][cursor[u]] # e
  <2>1. LooksAt(t, e)
    BY DEF LooksAt
  <2>2. ASSUME InPipe("datamodel", e) PROVE "request" \in elements[e].done
    BY <1>1, <1>3, <1>4, <2>2 DEF Passes, StagesFollow, Workers
  <2>3. ASSUME InPipe("response", e) PROVE "datamodel" \in elements[e].done
    BY <1>1, <1>3, <1>4, <2>3 DEF Passes, StagesFollow, Workers
  <2>4. ASSUME pc[u] = "candidate", pipes[StageOf(u)][cursor[u]] = e
        PROVE  LooksAt(u, e) /\ InPipe(StageOf(u), e)
    <3>1. cursor[u] \in DOMAIN pipes[StageOf(u)]
      BY <1>1, <2>4 DEF Inv, ScannerHoldsMutex
    <3> QED
      BY <2>4, <3>1 DEF LooksAt, InPipe
  <2>5. /\ u \in Readers => StageOf(u) = "request"
        /\ u \in Datamodels => StageOf(u) = "datamodel"
        /\ u \in Writers => StageOf(u) = "response"
    BY DEF StageOf
  <2>6. /\ u \in Readers /\ LooksAt(u, e) => "request" \notin elements[e].done
        /\ u \in Datamodels /\ LooksAt(u, e) => "datamodel" \notin elements[e].done
    BY <1>3 DEF Travels, WorkedOnInTurn
  <2>7. CASE t \in Readers
    <3>1. "request" \notin elements[e].done /\ "datamodel" \notin elements[e].done
      BY <1>3, <2>1, <2>7 DEF Travels, WorkedOnInTurn, WaitsForNextStage
    <3>2. u \in Datamodels \cup Writers
      BY <1>8, <2>7 DEF Workers, OneThreadPerPool, OneReaderOneDatamodel
    <3> QED
      BY <2>2, <2>3, <2>4, <2>5, <3>1, <3>2
  <2>8. CASE t \in Datamodels
    <3>1. "request" \in elements[e].done /\ "datamodel" \notin elements[e].done
      BY <1>3, <2>1, <2>8 DEF Travels, WorkedOnInTurn
    <3>2. u \in Readers \cup Writers
      BY <1>8, <2>8 DEF Workers, OneThreadPerPool, OneReaderOneDatamodel
    <3>3. Processed("request", elements[e])
      BY <3>1 DEF Processed
    <3> QED
      BY <2>2, <2>3, <2>4, <2>5, <2>6, <3>1, <3>2, <3>3
  <2>9. CASE t \in Writers
    <3>1. "request" \in elements[e].done /\ "datamodel" \in elements[e].done
      BY <1>3, <2>9 DEF Travels, WaitsForNextStage, Passes, StagesFollow
    <3>2. u \in Readers \cup Datamodels
      BY <1>8, <2>9 DEF Workers, OneThreadPerPool
    <3>3. Processed("request", elements[e]) /\ Processed("datamodel", elements[e])
      BY <3>1 DEF Processed
    <3> QED
      BY <2>4, <2>5, <2>6, <3>1, <3>2, <3>3
  <2> QED
    BY <2>7, <2>8, <2>9 DEF Workers
<1> SUFFICES ASSUME NEW u \in Workers, u # t
             PROVE  /\ InPipe(StageOf(u), e)' => Processed(StageOf(u), elements[e])'
                    /\ ~LooksAt(u, e)'
  BY <1>7 DEF Settled
<1>9. StageOf(u) \in Stage /\ StageOf(u) # "completed"
  BY DEF StageOf, Stage, Workers
<1>10. InPipe(StageOf(u), e)' => Processed(StageOf(u), elements[e])'
  BY <1>2, <1>6, <1>8, <1>9
<1>11. ~LooksAt(u, e)'
  <2>1. /\ u \in Threads
        /\ pc'[u] = pc[u] /\ cursor'[u] = cursor[u] /\ task'[u] = task[u]
    BY <1>1, <1>2
  <2>2. ~LooksAt(u, e)
    BY <1>4, <1>8 DEF LooksAt
  <2> QED
    BY <1>2, <2>1, <2>2, LooksKept
<1> QED
  BY <1>10, <1>11

(* A worker that is through with a settled element lets it go.             *)
LEMMA FinishSettles ==
  ASSUME Inv, NEW t \in Workers, Finish(t), AutocallRuns = {TRUE},
         NEW e, e = task[t], Settled(e)
  PROVE  Settled(e)'
<1>1. /\ t \in Threads /\ pc[t] = "finish" /\ pc[t] \in Holding
      /\ DOMAIN pc = Threads /\ DOMAIN task = Threads /\ DOMAIN elements = Elements
      /\ Workers \subseteq Threads
      /\ outcome[t] \in {"none", "ok", "notOk", "drop"}
  BY DEF Threads, Holding, Finish, Inv, TypeOK
<1>2. e \in Elements /\ e # 0 /\ elements[e] \in ElementType
  BY <1>1, TaskType
<1>3. \A u \in Workers : task[u] = e => u = t
  BY <1>1, OnlyHolder
<1>4. PICK failures : /\ failures = IF outcome[t] # "ok" THEN {StageOf(t)} ELSE {}
                      /\ elements' = [elements EXCEPT ![e] =
                           Released(MarkFailed(MarkDone(@, Published(t)), failures),
                                    TRUE)]
  BY DEF Finish
<1>5. /\ elements'[e].done = elements[e].done \cup Published(t)
      /\ elements'[e].failed = elements[e].failed \cup failures
  BY <1>1, <1>2, <1>4 DEF Released, Unlocked, MarkFailed, MarkDone, ElementType
<1>6. /\ pc' = [pc EXCEPT ![t] = "idle"]
      /\ task' = [task EXCEPT ![t] = 0]
      /\ UNCHANGED <<pipes, cursor>>
      /\ PipesKept
  BY DEF Finish, PipesKept
<1>7. StageOf(t) \in {"request", "datamodel", "response"}
  BY DEF StageOf, Workers
<1>8. Processed(StageOf(t), elements'[e])
  <2>1. CASE outcome[t] = "ok"
    <3>1. Published(t) = {StageOf(t)}
      BY <2>1 DEF Published
    <3> QED
      BY <1>5, <3>1 DEF Processed
  <2>2. CASE outcome[t] # "ok"
    <3>1. StageOf(t) \in elements'[e].failed
      BY <1>4, <1>5, <2>2
    <3>2. StageOf(t) \in FailuresSkippedBy[StageOf(t)]
      BY <1>7 DEF FailuresSkippedBy
    <3> QED
      BY <3>1, <3>2 DEF Processed
  <2> QED
    BY <2>1, <2>2
<1> SUFFICES ASSUME NEW u \in Workers
             PROVE  /\ InPipe(StageOf(u), e)' => Processed(StageOf(u), elements[e])'
                    /\ ~LooksAt(u, e)'
  BY DEF Settled
<1>9. task'[u] # e
  BY <1>1, <1>2, <1>3, <1>6
<1>10. CASE u = t
  <2>1. pc'[u] = "idle"
    BY <1>1, <1>6, <1>10
  <2> QED
    BY <1>8, <1>9, <1>10, <2>1 DEF LooksAt
<1>11. CASE u # t
  <2>1. /\ InPipe(StageOf(u), e) => Processed(StageOf(u), elements[e])
        /\ ~LooksAt(u, e)
    BY <1>3, <1>11 DEF Settled
  <2>2. Processed(StageOf(u), elements[e]) => Processed(StageOf(u), elements'[e])
    BY <1>5 DEF Processed
  <2>3. InPipe(StageOf(u), e)' => InPipe(StageOf(u), e)
    BY <1>6 DEF InPipe
  <2>4. u \in Threads /\ pc'[u] = pc[u] /\ cursor'[u] = cursor[u]
    BY <1>1, <1>6, <1>11
  <2>5. ~LooksAt(u, e)'
    BY <1>6, <1>9, <2>1, <2>4, LooksKept
  <2> QED
    BY <2>1, <2>2, <2>3, <2>5
<1> QED
  BY <1>10, <1>11

LEMMA SettledKept ==
  ASSUME NEW e, Settled(e), Undisturbed(e)
  PROVE  Settled(e)'
<1> SUFFICES ASSUME NEW t \in Workers
             PROVE  \/ task'[t] = e /\ pc'[t] = "finish"
                    \/ /\ InPipe(StageOf(t), e)' => Processed(StageOf(t), elements[e])'
                       /\ ~LooksAt(t, e)'
  BY DEF Settled
<1>1. CASE task[t] = e /\ pc[t] = "finish"
  BY <1>1 DEF Undisturbed, HoldersKept
<1>2. CASE /\ InPipe(StageOf(t), e) => Processed(StageOf(t), elements[e])
           /\ ~LooksAt(t, e)
  <2>1. StageOf(t) \in Stage
    BY DEF StageOf, Stage
  <2>2. Processed(StageOf(t), elements[e]) => Processed(StageOf(t), elements'[e])
    BY DEF Undisturbed, TextsKept, Processed
  <2>3. InPipe(StageOf(t), e)' => InPipe(StageOf(t), e)
    BY <2>1 DEF Undisturbed
  <2>4. ~LooksAt(t, e)'
    BY <1>2 DEF Undisturbed, LookersKept
  <2> QED
    BY <1>2, <2>2, <2>3, <2>4
<1> QED
  BY <1>1, <1>2 DEF Settled

(* What the listener holds has been pushed on its pipe.                    *)
LEMMA NextListenerTakes ==
  ASSUME Inv, Connected, ListenerTakesCompleted, [Next]_vars
  PROVE  ListenerTakesCompleted'
<1>1. Listener \in Threads /\ StageOf(Listener) = "completed" /\ "completed" \in Stage
  BY DEF Threads, StageOf, Stage, Workers
<1> SUFFICES ASSUME NEW e, task'[Listener] = e, e # 0
             PROVE  InPipe("completed", e)'
  BY DEF ListenerTakesCompleted, InPipe
<1>2. CASE task'[Listener] # task[Listener]
  <2>1. /\ LockElement(Listener)
        /\ e = pipes["completed"][cursor[Listener]]
    BY <1>1, <1>2, TaskBefore
  <2>2. cursor[Listener] \in DOMAIN pipes["completed"]
    BY <1>1, <2>1 DEF LockElement, Inv, ScannerHoldsMutex
  <2>3. UNCHANGED pipes
    BY <2>1 DEF LockElement
  <2> QED
    BY <2>1, <2>2, <2>3 DEF InPipe
<1>3. CASE task'[Listener] = task[Listener]
  <2>1. InPipe("completed", e)
    BY <1>3 DEF ListenerTakesCompleted
  <2>2. "completed" \notin elements[e].done
    BY <1>3 DEF Connected, ListenerTakesUnfinished
  <2>3. ~Processed("completed", elements[e])
    BY <2>2 DEF Processed, FailuresSkippedBy
  <2> QED
    BY <1>1, <1>3, <2>1, <2>3, LeftWhenProcessed
<1> QED
  BY <1>2, <1>3

(* An element leaves its way when a worker hands it to the listener.       *)
LEMMA LeavesTheWay ==
  ASSUME Inv, Connected, ListenerTakesCompleted, [Next]_vars,
         NEW e \in OnTheWay, e \in Referenced(pipes', task'), e \notin OnTheWay'
  PROVE  \E t \in Workers : Push(t) /\ e = task[t] /\ InPipe("completed", e)'
<1>1. /\ e \in Elements /\ e \in Unfinished /\ ~InPipe("completed", e)
      /\ "completed" \notin elements[e].done
  BY ReferencedType DEF OnTheWay, Unfinished
<1>2. CASE InPipe("completed", e)'
  BY <1>1, <1>2, InPipeBefore DEF Stage
<1>3. CASE ~InPipe("completed", e)'
  <2>1. "completed" \in elements'[e].done
    BY <1>3 DEF OnTheWay, Unfinished
  <2>2. ~NoneCompleted
    BY <1>1, <2>1 DEF NoneCompleted
  <2>3. UNCHANGED elements => NoneCompleted
    BY DEF NoneCompleted
  <2>4. CASE \E t \in Threads : Poll(t) \/ StopThread(t)
    BY <2>2, <2>3, <2>4, LockKeeps
       DEF Poll, Scan, LockElementFails, RescanFinds, RescanEnds, StopThread
  <2>5. CASE \E t \in Workers : Work(t)
    BY <2>2, <2>3, <2>5, WorkKeeps, PushKeeps, FinishKeeps DEF Work
  <2>6. CASE Listen
    <3>1. CASE Complete
      <4>1. PICK d \in Elements : /\ d = task[Listener]
                                 /\ \A a \in Elements : a # d => elements'[a] = elements[a]
        BY <3>1, OneIsCompleted DEF IsCompleted
      <4>2. d = e
        BY <1>1, <2>1, <4>1
      <4>3. InPipe("completed", e)
        BY <4>1, <4>2 DEF ListenerTakesCompleted
      <4> QED
        BY <1>1, <4>3
    <3>2. CASE PublishConnections
      <4>1. PICK q \in [DOMAIN pending -> Elements \ Referenced(pipes, task)] : IsBatch(q)
        BY <3>2, PublishedAreNew
      <4>2. e \in Referenced(pipes, task)
        BY <1>1 DEF Unfinished
      <4>3. \A k \in DOMAIN q : q[k] # e
        BY <4>1, <4>2
      <4>4. elements'[e] = elements[e]
        BY <1>1, <4>1, <4>3 DEF IsBatch
      <4> QED
        BY <1>1, <2>1, <4>4
    <3> QED
      BY <2>2, <2>3, <2>6, <3>1, <3>2
         DEF Listen, Select, Accept, TurnAway, SelectFails, PublishExpires, Update,
             DrainEnds
  <2>7. CASE Main \/ UNCHANGED vars
    BY <2>2, <2>3, <2>7, MaintainKeeps
       DEF Main, MaintenanceFails, Signal, StopProcess, Stopped, vars
  <2>8. CASE \E c \in Conns : Client(c)
    BY <2>2, <2>3, <2>8 DEF Client, Connect, SendRequest, HangUp
  <2> QED
    BY <2>4, <2>5, <2>6, <2>7, <2>8 DEF Next
<1> QED
  BY <1>2, <1>3

LEMMA NextSettlement ==
  ASSUME Inv, Connected, Journey, Passage, Settlement, OneThreadPerPool,
         AutocallRuns = {TRUE}, [Next]_vars
  PROVE  Settlement'
<1>1. ListenerTakesCompleted /\ ListenerTakesCompleted'
  BY NextListenerTakes DEF Settlement
<1> SUFFICES ASSUME NEW e \in Referenced(pipes', task') \ OnTheWay'
             PROVE  Settled(e)'
  BY <1>1 DEF Settlement
<1>2. e \in Referenced(pipes, task)
  <2>1. ASSUME PublishConnections, e \in Unfinished', e \notin Referenced(pipes, task)
        PROVE  FALSE
    BY <2>1, PublishedIs DEF OnTheWay, Stage
  <2> QED
    BY <2>1, ReferencedBefore
<1>3. CASE e \in OnTheWay
  BY <1>1, <1>3, LeavesTheWay, PushSettles
<1>4. CASE e \notin OnTheWay
  <2>1. Settled(e)
    BY <1>2, <1>4 DEF Settlement
  <2>2. CASE \A t \in Workers : ~WorksOn(t, e)
    BY <1>2, <2>1, <2>2, Bystander, SettledKept
  <2>3. ASSUME NEW t \in Workers, Work(t), e = task[t]
        PROVE  Settled(e)'
    <3>1. pc[t] = "finish"
      BY <2>1, <2>3 DEF Settled, LooksAt
    <3>2. Finish(t)
      BY <2>3, <3>1 DEF Work, ReadRequest, ReadFails, ProcessRequest, ProcessFails,
                        WriteResponse, WriteFails, Push
    <3> QED
      BY <2>1, <2>3, <3>2, FinishSettles
  <2>4. ASSUME NEW t \in Workers, LockElement(t), e = pipes[StageOf(t)][cursor[t]]
        PROVE  FALSE
    <3>1. pc[t] = "candidate"
      BY <2>4 DEF LockElement
    <3> QED
      BY <2>1, <2>4, <3>1 DEF Settled, LooksAt
  <2> QED
    BY <2>2, <2>3, <2>4 DEF WorksOn
<1> QED
  BY <1>3, <1>4

OneAutocall == OneThreadPerPool /\ AutocallRuns = {TRUE}

LEMMA SettlementHolds ==
  ASSUME OneAutocall
  PROVE  Spec => []Settlement
<1>1. OneThreadPerPool /\ AutocallRuns = {TRUE} /\ OneReaderOneDatamodel
  BY DEF OneAutocall, OneThreadPerPool
<1>2. Init => Settlement
  BY DEF Init, Referenced, Settlement, ListenerTakesCompleted, Threads
<1>3. /\ Inv /\ Connected /\ Journey /\ Passage /\ Settlement
      /\ [Next]_vars
      => Settlement'
  BY <1>1, NextSettlement
<1>4. Spec => []Journey
  BY <1>1, JourneyHolds
<1>5. Spec => []Passage
  BY <1>1, PassageHolds
<1> QED
  BY <1>2, <1>3, <1>4, <1>5, InvHolds, ConnectedHolds, PTL DEF Spec

(* A worker works on what is on its way, and pushes that alone.            *)
LEMMA AtWorkOnTheWay ==
  ASSUME Inv, Settlement, NEW t \in Workers, pc[t] \in {"work", "push"}
  PROVE  task[t] \in OnTheWay
<1>1. t \in Threads /\ task[t] # 0
  BY DEF Threads, Inv, ElementOwnership
<1>2. task[t] \in Referenced(pipes, task)
  BY <1>1 DEF Referenced
<1> QED
  BY <1>2 DEF Settlement, Settled, LooksAt
-----------------------------------------------------------------------------
(* Where the connections are.                                              *)

Waiting(c) == \E i \in DOMAIN backlog : backlog[i] = c

(* No connection has two descriptors, or a descriptor and a place in the   *)
(* queue of the listening socket, or two places there.                     *)
Places ==
  /\ \A f, g \in Fds : fdTable[f] = fdTable[g] /\ fdTable[f] # NoConn => f = g
  /\ Distinct(backlog)
  /\ \A f \in Fds : ~Waiting(fdTable[f])
  /\ \A c \in Conns : client[c] = "away" => ~IsServed(c)

(* Descriptors are closed, or the head of the queue goes.                  *)
LEMMA PlacesGivenUp ==
  ASSUME Places,
         ASSUME NEW f \in Fds PROVE fdTable'[f] \in {fdTable[f], NoConn},
         NoConn \notin Conns, backlog' \in Seq(Conns),
         NEW k \in Nat,
         ASSUME NEW i \in DOMAIN backlog'
         PROVE  /\ i \in Nat /\ i + k \in DOMAIN backlog
                /\ backlog'[i] = backlog[i + k],
         ASSUME NEW c \in Conns PROVE client'[c] = "away" => client[c] = "away"
  PROVE  Places'
<1>1. ASSUME NEW c, Waiting(c)'
      PROVE  Waiting(c) /\ c \in Conns
  <2>1. PICK i \in DOMAIN backlog' : backlog'[i] = c
    BY <1>1 DEF Waiting
  <2>2. i + k \in DOMAIN backlog /\ backlog[i + k] = c
    BY <2>1
  <2>3. backlog'[i] \in Conns
    OBVIOUS
  <2> QED
    BY <2>1, <2>2, <2>3 DEF Waiting
<1>2. \A f, g \in Fds : fdTable'[f] = fdTable'[g] /\ fdTable'[f] # NoConn => f = g
  <2> SUFFICES ASSUME NEW f \in Fds, NEW g \in Fds,
                      fdTable'[f] = fdTable'[g], fdTable'[f] # NoConn
               PROVE  f = g
    OBVIOUS
  <2>1. fdTable[f] = fdTable'[f] /\ fdTable[g] = fdTable'[g]
    OBVIOUS
  <2> QED
    BY <2>1 DEF Places
<1>3. Distinct(backlog)'
  <2> SUFFICES ASSUME NEW i \in DOMAIN backlog', NEW j \in DOMAIN backlog',
                      backlog'[i] = backlog'[j]
               PROVE  i = j
    BY DEF Distinct
  <2>1. /\ i \in Nat /\ i + k \in DOMAIN backlog /\ backlog'[i] = backlog[i + k]
        /\ j \in Nat /\ j + k \in DOMAIN backlog /\ backlog'[j] = backlog[j + k]
    OBVIOUS
  <2>2. i + k = j + k
    BY <2>1 DEF Places, Distinct
  <2> QED
    BY <2>1, <2>2
<1>4. ASSUME NEW f \in Fds, NEW c, c = fdTable'[f], Waiting(c)'
      PROVE  FALSE
  <2>1. c \in Conns /\ Waiting(c)
    BY <1>1, <1>4
  <2>2. fdTable[f] = c
    BY <1>4, <2>1
  <2> QED
    BY <2>1, <2>2 DEF Places
<1>5. ASSUME NEW c \in Conns, client'[c] = "away", IsServed(c)'
      PROVE  FALSE
  <2>1. client[c] = "away" /\ ~IsServed(c)
    BY <1>5 DEF Places
  <2>2. CASE \E f \in Fds : fdTable'[f] = c
    BY <2>1, <2>2 DEF IsServed, IsOpen
  <2>3. CASE Waiting(c)'
    BY <1>1, <2>1, <2>3 DEF IsServed, Waiting
  <2> QED
    BY <1>5, <2>2, <2>3 DEF IsServed, IsOpen, Waiting
<1>6. \A f \in Fds : ~Waiting(fdTable[f])'
  BY <1>4 DEF Waiting
<1> QED
  BY <1>2, <1>3, <1>5, <1>6 DEF Places

LEMMA TailIs ==
  ASSUME NEW S, NEW q \in Seq(S), q # <<>>
  PROVE  /\ Tail(q) \in Seq(S) /\ Head(q) \in S /\ Head(q) = q[1] /\ 1 \in DOMAIN q
         /\ \A i \in DOMAIN Tail(q) : /\ i \in Nat /\ i + 1 \in DOMAIN q
                                     /\ i + 1 # 1 /\ Tail(q)[i] = q[i + 1]
         /\ \A i \in DOMAIN q : i = 1 \/ (i - 1 \in DOMAIN Tail(q) /\ Tail(q)[i - 1] = q[i])
<1>1. /\ Len(q) \in Nat \ {0} /\ DOMAIN q = 1..Len(q)
      /\ Tail(q) \in Seq(S) /\ Len(Tail(q)) = Len(q) - 1
      /\ DOMAIN Tail(q) = 1..(Len(q) - 1)
      /\ \A i \in 1..(Len(q) - 1) : Tail(q)[i] = q[i + 1]
  OBVIOUS
<1>2. Head(q) \in S /\ Head(q) = q[1]
  OBVIOUS
<1>3. ASSUME NEW i \in DOMAIN q, i # 1
      PROVE  i - 1 \in DOMAIN Tail(q) /\ Tail(q)[i - 1] = q[i]
  <2>1. i \in Int /\ i - 1 \in 1..(Len(q) - 1) /\ (i - 1) + 1 = i
    BY <1>1, <1>3
  <2> QED
    BY <1>1, <2>1
<1>4. ASSUME NEW i \in DOMAIN Tail(q)
      PROVE  /\ i \in Nat /\ i + 1 \in DOMAIN q
             /\ i + 1 # 1 /\ Tail(q)[i] = q[i + 1]
  <2>1. i \in 1..(Len(q) - 1)
    BY <1>1
  <2> QED
    BY <1>1, <2>1
<1> QED
  BY <1>1, <1>2, <1>3, <1>4

(* The head of the queue gets a free descriptor.                           *)
LEMMA AcceptPlaces ==
  ASSUME Inv, Places, Accept
  PROVE  Places'
<1>1. /\ backlog \in Seq(Conns) /\ backlog # <<>> /\ backlog' = Tail(backlog)
      /\ fdTable \in [Fds -> Conns \cup {NoConn}]
      /\ UNCHANGED client
  BY DEF Accept, Inv, TypeOK, clientVars
<1>2. PICK f \in FreeFds : fdTable' = [fdTable EXCEPT ![f] = Head(backlog)]
  BY DEF Accept
<1>3. PICK c \in Conns : c = Head(backlog) /\ c = backlog[1] /\ 1 \in DOMAIN backlog
  BY <1>1, TailIs
<1>4. f \in Fds /\ fdTable[f] = NoConn
  BY <1>2 DEF FreeFds
<1>5. fdTable'[f] = c /\ \A g \in Fds : g # f => fdTable'[g] = fdTable[g]
  BY <1>1, <1>2, <1>3, <1>4
<1>6. Waiting(c) /\ \A g \in Fds : fdTable[g] # c
  BY <1>3 DEF Places, Waiting
<1>7. ASSUME NEW d, Waiting(d)'
      PROVE  Waiting(d) /\ d # c
  <2>1. PICK i \in DOMAIN Tail(backlog) : Tail(backlog)[i] = d
    BY <1>1, <1>7 DEF Waiting
  <2>2. /\ i + 1 \in DOMAIN backlog /\ i + 1 # 1
        /\ Tail(backlog)[i] = backlog[i + 1]
    BY <1>1, <2>1, TailIs
  <2>3. backlog[i + 1] = d /\ d # backlog[1]
    BY <1>3, <2>1, <2>2 DEF Places, Distinct
  <2> QED
    BY <1>3, <2>2, <2>3 DEF Waiting
<1>8. \A g, h \in Fds : fdTable'[g] = fdTable'[h] /\ fdTable'[g] # NoConn => g = h
  BY <1>5, <1>6 DEF Places
<1>9. Distinct(backlog)'
  <2> SUFFICES ASSUME NEW i \in DOMAIN backlog', NEW j \in DOMAIN backlog',
                      backlog'[i] = backlog'[j]
               PROVE  i = j
    BY DEF Distinct
  <2>1. /\ i \in Nat /\ i + 1 \in DOMAIN backlog /\ backlog'[i] = backlog[i + 1]
        /\ j \in Nat /\ j + 1 \in DOMAIN backlog /\ backlog'[j] = backlog[j + 1]
    BY <1>1, TailIs
  <2>2. i + 1 = j + 1
    BY <2>1 DEF Places, Distinct
  <2> QED
    BY <2>1, <2>2
<1>10. ASSUME NEW g \in Fds, NEW d, d = fdTable'[g], Waiting(d)'
       PROVE  FALSE
  <2>1. Waiting(d) /\ d # c
    BY <1>7, <1>10
  <2> QED
    BY <1>5, <1>10, <2>1 DEF Places
<1>11. ASSUME NEW d \in Conns, client'[d] = "away", IsServed(d)'
       PROVE  FALSE
  <2>1. ~IsServed(d) /\ ~Waiting(d) /\ ~IsOpen(d) /\ d # c
    BY <1>1, <1>6, <1>11 DEF Places, IsServed, Waiting
  <2>2. ~Waiting(d)'
    BY <1>7, <2>1
  <2>3. \A g \in Fds : fdTable'[g] # d
    BY <1>5, <2>1 DEF IsOpen
  <2> QED
    BY <1>11, <2>2, <2>3 DEF IsServed, IsOpen, Waiting
<1>12. \A g \in Fds : ~Waiting(fdTable[g])'
  BY <1>10 DEF Waiting
<1> QED
  BY <1>8, <1>9, <1>11, <1>12 DEF Places

(* A client connects: it joins the queue.                                  *)
LEMMA ConnectPlaces ==
  ASSUME Inv, Places, NEW c \in Conns, Connect(c)
  PROVE  /\ Places'
         /\ \A d \in Conns : IsServed(d)' <=> IsServed(d) \/ d = c
<1>1. /\ backlog \in Seq(Conns)
      /\ client \in [Conns -> {"away", "connected", "closed"}]
      /\ fdTable \in [Fds -> Conns \cup {NoConn}]
      /\ client[c] = "away" /\ client' = [client EXCEPT ![c] = "connected"]
      /\ backlog' = Append(backlog, c)
      /\ UNCHANGED fdTable
  BY DEF Connect, Inv, TypeOK
<1>2. ~IsServed(c) /\ ~Waiting(c) /\ \A f \in Fds : fdTable[f] # c
  BY <1>1 DEF Places, IsServed, IsOpen, Waiting
<1>3. PICK q \in Seq(Conns) : q = backlog
  BY <1>1
<1>4. /\ Len(q) \in Nat /\ DOMAIN q = 1..Len(q)
      /\ DOMAIN Append(q, c) = 1..(Len(q) + 1)
      /\ \A i \in 1..Len(q) : Append(q, c)[i] = q[i]
      /\ Append(q, c)[Len(q) + 1] = c
  OBVIOUS
<1>5. ASSUME NEW i \in DOMAIN backlog'
      PROVE  \/ i \in DOMAIN q /\ backlog'[i] = q[i]
             \/ i = Len(q) + 1 /\ backlog'[i] = c
  BY <1>1, <1>3, <1>4
<1>6. \A i \in DOMAIN q : i \in DOMAIN backlog' /\ backlog'[i] = q[i]
  BY <1>1, <1>3, <1>4
<1>7. Len(q) + 1 \in DOMAIN backlog' /\ backlog'[Len(q) + 1] = c
  BY <1>1, <1>3, <1>4
<1>8. ASSUME NEW d
      PROVE  Waiting(d)' <=> Waiting(d) \/ d = c
  BY <1>3, <1>5, <1>6, <1>7 DEF Waiting
<1>9. Distinct(backlog)'
  <2> SUFFICES ASSUME NEW i \in DOMAIN backlog', NEW j \in DOMAIN backlog',
                      backlog'[i] = backlog'[j]
               PROVE  i = j
    BY DEF Distinct
  <2>1. \A k \in DOMAIN q : q[k] # c
    BY <1>2, <1>3 DEF Waiting
  <2>2. CASE i \in DOMAIN q /\ backlog'[i] = q[i]
    <3>1. j \in DOMAIN q /\ backlog'[j] = q[j]
      BY <1>5, <2>1, <2>2
    <3> QED
      BY <1>3, <2>2, <3>1 DEF Places, Distinct
  <2>3. CASE i = Len(q) + 1 /\ backlog'[i] = c
    BY <1>5, <2>1, <2>3
  <2> QED
    BY <1>5, <2>2, <2>3
<1>10. \A f \in Fds : ~Waiting(fdTable[f])'
  <2> SUFFICES ASSUME NEW f \in Fds, NEW d, d = fdTable'[f], Waiting(d)'
               PROVE  FALSE
    BY DEF Waiting
  <2> QED
    BY <1>1, <1>2, <1>8 DEF Places
<1>11. \A d \in Conns : IsServed(d)' <=> IsServed(d) \/ d = c
  <2>1. ASSUME NEW d \in Conns
        PROVE  /\ IsServed(d)' <=> IsOpen(d) \/ Waiting(d)'
               /\ IsServed(d) <=> IsOpen(d) \/ Waiting(d)
    BY <1>1 DEF IsServed, IsOpen, Waiting
  <2> QED
    BY <1>8, <2>1
<1>12. \A d \in Conns : client'[d] = "away" => client[d] = "away" /\ d # c
  BY <1>1
<1>13. \A f, g \in Fds : fdTable'[f] = fdTable'[g] /\ fdTable'[f] # NoConn => f = g
  BY <1>1 DEF Places
<1> QED
  BY <1>9, <1>10, <1>11, <1>12, <1>13 DEF Places

(* The steps a client could notice.                                        *)
LEMMA ClientsNotice ==
  ASSUME [Next]_vars
  PROVE  \/ Accept \/ TurnAway \/ Complete \/ StopProcess
         \/ \E c \in Conns : Connect(c) \/ SendRequest(c) \/ HangUp(c)
         \/ \E t \in Workers : ReadRequest(t) \/ ReadFails(t) \/ WriteResponse(t)
         \/ UNCHANGED <<fdTable, backlog, inbox, client, sent, got>>
<1>1. CASE \E t \in Threads : Poll(t) \/ StopThread(t)
  BY <1>1 DEF Poll, Scan, LockElement, LockElementFails, RescanFinds, RescanEnds,
              StopThread, clientVars
<1>2. CASE \E t \in Workers : Work(t)
  BY <1>2 DEF Work, ProcessRequest, ProcessFails, WriteFails, Push, Finish, clientVars
<1>3. CASE Listen
  BY <1>3 DEF Listen, Select, SelectFails, PublishConnections, PublishExpires,
              Update, DrainEnds, clientVars
<1>4. CASE Main \/ UNCHANGED vars
  BY <1>4 DEF Main, Maintain, MaintenanceFails, Signal, Stopped, vars, clientVars
<1>5. CASE \E c \in Conns : Client(c)
  BY <1>5 DEF Client
<1> QED
  BY <1>1, <1>2, <1>3, <1>4, <1>5 DEF Next

(* What the listener or the end of the process closes.                     *)
LEMMA Closes ==
  ASSUME Inv, Complete \/ StopProcess
  PROVE  /\ \A f \in Fds : fdTable'[f] \in {fdTable[f], NoConn}
         /\ backlog' = backlog \/ backlog' = <<>>
         /\ UNCHANGED <<client, sent, got, inbox>>
<1>1. fdTable \in [Fds -> Conns \cup {NoConn}]
  BY DEF Inv, TypeOK
<1>2. CASE Complete
  <2>1. /\ \E f : fdTable' = fdTable \/ fdTable' = [fdTable EXCEPT ![f] = NoConn]
        /\ UNCHANGED <<backlog, client, sent, got, inbox>>
    BY <1>2 DEF Complete, clientVars
  <2> QED
    BY <1>1, <2>1
<1>3. CASE StopProcess
  BY <1>3 DEF StopProcess, clientVars
<1> QED
  BY <1>2, <1>3

LEMMA TurnAwayQueue ==
  ASSUME Inv, TurnAway
  PROVE  /\ backlog \in Seq(Conns) /\ backlog # <<>> /\ backlog' = Tail(backlog)
         /\ backlog' \in Seq(Conns)
         /\ \A i \in DOMAIN backlog' : /\ i \in Nat /\ i + 1 \in DOMAIN backlog
                                       /\ backlog'[i] = backlog[i + 1]
         /\ UNCHANGED <<fdTable, client, sent, got, inbox>>
<1>1. /\ backlog \in Seq(Conns) /\ backlog # <<>> /\ backlog' = Tail(backlog)
      /\ UNCHANGED <<fdTable, client, sent, got, inbox>>
  BY DEF TurnAway, Inv, TypeOK, clientVars
<1> QED
  BY <1>1, TailIs

LEMMA NextPlaces ==
  ASSUME Inv, Places, [Next]_vars
  PROVE  Places'
<1>1. /\ backlog \in Seq(Conns) /\ backlog' \in Seq(Conns)
      /\ client \in [Conns -> {"away", "connected", "closed"}]
      /\ fdTable \in [Fds -> Conns \cup {NoConn}]
  BY NextInv DEF Inv, TypeOK
<1>2. PICK q \in Seq(Conns) : q = backlog
  BY <1>1
<1>3. \A i \in DOMAIN q : i \in Nat /\ i + 0 = i
  OBVIOUS
<1>4. ASSUME fdTable' = fdTable, backlog' = backlog,
             ASSUME NEW c \in Conns PROVE client'[c] = "away" => client[c] = "away"
      PROVE  Places'
  BY <1>4 DEF Places, Waiting, IsServed, IsOpen
<1>5. CASE TurnAway
  <2>1. /\ backlog' \in Seq(Conns)
        /\ \A i \in DOMAIN backlog' : /\ i \in Nat /\ i + 1 \in DOMAIN backlog
                                      /\ backlog'[i] = backlog[i + 1]
        /\ UNCHANGED <<fdTable, client>>
    BY <1>5, TurnAwayQueue
  <2> QED
    BY <2>1, PlacesGivenUp
<1>6. CASE Complete \/ StopProcess
  <2>1. /\ \A f \in Fds : fdTable'[f] \in {fdTable[f], NoConn}
        /\ backlog' = backlog \/ backlog' = <<>>
        /\ UNCHANGED client
    BY <1>6, Closes
  <2>2. CASE backlog' = backlog
    <3>1. \A i \in DOMAIN backlog' : /\ i \in Nat /\ i + 0 \in DOMAIN backlog
                                     /\ backlog'[i] = backlog[i + 0]
      BY <1>2, <1>3, <2>2
    <3> QED
      BY <1>1, <2>1, <3>1, PlacesGivenUp
  <2>3. CASE backlog' = <<>>
    <3>1. \A i \in DOMAIN backlog' : /\ i \in Nat /\ i + 0 \in DOMAIN backlog
                                     /\ backlog'[i] = backlog[i + 0]
      BY <2>3
    <3> QED
      BY <1>1, <2>1, <3>1, PlacesGivenUp
  <2> QED
    BY <2>1, <2>2, <2>3
<1>7. CASE \E c \in Conns : HangUp(c)
  <2>1. /\ UNCHANGED <<fdTable, backlog>>
        /\ \E c \in Conns : client' = [client EXCEPT ![c] = "closed"]
    BY <1>7 DEF HangUp
  <2> QED
    BY <1>1, <1>4, <2>1
<1>8. CASE \/ \E c \in Conns : SendRequest(c)
           \/ \E t \in Workers : ReadRequest(t) \/ ReadFails(t) \/ WriteResponse(t)
           \/ UNCHANGED <<fdTable, backlog, inbox, client, sent, got>>
  <2>1. UNCHANGED <<fdTable, backlog, client>>
    BY <1>8 DEF SendRequest, ReadRequest, ReadFails, WriteResponse, clientVars
  <2> QED
    BY <1>4, <2>1
<1> QED
  BY <1>5, <1>6, <1>7, <1>8, AcceptPlaces, ConnectPlaces, ClientsNotice

LEMMA PlacesHold == Spec => []Places
<1>1. Init => Places
  BY DEF Init, Places, Distinct, Waiting, IsServed, IsOpen
<1>2. Inv /\ Places /\ [Next]_vars => Places'
  BY NextPlaces
<1> QED
  BY <1>1, <1>2, InvHolds, PTL DEF Spec
-----------------------------------------------------------------------------
(* Where a client's last request is.                                       *)

(* A writer has sent its response.                                         *)
Answered(e) == \E t \in Writers : task[t] = e /\ pc[t] = "push"

(* The element has read a request it has not answered.                     *)
Asks(e) == elements[e].request # NoText /\ ~Answered(e)

(* It is the last one on its connection, and the only one unanswered.      *)
AsksLast(e, c) ==
  /\ elements[e].request = <<c, sent[c]>>
  /\ inbox[c] = <<>>
  /\ Len(got[c]) + 1 = sent[c]

RequestsAreLast ==
  \A c \in Conns : inbox[c] # <<>> =>
    inbox[c] = << <<c, sent[c]>> >> /\ Len(got[c]) + 1 = sent[c]

Traffic ==
  /\ \A c \in Conns : Len(got[c]) <= sent[c]
  /\ RequestsAreLast
  /\ phase # "stopped" =>
       \A e \in OnTheWay : Asks(e) => AsksLast(e, elements[e].conn)

(* An element's descriptor is open, and no other element's.                *)
LEMMA OwnConnection ==
  ASSUME Inv, Connected, Places, phase # "stopped", NEW e \in Unfinished
  PROVE  /\ SocketOf(e) = elements[e].conn
         /\ elements[e].conn \in Conns /\ elements[e].conn # NoConn
         /\ IsOpen(elements[e].conn)
         /\ \A d \in Unfinished : elements[d].conn = elements[e].conn => d = e
<1>1. \A d \in Unfinished :
        /\ elements[d].fd \in Fds
        /\ LockedIn(table, elements[d].fd)
        /\ fdTable[elements[d].fd] = elements[d].conn
        /\ \A a \in Unfinished : elements[a].fd = elements[d].fd => a = d
  BY DEF Connected, ElementsAreLocked
<1>2. ASSUME NEW f \in Fds, LockedIn(table, f)
      PROVE  fdTable[f] # NoConn
  <2>1. f \in TableFds(table)
    BY <1>2 DEF LockedIn, TableFds
  <2> QED
    BY <2>1 DEF Connected, TableMatchesDescriptors
<1>3. PICK c \in Conns : c = elements[e].conn /\ fdTable[elements[e].fd] = c
  <2>1. fdTable \in [Fds -> Conns \cup {NoConn}]
    BY DEF Inv, TypeOK
  <2> QED
    BY <1>1, <1>2, <2>1
<1>4. ASSUME NEW d \in Unfinished, elements[d].conn = c
      PROVE  d = e
  <2>1. /\ elements[d].fd \in Fds /\ elements[e].fd \in Fds
        /\ fdTable[elements[d].fd] = c /\ fdTable[elements[e].fd] = c
        /\ c # NoConn
    BY <1>1, <1>3, <1>4
  <2>2. elements[d].fd = elements[e].fd
    BY <2>1 DEF Places
  <2> QED
    BY <1>1, <2>2
<1>5. SocketOf(e) = c /\ IsOpen(c)
  BY <1>1, <1>3 DEF SocketOf, IsOpen
<1> QED
  BY <1>3, <1>4, <1>5

(* A worker reads from and writes to its element's own connection.         *)
LEMMA OwnSocket ==
  ASSUME Inv, Connected, Settlement, Places, NEW t \in Workers, pc[t] = "work"
  PROVE  /\ task[t] \in OnTheWay /\ task[t] \in Unfinished /\ phase # "stopped"
         /\ SocketOf(task[t]) = elements[task[t]].conn
         /\ elements[task[t]].conn \in Conns
         /\ IsOpen(elements[task[t]].conn)
<1>1. task[t] \in OnTheWay /\ task[t] \in Unfinished
  BY AtWorkOnTheWay DEF OnTheWay
<1>2. phase # "stopped"
  BY DEF Connected, StoppedForGood, Threads
<1> QED
  BY <1>1, <1>2, OwnConnection

(* Only reading makes an element ask.                                      *)
LEMMA AskedBefore ==
  ASSUME Inv, Connected, [Next]_vars, NEW e \in OnTheWay', Asks(e)',
         \A t \in Workers : ReadRequest(t) => e # task[t]
  PROVE  /\ e \in OnTheWay /\ Asks(e)
         /\ elements'[e].conn = elements[e].conn
         /\ elements'[e].request = elements[e].request
<1>1. Workers \subseteq Threads /\ Writers \subseteq Workers
  BY DEF Threads, Workers
<1>2. e \in OnTheWay
  <2>1. ASSUME PublishConnections, e \notin Referenced(pipes, task)
        PROVE  FALSE
    <3>1. e \in Unfinished'
      BY DEF OnTheWay
    <3>2. PICK g, c : elements'[e] = NewElement(g, c, Unowned)
      BY <2>1, <3>1, PublishedIs
    <3>3. elements'[e].request = NoText
      BY <3>2 DEF NewElement
    <3> QED
      BY <3>3 DEF Asks
  <2> QED
    BY <2>1, OnTheWayBefore
<1>3. /\ e \in Elements /\ elements[e] \in ElementType /\ DOMAIN elements = Elements
      /\ e \in Referenced(pipes, task) /\ e \in Referenced(pipes', task')
  BY <1>2, ReferencedType DEF OnTheWay, Unfinished, Inv, TypeOK
<1>4. CASE \A t \in Workers : ~WorksOn(t, e)
  <2>1. TextsKept(e) /\ HoldersKept(e)
    BY <1>3, <1>4, Bystander DEF Undisturbed
  <2>2. Answered(e) => Answered(e)'
    BY <1>1, <2>1 DEF Answered, HoldersKept
  <2> QED
    BY <1>2, <2>1, <2>2 DEF Asks, TextsKept
<1>5. ASSUME NEW t \in Workers, LockElement(t), e = pipes[StageOf(t)][cursor[t]]
      PROVE  Asks(e) /\ TextsKept(e)
  <2>1. /\ ~elements[e].locked
        /\ elements' = [elements EXCEPT ![e] = LockedBy(@, t)]
    BY <1>5 DEF LockElement
  <2>2. TextsKept(e)
    BY <1>3, <2>1 DEF LockedBy, ElementType, TextsKept
  <2>3. ~Answered(e)
    <3>1. e # 0
      BY <1>3
    <3> QED
      BY <1>1, <2>1, <3>1 DEF Answered, Inv, ElementOwnership
  <2> QED
    BY <2>2, <2>3 DEF Asks, TextsKept
<1>6. ASSUME NEW t \in Workers, Work(t), e = task[t]
      PROVE  /\ Asks(e)
             /\ elements'[e].conn = elements[e].conn
             /\ elements'[e].request = elements[e].request
  <2>1. pc[t] \in Holding /\ t \in Threads
    BY <1>1, <1>6 DEF Work, ReadRequest, ReadFails, ProcessRequest, ProcessFails,
                      WriteResponse, WriteFails, Push, Finish, Holding
  <2>2. \A u \in Writers : task[u] = e => u = t
    BY <1>1, <1>6, <2>1, OnlyHolder
  <2>3. CASE Push(t)
    <3>1. /\ TargetPipe(t) \in Stage
          /\ pipes' = [pipes EXCEPT ![TargetPipe(t)] = Append(@, task[t])]
          /\ UNCHANGED elements
      BY <2>3, PushKeeps
    <3>2. CASE t \in Writers
      <4>1. TargetPipe(t) = "completed"
        BY <3>2 DEF TargetPipe, NextStage, StageOf
      <4>2. InPipe("completed", e)'
        BY <1>3, <1>6, <3>1, <4>1, Appended DEF Inv, TypeOK, Stage
      <4> QED
        BY <4>2 DEF OnTheWay
    <3>3. CASE t \notin Writers
      BY <2>2, <3>1, <3>3 DEF Asks, Answered
    <3> QED
      BY <3>2, <3>3
  <2>4. CASE ~Push(t)
    <3>1. pc[t] # "push"
      BY <1>6, <2>4 DEF Work, ReadRequest, ReadFails, ProcessRequest, ProcessFails,
                        WriteResponse, WriteFails, Finish
    <3>2. ~Answered(e)
      BY <2>2, <3>1 DEF Answered
    <3>3. /\ elements'[e].conn = elements[e].conn
          /\ elements'[e].request = elements[e].request
      <4>1. CASE ReadRequest(t)
        BY <1>6, <4>1
      <4>2. CASE ProcessRequest(t)
        <5>1. \/ UNCHANGED elements
              \/ elements' = [elements EXCEPT ![e].response = elements[e].request]
          BY <1>6, <4>2 DEF ProcessRequest
        <5> QED
          BY <1>3, <5>1 DEF ElementType
      <4>3. CASE ReadFails(t) \/ ProcessFails(t) \/ WriteFails(t)
        <5>1. elements' = [elements EXCEPT ![e] = MarkCloseRequired(@)]
          BY <1>6, <4>3 DEF ReadFails, ProcessFails, WriteFails
        <5> QED
          BY <1>3, <5>1 DEF ElementType, MarkCloseRequired
      <4>4. CASE WriteResponse(t)
        BY <4>4 DEF WriteResponse
      <4>5. CASE Finish(t)
        <5>1. PICK failures, unlocks :
                elements' = [elements EXCEPT ![e] =
                  Released(MarkFailed(MarkDone(@, Published(t)), failures), unlocks)]
          BY <1>6, <4>5 DEF Finish
        <5> QED
          BY <1>3, <5>1 DEF Released, Unlocked, MarkFailed, MarkDone, ElementType
      <4> QED
        BY <1>6, <2>4, <4>1, <4>2, <4>3, <4>4, <4>5 DEF Work
    <3> QED
      BY <3>2, <3>3 DEF Asks
  <2> QED
    BY <2>3, <2>4
<1> QED
  BY <1>2, <1>4, <1>5, <1>6 DEF WorksOn, TextsKept

(* The reader takes the last request from its connection.                  *)
LEMMA ReadIsLast ==
  ASSUME Inv, Connected, Journey, Settlement, Places, Traffic, OneThreadPerPool,
         NEW t \in Workers, ReadRequest(t), NEW e, e = task[t]
  PROVE  AsksLast(e, elements[e].conn)' /\ elements'[e].conn = elements[e].conn
<1>1. /\ pc[t] = "work" /\ t \in Readers /\ UNCHANGED <<sent, got>>
      /\ inbox \in [Conns -> Seq(Request)]
  BY DEF ReadRequest, clientVars, Inv, TypeOK
<1>2. PICK c \in Conns : c = SocketOf(e) /\ c = elements[e].conn
  BY <1>1, OwnSocket
<1>3. e \in OnTheWay /\ e \in Elements /\ elements[e] \in ElementType /\ DOMAIN elements = Elements
  BY <1>1, OwnSocket, ReferencedType DEF Unfinished, Inv, TypeOK
<1>4. elements[e].request = NoText
  BY <1>1, <1>3, NothingDropped DEF OneThreadPerPool
<1>5. /\ elements' = [elements EXCEPT ![e].request = inbox[c][1]]
      /\ inbox' = [inbox EXCEPT ![c] = <<>>]
      /\ Len(inbox[c]) = 1
  BY <1>2, <1>4 DEF ReadRequest, HasWholeRequest
<1>6. inbox[c] # <<>>
  BY <1>5
<1>7. inbox[c] = << <<c, sent[c]>> >> /\ Len(got[c]) + 1 = sent[c]
  BY <1>6 DEF Traffic, RequestsAreLast
<1>8. inbox[c][1] = <<c, sent[c]>>
  BY <1>7
<1>9. /\ elements'[e].request = <<c, sent[c]>>
      /\ elements'[e].conn = c
  BY <1>2, <1>3, <1>5, <1>8 DEF ElementType
<1>10. inbox'[c] = <<>>
  BY <1>1, <1>5
<1> QED
  BY <1>1, <1>2, <1>7, <1>9, <1>10 DEF AsksLast

(* The writer answers the last request.                                    *)
LEMMA WriteIsLast ==
  ASSUME Inv, Connected, Journey, Passage, Settlement, Places, Traffic,
         NEW t \in Workers, WriteResponse(t), NEW e, e = task[t]
  PROVE  /\ AsksLast(e, elements[e].conn)
         /\ elements[e].response = <<elements[e].conn, sent[elements[e].conn]>>
<1>1. /\ pc[t] = "work" /\ t \in Writers /\ t \in Threads /\ pc[t] \in Holding
  BY DEF WriteResponse, Threads, Holding
<1>2. /\ e \in OnTheWay /\ phase # "stopped"
  BY <1>1, OwnSocket
<1>3. Passes(e) /\ Travels(e)
  BY <1>2 DEF Passage, Journey
<1>4. "datamodel" \in elements[e].done
  BY <1>1, <1>3 DEF Passes, StagesFollow
<1>5. InPipe("response", e)
  BY <1>3, <1>4 DEF Travels, WaitsForNextStage
<1>6. elements[e].response # NoText /\ elements[e].response = elements[e].request
  BY <1>3, <1>5 DEF Passes, TextsFollow
<1>7. ~Answered(e)
  <2>1. \A u \in Writers : task[u] = e => u = t
    BY <1>1, OnlyHolder DEF Threads, Workers
  <2> QED
    BY <1>1, <2>1 DEF Answered
<1>8. AsksLast(e, elements[e].conn)
  BY <1>2, <1>6, <1>7 DEF Asks, Traffic
<1> QED
  BY <1>6, <1>8 DEF AsksLast

(* What has asked stays the last to have asked.                            *)
LEMMA LastKept ==
  ASSUME Inv, Connected, Journey, Passage, Settlement, Places, Traffic,
         [Next]_vars, phase # "stopped", NEW e \in OnTheWay, Asks(e),
         NEW c \in Conns, c = elements[e].conn,
         \A t \in Workers : WriteResponse(t) => e # task[t]
  PROVE  inbox'[c] = <<>> /\ sent'[c] = sent[c] /\ got'[c] = got[c]
<1>1. inbox[c] = <<>> /\ Len(got[c]) + 1 = sent[c]
  BY DEF Traffic, AsksLast
<1>2. /\ inbox \in [Conns -> Seq(Request)] /\ sent \in [Conns -> Nat]
      /\ DOMAIN got = Conns /\ got[c] \in Seq({NoText} \cup Request)
  BY DEF Inv, TypeOK
<1>3. Len(got[c]) \in Nat /\ sent[c] \in Nat
  BY <1>2
<1>4. CASE UNCHANGED <<inbox, sent, got>>
  BY <1>1, <1>4
<1>5. ASSUME NEW d \in Conns, SendRequest(d)
      PROVE  inbox'[c] = <<>> /\ sent'[c] = sent[c] /\ got'[c] = got[c]
  <2>1. sent[d] <= Len(got[d])
    BY <1>5 DEF SendRequest
  <2>2. d # c
    BY <1>1, <1>3, <2>1
  <2>3. inbox'[c] = inbox[c] /\ sent'[c] = sent[c] /\ got' = got
    BY <1>2, <1>5, <2>2 DEF SendRequest
  <2> QED
    BY <1>1, <2>3
<1>6. ASSUME NEW t \in Workers, ReadRequest(t) \/ ReadFails(t)
      PROVE  inbox'[c] = <<>> /\ sent'[c] = sent[c] /\ got'[c] = got[c]
  <2>1. UNCHANGED <<sent, got>>
    BY <1>6 DEF ReadRequest, ReadFails, clientVars
  <2>2. CASE ReadRequest(t)
    <3>1. \E d : inbox' = [inbox EXCEPT ![d] = <<>>]
      BY <2>2 DEF ReadRequest
    <3> QED
      BY <1>1, <1>2, <2>1, <3>1
  <2>3. CASE ReadFails(t)
    <3>1. \E s : inbox' = [d \in Conns |-> IF d = s THEN <<>> ELSE inbox[d]]
      BY <2>3 DEF ReadFails
    <3> QED
      BY <1>1, <2>1, <3>1
  <2> QED
    BY <1>6, <2>2, <2>3
<1>7. ASSUME NEW t \in Workers, WriteResponse(t)
      PROVE  inbox'[c] = <<>> /\ sent'[c] = sent[c] /\ got'[c] = got[c]
  <2>1. pc[t] = "work" /\ UNCHANGED <<inbox, sent>>
    BY <1>7 DEF WriteResponse, clientVars
  <2>2. PICK d \in Unfinished : d = task[t] /\ SocketOf(d) = elements[d].conn
    BY <2>1, OwnSocket
  <2>3. d # e /\ e \in Unfinished
    BY <1>7, <2>2 DEF OnTheWay
  <2>4. SocketOf(d) # c
    BY <2>2, <2>3, OwnConnection
  <2>5. \/ got' = got
        \/ got' = [got EXCEPT ![SocketOf(d)] = Append(@, elements[d].response)]
    BY <1>7, <2>2 DEF WriteResponse
  <2>6. got'[c] = got[c]
    BY <1>2, <2>4, <2>5
  <2> QED
    BY <1>1, <2>1, <2>6
<1>8. CASE Accept
  BY <1>4, <1>8 DEF Accept, clientVars
<1>9. CASE TurnAway
  BY <1>4, <1>9 DEF TurnAway, clientVars
<1>10. CASE Complete \/ StopProcess
  BY <1>4, <1>10 DEF Complete, StopProcess, clientVars
<1>11. CASE \E d \in Conns : Connect(d) \/ HangUp(d)
  BY <1>4, <1>11 DEF Connect, HangUp
<1> QED
  BY <1>4, <1>5, <1>6, <1>7, <1>8, <1>9, <1>10, <1>11, ClientsNotice

(* The books of one connection.                                            *)
LEMMA ConnectionTraffic ==
  ASSUME Inv, Connected, Journey, Passage, Settlement, Places, Traffic,
         [Next]_vars, NEW c \in Conns
  PROVE  /\ Len(got'[c]) <= sent'[c]
         /\ inbox'[c] # <<>> =>
              inbox'[c] = << <<c, sent'[c]>> >> /\ Len(got'[c]) + 1 = sent'[c]
<1>1. /\ Len(got[c]) <= sent[c]
      /\ inbox[c] # <<>> =>
           inbox[c] = << <<c, sent[c]>> >> /\ Len(got[c]) + 1 = sent[c]
  BY DEF Traffic, RequestsAreLast
<1>2. /\ inbox \in [Conns -> Seq(Request)] /\ sent \in [Conns -> Nat]
      /\ DOMAIN got = Conns /\ got[c] \in Seq({NoText} \cup Request)
  BY DEF Inv, TypeOK
<1>3. Len(got[c]) \in Nat /\ sent[c] \in Nat
  BY <1>2
<1>4. CASE UNCHANGED <<inbox, sent, got>>
  BY <1>1, <1>4
<1>5. ASSUME NEW d \in Conns, SendRequest(d)
      PROVE  /\ Len(got'[c]) <= sent'[c]
             /\ inbox'[c] # <<>> =>
                  inbox'[c] = << <<c, sent'[c]>> >> /\ Len(got'[c]) + 1 = sent'[c]
  <2>1. /\ sent[d] <= Len(got[d])
        /\ sent' = [sent EXCEPT ![d] = @ + 1]
        /\ inbox' = [inbox EXCEPT ![d] = Append(@, <<d, sent[d] + 1>>)]
        /\ UNCHANGED got
    BY <1>5 DEF SendRequest
  <2>2. CASE d # c
    BY <1>1, <1>2, <2>1, <2>2
  <2>3. CASE d = c
    <3>1. Len(got[c]) = sent[c] /\ inbox[c] = <<>>
      BY <1>1, <1>3, <2>1, <2>3
    <3>2. sent'[c] = sent[c] + 1
      BY <1>2, <2>1, <2>3
    <3>3. inbox'[c] = Append(<<>>, <<c, sent[c] + 1>>)
      BY <1>2, <2>1, <2>3, <3>1
    <3>4. inbox'[c] = << <<c, sent'[c]>> >>
      BY <3>2, <3>3
    <3> QED
      BY <1>3, <2>1, <3>1, <3>2, <3>4
  <2> QED
    BY <2>2, <2>3
<1>6. ASSUME NEW t \in Workers, ReadRequest(t) \/ ReadFails(t)
      PROVE  UNCHANGED <<sent, got>> /\ inbox'[c] \in {inbox[c], <<>>}
  <2>1. UNCHANGED <<sent, got>>
    BY <1>6 DEF ReadRequest, ReadFails, clientVars
  <2>2. CASE ReadRequest(t)
    <3>1. \E d : inbox' = [inbox EXCEPT ![d] = <<>>]
      BY <2>2 DEF ReadRequest
    <3> QED
      BY <1>2, <2>1, <3>1
  <2>3. CASE ReadFails(t)
    <3>1. \E s : inbox' = [d \in Conns |-> IF d = s THEN <<>> ELSE inbox[d]]
      BY <2>3 DEF ReadFails
    <3> QED
      BY <2>1, <3>1
  <2> QED
    BY <1>6, <2>2, <2>3
<1>7. ASSUME NEW t \in Workers, WriteResponse(t)
      PROVE  /\ Len(got'[c]) <= sent'[c]
             /\ inbox'[c] # <<>> =>
                  inbox'[c] = << <<c, sent'[c]>> >> /\ Len(got'[c]) + 1 = sent'[c]
  <2>1. pc[t] = "work" /\ UNCHANGED <<inbox, sent>>
    BY <1>7 DEF WriteResponse, clientVars
  <2>2. PICK e : e = task[t]
    OBVIOUS
  <2>3. PICK d \in Conns : d = elements[e].conn /\ SocketOf(e) = d
    BY <2>1, <2>2, OwnSocket
  <2>4. inbox[d] = <<>> /\ Len(got[d]) + 1 = sent[d]
    BY <1>7, <2>2, <2>3, WriteIsLast DEF AsksLast
  <2>5. got' = got \/ got' = [got EXCEPT ![d] = Append(@, elements[e].response)]
    BY <1>7, <2>2, <2>3 DEF WriteResponse
  <2>6. CASE got' = got \/ d # c
    <3>1. got'[c] = got[c]
      BY <1>2, <2>5, <2>6
    <3> QED
      BY <1>1, <2>1, <3>1
  <2>7. CASE d = c /\ got' = [got EXCEPT ![d] = Append(@, elements[e].response)]
    <3>1. got'[c] = Append(got[c], elements[e].response)
      BY <1>2, <2>7
    <3>2. Len(got'[c]) = Len(got[c]) + 1
      BY <1>2, <3>1
    <3> QED
      BY <1>3, <2>1, <2>4, <2>7, <3>2
  <2> QED
    BY <2>5, <2>6, <2>7
<1>8. CASE \/ Accept \/ TurnAway \/ Complete \/ StopProcess
           \/ \E d \in Conns : Connect(d) \/ HangUp(d)
  BY <1>4, <1>8 DEF Accept, TurnAway, Complete, StopProcess, Connect, HangUp, clientVars
<1>9. CASE \E t \in Workers : ReadRequest(t) \/ ReadFails(t)
  BY <1>1, <1>6, <1>9
<1> QED
  BY <1>4, <1>5, <1>7, <1>8, <1>9, ClientsNotice

LEMMA StoppingIsFinal ==
  ASSUME [Next]_vars, phase' # "stopped"
  PROVE  phase # "stopped"
<1>1. CASE \E t \in Threads : Poll(t) \/ StopThread(t)
  BY <1>1 DEF Poll, Scan, LockElement, LockElementFails, RescanFinds, RescanEnds,
              StopThread
<1>2. CASE \E t \in Workers : Work(t)
  BY <1>2 DEF Work, ReadRequest, ReadFails, ProcessRequest, ProcessFails,
              WriteResponse, WriteFails, Push, Finish
<1>3. CASE Listen
  BY <1>3 DEF Listen, Select, Accept, TurnAway, SelectFails, PublishConnections,
              PublishExpires, Update, DrainEnds, Complete
<1>4. CASE Main \/ UNCHANGED vars
  BY <1>4 DEF Main, Maintain, MaintenanceFails, Signal, StopProcess, Stopped, vars
<1>5. CASE \E c \in Conns : Client(c)
  BY <1>5 DEF Client, Connect, SendRequest, HangUp
<1> QED
  BY <1>1, <1>2, <1>3, <1>4, <1>5 DEF Next

LEMMA NextTraffic ==
  ASSUME Inv, Connected, Journey, Passage, Settlement, Places, Traffic,
         OneThreadPerPool, [Next]_vars
  PROVE  Traffic'
<1>1. \A c \in Conns : Len(got'[c]) <= sent'[c]
  BY ConnectionTraffic
<1>2. RequestsAreLast'
  BY ConnectionTraffic DEF RequestsAreLast
<1>3. ASSUME phase' # "stopped", NEW e \in OnTheWay', Asks(e)'
      PROVE  AsksLast(e, elements[e].conn)'
  <2>1. phase # "stopped"
    BY <1>3, StoppingIsFinal
  <2>2. CASE \E t \in Workers : ReadRequest(t) /\ e = task[t]
    <3>1. AsksLast(e, elements[e].conn)' /\ elements'[e].conn = elements[e].conn
      BY <2>2, ReadIsLast
    <3> QED
      BY <3>1
  <2>3. CASE \A t \in Workers : ReadRequest(t) => e # task[t]
    <3>1. /\ e \in OnTheWay /\ Asks(e)
          /\ elements'[e].conn = elements[e].conn
          /\ elements'[e].request = elements[e].request
      BY <1>3, <2>3, AskedBefore
    <3>2. PICK c \in Conns : c = elements[e].conn
      BY <2>1, <3>1, OwnConnection DEF OnTheWay
    <3>3. elements[e].request = <<c, sent[c]>> /\ Len(got[c]) + 1 = sent[c]
      BY <2>1, <3>1, <3>2 DEF Traffic, AsksLast
    <3>4. ASSUME NEW t \in Workers, WriteResponse(t), e = task[t]
          PROVE  FALSE
      <4>1. /\ t \in Writers /\ t \in Threads /\ DOMAIN pc = Threads
            /\ pc' = [pc EXCEPT ![t] = "push"] /\ task' = task
        BY <3>4 DEF WriteResponse, Threads, Inv, TypeOK
      <4>2. pc'[t] = "push" /\ task'[t] = e
        BY <3>4, <4>1
      <4>3. Answered(e)'
        BY <4>1, <4>2 DEF Answered
      <4> QED
        BY <1>3, <4>3 DEF Asks
    <3>5. inbox'[c] = <<>> /\ sent'[c] = sent[c] /\ got'[c] = got[c]
      BY <2>1, <3>1, <3>2, <3>4, LastKept
    <3> QED
      BY <3>1, <3>2, <3>3, <3>5 DEF AsksLast
  <2> QED
    BY <2>2, <2>3
<1> QED
  BY <1>1, <1>2, <1>3 DEF Traffic

LEMMA TrafficHolds ==
  ASSUME OneAutocall
  PROVE  Spec => []Traffic
<1>1. /\ OneThreadPerPool /\ OneReaderOneDatamodel
  BY DEF OneAutocall, OneThreadPerPool
<1>2. Init => Traffic
  BY DEF Init, Traffic, RequestsAreLast, OnTheWay, Unfinished, Referenced
<1>3. /\ Inv /\ Connected /\ Journey /\ Passage /\ Settlement /\ Places /\ Traffic
      /\ [Next]_vars
      => Traffic'
  BY <1>1, NextTraffic
<1>4. Spec => []Journey
  BY <1>1, JourneyHolds
<1>5. Spec => []Passage
  BY <1>1, PassageHolds
<1>6. Spec => []Settlement
  BY SettlementHolds
<1> QED
  BY <1>2, <1>3, <1>4, <1>5, <1>6, InvHolds, ConnectedHolds, PlacesHold, PTL DEF Spec
-----------------------------------------------------------------------------
(* What the clients see.                                                   *)

(* A step that only takes connections away.                                *)
LEMMA ServiceCloses ==
  ASSUME UNCHANGED <<client, sent, got>>,
         \A c \in Conns : IsServed(c)' => IsServed(c)
  PROVE  [Service!Next]_(Service!vars)
<1>1. CASE \A c \in Conns : IsServed(c)' <=> IsServed(c)
  <2>1. \A c \in Conns : IsServed(c)' = IsServed(c)
    BY <1>1 DEF IsServed, IsOpen
  <2>2. [c \in Conns |-> IsServed(c)]' = [c \in Conns |-> IsServed(c)]
    BY <2>1
  <2> QED
    BY <2>2 DEF Service!vars
<1>2. CASE \E c \in Conns : IsServed(c) /\ ~IsServed(c)'
  <2>1. [c \in Conns |-> IsServed(c)]' # [c \in Conns |-> IsServed(c)]
    BY <1>2
  <2>2. [c \in Conns |-> IsServed(c)]' \in [Conns -> BOOLEAN]
    BY DEF IsServed
  <2>3. Service!Close
    BY <2>1, <2>2 DEF Service!Close
  <2> QED
    BY <2>3 DEF Service!Next
<1> QED
  BY <1>1, <1>2

LEMMA ServiceConnects ==
  ASSUME Inv, Places, NEW c \in Conns, Connect(c)
  PROVE  Service!Connect(c)
<1>1. \A d \in Conns : IsServed(d)' <=> IsServed(d) \/ d = c
  BY ConnectPlaces
<1>2. \A d \in Conns : IsServed(d)' = IF d = c THEN TRUE ELSE IsServed(d)
  BY <1>1 DEF IsServed, IsOpen
<1>3. [d \in Conns |-> IsServed(d)]' = [[d \in Conns |-> IsServed(d)] EXCEPT ![c] = TRUE]
  BY <1>2
<1>4. /\ client[c] = "away" /\ client' = [client EXCEPT ![c] = "connected"]
      /\ UNCHANGED <<sent, got>>
  BY DEF Connect
<1> QED
  BY <1>3, <1>4 DEF Service!Connect

LEMMA ServedUnchanged ==
  ASSUME UNCHANGED <<fdTable, backlog>>
  PROVE  [c \in Conns |-> IsServed(c)]' = [c \in Conns |-> IsServed(c)]
<1>1. \A c \in Conns : IsServed(c)' = IsServed(c)
  BY DEF IsServed, IsOpen
<1> QED
  BY <1>1

LEMMA ServiceSends ==
  ASSUME Inv, Traffic, NEW c \in Conns, SendRequest(c)
  PROVE  Service!SendRequest(c)
<1>1. /\ client[c] = "connected" /\ IsServed(c)
      /\ sent[c] < MaxRequests /\ sent[c] <= Len(got[c])
      /\ sent' = [sent EXCEPT ![c] = @ + 1]
      /\ UNCHANGED <<client, got, fdTable, backlog>>
  BY DEF SendRequest
<1>2. sent[c] = Len(got[c])
  <2>1. Len(got[c]) <= sent[c] /\ sent[c] \in Nat /\ got[c] \in Seq({NoText} \cup Request)
    BY DEF Traffic, Inv, TypeOK
  <2>2. Len(got[c]) \in Nat
    BY <2>1
  <2> QED
    BY <1>1, <2>1, <2>2
<1>3. [d \in Conns |-> IsServed(d)]' = [d \in Conns |-> IsServed(d)]
  BY <1>1, ServedUnchanged
<1> QED
  BY <1>1, <1>2, <1>3 DEF Service!SendRequest

LEMMA ServiceReplies ==
  ASSUME Inv, Connected, Journey, Passage, Settlement, Places, Traffic,
         NEW t \in Workers, WriteResponse(t)
  PROVE  [Service!Next]_(Service!vars)
<1>1. PICK e : e = task[t]
  OBVIOUS
<1>2. pc[t] = "work" /\ UNCHANGED <<fdTable, backlog, client, sent>>
  BY DEF WriteResponse, clientVars
<1>3. PICK c \in Conns : c = SocketOf(e) /\ c = elements[e].conn /\ IsOpen(c)
  BY <1>1, <1>2, OwnSocket
<1>4. [d \in Conns |-> IsServed(d)]' = [d \in Conns |-> IsServed(d)]
  BY <1>2, ServedUnchanged
<1>5. CASE client[c] = "connected"
  <2>1. got' = [got EXCEPT ![c] = Append(@, elements[e].response)]
    BY <1>1, <1>3, <1>5 DEF WriteResponse
  <2>2. elements[e].response = <<c, sent[c]>> /\ Len(got[c]) + 1 = sent[c]
    BY <1>1, <1>3, WriteIsLast DEF AsksLast
  <2>3. sent[c] \in Nat /\ DOMAIN got = Conns /\ got[c] \in Seq({NoText} \cup Request)
    BY DEF Inv, TypeOK
  <2>4. Len(got[c]) < sent[c]
    BY <2>2, <2>3
  <2>5. got' = [got EXCEPT ![c] = Append(@, <<c, Len(@) + 1>>)]
    BY <2>1, <2>2, <2>3
  <2>6. [d \in Conns |-> IsServed(d)][c]
    BY <1>3 DEF IsServed
  <2>7. Service!Reply(c)
    BY <1>2, <1>4, <1>5, <2>4, <2>5, <2>6 DEF Service!Reply
  <2> QED
    BY <2>7 DEF Service!Next
<1>6. CASE client[c] # "connected"
  <2>1. UNCHANGED got
    BY <1>1, <1>3, <1>6 DEF WriteResponse
  <2> QED
    BY <1>2, <1>4, <2>1 DEF Service!vars
<1> QED
  BY <1>5, <1>6

LEMMA ServiceAccepts ==
  ASSUME Inv, Accept
  PROVE  [Service!Next]_(Service!vars)
<1>1. /\ backlog \in Seq(Conns) /\ backlog # <<>> /\ backlog' = Tail(backlog)
      /\ fdTable \in [Fds -> Conns \cup {NoConn}]
      /\ UNCHANGED <<client, sent, got>>
  BY DEF Accept, Inv, TypeOK, clientVars
<1>2. PICK f \in FreeFds : fdTable' = [fdTable EXCEPT ![f] = Head(backlog)]
  BY DEF Accept
<1>3. PICK h \in Conns : h = Head(backlog) /\ h = backlog[1] /\ 1 \in DOMAIN backlog
  BY <1>1, TailIs
<1>4. f \in Fds /\ fdTable[f] = NoConn
  BY <1>2 DEF FreeFds
<1>5. fdTable'[f] = h /\ \A g \in Fds : g # f => fdTable'[g] = fdTable[g]
  BY <1>1, <1>2, <1>3, <1>4
<1>6. ASSUME NEW c \in Conns, IsServed(c)'
      PROVE  IsServed(c)
  <2>1. CASE \E i \in DOMAIN backlog' : backlog'[i] = c
    <3>1. PICK i \in DOMAIN Tail(backlog) : Tail(backlog)[i] = c
      BY <1>1, <2>1
    <3>2. i + 1 \in DOMAIN backlog /\ backlog[i + 1] = c
      BY <1>1, <3>1, TailIs
    <3> QED
      BY <3>2 DEF IsServed
  <2>2. CASE \E g \in Fds : fdTable'[g] = c
    BY <1>3, <1>5, <2>2 DEF IsServed, IsOpen
  <2> QED
    BY <1>6, <2>1, <2>2 DEF IsServed, IsOpen
<1> QED
  BY <1>1, <1>6, ServiceCloses

LEMMA ServiceSheds ==
  ASSUME Inv, TurnAway \/ Complete \/ StopProcess
  PROVE  [Service!Next]_(Service!vars)
<1>1. fdTable \in [Fds -> Conns \cup {NoConn}]
  BY DEF Inv, TypeOK
<1>2. CASE TurnAway
  <2>1. /\ backlog \in Seq(Conns) /\ backlog # <<>> /\ backlog' = Tail(backlog)
        /\ UNCHANGED <<fdTable, client, sent, got>>
    BY <1>2, TurnAwayQueue
  <2>2. ASSUME NEW c \in Conns, IsServed(c)'
        PROVE  IsServed(c)
    <3>1. CASE \E i \in DOMAIN backlog' : backlog'[i] = c
      <4>1. PICK i \in DOMAIN Tail(backlog) : Tail(backlog)[i] = c
        BY <2>1, <3>1
      <4>2. i + 1 \in DOMAIN backlog /\ backlog[i + 1] = c
        BY <2>1, <4>1, TailIs
      <4> QED
        BY <4>2 DEF IsServed
    <3>2. CASE \E g \in Fds : fdTable'[g] = c
      BY <2>1, <3>2 DEF IsServed, IsOpen
    <3> QED
      BY <2>2, <3>1, <3>2 DEF IsServed, IsOpen
  <2> QED
    BY <2>1, <2>2, ServiceCloses
<1>3. CASE Complete \/ StopProcess
  <2>1. /\ \A f \in Fds : fdTable'[f] \in {fdTable[f], NoConn}
        /\ backlog' = backlog \/ backlog' = <<>>
        /\ UNCHANGED <<client, sent, got>>
    BY <1>3, Closes
  <2>2. ASSUME NEW c \in Conns, IsServed(c)'
        PROVE  IsServed(c)
    <3>1. CASE \E i \in DOMAIN backlog' : backlog'[i] = c
      BY <2>1, <3>1 DEF IsServed
    <3>2. CASE \E g \in Fds : fdTable'[g] = c
      BY <2>1, <3>2 DEF IsServed, IsOpen
    <3> QED
      BY <2>2, <3>1, <3>2 DEF IsServed, IsOpen
  <2> QED
    BY <2>1, <2>2, ServiceCloses
<1> QED
  BY <1>2, <1>3

(* Every step is a step of the service, or one its clients do not see.     *)
LEMMA ServiceSteps ==
  ASSUME Inv, Connected, Journey, Passage, Settlement, Places, Traffic, [Next]_vars
  PROVE  [Service!Next]_(Service!vars)
<1>1. CASE \E c \in Conns : Connect(c)
  BY <1>1, ServiceConnects DEF Service!Next
<1>2. CASE \E c \in Conns : SendRequest(c)
  BY <1>2, ServiceSends DEF Service!Next
<1>3. ASSUME NEW c \in Conns, HangUp(c)
      PROVE  Service!HangUp(c)
  <2>1. /\ client[c] = "connected" /\ client' = [client EXCEPT ![c] = "closed"]
        /\ UNCHANGED <<fdTable, backlog, sent, got>>
    BY <1>3 DEF HangUp
  <2>2. [d \in Conns |-> IsServed(d)]' = [d \in Conns |-> IsServed(d)]
    BY <2>1, ServedUnchanged
  <2> QED
    BY <2>1, <2>2 DEF Service!HangUp
<1>4. CASE \E c \in Conns : HangUp(c)
  BY <1>3, <1>4 DEF Service!Next
<1>5. CASE \/ \E t \in Workers : ReadRequest(t) \/ ReadFails(t)
           \/ UNCHANGED <<fdTable, backlog, inbox, client, sent, got>>
  <2>1. UNCHANGED <<fdTable, backlog, client, sent, got>>
    BY <1>5 DEF ReadRequest, ReadFails, clientVars
  <2>2. [c \in Conns |-> IsServed(c)]' = [c \in Conns |-> IsServed(c)]
    BY <2>1, ServedUnchanged
  <2> QED
    BY <2>1, <2>2 DEF Service!vars
<1>6. CASE \E t \in Workers : WriteResponse(t)
  BY <1>6, ServiceReplies
<1> QED
  BY <1>1, <1>2, <1>4, <1>5, <1>6, ServiceAccepts, ServiceSheds, ClientsNotice

LEMMA ServiceStarts == Init => Service!Init
<1> SUFFICES ASSUME Init PROVE Service!Init
  OBVIOUS
<1>1. \A c \in Conns : IsServed(c) = FALSE
  BY DEF Init, IsServed, IsOpen
<1>2. [c \in Conns |-> IsServed(c)] = [c \in Conns |-> FALSE]
  BY <1>1
<1> QED
  BY <1>2 DEF Init, Service!Init

(* What the clients see of the server's threads, pipes, tables and         *)
(* descriptors is a request-reply service: an answer is to a request that  *)
(* was made on its connection, none is answered twice, and the answers     *)
(* come in the order of the requests.  It takes one thread in each pool    *)
(* and autocall objects that call: two writers may answer one request, and *)
(* two datamodel threads may leave one without an answer.                  *)
THEOREM ServiceIsImplemented ==
  ASSUME OneAutocall
  PROVE  Spec => ServesRequests
<1>1. /\ OneThreadPerPool /\ OneReaderOneDatamodel
  BY DEF OneAutocall, OneThreadPerPool
<1>2. /\ Inv /\ Connected /\ Journey /\ Passage /\ Settlement /\ Places /\ Traffic
      /\ [Next]_vars
      => [Service!Next]_(Service!vars)
  BY ServiceSteps
<1>3. Spec => []Journey
  BY <1>1, JourneyHolds
<1>4. Spec => []Passage
  BY <1>1, PassageHolds
<1>5. Spec => []Settlement
  BY SettlementHolds
<1>6. Spec => []Traffic
  BY TrafficHolds
<1> QED
  BY <1>2, <1>3, <1>4, <1>5, <1>6, ServiceStarts, InvHolds, ConnectedHolds,
     PlacesHold, PTL DEF Spec, ServesRequests, Service!Spec
-----------------------------------------------------------------------------
(* Whom the server hangs up on.                                            *)

(* The client has hung up, or waits for an answer.                         *)
Busy(c) == client[c] = "closed" \/ sent[c] > Len(got[c])

PendingAreReady == \A f \in Fds : Pends(f) => Readable(fdTable[f])

(* What no reader has looked into yet still has something to be read.      *)
UnreadAreReady ==
  \A e \in OnTheWay :
    elements[e].request = NoText /\ ~elements[e].closeRequired =>
      Readable(elements[e].conn)

RefusedAreBusy ==
  \A e \in Unfinished : elements[e].closeRequired => Busy(elements[e].conn)

OnlyBusyAreRefused ==
  phase # "stopped" => PendingAreReady /\ UnreadAreReady /\ RefusedAreBusy

(* A socket stays readable until a reader reads from it.                   *)
LEMMA ReadableKept ==
  ASSUME Inv, Connected, Settlement, Places, [Next]_vars,
         NEW c \in Conns, Readable(c),
         \A t \in Workers : ReadRequest(t) \/ ReadFails(t) =>
           elements[task[t]].conn # c
  PROVE  Readable(c)'
<1>1. /\ inbox \in [Conns -> Seq(Request)]
      /\ client \in [Conns -> {"away", "connected", "closed"}]
  BY DEF Inv, TypeOK
<1>2. CASE UNCHANGED <<inbox, client>>
  BY <1>2 DEF Readable
<1>3. ASSUME NEW d \in Conns, SendRequest(d)
      PROVE  Readable(c)'
  <2>1. /\ inbox' = [inbox EXCEPT ![d] = Append(@, <<d, sent[d] + 1>>)]
        /\ UNCHANGED client
    BY <1>3 DEF SendRequest
  <2>2. Append(inbox[d], <<d, sent[d] + 1>>) # <<>>
    <3>1. PICK q \in Seq(Request) : q = inbox[d]
      BY <1>1
    <3>2. <<d, sent[d] + 1>> \in Request
      BY DEF Request, Inv, TypeOK
    <3>3. PICK x \in Request : x = <<d, sent[d] + 1>>
      BY <3>2
    <3>4. Len(Append(q, x)) = Len(q) + 1 /\ Len(q) \in Nat
      OBVIOUS
    <3>5. Append(q, x) # <<>>
      BY <3>4
    <3> QED
      BY <3>1, <3>3, <3>5
  <2>3. inbox'[c] = inbox[c] \/ inbox'[c] # <<>>
    BY <1>1, <2>1, <2>2
  <2> QED
    BY <2>1, <2>3 DEF Readable
<1>4. ASSUME NEW d \in Conns, Connect(d) \/ HangUp(d)
      PROVE  Readable(c)'
  <2>1. /\ UNCHANGED inbox
        /\ client[c] = "closed" => client'[c] = "closed"
    BY <1>1, <1>4 DEF Connect, HangUp
  <2> QED
    BY <2>1 DEF Readable
<1>5. ASSUME NEW t \in Workers, ReadRequest(t) \/ ReadFails(t)
      PROVE  Readable(c)'
  <2>1. pc[t] = "work" /\ UNCHANGED client
    BY <1>5 DEF ReadRequest, ReadFails, clientVars
  <2>2. PICK d : d = SocketOf(task[t]) /\ d # c
    BY <1>5, <2>1, OwnSocket
  <2>3. inbox'[c] = inbox[c]
    <3>1. CASE ReadRequest(t)
      <4>1. inbox' = [inbox EXCEPT ![d] = <<>>]
        BY <2>2, <3>1 DEF ReadRequest
      <4> QED
        BY <1>1, <2>2, <4>1
    <3>2. CASE ReadFails(t)
      <4>1. inbox' = [b \in Conns |-> IF b = d THEN <<>> ELSE inbox[b]]
        BY <2>2, <3>2 DEF ReadFails
      <4> QED
        BY <2>2, <4>1
    <3> QED
      BY <1>5, <3>1, <3>2
  <2> QED
    BY <2>1, <2>3 DEF Readable
<1>6. CASE \/ Accept \/ TurnAway \/ Complete \/ StopProcess
           \/ \E t \in Workers : WriteResponse(t)
  BY <1>2, <1>6 DEF Accept, TurnAway, Complete, StopProcess, WriteResponse, clientVars
<1> QED
  BY <1>2, <1>3, <1>4, <1>5, <1>6, ClientsNotice

(* A busy client stays busy until it is answered.                          *)
LEMMA BusyKept ==
  ASSUME Inv, Connected, Settlement, Places, [Next]_vars,
         NEW c \in Conns, Busy(c),
         \A t \in Workers : WriteResponse(t) => elements[task[t]].conn # c
  PROVE  Busy(c)'
<1>1. /\ sent \in [Conns -> Nat] /\ DOMAIN got = Conns
      /\ got[c] \in Seq({NoText} \cup Request)
      /\ client \in [Conns -> {"away", "connected", "closed"}]
  BY DEF Inv, TypeOK
<1>2. Len(got[c]) \in Nat /\ sent[c] \in Nat
  BY <1>1
<1>3. CASE UNCHANGED <<client, sent, got>>
  BY <1>3 DEF Busy
<1>4. ASSUME NEW d \in Conns, SendRequest(d)
      PROVE  Busy(c)'
  <2>1. UNCHANGED <<client, got>> /\ sent' = [sent EXCEPT ![d] = @ + 1]
    BY <1>4 DEF SendRequest
  <2>2. sent'[c] = sent[c] \/ sent'[c] = sent[c] + 1
    BY <1>1, <2>1
  <2> QED
    BY <1>2, <2>1, <2>2 DEF Busy
<1>5. ASSUME NEW d \in Conns, Connect(d) \/ HangUp(d)
      PROVE  Busy(c)'
  <2>1. /\ UNCHANGED <<sent, got>>
        /\ client[c] = "closed" => client'[c] = "closed"
    BY <1>1, <1>5 DEF Connect, HangUp
  <2> QED
    BY <2>1 DEF Busy
<1>6. ASSUME NEW t \in Workers, WriteResponse(t)
      PROVE  Busy(c)'
  <2>1. pc[t] = "work" /\ UNCHANGED <<client, sent>>
    BY <1>6 DEF WriteResponse, clientVars
  <2>2. PICK d : d = SocketOf(task[t]) /\ d # c
    BY <1>6, <2>1, OwnSocket
  <2>3. \/ got' = got
        \/ got' = [got EXCEPT ![d] = Append(@, elements[task[t]].response)]
    BY <1>6, <2>2 DEF WriteResponse
  <2>4. got'[c] = got[c]
    BY <1>1, <2>2, <2>3
  <2> QED
    BY <2>1, <2>4 DEF Busy
<1>7. CASE \/ Accept \/ TurnAway \/ Complete \/ StopProcess
           \/ \E t \in Workers : ReadRequest(t) \/ ReadFails(t)
  BY <1>3, <1>7 DEF Accept, TurnAway, Complete, StopProcess, ReadRequest, ReadFails,
                    clientVars
<1> QED
  BY <1>3, <1>4, <1>5, <1>6, <1>7, ClientsNotice

(* Where the mark to close a connection comes from.                        *)
LEMMA RefusedBefore ==
  ASSUME Inv, Connected, [Next]_vars, NEW e \in Unfinished,
         e \in Referenced(pipes', task')
  PROVE  /\ elements'[e].conn = elements[e].conn
         /\ elements'[e].closeRequired =>
              \/ elements[e].closeRequired
              \/ \E t \in Workers : /\ ReadFails(t) \/ ProcessFails(t) \/ WriteFails(t)
                                    /\ e = task[t]
         /\ elements'[e].request = NoText /\ ~elements'[e].closeRequired =>
              /\ elements[e].request = NoText /\ ~elements[e].closeRequired
              /\ \A t \in Workers : ReadRequest(t) \/ ReadFails(t) => e # task[t]
<1>1. /\ e \in Elements /\ elements[e] \in ElementType /\ DOMAIN elements = Elements
      /\ e \in Referenced(pipes, task)
  BY ReferencedType DEF Unfinished, Inv, TypeOK
<1>2. CASE \A t \in Workers : ~WorksOn(t, e)
  <2>1. TextsKept(e)
    BY <1>1, <1>2, Bystander DEF Undisturbed
  <2>2. \A t \in Workers : ReadRequest(t) \/ ReadFails(t) => e # task[t]
    BY <1>2 DEF WorksOn, Work
  <2> QED
    BY <2>1, <2>2 DEF TextsKept
<1>3. ASSUME NEW t \in Workers, LockElement(t), e = pipes[StageOf(t)][cursor[t]]
      PROVE  /\ TextsKept(e)
             /\ \A u \in Workers : ReadRequest(u) \/ ReadFails(u) => e # task[u]
  <2>1. /\ ~elements[e].locked
        /\ elements' = [elements EXCEPT ![e] = LockedBy(@, t)]
    BY <1>3 DEF LockElement
  <2>2. TextsKept(e)
    BY <1>1, <2>1 DEF LockedBy, ElementType, TextsKept
  <2>3. ASSUME NEW u \in Workers, e = task[u]
        PROVE  FALSE
    <3>1. e # 0 /\ u \in Threads
      BY <1>1 DEF Threads
    <3> QED
      BY <2>1, <2>3, <3>1 DEF Inv, ElementOwnership
  <2> QED
    BY <2>2, <2>3
<1>4. ASSUME NEW t \in Workers, Work(t), e = task[t]
      PROVE  /\ elements'[e].conn = elements[e].conn
             /\ elements'[e].closeRequired =>
                  elements[e].closeRequired \/ ReadFails(t) \/ ProcessFails(t)
                    \/ WriteFails(t)
             /\ elements'[e].request = NoText /\ ~elements'[e].closeRequired =>
                  /\ elements[e].request = NoText /\ ~elements[e].closeRequired
                  /\ pc[t] \in {"push", "finish"} \/ t \notin Readers
  <2>1. CASE ReadRequest(t)
    <3>1. CASE elements[e].request # NoText /\ UNCHANGED elements
      BY <3>1
    <3>2. CASE elements' = [elements EXCEPT ![e].request = inbox[SocketOf(e)][1]]
      <4>1. PICK c : c = SocketOf(e) /\ HasWholeRequest(c)
        BY <1>4, <2>1 DEF ReadRequest
      <4>2. PICK q \in Seq(Request) : q = inbox[c] /\ Len(q) = 1
        BY <4>1, SocketOfType DEF HasWholeRequest, Inv, TypeOK
      <4>3. q[1] \in Request
        BY <4>2
      <4>4. q[1] # NoText
        <5>1. PICK a, b : q[1] = <<a, b>>
          BY <4>3 DEF Request
        <5>2. <<a, b>> # << >>
          OBVIOUS
        <5> QED
          BY <5>1, <5>2 DEF NoText
      <4>5. /\ elements'[e].request = q[1]
            /\ elements'[e].conn = elements[e].conn
            /\ elements'[e].closeRequired = elements[e].closeRequired
        BY <1>1, <3>2, <4>1, <4>2 DEF ElementType
      <4> QED
        BY <4>4, <4>5
    <3> QED
      BY <1>4, <2>1, <3>1, <3>2 DEF ReadRequest
  <2>2. CASE ReadFails(t) \/ ProcessFails(t) \/ WriteFails(t)
    <3>1. elements' = [elements EXCEPT ![e] = MarkCloseRequired(@)]
      BY <1>4, <2>2 DEF ReadFails, ProcessFails, WriteFails
    <3>2. elements'[e].closeRequired /\ elements'[e].conn = elements[e].conn
      BY <1>1, <3>1 DEF ElementType, MarkCloseRequired
    <3> QED
      BY <2>2, <3>2
  <2>3. CASE ProcessRequest(t)
    <3>1. \/ UNCHANGED elements
          \/ elements' = [elements EXCEPT ![e].response = elements[e].request]
      BY <1>4, <2>3 DEF ProcessRequest
    <3>2. t \notin Readers
      BY <2>3 DEF ProcessRequest
    <3> QED
      BY <1>1, <3>1, <3>2 DEF ElementType
  <2>4. CASE WriteResponse(t)
    BY <2>4 DEF WriteResponse
  <2>5. CASE Push(t)
    BY <2>5 DEF Push
  <2>6. CASE Finish(t)
    <3>1. PICK failures, unlocks :
            elements' = [elements EXCEPT ![e] =
              Released(MarkFailed(MarkDone(@, Published(t)), failures), unlocks)]
      BY <1>4, <2>6 DEF Finish
    <3>2. /\ elements'[e].conn = elements[e].conn
          /\ elements'[e].closeRequired = elements[e].closeRequired
          /\ elements'[e].request = elements[e].request
      BY <1>1, <3>1 DEF Released, Unlocked, MarkFailed, MarkDone, ElementType
    <3> QED
      BY <2>6, <3>2 DEF Finish
  <2> QED
    BY <1>4, <2>1, <2>2, <2>3, <2>4, <2>5, <2>6 DEF Work
<1>5. ASSUME NEW t \in Workers, Work(t), e = task[t],
             elements'[e].request = NoText, ~elements'[e].closeRequired
      PROVE  \A u \in Workers : ReadRequest(u) \/ ReadFails(u) => e # task[u]
  <2> SUFFICES ASSUME NEW u \in Workers, ReadRequest(u) \/ ReadFails(u), e = task[u]
               PROVE  FALSE
    OBVIOUS
  <2>1. Work(u) /\ u \in Readers /\ pc[u] = "work"
    BY DEF Work, ReadRequest, ReadFails
  <2> QED
    BY <1>4, <1>5, <2>1
<1> QED
  BY <1>2, <1>3, <1>4, <1>5 DEF WorksOn, TextsKept

(* What select has just put on the list of pending descriptors.            *)
LEMMA QueuedIsReady ==
  ASSUME Inv, Connected, AtSelect, NEW tbl \in TableType, QueueActive(tbl, Ready),
         FdsAreApart(tbl),
         \A g \in Fds : LockedIn(table, g) => LockedIn(tbl, g),
         NEW f \in Fds, Pends(f)'
  PROVE  Pends(f) \/ f \in Ready
<1>1. PICK ready : ready = Ready /\ QueueActive(tbl, ready)
  OBVIOUS
<1>2. PICK order \in Ascending(ActiveSlots(tbl, ready)) :
        pending' = QueueOf(tbl, pending, order)
  BY <1>1 DEF QueueActive, QueueOf
<1>3. pending \in Seq(Fds) /\ phase # "stopped"
  BY DEF Inv, TypeOK, AtSelect
<1>4. \A k \in DOMAIN pending : LockedIn(table, pending[k]) /\ pending[k] \in Fds
  BY <1>3 DEF Connected, PendingAreLocked, AllLockedIn
<1>5. AllLockedIn(tbl, pending) /\ Distinct(pending)
  BY <1>3, <1>4 DEF Connected, PendingAreLocked, AllLockedIn
<1>6. PICK queue : queue = pending' /\ queue = QueueOf(tbl, pending, order)
  BY <1>2
<1>7. \A k \in DOMAIN queue : \/ \E j \in DOMAIN pending : pending[j] = queue[k]
                              \/ ~LockedIn(tbl, queue[k]) /\ queue[k] \in ready
  BY <1>3, <1>5, <1>6, Queued
<1> QED
  BY <1>1, <1>6, <1>7 DEF Pends

LEMMA PendingIsLocked ==
  ASSUME Inv, Connected, phase # "stopped", NEW f \in Fds, Pends(f)
  PROVE  /\ LockedIn(table, f) /\ f \in TableFds(table)
         /\ fdTable[f] \in Conns /\ fdTable[f] # NoConn
<1>1. LockedIn(table, f)
  BY DEF Pends, Connected, PendingAreLocked, AllLockedIn
<1>2. f \in TableFds(table)
  BY <1>1 DEF LockedIn, TableFds
<1>3. fdTable[f] # NoConn
  BY <1>2 DEF Connected, TableMatchesDescriptors
<1> QED
  BY <1>1, <1>2, <1>3 DEF Inv, TypeOK

(* A descriptor is pending because select reported it, and stays open.     *)
LEMMA PendsBefore ==
  ASSUME Inv, Connected, SelectMayFail = FALSE, [Next]_vars,
         phase' # "stopped", NEW f \in Fds, Pends(f)'
  PROVE  \/ Pends(f) /\ fdTable'[f] = fdTable[f]
         \/ /\ Readable(fdTable[f]) /\ fdTable'[f] = fdTable[f]
            /\ UNCHANGED <<inbox, client>>
<1>1. phase # "stopped"
  BY StoppingIsFinal
<1>2. CASE UNCHANGED <<pending, fdTable>>
  BY <1>2 DEF Pends
<1>3. /\ table \in TableType /\ FdsAreApart(table)
      /\ TableFds(table) = {g \in Fds : fdTable[g] # NoConn}
  BY TableIsTyped DEF Connected, TableMatchesDescriptors, FdsAreApart
<1>4. ASSUME f \in Ready
      PROVE  Readable(fdTable[f]) /\ f \in TableFds(table)
  BY <1>4 DEF Ready
<1>5. CASE Select \/ TurnAway
  <2>1. /\ AtSelect /\ QueueActive(table, Ready)
        /\ UNCHANGED <<fdTable, inbox, client>>
    BY <1>5 DEF Select, TurnAway, clientVars
  <2>2. Pends(f) \/ f \in Ready
    BY <1>3, <2>1, QueuedIsReady
  <2> QED
    BY <1>4, <2>1, <2>2
<1>6. CASE Accept
  <2>1. /\ AtSelect /\ HasVacancy(table)
        /\ UNCHANGED <<inbox, client>>
    BY <1>6 DEF Accept, clientVars
  <2>2. PICK g \in Fds : /\ fdTable[g] = NoConn
                         /\ fdTable' = [fdTable EXCEPT ![g] = Head(backlog)]
                         /\ QueueActive(AddConnection(table, g), Ready)
    BY <1>6 DEF Accept, FreeFds
  <2>3. PICK tbl : tbl = AddConnection(table, g) /\ QueueActive(tbl, Ready)
    BY <2>2
  <2>4. g \notin TableFds(table)
    BY <1>3, <2>2
  <2>5. /\ tbl \in TableType
        /\ FdsAreApart(tbl)
        /\ \A h \in Fds : LockedIn(table, h) => LockedIn(tbl, h)
    BY <1>3, <2>1, <2>3, <2>4, Added, TableAdded
  <2>6. Pends(f) \/ f \in Ready
    BY <2>1, <2>3, <2>5, QueuedIsReady
  <2>7. f # g
    BY <1>1, <1>4, <2>4, <2>6, PendingIsLocked
  <2>8. fdTable'[f] = fdTable[f]
    BY <2>2, <2>7 DEF Inv, TypeOK
  <2> QED
    BY <1>4, <2>1, <2>6, <2>8
<1>7. CASE SelectFails
  <2>1. ~Selectable
    BY <1>7 DEF SelectFails
  <2> QED
    BY <1>3, <2>1 DEF Selectable
<1>8. CASE PublishConnections
  BY <1>8 DEF PublishConnections, Pends
<1>9. CASE Complete
  <2>1. PICK e \in Elements, g \in Fds : IsCompleted(e, g)
    BY <1>9, OneIsCompleted
  <2>2. /\ UNCHANGED pending
        /\ \/ fdTable' = fdTable
           \/ fdTable' = [fdTable EXCEPT ![g] = NoConn]
    BY <1>9, <2>1 DEF Complete, IsCompleted
  <2>3. Pends(f) /\ f # g
    BY <2>1, <2>2 DEF Pends, IsCompleted
  <2> QED
    BY <2>2, <2>3 DEF Inv, TypeOK
<1>10. CASE \E t \in Threads : Poll(t) \/ StopThread(t)
  BY <1>2, <1>10 DEF Poll, Scan, LockElement, LockElementFails, RescanFinds,
                     RescanEnds, StopThread, tableVars
<1>11. CASE \E t \in Workers : Work(t)
  BY <1>2, <1>11 DEF Work, ReadRequest, ReadFails, ProcessRequest, ProcessFails,
                     WriteResponse, WriteFails, Push, Finish, tableVars
<1>12. CASE Listen
  BY <1>2, <1>5, <1>6, <1>7, <1>8, <1>9, <1>12
     DEF Listen, PublishExpires, Update, DrainEnds, tableVars
<1>13. CASE Main \/ UNCHANGED vars
  <2>1. ~StopProcess
    BY DEF StopProcess
  <2> QED
    BY <1>2, <1>13, <2>1
       DEF Main, Maintain, MaintenanceFails, Signal, Stopped, vars, tableVars
<1>14. CASE \E c \in Conns : Client(c)
  BY <1>2, <1>14 DEF Client, Connect, SendRequest, HangUp, tableVars
<1> QED
  BY <1>10, <1>11, <1>12, <1>13, <1>14 DEF Next

LEMMA NextPendingReady ==
  ASSUME Inv, Connected, Settlement, Places, OnlyBusyAreRefused,
         SelectMayFail = FALSE, [Next]_vars, phase' # "stopped"
  PROVE  PendingAreReady'
<1>1. phase # "stopped"
  BY StoppingIsFinal
<1> SUFFICES ASSUME NEW f \in Fds, Pends(f)', NEW c, c = fdTable'[f]
             PROVE  Readable(c)'
  BY DEF PendingAreReady, Readable
<1>2. CASE Readable(fdTable[f]) /\ fdTable'[f] = fdTable[f] /\ UNCHANGED <<inbox, client>>
  BY <1>2 DEF Readable
<1>3. CASE Pends(f) /\ fdTable'[f] = fdTable[f]
  <2>1. c \in Conns /\ c = fdTable[f] /\ c # NoConn
    BY <1>1, <1>3, PendingIsLocked
  <2>2. Readable(c)
    BY <1>1, <1>3, <2>1 DEF OnlyBusyAreRefused, PendingAreReady
  <2>3. ASSUME NEW t \in Workers, ReadRequest(t) \/ ReadFails(t)
        PROVE  elements[task[t]].conn # c
    <3>1. pc[t] = "work"
      BY <2>3 DEF ReadRequest, ReadFails
    <3>2. task[t] \in Unfinished
      BY <3>1, OwnSocket
    <3>3. /\ elements[task[t]].fd \in Fds
          /\ fdTable[elements[task[t]].fd] = elements[task[t]].conn
          /\ \A k \in DOMAIN pending : pending[k] # elements[task[t]].fd
      BY <1>1, <3>2 DEF Connected, ElementsAreLocked
    <3>4. elements[task[t]].fd # f
      BY <1>3, <3>3 DEF Pends
    <3> QED
      BY <2>1, <3>3, <3>4 DEF Places
  <2> QED
    BY <2>1, <2>2, <2>3, ReadableKept
<1> QED
  BY <1>2, <1>3, PendsBefore

LEMMA NextUnreadReady ==
  ASSUME Inv, Connected, Settlement, Places, OnlyBusyAreRefused,
         [Next]_vars, phase' # "stopped"
  PROVE  UnreadAreReady'
<1>1. phase # "stopped"
  BY StoppingIsFinal
<1> SUFFICES ASSUME NEW e \in OnTheWay', elements'[e].request = NoText,
                    ~elements'[e].closeRequired, NEW c, c = elements'[e].conn
             PROVE  Readable(c)'
  BY DEF UnreadAreReady, Readable
<1>2. CASE PublishConnections /\ e \notin Referenced(pipes, task)
  <2>1. e \in Unfinished'
    BY DEF OnTheWay
  <2>2. PICK k \in DOMAIN pending :
          elements'[e] = NewElement(pending[k], fdTable[pending[k]], Unowned)
    BY <1>2, <2>1, PublishedIs
  <2>3. PICK f \in Fds : f = pending[k]
    <3>1. pending \in Seq(Fds)
      BY DEF Inv, TypeOK
    <3>2. pending[k] \in Fds
      BY <3>1
    <3> QED
      BY <3>2
  <2>4. Pends(f) /\ c = fdTable[f]
    BY <2>2, <2>3, NewElementIs DEF Pends
  <2>5. Readable(c)
    BY <1>1, <2>4 DEF OnlyBusyAreRefused, PendingAreReady
  <2>6. UNCHANGED <<inbox, client>>
    BY <1>2 DEF PublishConnections, clientVars
  <2> QED
    BY <2>5, <2>6 DEF Readable
<1>3. CASE e \in OnTheWay
  <2>1. e \in Unfinished /\ e \in Referenced(pipes', task')
    BY <1>3 DEF OnTheWay, Unfinished
  <2>2. /\ c = elements[e].conn
        /\ elements[e].request = NoText /\ ~elements[e].closeRequired
        /\ \A t \in Workers : ReadRequest(t) \/ ReadFails(t) => e # task[t]
    BY <2>1, RefusedBefore
  <2>3. Readable(c) /\ c \in Conns
    BY <1>1, <1>3, <2>1, <2>2, OwnConnection DEF OnlyBusyAreRefused, UnreadAreReady
  <2>4. ASSUME NEW t \in Workers, ReadRequest(t) \/ ReadFails(t)
        PROVE  elements[task[t]].conn # c
    <3>1. pc[t] = "work"
      BY <2>4 DEF ReadRequest, ReadFails
    <3>2. task[t] \in Unfinished /\ e # task[t]
      BY <2>2, <2>4, <3>1, OwnSocket
    <3> QED
      BY <1>1, <2>1, <2>2, <3>2, OwnConnection
  <2> QED
    BY <2>3, <2>4, ReadableKept
<1> QED
  BY <1>2, <1>3, OnTheWayBefore

(* The client of what a worker works on is busy.                           *)
LEMMA AtWorkBusy ==
  ASSUME Inv, Connected, Passage, Settlement, Places, Traffic, OnlyBusyAreRefused,
         NEW t \in Workers, pc[t] = "work"
  PROVE  /\ Busy(elements[task[t]].conn)
         /\ ~elements[task[t]].closeRequired
<1>1. PICK e : e = task[t]
  OBVIOUS
<1>2. e \in OnTheWay /\ phase # "stopped"
  BY <1>1, OwnSocket
<1>3. PICK c \in Conns : c = elements[e].conn
  BY <1>1, OwnSocket
<1>4. \A u \in Workers : task[u] = e => u = t
  BY <1>1, OnlyHolder DEF Holding, Threads
<1>5. ~elements[e].closeRequired
  BY <1>2, <1>4 DEF Passage, Passes, RefusedLeaves
<1>6. sent[c] \in Nat /\ got[c] \in Seq({NoText} \cup Request) /\ Len(got[c]) \in Nat
  <2>1. sent[c] \in Nat /\ got[c] \in Seq({NoText} \cup Request)
    BY DEF Inv, TypeOK
  <2> QED
    BY <2>1
<1>7. ASSUME Len(got[c]) + 1 = sent[c]
      PROVE  Busy(c)
  BY <1>6, <1>7 DEF Busy
<1>8. CASE elements[e].request = NoText
  <2>1. Readable(c)
    BY <1>2, <1>3, <1>5, <1>8 DEF OnlyBusyAreRefused, UnreadAreReady
  <2> QED
    BY <1>1, <1>3, <1>5, <1>7, <2>1 DEF Readable, Traffic, RequestsAreLast, Busy
<1>9. CASE elements[e].request # NoText
  <2>1. ~Answered(e)
    BY <1>4 DEF Answered, Workers
  <2>2. AsksLast(e, c)
    BY <1>2, <1>3, <1>9, <2>1 DEF Asks, Traffic
  <2> QED
    BY <1>1, <1>3, <1>5, <1>7, <2>2 DEF AsksLast
<1> QED
  BY <1>8, <1>9

LEMMA NextRefusedBusy ==
  ASSUME Inv, Connected, Passage, Settlement, Places, Traffic, OnlyBusyAreRefused,
         [Next]_vars, phase' # "stopped"
  PROVE  RefusedAreBusy'
<1>1. phase # "stopped"
  BY StoppingIsFinal
<1> SUFFICES ASSUME NEW e \in Unfinished', elements'[e].closeRequired,
                    NEW c, c = elements'[e].conn
             PROVE  Busy(c)'
  BY DEF RefusedAreBusy, Busy
<1>2. CASE PublishConnections /\ e \notin Referenced(pipes, task)
  <2>1. PICK f, d : elements'[e] = NewElement(f, d, Unowned)
    BY <1>2, PublishedIs
  <2> QED
    BY <2>1 DEF NewElement
<1>3. CASE e \in Unfinished
  <2>1. /\ e \in Referenced(pipes', task') /\ c = elements[e].conn /\ c \in Conns
        /\ \A d \in Unfinished : elements[d].conn = c => d = e
    BY <1>1, <1>3, RefusedBefore, OwnConnection DEF Unfinished
  <2>2. CASE elements[e].closeRequired
    <3>1. Busy(c)
      BY <1>1, <1>3, <2>1, <2>2 DEF OnlyBusyAreRefused, RefusedAreBusy
    <3>2. ASSUME NEW t \in Workers, WriteResponse(t)
          PROVE  elements[task[t]].conn # c
      <4>1. pc[t] = "work"
        BY <3>2 DEF WriteResponse
      <4>2. task[t] \in Unfinished /\ ~elements[task[t]].closeRequired
        BY <4>1, OwnSocket, AtWorkBusy
      <4> QED
        BY <2>1, <2>2, <4>2
    <3> QED
      BY <2>1, <3>1, <3>2, BusyKept
  <2>3. ASSUME NEW t \in Workers, ReadFails(t) \/ ProcessFails(t) \/ WriteFails(t),
               e = task[t]
        PROVE  Busy(c)'
    <3>1. pc[t] = "work" /\ UNCHANGED <<client, sent, got>>
      BY <2>3 DEF ReadFails, ProcessFails, WriteFails, clientVars
    <3>2. Busy(c)
      BY <2>1, <2>3, <3>1, AtWorkBusy
    <3> QED
      BY <3>1, <3>2 DEF Busy
  <2> QED
    BY <1>3, <2>1, <2>2, <2>3, RefusedBefore
<1> QED
  BY <1>2, <1>3, UnfinishedBefore

LEMMA OnlyBusyHolds ==
  ASSUME OneAutocall, SelectMayFail = FALSE
  PROVE  Spec => []OnlyBusyAreRefused
<1>1. /\ OneThreadPerPool /\ OneReaderOneDatamodel
  BY DEF OneAutocall, OneThreadPerPool
<1>2. Init => OnlyBusyAreRefused
  <2> SUFFICES ASSUME Init PROVE OnlyBusyAreRefused
    OBVIOUS
  <2>1. PendingAreReady
    BY DEF Init, PendingAreReady, Pends
  <2>2. Unfinished = {} /\ OnTheWay = {}
    BY DEF Init, Referenced, OnTheWay, Unfinished
  <2> QED
    BY <2>1, <2>2 DEF OnlyBusyAreRefused, UnreadAreReady, RefusedAreBusy
<1>3. /\ Inv /\ Connected /\ Passage /\ Settlement /\ Places /\ Traffic
      /\ OnlyBusyAreRefused
      /\ [Next]_vars
      => OnlyBusyAreRefused'
  BY NextPendingReady, NextUnreadReady, NextRefusedBusy DEF OnlyBusyAreRefused
<1>4. Spec => []Passage
  BY <1>1, PassageHolds
<1>5. Spec => []Settlement
  BY SettlementHolds
<1>6. Spec => []Traffic
  BY TrafficHolds
<1> QED
  BY <1>2, <1>3, <1>4, <1>5, <1>6, InvHolds, ConnectedHolds, PlacesHold, PTL DEF Spec

(* A connection is closed by the listener's completing its element.        *)
LEMMA ClosedIsRefused ==
  ASSUME Inv, Connected, [Next]_vars, phase' # "stopped",
         NEW c \in Conns, IsOpen(c), ~IsOpen(c)'
  PROVE  \E e \in Unfinished : elements[e].closeRequired /\ elements[e].conn = c
<1>1. fdTable \in [Fds -> Conns \cup {NoConn}] /\ phase # "stopped"
  BY StoppingIsFinal DEF Inv, TypeOK
<1>2. PICK g \in Fds : fdTable[g] = c /\ fdTable'[g] # c
  BY DEF IsOpen
<1>3. CASE Accept
  <2>1. PICK f \in FreeFds : fdTable' = [fdTable EXCEPT ![f] = Head(backlog)]
    BY <1>3 DEF Accept
  <2>2. fdTable[f] = NoConn
    BY <2>1 DEF FreeFds
  <2> QED
    BY <1>1, <1>2, <2>1, <2>2
<1>4. CASE Complete
  <2>1. PICK e \in Elements, f \in Fds : IsCompleted(e, f)
    BY <1>4, OneIsCompleted
  <2>2. e \in Unfinished /\ e = task[Listener] /\ f = elements[e].fd
    BY <2>1 DEF IsCompleted
  <2>3. elements[e].closeRequired /\ fdTable' = [fdTable EXCEPT ![f] = NoConn]
    BY <1>2, <1>4, <2>2 DEF Complete
  <2>4. f = g
    BY <1>1, <1>2, <2>3
  <2>5. fdTable[elements[e].fd] = elements[e].conn
    BY <1>1, <2>2 DEF Connected, ElementsAreLocked
  <2> QED
    BY <1>2, <2>2, <2>3, <2>4, <2>5
<1>5. CASE ~Accept /\ ~Complete
  <2>1. ~StopProcess
    BY DEF StopProcess
  <2>2. UNCHANGED fdTable
    BY <1>5, <2>1, ClientsNotice
       DEF TurnAway, Connect, SendRequest, HangUp, ReadRequest, ReadFails, WriteResponse
  <2> QED
    BY <1>2, <2>2
<1> QED
  BY <1>3, <1>4, <1>5

(* The server hangs up on nobody who has been answered and stays on the    *)
(* line, unless it stops; that needs a select that does not fail, for one  *)
(* that does reports every connection as ready (SelectError.cfg).          *)
THEOREM IdleAreKept ==
  ASSUME OneAutocall, SelectMayFail = FALSE
  PROVE  Spec => IdleStaysConnected
<1>1. /\ Inv /\ Connected /\ OnlyBusyAreRefused /\ [Next]_vars
      => [\A c \in Conns :
            IsOpen(c) /\ ~IsOpen(c)' /\ phase' # "stopped" =>
              client[c] = "closed" \/ sent[c] > Len(got[c])]_vars
  <2> SUFFICES ASSUME Inv, Connected, OnlyBusyAreRefused, [Next]_vars,
                      NEW c \in Conns, IsOpen(c), ~IsOpen(c)', phase' # "stopped"
               PROVE  client[c] = "closed" \/ sent[c] > Len(got[c])
    OBVIOUS
  <2>1. PICK e \in Unfinished : elements[e].closeRequired /\ elements[e].conn = c
    BY ClosedIsRefused
  <2>2. phase # "stopped"
    BY StoppingIsFinal
  <2>3. Busy(c)
    BY <2>1, <2>2 DEF OnlyBusyAreRefused, RefusedAreBusy
  <2> QED
    BY <2>3 DEF Busy
<1>2. Spec => []OnlyBusyAreRefused
  BY OnlyBusyHolds
<1> QED
  BY <1>1, <1>2, InvHolds, ConnectedHolds, PTL DEF Spec, IdleStaysConnected
-----------------------------------------------------------------------------
(* When nothing goes wrong, only who has hung up is hung up on.            *)

NothingGoesWrong ==
  {RequestsMayBeBad, SelectMayFail, LockMayExpire, MayExit} = {FALSE}

RefusedHaveLeft ==
  /\ phase = "running"
  /\ \A e \in Unfinished : elements[e].closeRequired => client[elements[e].conn] = "closed"

LEMMA NextRunning ==
  ASSUME NothingGoesWrong, phase = "running", [Next]_vars
  PROVE  phase' = "running"
<1>1. CASE \E t \in Threads : Poll(t) \/ StopThread(t)
  BY <1>1 DEF Poll, Scan, LockElement, LockElementFails, RescanFinds, RescanEnds,
              StopThread
<1>2. CASE \E t \in Workers : Work(t)
  BY <1>2 DEF Work, ReadRequest, ReadFails, ProcessRequest, ProcessFails,
              WriteResponse, WriteFails, Push, Finish
<1>3. CASE Listen
  BY <1>3 DEF Listen, Select, Accept, TurnAway, SelectFails, PublishConnections,
              PublishExpires, Update, DrainEnds, Complete
<1>4. CASE Main \/ UNCHANGED vars
  <2>1. ~LockMayExpire /\ ~MayExit
    BY DEF NothingGoesWrong
  <2> QED
    BY <1>4, <2>1
       DEF Main, Maintain, MaintenanceFails, Signal, StopProcess, Stopped, vars
<1>5. CASE \E c \in Conns : Client(c)
  BY <1>5 DEF Client, Connect, SendRequest, HangUp
<1> QED
  BY <1>1, <1>2, <1>3, <1>4, <1>5 DEF Next

(* A worker fails only if the client has hung up.                          *)
LEMMA FailsForTheLeft ==
  ASSUME Inv, Connected, Journey, Passage, Settlement, Places, Traffic,
         OnlyBusyAreRefused, OneThreadPerPool, NothingGoesWrong, phase = "running",
         NEW t \in Workers, ReadFails(t) \/ ProcessFails(t) \/ WriteFails(t)
  PROVE  client[elements[task[t]].conn] = "closed"
<1>1. ~RequestsMayBeBad
  BY DEF NothingGoesWrong
<1>2. pc[t] = "work"
  BY DEF ReadFails, ProcessFails, WriteFails
<1>3. PICK e : e = task[t]
  OBVIOUS
<1>4. PICK c \in Conns : /\ c = SocketOf(e) /\ c = elements[e].conn
                         /\ e \in OnTheWay /\ IsOpen(c)
  BY <1>2, <1>3, OwnSocket
<1>5. c # NoConn
  OBVIOUS
<1>6. ~WriteFails(t) /\ ~ProcessFails(t)
  BY <1>1, <1>3, <1>4, <1>5 DEF WriteFails, ProcessFails
<1>7. t \in Readers /\ ~HasWholeRequest(c)
  BY <1>1, <1>3, <1>4, <1>6 DEF ReadFails
<1>8. elements[e].request = NoText /\ ~elements[e].closeRequired
  BY <1>2, <1>3, <1>4, <1>7, NothingDropped, AtWorkBusy DEF OneThreadPerPool
<1>9. Readable(c)
  BY <1>4, <1>8 DEF OnlyBusyAreRefused, UnreadAreReady
<1>10. inbox[c] # <<>> => Len(inbox[c]) = 1
  <2>1. inbox[c] # <<>> => inbox[c] = << <<c, sent[c]>> >>
    BY DEF Traffic, RequestsAreLast
  <2>2. ASSUME inbox[c] # <<>>
        PROVE  Len(inbox[c]) = 1
    <3>1. PICK x : inbox[c] = <<x>>
      BY <2>1, <2>2
    <3>2. Len(<<x>>) = 1
      OBVIOUS
    <3> QED
      BY <3>1, <3>2
  <2> QED
    BY <2>2
<1>11. client[c] \in {"away", "connected", "closed"} /\ client[c] # "away"
  BY <1>4 DEF Inv, TypeOK, Places, IsServed
<1> QED
  BY <1>3, <1>4, <1>5, <1>7, <1>9, <1>10, <1>11 DEF HasWholeRequest, Readable

LEMMA NextRefusedHaveLeft ==
  ASSUME Inv, Connected, Journey, Passage, Settlement, Places, Traffic,
         OnlyBusyAreRefused, RefusedHaveLeft, OneThreadPerPool, NothingGoesWrong,
         [Next]_vars
  PROVE  RefusedHaveLeft'
<1>1. phase = "running" /\ phase' = "running"
  BY NextRunning DEF RefusedHaveLeft
<1>2. ASSUME NEW c \in Conns, client[c] = "closed"
      PROVE  client'[c] = "closed"
  <2>1. client \in [Conns -> {"away", "connected", "closed"}]
    BY DEF Inv, TypeOK
  <2>2. CASE \E d \in Conns : Connect(d) \/ HangUp(d)
    BY <1>2, <2>1, <2>2 DEF Connect, HangUp
  <2>3. CASE ~\E d \in Conns : Connect(d) \/ HangUp(d)
    <3>1. UNCHANGED client
      BY <2>3, ClientsNotice
         DEF Accept, TurnAway, Complete, StopProcess, SendRequest, ReadRequest,
             ReadFails, WriteResponse, clientVars
    <3> QED
      BY <1>2, <3>1
  <2> QED
    BY <2>2, <2>3
<1> SUFFICES ASSUME NEW e \in Unfinished', elements'[e].closeRequired,
                    NEW c, c = elements'[e].conn
             PROVE  client'[c] = "closed"
  BY <1>1 DEF RefusedHaveLeft
<1>3. CASE PublishConnections /\ e \notin Referenced(pipes, task)
  <2>1. PICK f, d : elements'[e] = NewElement(f, d, Unowned)
    BY <1>3, PublishedIs
  <2> QED
    BY <2>1 DEF NewElement
<1>4. CASE e \in Unfinished
  <2>1. /\ e \in Referenced(pipes', task') /\ c = elements[e].conn /\ c \in Conns
    BY <1>1, <1>4, RefusedBefore, OwnConnection DEF Unfinished
  <2>2. CASE elements[e].closeRequired
    BY <1>2, <1>4, <2>1, <2>2 DEF RefusedHaveLeft
  <2>3. ASSUME NEW t \in Workers, ReadFails(t) \/ ProcessFails(t) \/ WriteFails(t),
               e = task[t]
        PROVE  client'[c] = "closed"
    BY <1>1, <1>2, <2>1, <2>3, FailsForTheLeft
  <2> QED
    BY <1>4, <2>1, <2>2, <2>3, RefusedBefore
<1> QED
  BY <1>3, <1>4, UnfinishedBefore

(* With well-formed requests, no failing call and no exit, the server      *)
(* hangs up only on clients that have hung up.                             *)
THEOREM GoodRequestsAreKept ==
  ASSUME OneAutocall, NothingGoesWrong
  PROVE  Spec => GoodRequestIsNotRefused
<1>1. /\ OneThreadPerPool /\ OneReaderOneDatamodel /\ SelectMayFail = FALSE
  BY DEF OneAutocall, OneThreadPerPool, NothingGoesWrong
<1>2. Init => RefusedHaveLeft
  <2> SUFFICES ASSUME Init PROVE RefusedHaveLeft
    OBVIOUS
  <2>1. Unfinished = {}
    BY DEF Init, Referenced, Unfinished
  <2> QED
    BY <2>1 DEF RefusedHaveLeft, Init
<1>3. /\ Inv /\ Connected /\ Journey /\ Passage /\ Settlement /\ Places /\ Traffic
      /\ OnlyBusyAreRefused /\ RefusedHaveLeft
      /\ [Next]_vars
      => RefusedHaveLeft'
  BY <1>1, NextRefusedHaveLeft
<1>4. /\ Inv /\ Connected /\ RefusedHaveLeft /\ [Next]_vars
      => [\A c \in Conns :
            IsOpen(c) /\ ~IsOpen(c)' /\ phase' # "stopped" =>
              client[c] = "closed"]_vars
  <2> SUFFICES ASSUME Inv, Connected, RefusedHaveLeft, [Next]_vars,
                      NEW c \in Conns, IsOpen(c), ~IsOpen(c)', phase' # "stopped"
               PROVE  client[c] = "closed"
    OBVIOUS
  <2>1. PICK e \in Unfinished : elements[e].closeRequired /\ elements[e].conn = c
    BY ClosedIsRefused
  <2> QED
    BY <2>1 DEF RefusedHaveLeft
<1>5. Spec => []Journey
  BY <1>1, JourneyHolds
<1>6. Spec => []Passage
  BY <1>1, PassageHolds
<1>7. Spec => []Settlement
  BY SettlementHolds
<1>8. Spec => []Traffic
  BY TrafficHolds
<1>9. Spec => []OnlyBusyAreRefused
  BY <1>1, OnlyBusyHolds
<1> QED
  BY <1>2, <1>3, <1>4, <1>5, <1>6, <1>7, <1>8, <1>9, InvHolds, ConnectedHolds,
     PlacesHold, PTL DEF Spec, GoodRequestIsNotRefused
=============================================================================
