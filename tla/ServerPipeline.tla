--------------------------- MODULE ServerPipeline ---------------------------
(***************************************************************************)
(* The running server: the listener thread with its connection table, the  *)
(* reader, datamodel and writer thread pools, the four pipes they poll     *)
(* (c_server_pipeline), main's pipe maintenance and the exit flag, with    *)
(* the kernel's descriptor table and the clients around them.              *)
(*                                                                         *)
(* A worker thread loops: it takes the mutex of its pipe and looks for the *)
(* first element its skip predicate lets through ("candidate"), tries to   *)
(* lock that element, and with it in hand works, pushes it on the next     *)
(* pipe, and finishes it (marks, unlocks).  The predicate and the element  *)
(* lock are separate steps, as in the code: an element another thread      *)
(* holds can be marked and unlocked between them, because marking and      *)
(* unlocking do not take the pipe's mutex.                                 *)
(*                                                                         *)
(* The element flags only grow and the lock's owner is read by its holder  *)
(* alone, so a predicate's several loads are one step, and so are the      *)
(* stores that mark and unlock an element: a thread that sees some of      *)
(* them could have run before or after all of them with the same result.   *)
(***************************************************************************)
EXTENDS PipelineElement, NetworkConnections, FiniteSets

CONSTANTS
  Readers, Datamodels, Writers, \* the threads of the three worker pools
  Listener,           \* the listener thread
  NoThread,           \* nobody holds a pipe's mutex
  Elements,           \* heap addresses of elements
  Conns,              \* the connections clients make, one incarnation each
  NoConn,             \* a descriptor that is not open
  Fds,                \* the descriptors accept can return
  MaxClients,         \* network.connection.clients.max.concurrent
  MaxRequests,        \* bound: requests a client makes on one connection
  RequestsMayBeBad,   \* a request may be malformed, or too slow to be read
  SelectMayFail,      \* select may return an error (EINTR among them)
  LockMayExpire,      \* a timed wait for a pipe's mutex may expire
  MayExit,            \* SIGINT or SIGTERM may arrive
  AutocallRuns        \* what a c_autocall destructor may do: TRUE it calls

Workers == Readers \cup Datamodels \cup Writers
Threads == Workers \cup {Listener}

ASSUME PoolsAssumption ==
  /\ Readers \cap Datamodels = {}
  /\ (Readers \cup Datamodels) \cap Writers = {}
  /\ Listener \notin Workers
  /\ NoThread \notin Threads

ASSUME ResourcesAssumption ==
  /\ Elements \subseteq Nat \ {0}
  /\ Fds \subseteq Nat \ {0}
  /\ NoConn \notin Conns
  /\ MaxClients \in Nat
  /\ MaxRequests \in Nat

ASSUME SwitchesAssumption ==
  /\ {RequestsMayBeBad, SelectMayFail, LockMayExpire, MayExit} \subseteq BOOLEAN
  /\ AutocallRuns \subseteq BOOLEAN
  /\ AutocallRuns # {}

VARIABLES
  \* the process
  elements,  \* the heap of pipeline elements
  pipes,     \* the deque of each pipe
  mutex,     \* the holder of each pipe's mutex
  pc,        \* where each thread is
  cursor,    \* the index a thread's scan has reached
  task,      \* a thread's server_task; 0 is the null pointer
  outcome,   \* the status of the work a thread has done on its task
  table,     \* the listener's connection table
  pending,   \* _active_connections: descriptors locked but not yet pushed
  phase,     \* "exiting" once the global exit flag is set
  \* the kernel and the clients
  fdTable,   \* the connection behind each descriptor of the process
  backlog,   \* connections accept has not returned yet
  inbox,     \* requests a connection's socket has received
  client,    \* whether a client has connected or hung up
  sent,      \* the number of requests a client has sent
  got        \* the responses a client has received

threadVars  == <<pc, cursor, task, outcome>>
tableVars   == <<table, pending>>
clientVars  == <<client, sent>>
vars == <<elements, pipes, mutex, threadVars, tableVars, phase,
          fdTable, backlog, inbox, clientVars, got>>

(* Ids are handed out from 0 and the listener service is constructed       *)
(* first: its id is the 0 that marks an unlocked element.                   *)
Unowned == Listener

StageOf(t) ==
  CASE t \in Readers    -> "request"
    [] t \in Datamodels -> "datamodel"
    [] t \in Writers    -> "response"
    [] OTHER            -> "completed"

(* The pipe a stage's successful work is pushed to.                        *)
NextStage == [request   |-> "datamodel",
              datamodel |-> "response",
              response  |-> "completed"]

(* Where a thread's loop tests the exit flag, and where it calls           *)
(* get_next_*.                                                              *)
LoopHead(t) == IF t = Listener THEN "select" ELSE "idle"
PollPoint(t) == IF t = Listener THEN "drain" ELSE "idle"

(* The addresses in pipe contents p, or held by a thread in k: the         *)
(* elements some shared_ptr points to.                                     *)
Referenced(p, k) ==
  (UNION {{p[s][i] : i \in DOMAIN p[s]} : s \in Stage})
    \cup ({k[t] : t \in Threads} \ {0})

Blank == NewElement(0, NoConn, Unowned)

(* A std::timed_mutex that try_lock_for or lock can take.                  *)
MutexFree(s) == mutex[s] = NoThread

(* A socket recv would not block on.                                       *)
Readable(c) == inbox[c] # <<>> \/ client[c] = "closed"

Init ==
  /\ elements = [e \in Elements |-> Blank]
  /\ pipes = [s \in Stage |-> <<>>]
  /\ mutex = [s \in Stage |-> NoThread]
  /\ pc = [t \in Threads |-> LoopHead(t)]
  /\ cursor = [t \in Threads |-> 1]
  /\ task = [t \in Threads |-> 0]
  /\ outcome = [t \in Threads |-> "none"]
  /\ table = EmptyTable(MaxClients)
  /\ pending = <<>>
  /\ phase = "running"
  /\ fdTable = [f \in Fds |-> NoConn]
  /\ backlog = <<>>
  /\ inbox = [c \in Conns |-> <<>>]
  /\ client = [c \in Conns |-> "away"]
  /\ sent = [c \in Conns |-> 0]
  /\ got = [c \in Conns |-> <<>>]
-----------------------------------------------------------------------------
(* c_pipe::lock_element_with_timeout, on the pipe of thread t's stage.     *)

(* i is the first index from k on that the skip predicate lets through.    *)
(* Predicates never turn false again, so passing over elements commutes    *)
(* with every other step.                                                  *)
IsCandidate(s, k, i) ==
  /\ i \in k..Len(pipes[s])
  /\ ~Processed(s, elements[pipes[s][i]])
  /\ \A j \in k..(i - 1) : Processed(s, elements[pipes[s][j]])

NoCandidate(s, k) ==
  \A j \in k..Len(pipes[s]) : Processed(s, elements[pipes[s][j]])

(* try_lock_for succeeds and the scan reaches a candidate.  A scan that    *)
(* finds none, or never gets the mutex, changes nothing.                   *)
Scan(t) ==
  LET s == StageOf(t) IN
  /\ pc[t] = PollPoint(t)
  /\ t = Listener \/ phase = "running"
  /\ MutexFree(s)
  /\ \E i \in 1..Len(pipes[s]) :
       /\ IsCandidate(s, 1, i)
       /\ cursor' = [cursor EXCEPT ![t] = i]
  /\ mutex' = [mutex EXCEPT ![s] = t]
  /\ pc' = [pc EXCEPT ![t] = "candidate"]
  /\ UNCHANGED <<elements, pipes, task, outcome, tableVars, phase,
                 fdTable, backlog, inbox, clientVars, got>>

(* lock_with_owner_lockable succeeds: the element is the thread's task and *)
(* the pipe's mutex is released.                                           *)
LockElement(t) ==
  LET s == StageOf(t)
      e == pipes[s][cursor[t]] IN
  /\ pc[t] = "candidate"
  /\ ~elements[e].locked
  /\ elements' = [elements EXCEPT ![e] = LockedBy(@, t)]
  /\ task' = [task EXCEPT ![t] = e]
  /\ cursor' = [cursor EXCEPT ![t] = 1]
  /\ mutex' = [mutex EXCEPT ![s] = NoThread]
  /\ pc' = [pc EXCEPT ![t] = "work"]
  /\ UNCHANGED <<pipes, outcome, tableVars, phase,
                 fdTable, backlog, inbox, clientVars, got>>

(* Another thread has it: the scan goes on behind it.                      *)
LockElementFails(t) ==
  /\ pc[t] = "candidate"
  /\ elements[pipes[StageOf(t)][cursor[t]]].locked
  /\ pc' = [pc EXCEPT ![t] = "rescan"]
  /\ UNCHANGED <<elements, pipes, mutex, cursor, task, outcome, tableVars,
                 phase, fdTable, backlog, inbox, clientVars, got>>

RescanFinds(t) ==
  /\ pc[t] = "rescan"
  /\ \E i \in (cursor[t] + 1)..Len(pipes[StageOf(t)]) :
       /\ IsCandidate(StageOf(t), cursor[t] + 1, i)
       /\ cursor' = [cursor EXCEPT ![t] = i]
  /\ pc' = [pc EXCEPT ![t] = "candidate"]
  /\ UNCHANGED <<elements, pipes, mutex, task, outcome, tableVars, phase,
                 fdTable, backlog, inbox, clientVars, got>>

(* The end of the deque: get_next_* is false.  A worker polls again; the   *)
(* listener leaves update_network_connections.                             *)
RescanEnds(t) ==
  /\ pc[t] = "rescan"
  /\ NoCandidate(StageOf(t), cursor[t] + 1)
  /\ mutex' = [mutex EXCEPT ![StageOf(t)] = NoThread]
  /\ cursor' = [cursor EXCEPT ![t] = 1]
  /\ pc' = [pc EXCEPT ![t] = LoopHead(t)]
  /\ UNCHANGED <<elements, pipes, task, outcome, tableVars, phase,
                 fdTable, backlog, inbox, clientVars, got>>
-----------------------------------------------------------------------------
(* The work of the pools.  "ok" publishes to the next pipe and cancels     *)
(* autocall_fail; "notOk" asks for the connection to be closed and         *)
(* publishes to the completed pipe; "drop" publishes nothing, because the  *)
(* element already holds a text.                                           *)

(* The connection behind an element's descriptor now, if it is open.       *)
SocketOf(e) ==
  IF elements[e].fd \in Fds THEN fdTable[elements[e].fd] ELSE NoConn

(* What service_read accepts: exactly one whole request has arrived and    *)
(* the peer has not hung up behind it.                                      *)
HasWholeRequest(c) ==
  c # NoConn /\ client[c] = "connected" /\ Len(inbox[c]) = 1

(* READER_STATUS_OK.  set_request_string then refuses an element that      *)
(* already has a request.                                                   *)
ReadRequest(t) ==
  LET e == task[t]
      c == SocketOf(e) IN
  /\ t \in Readers /\ pc[t] = "work"
  /\ phase = "running"
  /\ HasWholeRequest(c)
  /\ inbox' = [inbox EXCEPT ![c] = <<>>]
  /\ \/ /\ elements[e].request = NoText
        /\ elements' = [elements EXCEPT ![e].request = inbox[c][1]]
        /\ outcome' = [outcome EXCEPT ![t] = "ok"]
        /\ pc' = [pc EXCEPT ![t] = "push"]
     \/ /\ elements[e].request # NoText
        /\ outcome' = [outcome EXCEPT ![t] = "drop"]
        /\ pc' = [pc EXCEPT ![t] = "finish"]
        /\ UNCHANGED elements
  /\ UNCHANGED <<pipes, mutex, cursor, task, tableVars, phase,
                 fdTable, backlog, clientVars, got>>

(* Every other status: a closed descriptor, the peer hung up, the retries  *)
(* ran out without a whole request, more than one request, exit.  What was *)
(* read is lost.                                                           *)
ReadFails(t) ==
  LET e == task[t]
      c == SocketOf(e) IN
  /\ t \in Readers /\ pc[t] = "work"
  /\ ~HasWholeRequest(c) \/ phase # "running" \/ RequestsMayBeBad
  /\ inbox' = [d \in Conns |-> IF d = c THEN <<>> ELSE inbox[d]]
  /\ elements' = [elements EXCEPT ![e] = MarkCloseRequired(@)]
  /\ outcome' = [outcome EXCEPT ![t] = "notOk"]
  /\ pc' = [pc EXCEPT ![t] = "push"]
  /\ UNCHANGED <<pipes, mutex, cursor, task, tableVars, phase,
                 fdTable, backlog, clientVars, got>>

(* service_datamodel returns DATAMODEL_STATUS_OK; set_response_string      *)
(* refuses an element that already has a response.                         *)
ProcessRequest(t) ==
  LET e == task[t] IN
  /\ t \in Datamodels /\ pc[t] = "work"
  /\ \/ /\ elements[e].response = NoText
        /\ elements' = [elements EXCEPT ![e].response = elements[e].request]
        /\ outcome' = [outcome EXCEPT ![t] = "ok"]
        /\ pc' = [pc EXCEPT ![t] = "push"]
     \/ /\ elements[e].response # NoText
        /\ outcome' = [outcome EXCEPT ![t] = "drop"]
        /\ pc' = [pc EXCEPT ![t] = "finish"]
        /\ UNCHANGED elements
  /\ UNCHANGED <<pipes, mutex, cursor, task, tableVars, phase,
                 fdTable, backlog, inbox, clientVars, got>>

(* The request is not JSON, or has no numeric ping_id.                     *)
ProcessFails(t) ==
  /\ t \in Datamodels /\ pc[t] = "work"
  /\ RequestsMayBeBad
  /\ elements' = [elements EXCEPT ![task[t]] = MarkCloseRequired(@)]
  /\ outcome' = [outcome EXCEPT ![t] = "notOk"]
  /\ pc' = [pc EXCEPT ![t] = "push"]
  /\ UNCHANGED <<pipes, mutex, cursor, task, tableVars, phase,
                 fdTable, backlog, inbox, clientVars, got>>

(* service_write returns WRITER_STATUS_OK.  The bytes go to whatever       *)
(* connection the descriptor stands for now; a send that fails because the *)
(* peer hung up counts as sent, its -1 being stored in a size_t.           *)
WriteResponse(t) ==
  LET e == task[t]
      c == SocketOf(e) IN
  /\ t \in Writers /\ pc[t] = "work"
  /\ c # NoConn
  /\ got' = IF client[c] = "connected"
            THEN [got EXCEPT ![c] = Append(@, elements[e].response)]
            ELSE got
  /\ outcome' = [outcome EXCEPT ![t] = "ok"]
  /\ pc' = [pc EXCEPT ![t] = "push"]
  /\ UNCHANGED <<elements, pipes, mutex, cursor, task, tableVars, phase,
                 fdTable, backlog, inbox, clientVars>>

(* setsockopt fails on a closed descriptor, or the exit flag is set.       *)
WriteFails(t) ==
  LET e == task[t] IN
  /\ t \in Writers /\ pc[t] = "work"
  /\ SocketOf(e) = NoConn \/ phase # "running"
  /\ elements' = [elements EXCEPT ![e] = MarkCloseRequired(@)]
  /\ outcome' = [outcome EXCEPT ![t] = "notOk"]
  /\ pc' = [pc EXCEPT ![t] = "push"]
  /\ UNCHANGED <<pipes, mutex, cursor, task, tableVars, phase,
                 fdTable, backlog, inbox, clientVars, got>>

(* publish_to_*_pipe: the owner check, which publishes nothing if it fails, *)
(* and c_pipe::push, which waits for the mutex of the target pipe.  The     *)
(* element is marked afterwards.                                            *)
TargetPipe(t) ==
  IF outcome[t] = "ok" THEN NextStage[StageOf(t)] ELSE "completed"

Push(t) ==
  LET owned == elements[task[t]].owner = t IN
  /\ pc[t] = "push"
  /\ owned => MutexFree(TargetPipe(t))
  /\ pipes' = IF owned
              THEN [pipes EXCEPT ![TargetPipe(t)] = Append(@, task[t])]
              ELSE pipes
  /\ outcome' = IF owned THEN outcome ELSE [outcome EXCEPT ![t] = "drop"]
  /\ pc' = [pc EXCEPT ![t] = "finish"]
  /\ UNCHANGED <<elements, mutex, cursor, task, tableVars, phase,
                 fdTable, backlog, inbox, clientVars, got>>

(* Mutant: a successful stage is not marked as completed.                  *)
PublishedUnmarked(t) == IF outcome[t] = "notOk" THEN {"response"} ELSE {}

(* mark_as_*_completed, then the destructors of autocall_fail and          *)
(* autocall_unlock, each of which runs its callback if the build lets it.  *)
Published(t) ==
  CASE outcome[t] = "ok"    -> {StageOf(t)}
    [] outcome[t] = "notOk" -> {"response"}
    [] OTHER                -> {}

(* Mutant: autocall_unlock is cancelled like autocall_fail.                *)
KeptLocked(element, unlocks) == element

Released(element, unlocks) ==
  IF unlocks THEN Unlocked(element, Unowned) ELSE element

Finish(t) ==
  /\ pc[t] = "finish"
  /\ \E fails, unlocks \in AutocallRuns :
       LET failures == IF fails /\ outcome[t] # "ok" THEN {StageOf(t)} ELSE {}
       IN  elements' = [elements EXCEPT ![task[t]] =
             Released(MarkFailed(MarkDone(@, Published(t)), failures), unlocks)]
  /\ task' = [task EXCEPT ![t] = 0]
  /\ outcome' = [outcome EXCEPT ![t] = "none"]
  /\ pc' = [pc EXCEPT ![t] = "idle"]
  /\ UNCHANGED <<pipes, mutex, cursor, tableVars, phase,
                 fdTable, backlog, inbox, clientVars, got>>
-----------------------------------------------------------------------------
(* The listener's loop: select, publish, update, drain.                    *)

FreeFds == {f \in Fds : fdTable[f] = NoConn}

IsLowest(f, fds) == f \in fds /\ \A g \in fds : f <= g

(* The descriptors select reports: a request or the peer's hanging up.  It *)
(* fails with EBADF when the table holds a descriptor that is not open.    *)
Selectable == \A f \in TableFds(table) : fdTable[f] # NoConn
(* Mutant: the fd_set is taken as it was before select.                    *)
WholeTable == TableFds(table)

Ready == {f \in TableFds(table) : Readable(fdTable[f])}

(* get_active_connections on table tbl: the active connections are locked  *)
(* and their descriptors appended to the pending ones in slot order.       *)
QueueActive(tbl, ready) ==
  LET active == ActiveSlots(tbl, ready) IN
  /\ table' = LockActive(tbl, ready)
  /\ \E order \in Ascending(active) :
       pending' = pending \o [k \in DOMAIN order |-> tbl[order[k]].fd]
  /\ pc' = [pc EXCEPT ![Listener] =
              IF pending' = <<>> THEN "update" ELSE "publish"]

AtSelect == pc[Listener] = "select" /\ phase = "running"

(* select returns, and no connection waits or accept fails.                *)
Select ==
  /\ AtSelect /\ Selectable
  /\ backlog = <<>> \/ FreeFds = {}
  /\ QueueActive(table, Ready)
  /\ UNCHANGED <<elements, pipes, mutex, cursor, task, outcome, phase,
                 fdTable, backlog, inbox, clientVars, got>>

(* accept returns the lowest free descriptor and add_connection takes it.  *)
Accept ==
  /\ AtSelect /\ Selectable
  /\ backlog # <<>>
  /\ HasVacancy(table)
  /\ \E f \in FreeFds :
       /\ IsLowest(f, FreeFds)
       /\ fdTable' = [fdTable EXCEPT ![f] = Head(backlog)]
       /\ QueueActive(AddConnection(table, f), Ready)
  /\ backlog' = Tail(backlog)
  /\ UNCHANGED <<elements, pipes, mutex, cursor, task, outcome, phase,
                 inbox, clientVars, got>>

(* Mutant: the descriptor is not closed again.                             *)
TurnAwayOpen ==
  /\ AtSelect /\ Selectable
  /\ backlog # <<>>
  /\ ~HasVacancy(table)
  /\ \E f \in FreeFds :
       /\ IsLowest(f, FreeFds)
       /\ fdTable' = [fdTable EXCEPT ![f] = Head(backlog)]
  /\ backlog' = Tail(backlog)
  /\ QueueActive(table, Ready)
  /\ UNCHANGED <<elements, pipes, mutex, cursor, task, outcome, phase,
                 inbox, clientVars, got>>

(* The table is full: the accepted descriptor is closed again at once.     *)
TurnAway ==
  /\ AtSelect /\ Selectable
  /\ backlog # <<>> /\ FreeFds # {}
  /\ ~HasVacancy(table)
  /\ backlog' = Tail(backlog)
  /\ QueueActive(table, Ready)
  /\ UNCHANGED <<elements, pipes, mutex, cursor, task, outcome, phase,
                 fdTable, inbox, clientVars, got>>

(* select returns -1 and leaves the fd_set as it was: every connection of  *)
(* the table is in it, and so is the listening socket, but only a positive *)
(* result leads to accept.                                                 *)
SelectFails ==
  /\ AtSelect
  /\ SelectMayFail \/ ~Selectable
  /\ QueueActive(table, TableFds(table))
  /\ UNCHANGED <<elements, pipes, mutex, cursor, task, outcome, phase,
                 fdTable, backlog, inbox, clientVars, got>>

(* new T(fd) for each pending descriptor, at the lowest free addresses     *)
(* (which free address the heap returns makes no difference).              *)
IsAllocation(q) ==
  LET free == Elements \ Referenced(pipes, task) IN
  /\ \A i, j \in DOMAIN q : i < j => q[i] < q[j]
  /\ \A i \in DOMAIN q, e \in free : e < q[i] => \E j \in DOMAIN q : q[j] = e

(* push_with_timeout_n and clear_pending_connections.                      *)
PublishConnections ==
  /\ pc[Listener] = "publish"
  /\ MutexFree("request")
  /\ \E q \in [DOMAIN pending -> Elements \ Referenced(pipes, task)] :
       /\ IsAllocation(q)
       /\ elements' = [e \in Elements |->
            IF \E i \in DOMAIN q : q[i] = e
            THEN LET fd == pending[CHOOSE i \in DOMAIN q : q[i] = e]
                 IN  NewElement(fd, fdTable[fd], Unowned)
            ELSE elements[e]]
       /\ pipes' = [pipes EXCEPT !["request"] = @ \o q]
  /\ pending' = <<>>
  /\ pc' = [pc EXCEPT ![Listener] = "update"]
  /\ UNCHANGED <<mutex, cursor, task, outcome, table, phase,
                 fdTable, backlog, inbox, clientVars, got>>

(* Mutant: clear_pending_connections whether or not the push went through. *)
PublishExpiresCleared ==
  /\ LockMayExpire
  /\ pc[Listener] = "publish"
  /\ pc' = [pc EXCEPT ![Listener] = "update"]
  /\ pending' = <<>>
  /\ UNCHANGED <<elements, pipes, mutex, cursor, task, outcome, table,
                 phase, fdTable, backlog, inbox, clientVars, got>>

(* try_lock_for expires: the pending descriptors stay for the next round.  *)
PublishExpires ==
  /\ LockMayExpire
  /\ pc[Listener] = "publish"
  /\ pc' = [pc EXCEPT ![Listener] = "update"]
  /\ UNCHANGED <<elements, pipes, mutex, cursor, task, outcome, tableVars,
                 phase, fdTable, backlog, inbox, clientVars, got>>

(* The exit test at the head of update_network_connections.                *)
Update ==
  /\ pc[Listener] = "update"
  /\ pc' = [pc EXCEPT ![Listener] =
              IF phase = "running" THEN "drain" ELSE "select"]
  /\ UNCHANGED <<elements, pipes, mutex, cursor, task, outcome, tableVars,
                 phase, fdTable, backlog, inbox, clientVars, got>>

(* get_next_completed is false at once: nothing to do or no mutex in time. *)
DrainEnds ==
  /\ pc[Listener] = "drain"
  /\ LockMayExpire \/ NoCandidate("completed", 1)
  /\ pc' = [pc EXCEPT ![Listener] = "select"]
  /\ UNCHANGED <<elements, pipes, mutex, cursor, task, outcome, tableVars,
                 phase, fdTable, backlog, inbox, clientVars, got>>

(* A completed element: its connection is unlocked, or removed from the    *)
(* table and its descriptor closed whether or not the table had it.        *)
Complete ==
  LET e == task[Listener]
      f == elements[e].fd IN
  /\ pc[Listener] = "work"
  /\ \/ /\ elements[e].closeRequired
        /\ table' = RemoveConnection(table, f)
        /\ fdTable' = [fdTable EXCEPT ![f] = NoConn]
     \/ /\ ~elements[e].closeRequired
        /\ table' = UnlockConnection(table, f)
        /\ UNCHANGED fdTable
  /\ \E unlocks \in AutocallRuns :
       elements' = [elements EXCEPT ![e] =
                      Released(MarkDone(@, {"completed"}), unlocks)]
  /\ task' = [task EXCEPT ![Listener] = 0]
  /\ pc' = [pc EXCEPT ![Listener] = "drain"]
  /\ UNCHANGED <<pipes, mutex, cursor, outcome, pending, phase,
                 backlog, inbox, clientVars, got>>
-----------------------------------------------------------------------------
(* main: do_pipeline_maintenance, the exit flag, stopping.                 *)

(* Mutant: the last of the processed elements stays.                       *)
MaintainShort(s) ==
  /\ phase = "running"
  /\ MutexFree(s)
  /\ \E k \in 2..Len(pipes[s]) :
       /\ \A j \in 1..k : Processed(s, elements[pipes[s][j]])
       /\ k < Len(pipes[s]) => ~Processed(s, elements[pipes[s][k + 1]])
       /\ pipes' = [pipes EXCEPT ![s] = SubSeq(@, k, Len(@))]
  /\ elements' = [e \in Elements |->
       IF e \in Referenced(pipes', task) THEN elements[e] ELSE Blank]
  /\ UNCHANGED <<mutex, threadVars, tableVars, phase,
                 fdTable, backlog, inbox, clientVars, got>>

(* c_pipe::do_pipe_maintenance: the processed elements at the head of the  *)
(* deque go, up to the first one that is not processed.  An element no     *)
(* shared_ptr points to any more is destroyed.                             *)
Maintain(s) ==
  /\ phase = "running"
  /\ MutexFree(s)
  /\ \E k \in 1..Len(pipes[s]) :
       /\ \A j \in 1..k : Processed(s, elements[pipes[s][j]])
       /\ k < Len(pipes[s]) => ~Processed(s, elements[pipes[s][k + 1]])
       /\ pipes' = [pipes EXCEPT ![s] = SubSeq(@, k + 1, Len(@))]
  /\ elements' = [e \in Elements |->
       IF e \in Referenced(pipes', task) THEN elements[e] ELSE Blank]
  /\ UNCHANGED <<mutex, threadVars, tableVars, phase,
                 fdTable, backlog, inbox, clientVars, got>>

(* One expired wait makes maintenance fail, and main sets the exit flag.   *)
MaintenanceFails ==
  /\ LockMayExpire
  /\ phase = "running"
  /\ phase' = "exiting"
  /\ UNCHANGED <<elements, pipes, mutex, threadVars, tableVars,
                 fdTable, backlog, inbox, clientVars, got>>

(* signal_handler.                                                         *)
Signal ==
  /\ MayExit
  /\ phase = "running"
  /\ phase' = "exiting"
  /\ UNCHANGED <<elements, pipes, mutex, threadVars, tableVars,
                 fdTable, backlog, inbox, clientVars, got>>

(* A thread at the head of its loop sees the exit flag and leaves.         *)
StopThread(t) ==
  /\ phase = "exiting"
  /\ pc[t] = LoopHead(t)
  /\ pc' = [pc EXCEPT ![t] = "stopped"]
  /\ UNCHANGED <<elements, pipes, mutex, cursor, task, outcome, tableVars,
                 phase, fdTable, backlog, inbox, clientVars, got>>

(* stop_process has joined every thread; ~c_network_connections closes the *)
(* connections that are left, and the listening socket goes with its queue. *)
StopProcess ==
  /\ phase = "exiting"
  /\ \A t \in Threads : pc[t] = "stopped"
  /\ phase' = "stopped"
  /\ table' = EmptyTable(MaxClients)
  /\ fdTable' = [f \in Fds |->
                   IF f \in TableFds(table) THEN NoConn ELSE fdTable[f]]
  /\ backlog' = <<>>
  /\ UNCHANGED <<elements, pipes, mutex, threadVars, pending,
                 inbox, clientVars, got>>

(* The process is gone; only its clients may still hang up.                *)
Stopped == phase = "stopped" /\ UNCHANGED vars
-----------------------------------------------------------------------------
(* The clients: each sends a request, waits for one response, and sends    *)
(* the next; it may hang up at any time.  A request is <<c, n>>, the nth   *)
(* on connection c.                                                        *)

IsOpen(c) == \E f \in Fds : fdTable[f] = c
IsServed(c) == IsOpen(c) \/ \E i \in DOMAIN backlog : backlog[i] = c

Connect(c) ==
  /\ client[c] = "away"
  /\ phase = "running"
  /\ client' = [client EXCEPT ![c] = "connected"]
  /\ backlog' = Append(backlog, c)
  /\ UNCHANGED <<elements, pipes, mutex, threadVars, tableVars, phase,
                 fdTable, inbox, sent, got>>

SendRequest(c) ==
  /\ client[c] = "connected"
  /\ IsServed(c)
  /\ sent[c] < MaxRequests
  /\ sent[c] <= Len(got[c])
  /\ sent' = [sent EXCEPT ![c] = @ + 1]
  /\ inbox' = [inbox EXCEPT ![c] = Append(@, <<c, sent[c] + 1>>)]
  /\ UNCHANGED <<elements, pipes, mutex, threadVars, tableVars, phase,
                 fdTable, backlog, client, got>>

HangUp(c) ==
  /\ client[c] = "connected"
  /\ client' = [client EXCEPT ![c] = "closed"]
  /\ UNCHANGED <<elements, pipes, mutex, threadVars, tableVars, phase,
                 fdTable, backlog, inbox, sent, got>>
-----------------------------------------------------------------------------
Poll(t) ==
  \/ Scan(t) \/ LockElement(t) \/ LockElementFails(t)
  \/ RescanFinds(t) \/ RescanEnds(t)

Work(t) ==
  \/ ReadRequest(t) \/ ReadFails(t)
  \/ ProcessRequest(t) \/ ProcessFails(t)
  \/ WriteResponse(t) \/ WriteFails(t)
  \/ Push(t) \/ Finish(t)

Listen ==
  \/ Select \/ Accept \/ TurnAway \/ SelectFails
  \/ PublishConnections \/ PublishExpires
  \/ Update \/ DrainEnds \/ Complete

Main ==
  \/ \E s \in Stage : Maintain(s)
  \/ MaintenanceFails \/ Signal \/ StopProcess \/ Stopped

Client(c) == Connect(c) \/ SendRequest(c) \/ HangUp(c)

Next ==
  \/ \E t \in Threads : Poll(t) \/ StopThread(t)
  \/ \E t \in Workers : Work(t)
  \/ Listen
  \/ Main
  \/ \E c \in Conns : Client(c)

Spec == Init /\ [][Next]_vars

(* Each thread keeps running, and a thread that waits for a mutex others   *)
(* keep taking and giving back gets it in the end: every poller sleeps for *)
(* 25 to 50 ms between two attempts.  The clients owe nothing.             *)
WorkerStep(t) == Poll(t) \/ Work(t) \/ StopThread(t)
ListenerStep == Poll(Listener) \/ Listen \/ StopThread(Listener)

FairSpec ==
  /\ Spec
  /\ \A t \in Workers : SF_vars(WorkerStep(t))
  /\ SF_vars(ListenerStep)
  /\ SF_vars(\E s \in Stage : Maintain(s))
  /\ WF_vars(StopProcess)
-----------------------------------------------------------------------------
(* Properties.                                                             *)

Request == Conns \X Nat

ElementType ==
  [fd : Nat, conn : Conns \cup {NoConn}, locked : BOOLEAN, owner : Threads,
   closeRequired : BOOLEAN, done : SUBSET Stage, failed : SUBSET Stage,
   request : {NoText} \cup Request, response : {NoText} \cup Request]

(* The variables have their types.                                         *)
TypeOK ==
  /\ elements \in [Elements -> ElementType]
  /\ pipes \in [Stage -> Seq(Elements)]
  /\ mutex \in [Stage -> Threads \cup {NoThread}]
  /\ pc \in [Threads -> {"idle", "candidate", "rescan", "work", "push",
                         "finish", "select", "publish", "update", "drain",
                         "stopped"}]
  /\ cursor \in [Threads -> Nat \ {0}]
  /\ task \in [Threads -> Elements \cup {0}]
  /\ outcome \in [Threads -> {"none", "ok", "notOk", "drop"}]
  /\ table \in [1..MaxClients -> [fd : {0} \cup Fds, locked : BOOLEAN]]
  /\ pending \in Seq(Fds)
  /\ phase \in {"running", "exiting", "stopped"}
  /\ fdTable \in [Fds -> Conns \cup {NoConn}]
  /\ backlog \in Seq(Conns)
  /\ inbox \in [Conns -> Seq(Request)]
  /\ client \in [Conns -> {"away", "connected", "closed"}]
  /\ sent \in [Conns -> Nat]
  /\ got \in [Conns -> Seq({NoText} \cup Request)]

(* A thread holds an element from locking it to finishing it, and nobody   *)
(* else does: lock_with_owner_lockable lets one thread in, whichever of    *)
(* the four pipes the others reach the element through, and the holder     *)
(* finds its own id in it when it publishes.                               *)
ElementOwnership ==
  \A t \in Threads :
    /\ task[t] # 0 <=> pc[t] \in {"work", "push", "finish"}
    /\ task[t] # 0 =>
         /\ elements[task[t]].locked
         /\ elements[task[t]].owner = t
         /\ \A u \in Threads \ {t} : task[u] # task[t]

(* A pipe's mutex is held exactly while its one scanner looks at a         *)
(* candidate, and the candidate it looks at stays where it is.             *)
ScannerHoldsMutex ==
  \A t \in Threads :
    LET scanning == pc[t] \in {"candidate", "rescan"} IN
    /\ scanning <=> mutex[StageOf(t)] = t
    /\ scanning => cursor[t] \in DOMAIN pipes[StageOf(t)]

(* Elements the listener has not completed yet.                            *)
Unfinished == {e \in Referenced(pipes, task) : "completed" \notin elements[e].done}

(* How often a descriptor is on its way through the server.                *)
InFlight(f) ==
  Cardinality({i \in DOMAIN pending : pending[i] = f})
    + Cardinality({e \in Unfinished : elements[e].fd = f})

(* A connection is locked exactly while its request is on its way: its     *)
(* descriptor is pending, or one element carries it through the pipes.     *)
(* With a second one the client is answered or closed twice; with none     *)
(* the connection is never looked at again.                                *)
LockedConnectionIsServed ==
  phase # "stopped" =>
    \A i \in DOMAIN table : table[i].fd # 0 =>
      InFlight(table[i].fd) = IF table[i].locked THEN 1 ELSE 0

(* An unfinished element is in a thread's hands, or waits in a pipe whose  *)
(* skip predicate lets it through: no failure flag strands it.             *)
NothingStranded ==
  \A e \in Unfinished :
    \/ \E t \in Threads : task[t] = e
    \/ \E s \in Stage : /\ \E i \in DOMAIN pipes[s] : pipes[s][i] = e
                        /\ ~Processed(s, elements[e])

(* An unfinished element's descriptor still stands for the connection the  *)
(* element was created for: nothing is read from, sent to or closed on a   *)
(* connection that has got the descriptor since.                           *)
DescriptorIsCurrent ==
  phase # "stopped" =>
    \A e \in Unfinished : SocketOf(e) = elements[e].conn

(* The table holds exactly the open descriptors, each once: also when it   *)
(* was full when a connection was accepted, when select has failed, when an*)
(* element was dropped, and while connections wait to be published.        *)
TableMatchesDescriptors ==
  /\ TableFds(table) = {f \in Fds : fdTable[f] # NoConn}
  /\ \A i, j \in DOMAIN table :
       i # j /\ table[i].fd # 0 => table[i].fd # table[j].fd

Service == INSTANCE RequestReply WITH
  open <- [c \in Conns |-> IsServed(c)]

(* What the clients see is a request-reply service.                        *)
ServesRequests == Service!Spec

(* Each request gets one response, and the responses come in the order of  *)
(* the requests: what a client that sends, then receives once, relies on.  *)
OneResponsePerRequest ==
  \A c \in Conns : \A i \in DOMAIN got[c] : got[c][i] = <<c, i>>

(* The server hangs up on a client only if the client has hung up, waits   *)
(* for an answer, or found the table full; an idle one stays connected.    *)
IdleStaysConnected ==
  [][\A c \in Conns :
       IsOpen(c) /\ ~IsOpen(c)' /\ phase' # "stopped" =>
         client[c] = "closed" \/ sent[c] > Len(got[c])]_vars

(* When no request is bad, nobody who waits for an answer is hung up on.   *)
GoodRequestIsNotRefused ==
  [][\A c \in Conns :
       IsOpen(c) /\ ~IsOpen(c)' /\ phase' # "stopped" =>
         client[c] = "closed"]_vars

(* A request is answered, unless the client hangs up or the server does.   *)
RequestIsAnswered ==
  \A c \in Conns, n \in 1..MaxRequests :
    sent[c] >= n ~> \/ Len(got[c]) >= n
                    \/ client[c] = "closed"
                    \/ ~IsServed(c)

(* The descriptor of a client that has hung up is closed in the end.       *)
HangUpIsNoticed ==
  \A c \in Conns : IsOpen(c) /\ client[c] = "closed" ~> ~IsOpen(c)

(* An element the listener is done with is destroyed in the end: nothing   *)
(* that stays at the head of a pipe keeps it there, although maintenance   *)
(* only ever takes elements from the head.                                 *)
CompletedIsReclaimed ==
  \A e \in Elements :
    e \in Referenced(pipes, task) /\ "completed" \in elements[e].done
      ~> e \notin Referenced(pipes, task)

(* The exit flag brings every thread to its end, and then the process.     *)
ExitStops == phase = "exiting" ~> phase = "stopped"
=============================================================================
