-------------------------- MODULE ServerLifecycle --------------------------
(***************************************************************************)
(* The life of the process and of its threads: main constructs the pools,  *)
(* starts them, replaces dead threads until the exit flag is set, asks     *)
(* every thread to stop and joins them all. A pool is a group of thread    *)
(* objects of a fixed size, and each object holds a service: the listener  *)
(* with a socket bound in its constructor, or a worker.                    *)
(*                                                                         *)
(* Another process may listen on the same port for a while, and the        *)
(* address to bind may be no address. What threads do between two looks at *)
(* the exit flag is ServerPipeline's subject.                              *)
(***************************************************************************)
EXTENDS Integers, Sequences, FiniteSets, Ipv4Address

CONSTANTS
  Objects,       \* addresses of thread objects
  Pools,         \* the pools in the order main visits them, the listener's first
  Size,          \* threads per pool
  AutocallRuns,  \* a c_autocall's destructor calls back (cc_autocall.h:31)
  MayTakePort,   \* another process may listen on the port
  MayExit,       \* a signal may come, or pipe maintenance fail
  Settings,      \* configurations: [bindIp, logged] records
  Nobody         \* no thread object

PoolNames == {Pools[i] : i \in DOMAIN Pools}

Listener == Pools[1]

ASSUME PoolsAssumption ==
  /\ Pools \in Seq(PoolNames) /\ Pools # <<>>
  /\ \A i, j \in DOMAIN Pools : Pools[i] = Pools[j] => i = j
  /\ IsFiniteSet(Objects)
  /\ Size \in [PoolNames -> Nat \ {0}]
  /\ Nobody \notin Objects \cup PoolNames
  /\ AutocallRuns \in BOOLEAN
  /\ MayExit \in BOOLEAN
  /\ MayTakePort \in BOOLEAN
  /\ Settings \subseteq [bindIp : Seq(Int), logged : BOOLEAN]

VARIABLES
  setting,     \* network/connection/bind_ip, and whether diagnostics go to the
               \* console or a file, so that LOG_FATAL is not skipped
  globalExit,  \* the global exit flag
  main,        \* where main is
  pool,        \* the index of the pool main is at
  target,      \* the object main joins or waits for, or Nobody
  toStop,      \* threads of the group that have not been asked to stop
  active,      \* _active_threads of each pool
  exiting,     \* _exiting_threads
  dead,        \* _dead_threads
  run,         \* what each object's thread does
  alive,       \* the objects whose alive flag is set
  told,        \* the objects whose own exit flag is set
  socket,      \* the state of each object's socket
  leaked,      \* a socket is open that no object knows of
  otherListens \* another process listens on the port

mainVars == <<main, pool, target, toStop>>

groupVars == <<active, exiting, dead>>

threadVars == <<run, alive, told>>

portVars == <<socket, leaked, otherListens>>

vars == <<setting, globalExit, mainVars, groupVars, threadVars, portVars>>

Goto(place) == main' = place
-----------------------------------------------------------------------------
(* Constructing, starting and destroying threads.                          *)

Unused == {o \in Objects : run[o] = "absent"}

(* What the address in a configuration stands for, and the configurations  *)
(* whose address is not in the format of one.                              *)
Interface == [s \in Settings |-> BindAddress(s.bindIp)]

Misconfigured == {s \in Settings : IsMalformed(s.bindIp)}

PortIsTaken == otherListens \/ \E o \in Objects : socket[o] = "listening"

(* The addresses of new threads, as many as the pool lacks. Which of the   *)
(* unused ones they are makes no difference.                               *)
CanRecruit(p, staying) ==
  Cardinality(Unused) >= Size[p] - Cardinality(staying)

Recruits(p, staying) ==
  CHOOSE new \in SUBSET Unused :
    Cardinality(new) = Size[p] - Cardinality(staying)

(* Whether bind succeeds: not on a port somebody listens on, and it depends*)
(* on the system on an address that is nobody's.                           *)
BindResults ==
  {~PortIsTaken} \cup (IF Interface[setting] = "none" THEN {FALSE} ELSE {})

(* LOG_FATAL sets the global exit flag, unless its level is off, which it  *)
(* is when nothing is logged: Logging.tla.                                 *)
Fatal(what) == globalExit' = (globalExit \/ (what /\ setting.logged))

(* The listener's constructor makes its address, creates a socket and binds*)
(* it. When that fails, the socket stays open and nobody knows of it.      *)
Bind(p, new) ==
  LET constructs == p = Listener /\ new # {} IN
  \E works \in BindResults :
    /\ socket' = [o \in Objects |->
         IF o \in new THEN IF p = Listener /\ works THEN "bound" ELSE "none"
         ELSE socket[o]]
    /\ leaked' = (leaked \/ (constructs /\ ~works))
    /\ Fatal(constructs /\ (setting \in Misconfigured \/ ~works))

(* c_server's constructor makes the threads of all pools, the listener in  *)
(* the order of the members first.                                         *)
Construct ==
  /\ main = "construct"
  /\ CanRecruit(Pools[pool], {})
  /\ LET new == Recruits(Pools[pool], {}) IN
       /\ active' = [active EXCEPT ![Pools[pool]] = new]
       /\ run' = [o \in Objects |-> IF o \in new THEN "made" ELSE run[o]]
       /\ alive' = alive \cup new
       /\ told' = told \ new
       /\ Bind(Pools[pool], new)
  /\ IF pool < Len(Pools) THEN pool' = pool + 1 /\ UNCHANGED main
                          ELSE pool' = 1 /\ Goto("start")
  /\ UNCHANGED <<target, toStop, exiting, dead, otherListens>>

StartPool ==
  /\ main = "start"
  /\ run' = [o \in Objects |-> IF o \in active[Pools[pool]] THEN "loop" ELSE run[o]]
  /\ IF pool < Len(Pools) THEN pool' = pool + 1 /\ UNCHANGED main
                          ELSE pool' = 1 /\ Goto("look")
  /\ UNCHANGED <<globalExit, target, toStop, groupVars, alive, told, portVars>>
-----------------------------------------------------------------------------
(* A thread.                                                               *)

(* Mutant: the global flag is not looked at.                               *)
SeesOwnExit(o) == o \in told

SeesExit(o) == globalExit \/ o \in told

(* Mutant: the alive flag stays set.                                       *)
LeaveAlive(o) ==
  /\ run' = [run EXCEPT ![o] = "ending"]
  /\ UNCHANGED alive

(* service_loop is left, and its autocall clears the alive flag.           *)
Leave(o) ==
  /\ run' = [run EXCEPT ![o] = "ending"]
  /\ alive' = IF AutocallRuns THEN alive \ {o} ELSE alive

(* The head of service_loop. A listener without a socket cannot listen,    *)
(* nor can one while another socket on the port does; service fails then,  *)
(* and the thread ends.                                                    *)
LoopHead(o) ==
  /\ run[o] = "loop"
  /\ \/ /\ SeesExit(o)
        /\ Leave(o)
        /\ UNCHANGED socket
     \/ /\ ~SeesExit(o)
        /\ o \in active[Listener]
        /\ socket[o] = "bound" /\ ~PortIsTaken
        /\ socket' = [socket EXCEPT ![o] = "listening"]
        /\ run' = [run EXCEPT ![o] = "serving"]
        /\ UNCHANGED alive
     \/ /\ ~SeesExit(o)
        /\ o \in active[Listener]
        /\ socket[o] = "none" \/ PortIsTaken
        /\ Leave(o)
        /\ UNCHANGED socket
     \/ /\ ~SeesExit(o)
        /\ o \notin active[Listener]
        /\ run' = [run EXCEPT ![o] = "serving"]
        /\ UNCHANGED <<alive, socket>>
  /\ UNCHANGED <<globalExit, mainVars, groupVars, told, leaked, otherListens>>

(* Mutant: a service that runs looks at its own flag only, again and again.*)
ServiceReturnsTold(o) ==
  /\ run[o] = "serving"
  /\ IF o \in told THEN Leave(o) ELSE UNCHANGED <<run, alive>>
  /\ UNCHANGED <<globalExit, mainVars, groupVars, told, portVars>>

(* service returns true when it has seen the flag, and so does the loop.   *)
ServiceReturns(o) ==
  /\ run[o] = "serving"
  /\ SeesExit(o)
  /\ Leave(o)
  /\ UNCHANGED <<globalExit, mainVars, groupVars, told, portVars>>

(* The thread ends, which is what a join waits for.                        *)
Finish(o) ==
  /\ run[o] = "ending"
  /\ run' = [run EXCEPT ![o] = "finished"]
  /\ UNCHANGED <<globalExit, mainVars, groupVars, alive, told, portVars>>
-----------------------------------------------------------------------------
(* Main's loop.                                                            *)

(* The flag is looked at before every pass, and before every pool.         *)
Look ==
  /\ main \in {"look", "maintain"}
  /\ \/ /\ globalExit
        /\ Goto("stop") /\ pool' = 1
     \/ /\ ~globalExit
        /\ main = "look"
        /\ Goto("maintain") /\ pool' = 1
     \/ /\ ~globalExit
        /\ main = "maintain"
        /\ Goto("bury") /\ UNCHANGED pool
  /\ UNCHANGED <<globalExit, target, toStop, groupVars, threadVars, portVars>>

EraseAll(joined) ==
  /\ run' = [o \in Objects |-> IF o \in joined THEN "absent" ELSE run[o]]
  /\ socket' = [o \in Objects |-> IF o \in joined THEN "none" ELSE socket[o]]
  /\ alive' = alive \ joined
  /\ told' = told \ joined

(* c_thread's destructor joins, then closes the listener's socket.         *)
Bury ==
  /\ main = "bury"
  /\ \E o \in dead[Pools[pool]] :
       /\ run[o] = "finished"
       /\ dead' = [dead EXCEPT ![Pools[pool]] = @ \ {o}]
       /\ EraseAll({o})
  /\ UNCHANGED <<globalExit, mainVars, active, exiting, leaked, otherListens>>

(* Mutant: a thread that has been told to end counts as dead.              *)
DeadOfTold(threads) == {o \in threads : o \notin alive \/ SeesExit(o)}

DeadOf(threads) == {o \in threads : o \notin alive}

(* Mutant: a dead thread is not erased from the active ones.               *)
SwapTwice ==
  LET p == Pools[pool]
      gone == DeadOf(active[p])
  IN  /\ main = "bury"
      /\ dead[p] = {}
      /\ dead' = [dead EXCEPT ![p] = DeadOf(exiting[p]) \cup gone]
      /\ IF pool < Len(Pools) THEN pool' = pool + 1 /\ Goto("maintain")
                              ELSE pool' = 1 /\ Goto("look")
      /\ UNCHANGED <<globalExit, target, toStop, active, exiting, threadVars,
                     portVars>>

(* The rest of do_thread_group_maintenance: threads move to the dead and   *)
(* the exiting ones, and the group is filled up with started new ones.     *)
Swap ==
  LET p == Pools[pool]
      gone == DeadOf(active[p])
      ending == {o \in active[p] \ gone : o \in told}
      staying == active[p] \ (gone \cup ending)
  IN  /\ main = "bury"
      /\ dead[p] = {}
      /\ dead' = [dead EXCEPT ![p] = DeadOf(exiting[p]) \cup gone]
      /\ exiting' = [exiting EXCEPT
           ![p] = (exiting[p] \ DeadOf(exiting[p])) \cup ending]
      /\ CanRecruit(p, staying)
      /\ LET new == Recruits(p, staying) IN
           /\ active' = [active EXCEPT ![p] = staying \cup new]
           /\ run' = [o \in Objects |-> IF o \in new THEN "loop" ELSE run[o]]
           /\ alive' = alive \cup new
           /\ told' = told \ new
           /\ Bind(p, new)
      /\ IF pool < Len(Pools) THEN pool' = pool + 1 /\ Goto("maintain")
                              ELSE pool' = 1 /\ Goto("look")
      /\ UNCHANGED <<target, toStop, otherListens>>

(* A signal, or main itself when the maintenance of the pipes has failed.  *)
SetExit ==
  /\ MayExit
  /\ ~globalExit
  /\ globalExit' = TRUE
  /\ UNCHANGED <<setting, mainVars, groupVars, threadVars, portVars>>
-----------------------------------------------------------------------------
(* stop_process: one thread after the other is told to end and waited for. *)
(* The first one that does not end in time ends the asking in its group.   *)

StopGroup ==
  /\ main = "stop"
  /\ \/ /\ pool <= Len(Pools)
        /\ toStop' = active[Pools[pool]]
        /\ Goto("stopping") /\ UNCHANGED pool
     \/ /\ pool > Len(Pools)
        /\ Goto("destroy") /\ UNCHANGED <<pool, toStop>>
  /\ UNCHANGED <<globalExit, target, groupVars, threadVars, portVars>>

Tell ==
  /\ main = "stopping"
  /\ target = Nobody
  /\ \/ /\ toStop = {}
        /\ Goto("stop") /\ pool' = pool + 1
        /\ UNCHANGED <<target, toStop, told>>
     \/ /\ toStop # {}
        /\ target' = CHOOSE o \in toStop : TRUE
        /\ told' = told \cup {target'}
        /\ toStop' = toStop \ {target'}
        /\ UNCHANGED <<main, pool>>
  /\ UNCHANGED <<globalExit, groupVars, run, alive, portVars>>

StopReturns ==
  /\ main = "stopping"
  /\ target # Nobody
  /\ \/ target \notin alive /\ UNCHANGED toStop
     \/ toStop' = {}
  /\ target' = Nobody
  /\ UNCHANGED <<globalExit, main, pool, groupVars, threadVars, portVars>>

(* Mutant: the dead threads are forgotten.                                 *)
KnownAlive(p) == active[p] \cup exiting[p]

(* The threads a pool holds on to.                                         *)
Known(p) == active[p] \cup exiting[p] \cup dead[p]

(* c_server's destructor destroys its pools, the last one first, and a pool*)
(* joins the threads in its sets: no other thread is joined. A pool is one *)
(* step, when its threads have finished: until then main waits, and nobody *)
(* reads what it destroys.                                                 *)
Destroy ==
  LET p == Pools[pool - 1] IN
  /\ main = "destroy"
  /\ \A o \in Known(p) : run[o] = "finished"
  /\ EraseAll(Known(p))
  /\ active' = [active EXCEPT ![p] = {}]
  /\ exiting' = [exiting EXCEPT ![p] = {}]
  /\ dead' = [dead EXCEPT ![p] = {}]
  /\ pool' = pool - 1
  /\ IF pool > 2 THEN UNCHANGED main ELSE Goto("exited")
  /\ UNCHANGED <<globalExit, target, toStop, leaked, otherListens>>
-----------------------------------------------------------------------------
(* Another process takes the port while nobody listens, and leaves it.     *)
OtherProcess ==
  /\ \/ MayTakePort /\ ~PortIsTaken /\ otherListens' = TRUE
     \/ otherListens /\ otherListens' = FALSE
  /\ UNCHANGED <<setting, globalExit, mainVars, groupVars, threadVars, socket,
                 leaked>>

Init ==
  /\ setting \in Settings
  /\ globalExit = FALSE
  /\ main = "construct"
  /\ pool = 1
  /\ target = Nobody
  /\ toStop = {}
  /\ active = [p \in PoolNames |-> {}]
  /\ exiting = [p \in PoolNames |-> {}]
  /\ dead = [p \in PoolNames |-> {}]
  /\ run = [o \in Objects |-> "absent"]
  /\ alive = {}
  /\ told = {}
  /\ socket = [o \in Objects |-> "none"]
  /\ leaked = FALSE
  /\ otherListens \in {FALSE, MayTakePort}

Thread(o) ==
  /\ LoopHead(o) \/ ServiceReturns(o) \/ Finish(o)
  /\ UNCHANGED setting

MainStep ==
  /\ Construct \/ StartPool \/ Look \/ Bury \/ Swap \/ StopGroup \/ Tell
       \/ StopReturns \/ Destroy
  /\ UNCHANGED setting

Exited ==
  /\ main = "exited"
  /\ UNCHANGED vars

Next ==
  \/ MainStep
  \/ \E o \in Objects : Thread(o)
  \/ SetExit
  \/ OtherProcess
  \/ Exited

Spec == Init /\ [][Next]_vars

(* Main and every thread keep running; neither a signal nor the other      *)
(* process owes anything.                                                  *)
FairSpec ==
  /\ Spec
  /\ WF_vars(MainStep)
  /\ \A o \in Objects : WF_vars(Thread(o))
-----------------------------------------------------------------------------
(* Properties.                                                             *)

(* The variables have their types.                                         *)
TypeOK ==
  /\ setting \in Settings
  /\ globalExit \in BOOLEAN
  /\ main \in {"construct", "start", "look", "maintain", "bury", "stop",
               "stopping", "destroy", "exited"}
  /\ pool \in 1..(Len(Pools) + 1)
  /\ target \in Objects \cup {Nobody}
  /\ toStop \subseteq Objects
  /\ active \in [PoolNames -> SUBSET Objects]
  /\ exiting \in [PoolNames -> SUBSET Objects]
  /\ dead \in [PoolNames -> SUBSET Objects]
  /\ run \in [Objects -> {"absent", "made", "loop", "serving", "ending",
                          "finished"}]
  /\ alive \subseteq Objects
  /\ told \subseteq Objects
  /\ socket \in [Objects -> {"none", "bound", "listening"}]
  /\ leaked \in BOOLEAN
  /\ otherListens \in BOOLEAN

(* From the start of the server to its end every pool has as many threads  *)
(* as were configured, whatever has died and been replaced.                *)
PoolsKeepTheirSize ==
  main \notin {"construct", "destroy", "exited"} =>
    \A p \in PoolNames : Cardinality(active[p]) = Size[p]

(* Every thread that runs belongs to exactly one pool and one of its sets, *)
(* so that somebody will join it; an object is in one of them only while   *)
(* it exists.                                                              *)
NoThreadIsLost ==
  \A o \in Objects :
    Cardinality({p \in PoolNames : o \in active[p]})
      + Cardinality({p \in PoolNames : o \in exiting[p]})
      + Cardinality({p \in PoolNames : o \in dead[p]})
    = IF run[o] = "absent" THEN 0 ELSE 1

(* Maintenance never joins a thread that has not ended: main is not held   *)
(* up by one that serves.                                                  *)
OnlyTheEndedAreBuried ==
  \A p \in PoolNames : \A o \in dead[p] : run[o] \in {"ending", "finished"}

(* The process has no thread left when main returns: whatever was moved    *)
(* between the sets, told to end or given up on, all pools' destructors    *)
(* together have joined every thread that was ever made and not buried.    *)
NoThreadSurvives ==
  main = "exited" => \A o \in Objects : run[o] = "absent"

(* Once the exit flag is set the process comes to its end, also when some  *)
(* threads do not end in time and others have not been asked to.           *)
ExitEndsProcess == globalExit ~> main = "exited"

(* When the port is free for good, the server listens on it at last,       *)
(* however often its listener had died of the other process, or exits.     *)
PortIsServed ==
  Interface[setting] # "none" /\ <>[](~otherListens) =>
    []<>(globalExit \/ \E o \in Objects : socket[o] = "listening")

(* A server whose configuration names an address never serves clients of   *)
(* every interface instead, unless it was told to log nothing: the exit    *)
(* flag that the constructor of the address sets is seen before listen.    *)
ListensAsConfigured ==
  (\E o \in Objects : socket[o] = "listening") /\ Interface[setting] = "any" =>
    setting.bindIp = <<>> \/ ~setting.logged

(* The service that opens a socket closes it in its destructor, so that    *)
(* none is ever open that no service knows of.                             *)
SocketsAreKnown == ~leaked
=============================================================================
