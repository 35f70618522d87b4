# Verification of multiplex-server

TLA+ models, TLC runs and TLAPS proofs for multiplex-server, a multi-threaded
request/response server in C++. Paths are relative to
`src/multiplex-server/multiplex-server/`; `src/` below is the directory of that
name inside it.

## 1. The system

One process. `main` (`multiplex-server.cpp`) loads a JSON configuration, starts
the server, and then loops: it checks that the server is alive, removes finished
elements from the pipes, replaces dead threads and sleeps 250 to 500 ms. Client
connections are multiplexed by one listener thread with `select`; requests are
read, processed and answered by three pools of threads (20 each in
`etc/config/json/1-conf.json`) that hand work to one another through four pipes.

```
 clients --> listener --(request pipe)--> readers --(datamodel pipe)--> datamodels
                ^                            |                              |
                |                            |                      (response pipe)
                |                            v                              v
                +-------------------(completed pipe)<-------------------- writers
```

### 1.1 Components

| component | state | operations | interacts with | what makes it correct |
|---|---|---|---|---|
| pipeline element (`src/pipeline/cc_server_pipeline_element.*`) | descriptor, lock flag + owner id, four completed flags, four failed flags, close flag, request and response text | `lock_with_owner_lockable`, `unlock`, `mark_as_*`, predicates, `set_*_string` | referenced by up to three pipes and one thread's `server_task` at a time | one holder at a time; flags only grow; no failure flag hides it from everybody |
| pipe (`src/utility/cc_pipe.h`) | deque, timed mutex, `_is_empty` flag | `push`, `push_with_timeout_n`, `lock_element_with_timeout`, `do_pipe_maintenance` | scanned by one pool, pushed to by the stage before it, swept by main | one thread in the deque at a time; FIFO; the flag never hides an element for good |
| server pipeline (`src/pipeline/cc_server_pipeline.*`) | four pipes | `get_next_*`, `publish_to_*_pipe`, maintenance | everything | a request moves on at every stage or goes to the completed pipe |
| connection table (`src/network/cc_network_connections.*`) | a vector of slots, the pending descriptors, the `fd_set` | add, remove, unlock, get active, get max fd | the listener alone | a slot per open descriptor; locked exactly while its request is being served |
| listener (`src/service/cc_multiplex_network_listener_service.cpp`) | the listening socket, its loop | select, accept, publish, drain the completed pipe | kernel, request pipe, completed pipe | a descriptor is closed once, and not while an element names it |
| reader (`src/service/cc_network_reader_service.cpp`) | buffer, retry count | read a header and a payload with time-outs and retries | kernel, request pipe to datamodel pipe | a whole request or a failure; never part of one |
| datamodel (`src/service/cc_datamodel_service.cpp`) | none | parse the request, compute the response | datamodel pipe to response pipe | one response for a request |
| writer (`src/service/cc_network_writer_service.cpp`) | offset, retry count | send in pieces with time-outs and retries | kernel, response pipe to completed pipe | the whole response, once |
| autocall (`src/utility/cc_autocall.h`) | a reference to a callback, an armed flag | destructor calls back | every service | unlocks and failure marks happen on every return |
| thread, thread group, pools (`src/thread/`) | active, exiting and dead sets; per-thread exit and alive flags | start, stop, maintenance | process, services | a group keeps its size; stop reaches every thread |
| process, main (`src/process/`, `multiplex-server.cpp`) | global exit flag | start, stop, maintenance, signals | everything | exit reaches every thread |
| configuration (`src/config/`, `src/json/`) | a map of elements with values | load arguments, load the file, validate, extract | read by all at start | every key the program asks for has a valid value |
| logging (`src/utility/cc_log.h`, `c_ofile` in `cc_file.h`) | the statics that remember which levels are on, the log file and its mutex | `is_level_on`, `LOG_*`, `write` | called by all; a fatal message sets the global exit flag | no thread waits for ever; lines are whole and in order; a fatal line means the end |
| networks, addresses, numbers, strings | none | format check and conversion of `bind_ip`, trimming, leading numbers, closing | configuration, listener, reader | a malformed text is not served as something else |
| reading files, nlohmann json (`cc_file.h`, `lib/`) | the lexer's and the parser's; vendored | parse, and the handler that builds the document | configuration, datamodel | accepts JSON, all of it and nothing else |
| messages, sleeps, random numbers | none | constant texts, delays | all | - |
| test client (`etc/tools/py/1/client.py`) | socket | send a request, receive once, for ever | listener's socket | environment of the model |

### 1.2 What is hard

* Every element is reachable from several pipes at once, each under its own
  mutex; only the exchange of the element's lock flag keeps two threads from
  working on it. The predicate that decides whether an element still needs work
  is read before the lock is taken and not after.
* An element is published to the next pipe before it is marked in the present
  one and unlocked, so the next stage can meet it unfinished.
* The listener closes a descriptor, and the kernel reuses the number for the
  next client, while elements, pending lists and the table still name numbers.
* Every wait is timed and every time-out is an early return: a push that did not
  happen, a maintenance that did not happen, a `select` that failed.
* Failure is spread over flags, return values and scope guards; a stage may
  publish, mark, and unlock in different combinations.
* Exit is a flag that threads see only at the head of their loops.

`PROJECT.json` lists these as hazards, each at its line, with the properties that
cover it.

## 2. Plan

Order: the behaviour every request depends on comes first.

1. `PipelineElement`, `NetworkConnections`: the data types, as operators. *(done)*
2. `ServerPipeline`: the running server, composed of both. *(done)*
3. `RequestReply`: what clients are promised, refined by `ServerPipeline`. *(done)*
4. `ServerPipelineProofs`: types, element ownership, exclusive scans; the table,
   the descriptors and the elements; that no element is given up and every
   locked connection served; the implementation of `RequestReply`, and whom the
   server hangs up on. *(done)*
5. `Pipe`, `PipeService`: one pipe at the grain of its mutex and its unprotected
   flag, and the queue it implements. *(done)*
6. `SendLoop`, `SendLoopProofs`: the writer's loop over `send`, with machine
   arithmetic. *(done)*
7. `RequestReader`, `RequestReaderProofs`: the reader's loop over `recv`, header
   and payload. *(done)*
8. `ServerLifecycle`: construction, start, replacement and end of threads. *(done)*
9. `Configuration`, `ConfigurationProofs`: loading, validating, extracting. *(done)*
10. `PipeProofs`, `ServerLifecycleProofs`, and more of `RequestReaderProofs` and
    `ConfigurationProofs`: the refinement of the queue, the bookkeeping of threads,
    the order of the buffer, the command line. *(done)*
11. `Ipv4Address`: what becomes of the configured address, in `ServerLifecycle`.
    *(done)*
12. `Logging`: who finds out which levels are on, and the lines in the file.
    *(done)*
13. `JsonSyntax`, `JsonText`, `JsonGrammar`: the JSON library's lexer, parser and
    handler against the grammar of JSON, for what a configuration or a request
    needs. *(done)*
14. `LoggingProofs`: the lines of the log. *(done)*
15. `JsonTextProofs`: the two stacks, the numbers, and that what is accepted is
    JSON. *(done)*
16. Modelling still to do: the message types, should anything ever send one.

## 3. Modules and the code

| module | models | EXTENDS / INSTANCE |
|---|---|---|
| `PipelineElement` | `c_server_pipeline_element`, the pipes' predicates | |
| `NetworkConnections` | `c_network_connections`, `c_network_connection` | |
| `ServerPipeline` | the threads, pipes and table of the running server, with the kernel and the clients | extends both; instantiates `RequestReply` |
| `RequestReply` | what clients are promised (abstract) | |
| `Pipe` | `c_pipe` | instantiates `PipeService` |
| `PipeService` | a queue with operations that happen at once (abstract) | |
| `RequestReader` | `c_network_reader_service::service_read` | |
| `SendLoop` | `c_network_writer_service::service_write` | |
| `ServerLifecycle` | `main`, `c_server`, `c_thread_group`, `c_thread`, the services' loops, the listening socket | extends `Ipv4Address` |
| `Ipv4Address` | `is_ipv4_address_format` and the address made of `bind_ip` (operators) | |
| `Configuration` | `c_config`, `c_json`, `c_config_element`, `c_process_factory`, `main` up to `start_process` | |
| `Logging` | the `LOG_` macros, `c_configurator`'s statics, `c_ofile` | |
| `JsonText` | `c_ifile::read`, and of the JSON library the lexer, the parser and the handler | extends `JsonSyntax` |
| `JsonSyntax` | symbols; numbers and their values; the productions of JSON (reference) | |
| `JsonGrammar` | the document that a text denotes (reference, recursive) | extends `JsonSyntax` |
| `MC*` | small instances for TLC | |
| `*Proofs` | theorems | |

`PROJECT.json` maps every definition to its lines.

### 3.1 ServerPipeline

State. `elements` is the heap: an address holds a record of the fields of
`c_server_pipeline_element`. `pipes` are the deques, `mutex` their mutexes. `pc`,
`cursor`, `task` and `outcome` are the threads' locals. `table` and `pending` are
the fields of `c_network_connections`; `phase` is the global exit flag, and
whether the process has ended. `fdTable`, `backlog` and `inbox` are the kernel's,
`client`, `sent` and `got` the clients'.

Actions. A poll (`get_next_*`, `lock_element_with_timeout`) is `Scan`, then
`LockElement`, or `LockElementFails` and `RescanFinds` or `RescanEnds`. A worker's
round is a poll, `ReadRequest` / `ProcessRequest` / `WriteResponse` or the
failing one of each, `Push`, and `Finish`, which marks and unlocks. The listener's
round is `Select` or `SelectFails`, then `Accept` or `TurnAway`, then
`PublishConnections` or `PublishExpires`, `Update`, and a poll with `Complete` for
each element of the completed pipe. Main's are `Maintain` and
`MaintenanceFails`; `Signal`, `StopThread` and `StopProcess` are the exit.

What is one step, and why it may be:

* The predicate of the scan and the exchange of the element's lock are two steps,
  because marking and unlocking do not take the pipe's mutex. The loads inside one
  predicate are one step, and so are the stores that mark and unlock an element:
  flags are only ever set, and an interleaving that sees some of them has the same
  outcome as one before or after all of them.
* A push, and a maintenance of one pipe, happen under the mutex and are one step.
  A scan of a pipe that has nothing to offer changes nothing and is left out.
  `Pipe` shows that both are sound, and that the `_is_empty` flag, which is left
  out here too, never hides an element.
* The reading of a request is one step, of which `RequestReader` is the detail;
  so is the sending of a response, of which `SendLoop` is the detail. Here
  `WriteResponse` to a client that is connected sends the whole response, once: a
  `send` that fails or times out and leaves a response half sent, twice sent in part or
  not sent, is in `SendLoop` only and not combined with the pipes. What is said of
  failures here is about `select`, the waits for a mutex, the table, the requests, the
  clients and the exit.
* The listener keeps its `server_task` until it takes the next one; the model
  drops the reference when it is done. That delays the destruction of one element
  and nothing else.
* Whether the destructor of a `c_autocall` calls back is a choice from
  `AutocallRuns`: the class keeps a reference to a `std::function` that may be a
  temporary, and what a build makes of that is undefined.

### 3.2 Pipe

Every access to the deque, the mutex and the flag is a step: waiting, `Acquire` or
`TimeOut`, `ReadFlag` (in front of the mutex for getters, as in the code),
`BeginScan`, `Test`, `LockElement`, `EndScan`; `PushBack` for each element of a
batch and then `SetFlag`; `BeginSweep`, `Remove`, `EndSweep`. `Mark` and `Unlock`
are what a service does with the element it got. What is pushed is unlocked from the
start; in the code its pusher keeps it locked until after the push, which would only
keep getters from it a while longer, and `ServerPipeline` has that lock.

### 3.3 RequestReader and SendLoop

`RequestReader` abstracts a byte to what the code tells apart (a digit, another
byte, a NUL: the buffer is appended to as a C string) and keeps which position of
the client's stream each byte of the buffer came from. Each `recv` with all the
checks behind it is one action. A verdict says why the loop ended. `VerdictIsTrue`
compares it with what was received of the stream, not with the loop's variables: with
the claim as the first bytes of the stream spell it (`HeaderIn`), and with the limits.

`SendLoop` keeps the two 64-bit widths of the offset and of the result (`ToSize`, `ToSigned`, `SizePlus` over `Half` = 2^63).

### 3.4 ServerLifecycle

Objects are addresses of `c_thread`s. `active`, `exiting`, `dead` are the three
sets of each group; `run`, `alive` and `told` what each thread does and its two
flags; `socket` the listening socket in each listener. Main constructs and starts
the pools, and then looks at the exit flag and does `Bury` and `Swap`
(`do_thread_group_maintenance`) for one pool after the other. `stop_group` is
`Tell` and `StopReturns`, which may give up waiting, and then asks no other thread
of the group. `LoopHead`, `ServiceReturns` and `Finish` are a thread's.

What is one step: leaving the service, seeing the flag at the head of the loop and
clearing the alive flag on the way out (nobody looks in between); the destruction of
one group, from the last to the first, with the joins of `~c_thread` (main does
nothing else until the last of them, and nobody reads what it destroys). It joins
and destroys what the group's sets hold at that moment (`Known`) and nothing else, so a
thread that had dropped out of the sets would be left behind. New addresses are picked by `CHOOSE`, and threads are
asked to stop in some fixed order, the one of the addresses in a `std::set`: the
threads of one pool do not differ.

### 3.5 Configuration

One behaviour is one run of the program. A file is a sequence of leaves (a path and
a value of a JSON type), so that it can say a thing twice; `Parsed` is the document
after the parser, in which the last one counts. The table of 26 elements is a
parameter: `Keys`, `TypeOf` and `Allowed`. The build does not define `NDEBUG`, so
an assertion that fails ends the process. `Trim` is what `c_strings::trim` makes of a
token of the command line: each one is trimmed when its turn comes, but the one that is
alone on it is compared with `-h` as it stands. `BraceCopies` says what
`auto json { nlohmann::json::parse(...) }` and its like make of a document: a copy
of it, or an array around it, in which every setting has another path (`Wrapped`).

The address to bind is a text of which `Ipv4Address` tells apart runs of digits,
dots and other characters. Its two counters are 8 bits wide (`CountBits`), and its
range check accepts every number. What the text is taken for is a field of
`Settings` in `ServerLifecycle`, where a malformed one makes `LOG_FATAL` set the
exit flag, if the configured level lets it.

### 3.6 Logging

A call is `Call`; then `Enter`, `Initialise` and `Answered`, over the chain of
statics of `is_level_on`: one for each level, initialised by one thread, which asks
for the level below while others wait for it. Then for each line `Compose`, `Show`
on the console, and `Lock`, `Write` and `Flush` under the mutex of the file.
`LOG_FATAL` writes two lines and sets the exit flag when it composes one. A line is
the thread, the number of its call, its level and the number of the line; the file
is a sequence of pieces, two to a line, because a write can fail between them, and
the stream is bad from then on.

### 3.7 JsonText

The text is made up while it is read, so TLC visits every text over the alphabets of
`Bounds`. A name, a word, and a string or a word with an error in it (`junk`) is one
symbol; a number is read digit by digit, with the library's automaton, because
it is what gives a setting another value. `Place` and `Put` are the
handler's. The library's limits on numbers (64 bits, a finite
double) are `MaxUnsigned`, `MinInteger` and `MaxExponent`: a double is finite if none of
its digits but 0 stands for a power of ten beyond `MaxExponent`, wherever the point
and whatever the exponent is (the digits of the largest double are not told apart). A
NUL byte is the end of the input, for the lexer and, in front of it, for the `c_str()`
that a file is passed on with; what is behind it is never read and not in the model.

The reference is there twice, because TLC needs something that computes and the
prover something that does not recur. `JsonGrammar` computes, by splitting, which
documents a text denotes; `MCJsonText` compares the parser with that
(`AcceptsOnlyJson`, `GoodTextIsRead`). `IsJson` of `JsonSyntax` is for the prover:
a text is JSON when it is in every set of texts that is closed under the
productions. Both build on the same definition of a number (`IsNumber`,
`NumberLeaf`, `CanBeHeld`).

## 4. Runs

| run | shows | instance |
|---|---|---|
| `pipeline_service` | the server implements `RequestReply`; a descriptor in an element still names the connection the element was made for | one thread per pool, 2 clients, 2 slots, 2 descriptors, 3 elements |
| `pipeline_faults` | a locked connection is carried by one element, which somebody is going to look at, the table holds exactly the open descriptors, and `RequestReply` is implemented, under bad requests, failing selects, expired waits for a mutex, a full table, an exit at any moment | the same pools, 2 clients for 1 slot, 2 elements |
| `pipeline_liveness` | good requests are answered, a client's leaving is noticed, no good request is refused and no idle connection closed, finished elements are destroyed | 1 client with 2 requests, 3 elements |
| `pools_readers` | one holder for each element, with two readers at one pipe | 2 readers, 1 client with 2 requests |
| `pipe_queue` | the flag hides nothing; the refinement of `PipeService` | 2 getters, 2 pushers (one of batches of 2), the sweeper, 3 elements |
| `send_loop` | the offset stays inside, nothing is skipped, what OK means, the loop ends | lengths 0, 1, 3, 4, 5 with pieces of 2, up to 4 failed sends |
| `request_reader` | the framing, the order of the buffer and its bound, no reason but time refuses a good message, every other verdict is true of what was received, the loop ends | a header of 2, all streams of up to 5 classes with at most two non-digits, any cut |
| `lifecycle` | no thread is lost, only ended threads are joined by maintenance, the port is served, an exit ends the process and leaves no thread, a malformed address is not served | the listener and 2 workers, 6 objects, another process on the port, good and malformed addresses |
| `configuration` | the named file is read; a server runs on exactly the good files; 0 is for help; assertions are reached by accepted files only | 2 keys of 2 types and an unknown one, 4 tokens, 3 leaves |
| `json_text` | the library accepts exactly JSON, reads it as the document it denotes, and its stacks agree | every text of up to 7 symbols of two alphabets, and of up to 11 of a third |
| `logging` | the log has whole lines without gaps, no call hangs | 2 threads with 2 calls each, 5 configurations, writes that fail |
| `two_datamodels` | violated: `RequestIsAnswered` | 2 datamodel threads |

Why the bounds are enough. Two clients and two descriptors let a descriptor be
reused while an element of its earlier connection is around; one slot for two
clients fills the table. Three elements are more than the connections that can be
served at once, so addresses are reused as well. Two threads at one pipe are enough
for every race between a predicate and a lock; more of them repeat it. Two
getters, one batch of two and one single push let every pair of operations on the
deque overlap. Five bytes are a header, a payload and a byte too many, and the
claims cover too short, empty, three payloads, too long and beyond an `int`. The
lifecycle needs six objects: every thread of the three may be dead and unburied
while its replacement exists. In the log, two threads are a thread that initialises
and one that waits, and a level that is on below one that is off; three would only
wait longer. Eleven symbols of JSON are a container in a container with a second
member behind it, seven are a number with sign, fraction and exponent between
brackets, or one that a line end cuts. Symmetry is used in safety runs only, over
connections, threads of one pool, getters and elements.

`CHECK_DEADLOCK FALSE` is used for `Configuration` and `JsonText` only: the
program's run, and the text, end. Elsewhere the end has a step of its own.

### 4.1 Further configurations

These are kept for use by hand; `tlc -config X.cfg M`. The first two pass, the
others end in the violation that section 6 names.

| configuration | module | question |
|---|---|---|
| `Shutdown.cfg` | `MCServerPipeline` | `ExitStops`: a signal at any moment brings all threads to the head of their loops |
| `PipeProgress.cfg` | `MCPipe` | what is pushed is served and removed, if time-outs are not for ever |
| `TwoReaders.cfg`, `TwoWriters.cfg`, `SelectError.cfg` | `MCServerPipeline` | `ServesRequests`, `OneResponsePerRequest`, `IdleStaysConnected` |
| `SendRetries.cfg`, `SendError.cfg` | `MCSendLoop` | `RetriesBoundFailures`, `OkMeansSent` |
| `ReaderRetryZero.cfg` | `MCRequestReader` | `TriedBeforeGivingUp` |
| `SocketLeak.cfg` | `MCServerLifecycle` | `SocketsAreKnown` |
| `DuplicateKey.cfg`, `PortNarrowed.cfg`, `MissingKey.cfg` | `MCConfiguration` | `DuplicatesAreRefused`, `ConfiguredPortIsBound`, `ExtractFindsEveryKey`; and, with its last line changed to it, `EveryProcessTypeIsHandled` |
| `ArrayOfOne.cfg` | `MCConfiguration` | `GoodTextIsServed` when braces make an array |
| `FatalUnlogged.cfg` | `MCLogging` | `FatalSignalsExit` |

### 4.2 Fairness

* `ServerPipeline`: strong fairness for every worker and the listener. They wait for
  timed mutexes that others take and give back, and every poller sleeps 25 to 50 ms
  between two attempts that take microseconds, so a thread that keeps trying gets
  in. Strong fairness for main's maintenance for the same reason. Weak fairness for
  the end of the process. Clients, signals and failures owe nothing.
* `Pipe`: `PipeProgress.cfg` alone assumes it; what is done under the mutex takes
  microseconds and a wait for it 25 ms at least, so time-outs are not for ever.
* `RequestReader`, `SendLoop`: the thread goes on. Each retry waits for a time-out
  of `recv` or `send`, which comes. Failing sends are bounded by `MaxFailures`.
* `ServerLifecycle`: main and each thread go on. The other process, and signals, owe
  nothing; `PortIsServed` assumes that the other process is gone for good.
* `Configuration`: the program's one thread goes on.
* `Logging`: strong fairness for what a thread does inside a call. Nobody keeps the
  file's mutex for longer than a line, and threads have other things to do than to
  log, so one that waits for it gets it.
* `JsonText`: none; its properties are invariants.

## 5. Proofs

| theorem | module | says |
|---|---|---|
| `TypeCorrect`, `ElementsHaveOneHolder`, `ScansAreExclusive` | `ServerPipelineProofs` | `TypeOK`, `ElementOwnership`, `ScannerHoldsMutex` for pools, heaps and tables of any size, with every failure and every choice of `AutocallRuns` |
| `TableIsExact`, `DescriptorsStayCurrent` | `ServerPipelineProofs` | `TableMatchesDescriptors`, `DescriptorIsCurrent` for the same |
| `NoElementIsStranded`, `LockedAreServed` | `ServerPipelineProofs` | `NothingStranded`, `LockedConnectionIsServed` for one reader, one datamodel thread and any number of writers; the rest as above |
| `ServiceIsImplemented` | `ServerPipelineProofs` | `ServesRequests`: for one thread in each pool and autocalls that call, with failing selects, expired waits, a full table and bad requests, the server is a `RequestReply`, for any number of clients, descriptors, slots and elements |
| `IdleAreKept`, `GoodRequestsAreKept` | `ServerPipelineProofs` | `IdleStaysConnected` for the same and a `select` that does not fail; `GoodRequestIsNotRefused` for good requests, no failing call and no exit |
| `FlagNeverHides`, `PipeIsGuarded`, `PipeImplementsQueue` | `PipeProofs` | `FlagHidesNothing`; `MutualExclusion`, `FlagIsExact`, `CursorInside`; `ImplementsQueue`: for any number of getters, pushers and elements, and batches of any length, a `Pipe` is a `PipeService` |
| `OffsetStaysInside`, `SendsWithoutGaps`, `SendsExactly`, `OkHasSent` | `SendLoopProofs` | `SendsInsideResponse`, `NothingSkipped`, `ExactWithoutFailures`, `OkCoversResponse` for any lengths, pieces, limits and word size |
| `FramingIsRight`, `BufferStaysBounded`, `BytesKeepTheirOrder`, `GoodMessagesAreAccepted`, `MissingHeaderIsDead`, `VerdictsAreTrue` | `RequestReaderProofs` | `OkIsWholeMessage`, `BufferBounded`, `BufferIsInOrder`, `GoodMessageIsAccepted`, `HeaderNeverMissing`, `VerdictIsTrue` for any streams, cuts and sizes |
| `EveryThreadIsKept`, `BuriedHaveEnded`, `NoThreadOutlivesMain`, `PoolsStayFull`, `MalformedIsNotServed` | `ServerLifecycleProofs` | `NoThreadIsLost`, `OnlyTheEndedAreBuried`, `NoThreadSurvives`, `PoolsKeepTheirSize`, `ListensAsConfigured` for pools of any number and size |
| `TypeCorrect`, `LinesStayWhole`, `LogsAreComplete`, `FatalMeansExit` | `LoggingProofs` | `TypeOK`, `LinesAreWhole`, `LogHasNoGaps`, `FatalLineMeansExit` for any number of threads and calls, any configuration, and writes that fail at any place |
| `OnlyGoodConfigurationsServe`, `OnlyAcceptedFilesAbort`, `TheNamedFileIsRead` | `ConfigurationProofs` | `OnlyGoodTextServes`, `AbortsOnlyOnAccepted`, `ReadsTheNamedFile` for any keys, types, constraints, command lines and files |
| `StacksAreInStep` | `JsonTextProofs` | `StacksAgree` for texts over any alphabet, of any length and nested as deeply as they may be |
| `NumbersAreRead` | `JsonTextProofs` | what the scanner returns as a number is one (`IsNumber`), with the type and the value the grammar gives it (`NumberLeaf`), for numbers of any length and any limits of integers |
| `AcceptedIsJson` | `JsonTextProofs` | what the parser accepts is JSON (`IsJson`), for the same texts |

The assumptions are those of the modules: pools are disjoint, 0 is no address and no
descriptor, sizes are natural numbers, a response is shorter than 2^63.

* `ServerPipelineProofs`. The invariant is `TypeOK /\ ScannerHoldsMutex /\
  ElementOwnership`, and none of the three is inductive alone: that a thread's
  candidate is an element needs that the deque has not shrunk under its index, which
  needs that only the holder of the mutex changes it; that locking an element makes
  one holder needs that whoever has it in hand has it locked; and that `Finish` frees
  the right one needs that its owner is the thread itself. Most steps leave two of
  the three alone, which the `Frame` lemmas say once. The memory of a destroyed
  element is reused, so maintenance needs that no thread holds what it removes:
  `Referenced` includes the tasks.
* `ServerPipelineProofs`, second part: `Connected`. That a descriptor still stands
  for an element's connection needs that nobody else closes it, so each unfinished element must have its own
  (`ElementsAreLocked`): its slot is locked, it is not pending, and no
  second element names it. That holds because only what was not locked is queued
  (`Queued`), because each descriptor is pending once (`PendingAreLocked`), and
  because the listener completes an element once (`ListenerTakesUnfinished`: nobody
  but the listener marks an element completed between its test and its lock). That a
  new descriptor is nobody's needs that what is not open is not in the table, which is
  `TableMatchesDescriptors`; that in turn needs that a slot is found for what is
  removed. All other steps can only make elements fewer (`ConnectionsKept`). The
  argument does not depend on the races at one pipe, so it holds for pools of
  any size, where `GoodRequestIsNotRefused` does not.
* `ServerPipelineProofs`, third part: `Journey`. An element on its way waits in the
  pipe of the stage that its marks say is next, and no mark of a failure makes the
  others pass over it (`WaitsForNextStage`). That needs that a stage is not gone
  through twice (`WorkedOnInTurn`): a thread that has come to look at an element
  still finds it as it was when it tested the predicate. With two threads in the
  pool that is false, and `two_datamodels` shows what becomes of it; hence
  `OneReaderOneDatamodel`. Two writers only hand the element to the listener twice,
  which takes it once. `ConnectionsServed` then says that a locked connection is
  pending or has an element, and `Connected` that it has not both or two.
* `ServerPipelineProofs`, fourth part. `Passage`: behind the reader an element has a
  request, behind the datamodel a response to it, and what is to be closed is in the hands of the
  worker that is about to give it to the listener. `Settlement`: what the listener
  has got no worker takes up again, so that what it closes nobody writes to; that
  needs that failure marks are not lost (`AutocallRuns = {TRUE}`). `Places`: a
  connection has one descriptor, or one place in the queue, or neither. `Traffic`: what is not
  yet read is the last request of its connection, and an element that has read a
  request and not answered it has the last one of its connection. From these,
  `ServiceSteps` maps every action to a step of `RequestReply`: what a client does to
  its own step, `WriteResponse` to `Reply` or, when the client is gone, a stutter,
  whatever takes connections away to `Close`, every other action to a stutter. The
  hypothesis `OneThreadPerPool` is needed. With two writers a response may be sent
  again (`TwoWriters`). With two readers the second hands the element to the
  listener, which closes the connection, and the writer, who has tested the predicate
  before, sends the response to the client that has got the descriptor since
  (`TwoReaders`).
  `OnlyBusyAreRefused`: what is pending or unread is readable, so a reader
  fails only for a client that has hung up or has sent something; a failing `select`
  reports what is not readable (`SelectError`), hence `SelectMayFail = FALSE`.
  `RefusedHaveLeft` adds, with `NothingGoesWrong`, that only who has left is closed.
* `PipeProofs`. What a pusher still has to append is known to nobody else
  (`BatchesAreNew`, `BatchesArePending`), so no element is in the deque twice
  (`NoneIsTwice`) and removing one removes it once. What a pusher has appended
  is at the end of the deque until it sets the flag (`PushedIsLast`); a
  getter that holds an element has found it in the deque (`FoundIsHeld`). Except
  inside a sweep, the flag says whether what has been published is nothing
  (`FlagIsCurrent`). For the refinement
  the abstract queue is the deque without what the pusher inside has appended so
  far (`Published`): a whole batch enters it when the flag is set, and removal
  happens when the sweep takes an element. Every other step is a stutter.
* `SendLoopProofs`. The offset is in -1..length, below 0 only after a failure and
  only when OK was returned (`OffsetRange`); what has gone out ends at the offset or
  behind it (`OffsetIsBacked`). `AdvanceEffect` shows that the detour through
  `size_t` adds exactly what `send` returned.
* `RequestReaderProofs`. `HeaderIsKept`: while the loop goes on, a number that was
  read is the claim, the header was digits, and the buffer is inside both limits.
  `InOrder` relates each byte of the buffer to its place in the stream. Of a
  good message nothing is lost: the buffer is the `Beginning` of the stream, as far as
  it was consumed, and none of the checks finds anything wrong with that
  (`GoodIsKept`). While no NUL has come, the buffer is what was received, so each test
  of the buffer that ends the loop is one of the stream (`VerdictOfBuffer`), and the
  verdict stays true (`Decided`).
* `ServerLifecycleProofs`. The sets of the groups are apart and know every object
  that exists (`GroupsAreApart`, `WhatExistsIsKnown`), in the middle of maintenance
  and of stopping too; a thread is alive until it leaves (`AliveUntilLeft`), and who
  is in a dead set has left (`DeadHaveLeft`). All of this holds during destruction as
  well, where the pools from the last on are gone (`PoolsAreGone`). So when the process
  has ended nothing is known, and because what exists is known, nothing exists
  (`NoThreadOutlivesMain`). A thread that is swapped
  out makes room for exactly one (`PoolsAreFull`), which needs that there are free
  objects, hence finite sets and their cardinalities. A malformed
  address that was logged has set the exit flag before the loop begins
  (`MalformedIsFatal`).
* `ConfigurationProofs`. Each phase leaves something to the next: the settings are
  the parsed file, all of them are valid, the members of `c_config` are what the
  settings say, the process is a server. An abort is traced back to the phase that
  has accepted (`AbortInv`); `ArgsInv` says that names and values
  take turns in what has been read of the command line, and that the last value is
  its file's name once all of it is read.

* `LoggingProofs`. `StaticsAreRight` and `KnowsItsLevel`: a static that is there says
  what the configuration asks for, and the levels a thread asks for on its way
  down are, for this configuration, as good as its call's. `LogsAreUpToDate` says, of
  each thread and each of the two outputs, how far it has got: the lines before the
  one it is about to put there are there, in their order, and none behind it. That
  needs that a call takes the lines of `WantedLines` and no others. `LinesAreWhole` needs
  that only the holder of the mutex writes (`HolderWrites`), and what the end
  of the file is while it does (`EndsAsWritten`). `FatalIsTold`: from its first line
  on, a `LOG_FATAL` has set the flag.
* `JsonTextProofs`, first part: `Stacks`. The paths of the open containers are one
  step longer each and each the front of the next (`OpenPaths`), which is why
  putting a value at `Place`, one step below the last (`PlaceIsBelow`), removes
  none of them from the document. `Expects` says which container is open where the
  parser is, and `MemberIsThere` that a name has made room for its value.
* `JsonTextProofs`, second part: `NumberInv`. In each state of the automaton the
  buffer has the form of a beginning of a number (`IsSoFar`), written as a
  concatenation of a sign, a whole, a fraction and an exponent; in the states
  from which the scanner returns, that form is a number, and `number_type` is the
  type the grammar gives it (`NumberEnds`). `NumberGrows` has one case for each edge.
* `JsonTextProofs`, third part: `SyntaxInv`. `IsJson` quantifies over all sets of
  values, elements and members that are closed under the productions, so the
  invariant does too (`Languages`). It splits what has been consumed, without the
  symbol to be read again, into what is `Said` up to the parser's place and what the
  lexer `Holds`. `Said` is the head of each open container in turn (`Before`, with
  `ArrayHeads` and `MemberHeads`) and the beginning that belongs to the place
  (`Tails`); what `Holds` is a token, or a number that becomes one with any rest
  that makes the buffer a number. Each action of the parser then appends its token
  to what is said, by the production it stands for (`StartIsSaid`, `NameIsSaid`,
  `SeparatorIsSaid`, `EndIsSaid` and so on); behind the last value, with the stack
  empty, what is said is a value (`EndIsValue`). The joined lines are one more
  closure, `LinesAreJoined`, which is asked for only of texts that have line ends.
  `NoJsonIsEmpty` shows that the definition excludes something.

Only model-checked: everything about time (`RequestIsAnswered`, `HangUpIsNoticed`,
`CompletedIsReclaimed`, `SendEnds`, `ReadEnds`, `PortIsServed`, `ExitEndsProcess`,
`GoodTextIsServed`, `CallsReturn`), for which the prover has no means; and two
properties of the JSON parser. `GoodTextIsRead`, that all of JSON is accepted and read
as the document it denotes, is an induction over the text and a recursive grammar.
`AcceptsOnlyJson` compares with the same grammar; `AcceptedIsJson` is its counterpart
for every text, with the productions in the place of the recursion. That the two
references agree is not proved. Every other property of a run that passes is a
theorem.

## 6. Where the code differs from what it says

Shown by a run:

* `two_datamodels`. The skip predicate is tested before the element is locked
  (`src/utility/cc_pipe.h:178`) and not again. A second datamodel thread can lock
  what the first has published, cannot set the response again, and marks the element
  failed: no writer takes it any more, the client is never answered, and its
  connection stays locked. The shipped configuration has 20 threads in each pool.

Shown by the further configurations:

* `TwoReaders`: the same race makes a second reader hang up on a good request, and
  the response to it may go to another client, whose connection has got the
  descriptor since.
* `TwoWriters`: the same race makes a second writer send a response again.
* `SelectError`: after a failed `select` the set still names every descriptor, idle
  connections are queued for reading, and time out.
* `SendRetries`: a failed send is not counted as a retry.
* `ReaderRetryZero`: a limit of 0, which is valid, leaves the loop before its first
  `recv`.
* `SocketLeak`: a `bind` that fails forgets its socket.
* `MissingKey` with `EveryProcessTypeIsHandled` for its invariant: the process type
  `client` is valid and fails the factory's assertion.
* `DuplicateKey`: the check for duplicates looks at a document in which the parser
  has already dropped them.
* `PortNarrowed`: a port beyond 16 bits is valid, and another one is bound.
* `SendError`: `send`'s -1 is kept in a `size_t` (`cc_network_writer_service.cpp:197`);
  at the beginning of a response it makes the writer return OK for nothing.
* `MissingKey`: validation visits the keys the file has; a key left out reaches
  `assert(!"extract - cannot get here")` (`cc_config.cpp:416`).
* `FatalUnlogged`: "FATAL message will signal exit" (`cc_log.h:488`), but a server that
  logs neither to the console nor to a file never composes one, and stays.
* `ArrayOfOne`: `auto json { nlohmann::json::parse(...) }` and the parameter passed on in
  braces (`cc_config.cpp:236`) copy the document with the compiler of the Xcode project
  and make an array of one element of it with g++, the compiler of
  `etc/build/Makefile`. Every setting then has another path, and every file is refused.

Seen in passing and in no run: `c_ofile`'s `_valid` is the opposite of what its name
says, and nobody reads it (`cc_file.h`).

## 7. Not modelled

* `SIGPIPE`: a send to a connection that was reset raises it, main leaves its default
  action, and the process ends. `SendLoop`'s sends only return -1.
* What an exception that leaves a thread does (`stoi` of a header beyond an `int`):
  `RequestReader` ends in "terminated", which ends the process.
* Messages (`src/message/`): the one for a bad request is composed when a request is
  refused, and the connection is closed without it. Sleeping and random numbers:
  delays are arbitrary in the models.
* The contents of requests and responses: a response is the request it answers. Among
  them is the arithmetic on `ping_id` (`cc_datamodel_service.cpp:74`), which narrows any
  JSON number to an `int` and adds one.
* Of the JSON library: the inside of strings and their UTF-8, the byte order mark,
  comments and callbacks, which the program does not ask for, and the serialiser, of
  which it uses `dump` of a string. The rest of that header, three quarters of
  the repository's lines, is never called.
* Of the log: the wording, the time stamps and the colours.
* The switch (`internal.test.speed.slow`), which lengthens sleeps.
