------------------------------- MODULE Logging -------------------------------
(***************************************************************************)
(* The diagnostics: the LOG_ macros of cc_log.h and the log file of        *)
(* cc_file.h under the threads that call them. A call asks whether its     *)
(* level is on, which the first call of all finds out for everybody in a   *)
(* chain of statics, each initialised by one thread while others wait;     *)
(* then it writes its lines, to the console and to the file. LOG_FATAL     *)
(* writes two lines and sets the global exit flag.                         *)
(*                                                                         *)
(* The configuration is valid and fixed before the first call. That        *)
(* is_level_on does not look at it again in the thread that has            *)
(* initialised a static (guard_off) makes no difference then.              *)
(***************************************************************************)
EXTENDS Naturals, Sequences, FiniteSets

LOCAL INSTANCE SequencesExt

CONSTANTS
  Threads,
  NoThread,     \* no thread
  Called,       \* the levels at which threads log
  Settings,     \* configurations: [level, console, output] records
  FileMayFail,  \* writes to the log file may fail
  MaxCalls      \* bounds the calls of a thread

(* From the least severe to the most severe. The configuration also knows  *)
(* the level dev.                                                          *)
Ladder == <<"trace", "debug", "info", "warn", "error", "fatal">>

Levels == {Ladder[i] : i \in DOMAIN Ladder}

ASSUME LoggingAssumption ==
  /\ NoThread \notin Threads
  /\ Called \subseteq Levels
  /\ Settings \subseteq
       [level : Levels \cup {"dev"}, console : BOOLEAN, output : BOOLEAN]
  /\ FileMayFail \in BOOLEAN
  /\ MaxCalls \in Nat

VARIABLES
  setting,   \* the configuration
  guard,     \* who initialises the static `on' of each level
  known,     \* the levels whose static is initialised
  on,        \* its value
  pc,        \* where each thread is
  calls,     \* the levels of the calls each thread has made, the last one open
  asked,     \* the levels a thread is inside is_level_on of, outermost first
  answer,    \* what is_level_on has just returned: "yes", "no", or "none"
  line,      \* which line of its call a thread writes
  holder,    \* who has the log file's mutex
  screen,    \* what has come to the console, line by line
  file,      \* what has come to the log file, in pieces: a line has two
  broken,    \* a write to the log file has failed
  exitFlag   \* the global exit flag

levelVars == <<guard, known, on>>

outVars == <<holder, screen, file, broken, exitFlag>>

vars == <<setting, levelVars, pc, calls, asked, answer, line, outVars>>

Goto(t, place) == pc' = [pc EXCEPT ![t] = place]

CallOf(t) == Last(calls[t])
-----------------------------------------------------------------------------
(* Is the level on?                                                        *)

(* Mutant: the level info is none of those that are listed.                *)
NeverOff == FALSE

(* The configured level is none of those that are listed, which leaves out *)
(* info and lists trace twice: it is info or dev.                          *)
AllLevelsOff ==
  setting.level \notin {"trace", "debug", "warn", "error", "fatal"}

IsConsulted == setting.console \/ setting.output

(* What a level's static is, as far as that does not depend on the next    *)
(* lower level's.                                                          *)
IsOnByItself(level) ==
  \/ level \notin {"trace", "debug"} /\ AllLevelsOff
  \/ setting.level = level

IsDecided(level) == IsOnByItself(level) \/ level = "trace"

(* The level whose is_level_on is asked next.                              *)
NextLower(level) == Ladder[(CHOOSE i \in DOMAIN Ladder : Ladder[i] = level) - 1]

Answer(t, value) ==
  answer' = [answer EXCEPT ![t] = IF value THEN "yes" ELSE "no"]

(* A macro asks for its level, unless nothing is logged at all: then       *)
(* is_level_on returns false and the call is over.                         *)
Call(t) ==
  /\ pc[t] = "idle"
  /\ Len(calls[t]) < MaxCalls
  /\ \E level \in Called :
       /\ calls' = [calls EXCEPT ![t] = Append(@, level)]
       /\ IF IsConsulted
          THEN Goto(t, "asking") /\ asked' = [asked EXCEPT ![t] = <<level>>]
          ELSE UNCHANGED <<pc, asked>>
  /\ UNCHANGED <<setting, levelVars, answer, line, outVars>>

(* Entering is_level_on: the static is there; or this thread is the one to *)
(* initialise it, and finds its value, or has to ask for the next level.   *)
(* While another thread initialises it this one waits.                     *)
Enter(t) ==
  LET level == Last(asked[t]) IN
  /\ pc[t] = "asking" /\ asked[t] # <<>> /\ answer[t] = "none"
  /\ \/ /\ level \in known
        /\ asked' = [asked EXCEPT ![t] = Front(@)]
        /\ Answer(t, on[level])
        /\ UNCHANGED levelVars
     \/ /\ level \notin known /\ guard[level] = NoThread
        /\ IsDecided(level)
        /\ known' = known \cup {level}
        /\ on' = [on EXCEPT ![level] = IsOnByItself(level)]
        /\ asked' = [asked EXCEPT ![t] = Front(@)]
        /\ Answer(t, IsOnByItself(level))
        /\ UNCHANGED guard
     \/ /\ level \notin known /\ guard[level] = NoThread
        /\ ~IsDecided(level)
        /\ guard' = [guard EXCEPT ![level] = t]
        /\ asked' = [asked EXCEPT ![t] = Append(@, NextLower(level))]
        /\ UNCHANGED <<known, on, answer>>
  /\ UNCHANGED <<setting, pc, calls, line, outVars>>

(* The lower level has answered, and that is the value of the static.      *)
Initialise(t) ==
  LET level == Last(asked[t]) IN
  /\ pc[t] = "asking" /\ asked[t] # <<>> /\ answer[t] # "none"
  /\ known' = known \cup {level}
  /\ on' = [on EXCEPT ![level] = answer[t] = "yes"]
  /\ guard' = [guard EXCEPT ![level] = NoThread]
  /\ asked' = [asked EXCEPT ![t] = Front(@)]
  /\ UNCHANGED <<setting, pc, calls, answer, line, outVars>>

Answered(t) ==
  /\ pc[t] = "asking" /\ asked[t] = <<>>
  /\ IF answer[t] = "yes" THEN Goto(t, "compose") ELSE Goto(t, "idle")
  /\ answer' = [answer EXCEPT ![t] = "none"]
  /\ line' = [line EXCEPT ![t] = 1]
  /\ UNCHANGED <<setting, levelVars, calls, asked, outVars>>
-----------------------------------------------------------------------------
(* The lines.                                                              *)

LinesOf(level) == IF level = "fatal" THEN 2 ELSE 1

(* What is written: the thread, the number of its call, its level and the  *)
(* line.                                                                   *)
LineOf(t) ==
  [thread |-> t, call |-> Len(calls[t]), level |-> CallOf(t), line |-> line[t]]

(* The next line, or the call is over.                                     *)
LineDone(t) ==
  IF line[t] < LinesOf(CallOf(t))
  THEN Goto(t, "compose") /\ line' = [line EXCEPT ![t] = @ + 1]
  ELSE Goto(t, "idle") /\ UNCHANGED line

(* operator<< puts the line together; for the level fatal it sets the exit *)
(* flag. The static in it, again whether the level is on, is known by now. *)
Compose(t) ==
  /\ pc[t] = "compose"
  /\ exitFlag' = (exitFlag \/ CallOf(t) = "fatal")
  /\ Goto(t, "show")
  /\ UNCHANGED <<setting, levelVars, calls, asked, answer, line, holder,
                 screen, file, broken>>

(* The logger's destructor flushes: to the console first.                  *)
Show(t) ==
  /\ pc[t] = "show"
  /\ screen' = IF setting.console THEN Append(screen, LineOf(t)) ELSE screen
  /\ IF setting.output THEN Goto(t, "lock") /\ UNCHANGED line ELSE LineDone(t)
  /\ UNCHANGED <<setting, levelVars, calls, asked, answer, holder, file, broken,
                 exitFlag>>

(* Mutant: whether anybody has the mutex does not matter.                  *)
LockAnyway(t) ==
  /\ pc[t] = "lock"
  /\ holder' = t
  /\ Goto(t, "write")
  /\ UNCHANGED <<setting, levelVars, calls, asked, answer, line, screen, file,
                 broken, exitFlag>>

(* c_ofile::write takes the file's mutex.                                  *)
Lock(t) ==
  /\ pc[t] = "lock"
  /\ holder = NoThread
  /\ holder' = t
  /\ Goto(t, "write")
  /\ UNCHANGED <<setting, levelVars, calls, asked, answer, line, screen, file,
                 broken, exitFlag>>

Piece(t, half) == [of |-> LineOf(t), half |-> half]

(* The system is given a line in pieces. When one cannot be written, the   *)
(* stream is bad and stays so, and nobody looks at what write returns.     *)
Put(t, half) ==
  \/ /\ ~broken
     /\ file' = Append(file, Piece(t, half))
     /\ UNCHANGED broken
  \/ /\ FileMayFail \/ broken
     /\ broken' = TRUE
     /\ UNCHANGED file

(* Mutant: a write that has failed is tried again.                         *)
WriteAgain(t) ==
  /\ pc[t] = "write"
  /\ Put(t, 1)
  /\ IF broken' THEN UNCHANGED pc ELSE Goto(t, "flush")
  /\ UNCHANGED <<setting, levelVars, calls, asked, answer, line, holder, screen,
                 exitFlag>>

Write(t) ==
  /\ pc[t] = "write"
  /\ Put(t, 1)
  /\ Goto(t, "flush")
  /\ UNCHANGED <<setting, levelVars, calls, asked, answer, line, holder, screen,
                 exitFlag>>

(* Flushed, and the mutex is given back.                                   *)
Flush(t) ==
  /\ pc[t] = "flush"
  /\ Put(t, 2)
  /\ holder' = NoThread
  /\ LineDone(t)
  /\ UNCHANGED <<setting, levelVars, calls, asked, answer, screen, exitFlag>>
-----------------------------------------------------------------------------
Init ==
  /\ setting \in Settings
  /\ guard = [l \in Levels |-> NoThread]
  /\ known = {}
  /\ on = [l \in Levels |-> FALSE]
  /\ pc = [t \in Threads |-> "idle"]
  /\ calls = [t \in Threads |-> <<>>]
  /\ asked = [t \in Threads |-> <<>>]
  /\ answer = [t \in Threads |-> "none"]
  /\ line = [t \in Threads |-> 1]
  /\ holder = NoThread
  /\ screen = <<>>
  /\ file = <<>>
  /\ broken = FALSE
  /\ exitFlag = FALSE

InCall(t) ==
  \/ Enter(t) \/ Initialise(t) \/ Answered(t)
  \/ Compose(t) \/ Show(t) \/ Lock(t) \/ Write(t) \/ Flush(t)

(* Every thread has made its calls.                                        *)
Done ==
  /\ \A t \in Threads : pc[t] = "idle" /\ Len(calls[t]) = MaxCalls
  /\ UNCHANGED vars

Next == Done \/ \E t \in Threads : Call(t) \/ InCall(t)

Spec == Init /\ [][Next]_vars

(* A thread goes on with its call. A mutex that others keep taking is got  *)
(* at last: they have other things to do than to log.                      *)
FairSpec == Spec /\ \A t \in Threads : SF_vars(InCall(t))
-----------------------------------------------------------------------------
(* Properties.                                                             *)

(* The lines that can be in the log, and their halves.                     *)
Line == [thread : Threads, call : Nat \ {0}, level : Levels, line : 1..2]

Pieces == [of : Line, half : 1..2]

Places == {"idle", "asking", "compose", "show", "lock", "write", "flush"}

(* The variables have their types.                                         *)
TypeOK ==
  /\ setting \in Settings
  /\ guard \in [Levels -> Threads \cup {NoThread}]
  /\ known \subseteq Levels
  /\ on \in [Levels -> BOOLEAN]
  /\ pc \in [Threads -> Places]
  /\ calls \in [Threads -> Seq(Levels)]
  /\ asked \in [Threads -> Seq(Levels)]
  /\ answer \in [Threads -> {"none", "yes", "no"}]
  /\ line \in [Threads -> 1..2]
  /\ holder \in Threads \cup {NoThread}
  /\ screen \in Seq(Line)
  /\ file \in Seq(Pieces)
  /\ broken \in BOOLEAN
  /\ exitFlag \in BOOLEAN

Severity(level) ==
  CHOOSE i \in DOMAIN Ladder : Ladder[i] = (IF level = "dev" THEN "info" ELSE level)

IsWanted(level) == IsConsulted /\ Severity(level) >= Severity(setting.level)

(* The lines the calls of a thread have to write.                          *)
WantedLines(t) ==
  {l \in {[thread |-> t, call |-> c, level |-> calls[t][c], line |-> k] :
            c \in DOMAIN calls[t], k \in 1..2} :
     IsWanted(l.level) /\ l.line <= LinesOf(l.level)}

Precedes(l, m) == l.call < m.call \/ (l.call = m.call /\ l.line < m.line)

(* The lines the log file has, by the places of their ends.                *)
Written == [i \in {j \in DOMAIN file : file[j].half = 2} |-> file[i].of]

(* Each line a thread has in this log is one of those wanted of it, and    *)
(* the wanted ones that precede it are just those that stand before it.    *)
KeepsOrder(t, wanted, log) ==
  \A i \in DOMAIN log : log[i].thread = t =>
    /\ log[i] \in wanted
    /\ \A l \in wanted :
         Precedes(l, log[i]) <=> \E j \in DOMAIN log : j < i /\ log[j] = l

HasAll(wanted, log) == \A l \in wanted : \E i \in DOMAIN log : log[i] = l

(* Each thread's lines are on the console and in the log in the order of   *)
(* its calls, once each and without gaps: those at or above the configured *)
(* level and no others, whoever has found out which these are. When a call *)
(* has returned its lines are there, unless a write had failed; and then   *)
(* nothing that follows is.                                                *)
LogHasNoGaps ==
  \A t \in Threads :
    LET wanted == WantedLines(t) IN
    /\ KeepsOrder(t, wanted, Written) /\ KeepsOrder(t, wanted, screen)
    /\ pc[t] = "idle" /\ setting.output /\ ~broken => HasAll(wanted, Written)
    /\ pc[t] = "idle" /\ setting.console => HasAll(wanted, screen)

(* No line of the log has another one inside: all that can be missing is   *)
(* the end of the last.                                                    *)
LinesAreWhole ==
  \A i \in DOMAIN file :
    IF file[i].half = 1
    THEN i < Len(file) => file[i + 1].half = 2 /\ file[i + 1].of = file[i].of
    ELSE i > 1 /\ file[i - 1].half = 1

(* Whoever reads of a fatal condition, on the console or in the log, reads *)
(* it of a server that has been told to exit (operator<<).                 *)
FatalLineMeansExit ==
  (\E i \in DOMAIN screen : screen[i].level = "fatal")
    \/ (\E i \in DOMAIN file : file[i].of.level = "fatal") => exitFlag

(* Threads that find out about the levels wait for each other only from a  *)
(* higher level to a lower one, and the log's mutex is given back: every   *)
(* call returns.                                                           *)
CallsReturn == \A t \in Threads : pc[t] # "idle" ~> pc[t] = "idle"

(* A LOG_FATAL that has returned has told the server to exit: the message  *)
(* it writes says so (cc_log.h:488).                                       *)
FatalSignalsExit ==
  \A t \in Threads :
    pc[t] = "idle" /\ (\E i \in DOMAIN calls[t] : calls[t][i] = "fatal") => exitFlag
=============================================================================
