---------------------------- MODULE Configuration ----------------------------
(***************************************************************************)
(* From the command line to a process that serves: c_config::init and the  *)
(* part of main that precedes start_process.  One behaviour is one run of  *)
(* the program.  The tokens of the command line, the file's bytes and the  *)
(* values of the settings are abstracted to what the code tells apart:     *)
(*   - a token is one of a small set, and Trim gives what is left of it    *)
(*     without the white space around it: Blank if nothing is;             *)
(*   - the text of the file is the sequence of its leaves in the order     *)
(*     they are written, each with its path and its value, so that a path  *)
(*     may be written twice; nested objects only make the paths longer;    *)
(*   - a value is its JSON type and a number: the integer itself, or the   *)
(*     number of a string in some enumeration.                             *)
(* The build has no -DNDEBUG (etc/build/Makefile), so an assertion that    *)
(* fails ends the process: "aborted".                                      *)
(***************************************************************************)
EXTENDS Naturals, Sequences

CONSTANTS
  Keys,         \* the paths that configure() declares
  OtherPaths,   \* paths that it does not
  TypeOf,       \* Keys -> the type of the element at that path
  Allowed,      \* Keys -> the values that satisfy its constraints
  ProcessType,  \* the key of the type of process to run ...
  ServerType,   \* ... and the value of it that stands for "server"
  Port,         \* the key of the port
  PortModulus,  \* 2^16 in the code: a port is a 16-bit number
  Option,       \* the token -f, as a name
  Help,         \* the token -h
  Blank,        \* the empty token
  Words,        \* the other tokens: file names, -F, options nobody knows,
                \* and tokens with white space around them
  Trim,         \* tokens -> tokens
  ToLower,      \* tokens -> tokens
  MaxTokens,    \* bounds the length of the command line
  BraceCopies,  \* whether json j { document } copies the document, as it does
                \* with the compiler of Xcode; with g++ it is an array of one
  Wrapped,      \* paths -> the same paths inside of such an array
  Values,       \* the values a file may hold: [type, datum] records
  MaxLeaves     \* bounds the number of leaves of a file

Types == {"string", "boolean", "integer", "float"}

Tokens == {Option, Help, Blank} \union Words

ASSUME KeysAssumption ==
  /\ TypeOf \in [Keys -> Types]
  /\ Allowed \in [Keys -> SUBSET Nat]
  /\ ProcessType \in Keys /\ Port \in Keys /\ ProcessType # Port
  /\ ServerType \in Allowed[ProcessType]
  /\ OtherPaths \intersect Keys = {}
  /\ PortModulus \in Nat \ {0}
  /\ \A v \in Values : v.datum \in Nat

ASSUME CopyAssumption ==
  /\ BraceCopies \in BOOLEAN
  /\ \A p \in Keys \union OtherPaths :
       /\ Wrapped[p] \notin Keys
       /\ \A q \in Keys \union OtherPaths : Wrapped[p] = Wrapped[q] => p = q

ASSUME TokensAssumption ==
  /\ Help # Option /\ Blank # Option /\ Help # Blank
  /\ Trim \in [Tokens -> Tokens]
  /\ \A t \in {Option, Help, Blank} : Trim[t] = t
  /\ ToLower \in [Tokens -> Tokens]
  /\ ToLower[Option] = Option
  /\ \A w \in Words : w \notin {Help, Blank, Option} /\ ToLower[w] \notin {Help, Blank}

VARIABLES
  argv,       \* argv[1..argc-1]
  phase,      \* where the run is
  taken,      \* the tokens that load_arguments has consumed
  name,       \* the option that waits for its value, or Blank
  arguments,  \* the options with their values
  text,       \* the leaves written in the file, once it was read
  settings,   \* what the JSON reader extracted: paths -> values
  config,     \* the members of c_config: keys -> numbers
  help,       \* _help_requested
  exit        \* how the process ended: "running" (it has not),
              \* "zero", "one" (what main returns) or "aborted"

vars == <<argv, phase, taken, name, arguments, text, settings, config, help, exit>>

Paths  == Keys \union OtherPaths
Leaves == [path : Paths, value : Values]
Empty  == [k \in {} |-> 0]

-----------------------------------------------------------------------------
(* How a run ends before it serves.                                        *)

Stop(how) == phase' = "ended" /\ exit' = how

BadArguments == Stop("one")

Proceed(to) == phase' = to /\ UNCHANGED exit

-----------------------------------------------------------------------------
(* The command line.                                                       *)

(* Two words: only -h is accepted, as it was written, and nothing is loaded*)
(* for it.  With any other number the arguments are read one by one.       *)
Load ==
  /\ phase = "load"
  /\ IF Len(argv) # 1 THEN Proceed("arguments") /\ UNCHANGED help
     ELSE IF argv[1] = Help THEN Proceed("main") /\ help' = TRUE
     ELSE BadArguments /\ UNCHANGED help
  /\ UNCHANGED <<argv, taken, name, arguments, text, settings, config>>

(* -h among other tokens sets the flag and is an error all the same.       *)
AskForHelp == BadArguments /\ help' = TRUE

(* The value of an option: a later one replaces an earlier one.            *)
GiveFirst(value) ==                                   \* mutant: the earlier one stays
  arguments' = [n \in DOMAIN arguments \union {name} |->
                  IF n \in DOMAIN arguments THEN arguments[n] ELSE value]

Give(value) ==
  arguments' = [n \in DOMAIN arguments \union {name} |->
                  IF n = name THEN value ELSE arguments[n]]

TakeToken ==
  /\ phase = "arguments" /\ taken < Len(argv)
  /\ LET token == Trim[argv[taken + 1]]
     IN IF token \in {Blank, Help}
        THEN AskForHelp /\ UNCHANGED <<name, arguments>>
        ELSE /\ UNCHANGED <<phase, exit, help>>
             /\ IF name = Blank
                THEN name' = ToLower[token] /\ UNCHANGED arguments
                ELSE Give(token) /\ name' = Blank
  /\ taken' = taken + 1
  /\ UNCHANGED <<argv, text, settings, config>>

(* No name may be left without a value, no name may be unknown (a name is  *)
(* never -h here: that token ends the loop), and -f must be there.         *)
EndOfTokens ==
  /\ phase = "arguments" /\ taken = Len(argv)
  /\ IF name = Blank /\ DOMAIN arguments = {Option}
     THEN Proceed("file") ELSE BadArguments
  /\ UNCHANGED <<argv, taken, name, arguments, text, settings, config, help>>

-----------------------------------------------------------------------------
(* The file.                                                               *)

FileName == arguments[Option]

(* A file that cannot be opened, that is empty or that is not JSON.        *)
UnusableFile ==
  /\ phase = "file"
  /\ BadArguments
  /\ UNCHANGED <<argv, taken, name, arguments, text, settings, config, help>>

ReadFile ==
  /\ phase = "file"
  /\ \E n \in 0..MaxLeaves : text' \in [1..n -> Leaves]
  /\ Proceed("json")
  /\ UNCHANGED <<argv, taken, name, arguments, settings, config, help>>

Written(path) == {i \in 1..Len(text) : text[i].path = path}

LastWord(path) == text[CHOOSE i \in Written(path) : \A j \in Written(path) : j <= i]

(* nlohmann::json keeps one value for a name that an object has twice: the *)
(* later one replaces the earlier one.                                     *)
Parsed ==
  [path \in {p \in Paths : Written(p) # {}} |->
     LastWord(path).value]

(* The document that the settings are taken from: load_config initialises  *)
(* it with the parsed one in braces.                                       *)
Copied ==
  IF BraceCopies THEN Parsed
  ELSE [path \in {Wrapped[p] : p \in DOMAIN Parsed} |->
          Parsed[CHOOSE p \in DOMAIN Parsed : Wrapped[p] = path]]

(* Null values and arrays have no type of a setting.                       *)
Handled(value) == value.type \in Types

(* Every leaf of the document is visited.  The check for duplicates asks   *)
(* whether the path was extracted before: it looks at the parsed document, *)
(* where no path occurs twice, so it refuses nothing.                      *)
Extract ==
  /\ phase = "json"
  /\ settings' = [p \in {q \in DOMAIN Copied : Handled(Copied[q])} |-> Copied[p]]
  /\ IF \A p \in DOMAIN Copied : Handled(Copied[p])
     THEN Proceed("settings") ELSE BadArguments
  /\ UNCHANGED <<argv, taken, name, arguments, text, config, help>>

-----------------------------------------------------------------------------
(* The settings.                                                           *)

(* The table of configure().  Default values and the mandatory flag are    *)
(* part of it but nothing reads them.                                      *)
ElementsExclusive ==                                  \* mutant: the lower bound is refused
  [k \in Keys |-> [type |-> TypeOf[k],
                   allowed |-> {a \in Allowed[k] : \E b \in Allowed[k] : b < a}]]

Elements == [k \in Keys |-> [type |-> TypeOf[k], allowed |-> Allowed[k]]]

IsValidValue(key, datum) == datum \in Elements[key].allowed

IsConfigured(path, value) ==                          \* mutant: the type is not compared
  path \in Keys /\ IsValidValue(path, value.datum)

IsConfiguredAndValid(path, value) ==
  /\ path \in Keys
  /\ value.type = Elements[path].type
  /\ IsValidValue(path, value.datum)

ValidateKnown ==                                      \* mutant: unknown paths are skipped
  /\ phase = "settings"
  /\ IF \A p \in DOMAIN settings \intersect Keys : IsConfiguredAndValid(p, settings[p])
     THEN Proceed("construct") ELSE BadArguments
  /\ UNCHANGED <<argv, taken, name, arguments, text, settings, config, help>>

Validate ==
  /\ phase = "settings"
  /\ IF \A p \in DOMAIN settings : IsConfiguredAndValid(p, settings[p])
     THEN Proceed("construct") ELSE BadArguments
  /\ UNCHANGED <<argv, taken, name, arguments, text, settings, config, help>>

(* Each member of c_config looks its key up among the settings and asserts *)
(* that it is there.                                                       *)
Construct ==
  /\ phase = "construct"
  /\ IF Keys \subseteq DOMAIN settings
     THEN /\ config' = [k \in Keys |-> settings[k].datum]
          /\ Proceed("main")
     ELSE Stop("aborted") /\ UNCHANGED config
  /\ UNCHANGED <<argv, taken, name, arguments, text, settings, help>>

-----------------------------------------------------------------------------
(* main                                                                    *)

ShowHelp ==
  /\ phase = "main" /\ help
  /\ Stop("zero")
  /\ UNCHANGED <<argv, taken, name, arguments, text, settings, config, help>>

(* The only process type that the enumeration has is the server; the       *)
(* factory asserts that it is asked for no other.                          *)
MakeProcess ==
  /\ phase = "main" /\ ~help
  /\ IF config[ProcessType] = ServerType THEN Proceed("serving") ELSE Stop("aborted")
  /\ UNCHANGED <<argv, taken, name, arguments, text, settings, config, help>>

(* The port the listener binds: int64_t to int32_t to a 16-bit port.       *)
BoundPort == config[Port] % PortModulus

Init ==
  /\ \E n \in 0..MaxTokens : argv \in [1..n -> Tokens]
  /\ phase = "load" /\ taken = 0 /\ name = Blank /\ arguments = Empty
  /\ text = << >> /\ settings = Empty /\ config = Empty
  /\ help = FALSE /\ exit = "running"

Next ==
  \/ Load \/ TakeToken \/ EndOfTokens
  \/ UnusableFile \/ ReadFile \/ Extract
  \/ Validate \/ Construct
  \/ ShowHelp \/ MakeProcess

Spec == Init /\ [][Next]_vars

FairSpec == Spec /\ WF_vars(Next)

-----------------------------------------------------------------------------
(* Properties                                                              *)

Phases == {"load", "arguments", "file", "json", "settings", "construct", "main",
           "serving", "ended"}

(* The types of the variables.                                             *)
TypeOK ==
  /\ argv \in Seq(Tokens)
  /\ phase \in Phases
  /\ taken \in 0..Len(argv)
  /\ name \in Tokens
  /\ DOMAIN arguments \subseteq Tokens /\ \A n \in DOMAIN arguments : arguments[n] \in Tokens
  /\ text \in Seq(Leaves)
  /\ DOMAIN settings \subseteq Paths \union {Wrapped[p] : p \in Paths}
  /\ \A p \in DOMAIN settings : settings[p].type \in Types
  /\ config = Empty \/ config \in [Keys -> Nat]
  /\ help \in BOOLEAN
  /\ exit \in {"running", "zero", "one", "aborted"}

IsServing == phase = "serving"

Means(leaf, key) ==
  leaf.value.type = TypeOf[key] /\ leaf.value.datum \in Allowed[key]

(* The file that was written is one that a server can run on: its last     *)
(* words on every key are of the key's type and within its constraints,    *)
(* and it speaks of nothing else.                                          *)
GoodText ==
  /\ \A i \in 1..Len(text) : text[i].path \in Keys
  /\ \A k \in Keys : Written(k) # {} /\ Means(LastWord(k), k)
  /\ LastWord(ProcessType).value.datum = ServerType

(* Whatever was written in the file, a server runs only on a configuration *)
(* that is complete, typed and within the constraints, and its members are *)
(* what the file says: extraction, validation and construction together    *)
(* let nothing else through (load_config, c_json, c_config_element).       *)
OnlyGoodTextServes ==
  IsServing => GoodText /\ \A k \in Keys : config[k] = LastWord(k).value.datum

(* The process never gets past the options by accident: only -h alone      *)
(* ends with 0 before a server runs, nothing was read for it, and help     *)
(* that is asked for in any other way is an error (load, load_arguments,   *)
(* main).                                                                  *)
ZeroIsHelp ==
  exit = "zero" => argv = <<Help>> /\ config = Empty /\ text = << >>

(* An assertion is reached only by a file whose every word was accepted:   *)
(* the two ways there are a key left out and a process type that the       *)
(* validation knows but the factory does not.                              *)
AbortsOnlyOnAccepted ==
  exit = "aborted" =>
    /\ \A i \in 1..Len(text) : text[i].path \in Keys /\ Means(LastWord(text[i].path), text[i].path)
    /\ \/ \E k \in Keys : Written(k) = {}
       \/ LastWord(ProcessType).value.datum # ServerType

(* The file that is read is the one the last -f names, and -f is where an  *)
(* option can be: a file may itself be called -f (load_arguments). White   *)
(* space around the tokens makes no difference.                            *)
ReadsTheNamedFile ==
  phase \in {"file", "json", "settings", "construct", "serving"} =>
    /\ Len(argv) % 2 = 0
    /\ \A i \in 1..Len(argv) : i % 2 = 1 => ToLower[Trim[argv[i]]] = Option
    /\ FileName = Trim[argv[Len(argv)]]

(* A run that has read a good file serves: the constraints refuse nothing  *)
(* that they allow.  The fairness is only that the program's one thread    *)
(* goes on.                                                                *)
GoodTextIsServed == (phase = "json" /\ GoodText) ~> IsServing

-----------------------------------------------------------------------------
(* What the code says of itself and does not keep; see the README.         *)

(* Every key is declared mandatory (configure), and the code that looks    *)
(* one up says it cannot be missing (extract_string and its siblings).      *)
ExtractFindsEveryKey ==
  exit = "aborted" => \A k \in Keys : k \in DOMAIN settings

(* The factory says that every process type is handled before its default  *)
(* case (c_process_factory::get_process).                                  *)
EveryProcessTypeIsHandled ==
  exit = "aborted" => Written(ProcessType) = {} \/ \E k \in Keys : k \notin DOMAIN settings

(* A path that is written twice is an error (the message "duplicate json   *)
(* element" of extract_configuration_from_json).                           *)
DuplicatesAreRefused ==
  IsServing => \A i, j \in 1..Len(text) : text[i].path = text[j].path => i = j

(* The listener binds the port that the configuration names (the message   *)
(* "bound" of get_listener_fd prints the one as the other).                *)
ConfiguredPortIsBound == IsServing => BoundPort = config[Port]

=============================================================================
