------------------------ MODULE ConfigurationProofs ------------------------
(***************************************************************************)
(* What a server's configuration can be, proved for every set of keys,     *)
(* types and constraints, every command line and every file.               *)
(***************************************************************************)
EXTENDS Configuration, TLAPS

(* What each phase of loading leaves behind for the next.  The file's text *)
(* does not change once it was read, help is only asked for on the way to  *)
(* an end, and from the validation on the settings are the parsed file, or *)
(* what the braces make of it.                                             *)
LoadedPhases == {"settings", "construct", "main", "serving"}

TextInv == text \in Seq(Leaves)

HelpInv == help => phase \in {"main", "ended"}

SettingsInv ==
  phase \in LoadedPhases /\ ~help => settings = Copied

ValidInv ==
  phase \in {"construct", "main", "serving"} /\ ~help =>
    \A p \in DOMAIN settings : IsConfiguredAndValid(p, settings[p])

ConfigInv ==
  phase \in {"main", "serving"} /\ ~help =>
    /\ Keys \subseteq DOMAIN settings
    /\ config = [k \in Keys |-> settings[k].datum]

ServingInv == phase = "serving" => config[ProcessType] = ServerType

Inv == TextInv /\ HelpInv /\ SettingsInv /\ ValidInv /\ ConfigInv /\ ServingInv

-----------------------------------------------------------------------------

(* Nothing is loaded yet in the initial state.                             *)
LEMMA InitInv == Init => Inv
BY DEF Init, Inv, TextInv, HelpInv, SettingsInv, ValidInv, ConfigInv, ServingInv,
       LoadedPhases

(* The document that settings are taken from depends on the text alone.    *)
LEMMA CopiedKeeps == text' = text => Parsed' = Parsed /\ Copied' = Copied
BY DEF Copied, Parsed, Written, LastWord

(* Extraction without an error leaves that document as the settings.       *)
LEMMA ExtractKeeps == Inv /\ Extract => Inv'
<1> SUFFICES ASSUME Inv, Extract PROVE Inv'
  OBVIOUS
<1> USE DEF Extract, Proceed, BadArguments, Stop
<1>1. Copied' = Copied
  BY CopiedKeeps
<1>2. Copied = [p \in DOMAIN Copied |-> Copied[p]]
  BY DEF Copied, Parsed
<1>3. SettingsInv'
  BY <1>1, <1>2 DEF SettingsInv, LoadedPhases
<1>4. (TextInv /\ HelpInv /\ ValidInv /\ ConfigInv /\ ServingInv)'
  BY DEF Inv, TextInv, HelpInv, ValidInv, ConfigInv, ServingInv
<1> QED BY <1>3, <1>4 DEF Inv

(* Every step of loading keeps the invariant: each phase establishes its   *)
(* own part of it and leaves what the earlier ones established alone.      *)
LEMMA StepInv == Inv /\ [Next]_vars => Inv'
<1> SUFFICES ASSUME Inv, [Next]_vars PROVE Inv'
  OBVIOUS
<1> USE DEF Proceed, BadArguments, Stop, LoadedPhases
<1>1. ASSUME text' = text, settings' = settings, config' = config
      PROVE  /\ Copied' = Copied
             /\ TextInv'
             /\ \A p \in DOMAIN settings :
                  IsConfiguredAndValid(p, settings[p])' <=> IsConfiguredAndValid(p, settings[p])
  BY <1>1, CopiedKeeps DEF Inv, TextInv, IsConfiguredAndValid
<1>2. CASE Load
  BY <1>1, <1>2 DEF Load, Inv, HelpInv, SettingsInv, ValidInv, ConfigInv, ServingInv
<1>3. CASE TakeToken
  BY <1>1, <1>3 DEF TakeToken, AskForHelp, Inv, HelpInv, SettingsInv, ValidInv, ConfigInv,
     ServingInv
<1>4. CASE EndOfTokens
  BY <1>1, <1>4 DEF EndOfTokens, Inv, HelpInv, SettingsInv, ValidInv, ConfigInv, ServingInv
<1>5. CASE UnusableFile
  BY <1>1, <1>5 DEF UnusableFile, Inv, HelpInv, SettingsInv, ValidInv, ConfigInv, ServingInv
<1>6. CASE ReadFile
  <2>1. TextInv'
    BY <1>6 DEF ReadFile, TextInv
  <2>2. (HelpInv /\ SettingsInv /\ ValidInv /\ ConfigInv /\ ServingInv)'
    BY <1>6 DEF ReadFile, Inv, HelpInv, SettingsInv, ValidInv, ConfigInv, ServingInv
  <2> QED BY <2>1, <2>2 DEF Inv
<1>7. CASE Extract
  BY <1>7, ExtractKeeps
<1>8. CASE Validate
  BY <1>1, <1>8 DEF Validate, Inv, HelpInv, SettingsInv, ValidInv, ConfigInv, ServingInv
<1>9. CASE Construct
  <2>1. (TextInv /\ HelpInv /\ ServingInv)'
    BY <1>9 DEF Construct, Inv, TextInv, HelpInv, ServingInv
  <2>2. Copied' = Copied
    BY <1>9, CopiedKeeps DEF Construct
  <2>3. SettingsInv'
    BY <1>9, <2>2 DEF Construct, Inv, SettingsInv
  <2>4. ValidInv'
    BY <1>9 DEF Construct, Inv, ValidInv, IsConfiguredAndValid
  <2>5. ConfigInv'
    BY <1>9 DEF Construct, ConfigInv
  <2> QED BY <2>1, <2>3, <2>4, <2>5 DEF Inv
<1>10. CASE ShowHelp
  BY <1>1, <1>10 DEF ShowHelp, Inv, HelpInv, SettingsInv, ValidInv, ConfigInv, ServingInv
<1>11. CASE MakeProcess
  BY <1>1, <1>11 DEF MakeProcess, Inv, HelpInv, SettingsInv, ValidInv, ConfigInv, ServingInv
<1>12. CASE UNCHANGED vars
  BY <1>1, <1>12 DEF vars, Inv, HelpInv, SettingsInv, ValidInv, ConfigInv, ServingInv
<1> QED
  BY <1>2, <1>3, <1>4, <1>5, <1>6, <1>7, <1>8, <1>9, <1>10, <1>11, <1>12 DEF Next

(* What the invariant says of a process that serves: the keys are the      *)
(* paths of the parsed file, neither more nor fewer, and each one's last   *)
(* word in the text passed the validation.                                 *)
LEMMA InvMeansGood == Inv => OnlyGoodTextServes
<1> SUFFICES ASSUME Inv, phase = "serving"
             PROVE  GoodText /\ \A k \in Keys : config[k] = LastWord(k).value.datum
  BY DEF OnlyGoodTextServes, IsServing
<1>1. /\ text \in Seq(Leaves) /\ ~help
      /\ settings = Copied
      /\ \A p \in DOMAIN settings : IsConfiguredAndValid(p, settings[p])
      /\ Keys \subseteq DOMAIN settings
      /\ config = [k \in Keys |-> settings[k].datum]
      /\ config[ProcessType] = ServerType
  BY DEF Inv, TextInv, HelpInv, SettingsInv, ValidInv, ConfigInv, ServingInv, LoadedPhases
<1>0. BraceCopies
  <2> SUFFICES ASSUME ~BraceCopies PROVE FALSE
    OBVIOUS
  <2>1. DOMAIN settings = {Wrapped[p] : p \in DOMAIN Parsed}
    BY <1>1 DEF Copied
  <2>2. DOMAIN Parsed \subseteq Keys \union OtherPaths
    BY DEF Parsed, Paths
  <2>3. ProcessType \in DOMAIN settings
    BY <1>1, KeysAssumption
  <2> QED BY <2>1, <2>2, <2>3, KeysAssumption, CopyAssumption
<1>2. DOMAIN Parsed = {p \in Paths : Written(p) # {}}
  BY DEF Parsed
<1>3. \A p \in DOMAIN Parsed : Parsed[p] = LastWord(p).value
  BY DEF Parsed
<1>4. ASSUME NEW i \in 1..Len(text) PROVE text[i].path \in Keys
  <2>1. text[i] \in Leaves
    BY <1>1
  <2>2. text[i].path \in Paths /\ i \in Written(text[i].path)
    BY <2>1 DEF Leaves, Written
  <2> QED BY <1>0, <1>1, <1>2, <2>2 DEF IsConfiguredAndValid, Copied
<1>5. ASSUME NEW k \in Keys
      PROVE  /\ Written(k) # {} /\ Means(LastWord(k), k)
             /\ config[k] = LastWord(k).value.datum
  <2>1. k \in DOMAIN Parsed /\ settings[k] = LastWord(k).value
    BY <1>0, <1>1, <1>3 DEF Copied
  <2>2. IsConfiguredAndValid(k, LastWord(k).value)
    BY <1>1, <2>1
  <2>3. Means(LastWord(k), k)
    BY <2>2 DEF Means, IsConfiguredAndValid, IsValidValue, Elements
  <2> QED BY <1>0, <1>1, <1>2, <2>1, <2>3
<1>6. LastWord(ProcessType).value.datum = ServerType
  BY <1>1, <1>5, KeysAssumption
<1> QED BY <1>4, <1>5, <1>6 DEF GoodText

(* A server runs only on a configuration that is complete, typed, within   *)
(* the constraints and what the file says, whatever command line and file  *)
(* it was given (c_config::load, c_json, c_config_element, the factory).   *)
THEOREM OnlyGoodConfigurationsServe == Spec => []OnlyGoodTextServes
<1>1. Spec => []Inv
  BY InitInv, StepInv, PTL DEF Spec
<1> QED BY <1>1, InvMeansGood, PTL

-----------------------------------------------------------------------------

(* A run that was aborted had loaded and validated all of the file, and    *)
(* either lacks a key or asks for a process that is not the server.        *)
AbortInv ==
  exit = "aborted" =>
    /\ phase = "ended"
    /\ text \in Seq(Leaves)
    /\ settings = Copied
    /\ \A p \in DOMAIN settings : IsConfiguredAndValid(p, settings[p])
    /\ \/ ~(Keys \subseteq DOMAIN settings)
       \/ /\ Keys \subseteq DOMAIN settings
          /\ settings[ProcessType].datum # ServerType

(* The two assertions are the only ones, and what they were reached with   *)
(* stays as it is.                                                         *)
LEMMA AbortStep == Inv /\ AbortInv /\ [Next]_vars => AbortInv'
<1> SUFFICES ASSUME Inv, AbortInv, [Next]_vars, exit' = "aborted"
             PROVE  AbortInv'
  BY DEF AbortInv
<1>1. CASE exit = "aborted"
  <2>1. UNCHANGED <<phase, text, settings>>
    BY <1>1 DEF AbortInv, Next, vars, Load, TakeToken, EndOfTokens,
       UnusableFile, ReadFile, Extract, Validate, Construct, ShowHelp,
       MakeProcess
  <2>2. Copied' = Copied
    BY <2>1, CopiedKeeps
  <2> QED
    BY <1>1, <2>1, <2>2 DEF AbortInv, IsConfiguredAndValid, IsValidValue,
       Elements
<1>2. CASE exit # "aborted"
  <2>1. /\ (Construct /\ ~(Keys \subseteq DOMAIN settings))
             \/ (MakeProcess /\ config[ProcessType] # ServerType)
        /\ phase' = "ended"
    BY <1>2 DEF Next, vars, Load, TakeToken, EndOfTokens, UnusableFile,
       ReadFile, Extract, Validate, Construct, ShowHelp, MakeProcess, Proceed,
       Stop, BadArguments, AskForHelp
  <2>2. UNCHANGED <<text, settings>> /\ ~help
    BY <2>1 DEF Construct, MakeProcess, Inv, HelpInv
  <2>3. /\ text \in Seq(Leaves) /\ settings = Copied
        /\ \A p \in DOMAIN settings : IsConfiguredAndValid(p, settings[p])
    BY <2>1, <2>2 DEF Construct, MakeProcess, Inv, TextInv, SettingsInv,
       ValidInv, LoadedPhases
  <2>4. \/ ~(Keys \subseteq DOMAIN settings)
        \/ /\ Keys \subseteq DOMAIN settings
           /\ settings[ProcessType].datum # ServerType
    <3>1. CASE MakeProcess /\ config[ProcessType] # ServerType
      <4>1. config = [k \in Keys |-> settings[k].datum]
        BY <2>2, <3>1 DEF MakeProcess, Inv, ConfigInv
      <4>2. Keys \subseteq DOMAIN settings
        BY <2>2, <3>1 DEF MakeProcess, Inv, ConfigInv
      <4> QED BY <3>1, <4>1, <4>2, KeysAssumption
    <3> QED BY <2>1, <3>1
  <2>5. Copied' = Copied
    BY <2>2, CopiedKeeps
  <2> QED
    BY <2>1, <2>2, <2>3, <2>4, <2>5 DEF AbortInv, IsConfiguredAndValid,
       IsValidValue, Elements
<1> QED BY <1>1, <1>2

(* A file that an array was made of has no path that is configured, so one *)
(* that was validated says nothing at all.                                 *)
LEMMA ArrayIsEmpty ==
  ASSUME ~BraceCopies, \A p \in DOMAIN Copied : p \in Keys
  PROVE  \A p \in Paths : Written(p) = {}
<1>1. DOMAIN Copied = {Wrapped[p] : p \in DOMAIN Parsed}
  BY DEF Copied
<1>2. \A p \in DOMAIN Parsed : Wrapped[p] \notin Keys
  BY CopyAssumption DEF Parsed, Paths
<1>3. DOMAIN Parsed = {}
  BY <1>1, <1>2
<1> QED BY <1>3 DEF Parsed

(* Every word of such a file was accepted.                                 *)
LEMMA AbortMeansAccepted == AbortInv => AbortsOnlyOnAccepted
<1> SUFFICES ASSUME AbortInv, exit = "aborted"
             PROVE  /\ \A i \in 1..Len(text) :
                         /\ text[i].path \in Keys
                         /\ Means(LastWord(text[i].path), text[i].path)
                    /\ \/ \E k \in Keys : Written(k) = {}
                       \/ LastWord(ProcessType).value.datum # ServerType
  BY DEF AbortsOnlyOnAccepted
<1>1. /\ text \in Seq(Leaves) /\ settings = Copied
      /\ \A p \in DOMAIN Copied : IsConfiguredAndValid(p, Copied[p])
      /\ \/ ~(Keys \subseteq DOMAIN Copied)
         \/ /\ Keys \subseteq DOMAIN Copied
            /\ Copied[ProcessType].datum # ServerType
  BY DEF AbortInv
<1>2. ASSUME NEW i \in 1..Len(text)
      PROVE  text[i].path \in Paths /\ i \in Written(text[i].path)
  <2>1. text[i] \in Leaves
    BY <1>1
  <2> QED BY <2>1 DEF Leaves, Written
<1>3. CASE ~BraceCopies
  <2>1. \A p \in Paths : Written(p) = {}
    BY <1>1, <1>3, ArrayIsEmpty DEF IsConfiguredAndValid
  <2>2. ProcessType \in Keys /\ ProcessType \in Paths
    BY KeysAssumption DEF Paths
  <2> QED BY <1>2, <2>1, <2>2
<1>4. CASE BraceCopies
  <2>1. /\ Copied = Parsed
        /\ DOMAIN Parsed = {p \in Paths : Written(p) # {}}
        /\ \A p \in DOMAIN Parsed : Parsed[p] = LastWord(p).value
    BY <1>4 DEF Copied, Parsed
  <2>2. ASSUME NEW p \in DOMAIN Parsed
        PROVE  p \in Keys /\ Means(LastWord(p), p)
    <3>1. IsConfiguredAndValid(p, LastWord(p).value)
      BY <1>1, <2>1
    <3> QED
      BY <3>1 DEF Means, IsConfiguredAndValid, IsValidValue, Elements
  <2>3. \A i \in 1..Len(text) : text[i].path \in DOMAIN Parsed
    BY <1>2, <2>1
  <2>4. (\E k \in Keys : Written(k) = {})
          \/ LastWord(ProcessType).value.datum # ServerType
    BY <1>1, <2>1, KeysAssumption DEF Paths
  <2> QED BY <2>2, <2>3, <2>4
<1> QED BY <1>3, <1>4

(* An assertion fails only for a file whose every word was accepted: one   *)
(* that leaves out a key, or names a process that the factory does not     *)
(* make (extract_string and its siblings, c_process_factory::get_process). *)
THEOREM OnlyAcceptedFilesAbort == Spec => []AbortsOnlyOnAccepted
<1>1. Spec => []Inv
  BY InitInv, StepInv, PTL DEF Spec
<1>2. Init => AbortInv
  BY DEF Init, AbortInv
<1> QED BY <1>1, <1>2, AbortStep, AbortMeansAccepted, PTL DEF Spec

-----------------------------------------------------------------------------

(* What has been read of the command line: names and values take turns, a  *)
(* name waits after an odd number of tokens, and the last value belongs to *)
(* the name in front of it.                                                *)
Taken ==
  /\ taken \in Nat /\ taken <= Len(argv)
  /\ name = Blank <=> taken % 2 = 0
  /\ name # Blank => name = ToLower[Trim[argv[taken]]]
  /\ DOMAIN arguments = {ToLower[Trim[argv[i]]] : i \in {j \in 1..taken : j % 2 = 1 /\ j < taken}}
  /\ name = Blank /\ taken > 0 => arguments[ToLower[Trim[argv[taken - 1]]]] = Trim[argv[taken]]

(* The command line as a whole: -f and a file, again and again.            *)
Named ==
  /\ Len(argv) % 2 = 0
  /\ \A i \in 1..Len(argv) : i % 2 = 1 => ToLower[Trim[argv[i]]] = Option
  /\ FileName = Trim[argv[Len(argv)]]

ArgsInv ==
  /\ argv \in Seq(Tokens)
  /\ phase = "load" => taken = 0 /\ name = Blank /\ arguments = Empty
  /\ phase = "arguments" => Taken
  /\ phase \in {"file", "json", "settings", "construct", "main", "serving"} /\ ~help => Named

(* Every other number is odd.                                              *)
LEMMA Parity ==
  ASSUME NEW n \in Nat
  PROVE  /\ n % 2 \in {0, 1}
         /\ n % 2 = 0 => (n + 1) % 2 = 1
         /\ n % 2 = 1 => (n + 1) % 2 = 0
OBVIOUS

(* A token is a name, or the value of the name before it.                  *)
LEMMA TakeKeeps == ArgsInv /\ TakeToken => ArgsInv'
<1> SUFFICES ASSUME ArgsInv, TakeToken PROVE ArgsInv'
  OBVIOUS
<1>1. PICK n \in Nat, l \in Nat : n = taken /\ l = Len(argv)
  BY DEF ArgsInv, Taken, TakeToken
<1>2. PICK token \in Tokens : token = Trim[argv[n + 1]]
  BY <1>1, TokensAssumption DEF ArgsInv, TakeToken
<1>3. /\ phase = "arguments" /\ n < l /\ argv' = argv /\ taken' = n + 1
      /\ \/ phase' = "ended"
         \/ /\ token \notin {Blank, Help} /\ phase' = phase
            /\ IF name = Blank
               THEN name' = ToLower[token] /\ arguments' = arguments
               ELSE Give(token) /\ name' = Blank
  BY <1>1, <1>2 DEF TakeToken, AskForHelp, BadArguments, Stop
<1>4. CASE phase' = "ended"
  BY <1>3, <1>4 DEF ArgsInv
<1>5. CASE token \notin {Blank, Help} /\ phase' = phase /\ name = Blank
  <2>1. /\ name' = ToLower[token] /\ arguments' = arguments
        /\ ToLower[token] # Blank
    BY <1>3, <1>5, TokensAssumption DEF Tokens
  <2>2. n % 2 = 0 /\ (n + 1) % 2 = 1
    BY <1>1, <1>3, <1>5, Parity DEF ArgsInv, Taken
  <2>3. {j \in 1..(n + 1) : j % 2 = 1 /\ j < n + 1}
          = {j \in 1..n : j % 2 = 1 /\ j < n}
    BY <2>2
  <2>4. Taken'
    BY <1>1, <1>2, <1>3, <2>1, <2>2, <2>3 DEF ArgsInv, Taken
  <2> QED BY <1>3, <1>5, <2>4 DEF ArgsInv
<1>6. CASE token \notin {Blank, Help} /\ phase' = phase /\ name # Blank
  <2>1. /\ name' = Blank
        /\ arguments' = [m \in DOMAIN arguments \union {name} |->
                           IF m = name THEN token ELSE arguments[m]]
    BY <1>3, <1>6 DEF Give
  <2>2. n % 2 = 1 /\ (n + 1) % 2 = 0 /\ name = ToLower[Trim[argv[n]]] /\ n >= 1
    BY <1>1, <1>3, <1>6, Parity DEF ArgsInv, Taken
  <2>3. {j \in 1..(n + 1) : j % 2 = 1 /\ j < n + 1}
          = {j \in 1..n : j % 2 = 1 /\ j < n} \union {n}
    BY <2>2
  <2>4. DOMAIN arguments = {ToLower[Trim[argv[i]]] : i \in {j \in 1..n : j % 2 = 1 /\ j < n}}
    BY <1>1, <1>3 DEF ArgsInv, Taken
  <2>5. DOMAIN arguments' = {ToLower[Trim[argv[i]]] : i \in {j \in 1..(n + 1) : j % 2 = 1 /\ j < n + 1}}
    BY <2>1, <2>2, <2>3, <2>4
  <2>6. arguments'[ToLower[Trim[argv[n]]]] = token
    BY <2>1, <2>2
  <2>7. n + 1 \in Nat /\ n + 1 <= l /\ (n + 1) - 1 = n
    BY <1>3
  <2>8. Taken'
    BY <1>1, <1>2, <1>3, <2>1, <2>2, <2>5, <2>6, <2>7 DEF Taken
  <2> QED BY <1>3, <1>6, <2>8 DEF ArgsInv
<1> QED BY <1>3, <1>4, <1>5, <1>6

(* When all tokens were read in pairs and -f is the only option, it is at  *)
(* every place for a name, and the last token is the file.                 *)
LEMMA EndKeeps == ArgsInv /\ EndOfTokens => ArgsInv'
<1> SUFFICES ASSUME ArgsInv, EndOfTokens PROVE ArgsInv'
  OBVIOUS
<1>1. /\ phase = "arguments" /\ taken = Len(argv) /\ argv' = argv
      /\ arguments' = arguments
      /\ \/ phase' = "ended"
         \/ phase' = "file" /\ name = Blank /\ DOMAIN arguments = {Option}
  BY DEF EndOfTokens, Proceed, BadArguments, Stop
<1>2. CASE phase' = "ended"
  BY <1>1, <1>2 DEF ArgsInv
<1>3. CASE phase' = "file" /\ name = Blank /\ DOMAIN arguments = {Option}
  <2>1. PICK n \in Nat : n = taken /\ n = Len(argv)
    BY <1>1 DEF ArgsInv, Taken
  <2>2. /\ n % 2 = 0
        /\ {Option} = {ToLower[Trim[argv[i]]] : i \in {j \in 1..n : j % 2 = 1 /\ j < n}}
        /\ n > 0 => arguments[ToLower[Trim[argv[n - 1]]]] = Trim[argv[n]]
    BY <1>1, <1>3, <2>1 DEF ArgsInv, Taken
  <2>3. \A i \in 1..n : i % 2 = 1 => i < n
    BY <2>2
  <2>4. \A i \in 1..n : i % 2 = 1 => ToLower[Trim[argv[i]]] = Option
    BY <2>2, <2>3
  <2>5. n > 0
    BY <2>2
  <2>6. (n - 1) \in 1..n /\ (n - 1) % 2 = 1
    <3>1. PICK k \in Nat : k = n - 1
      BY <2>5
    <3>2. k + 1 = n /\ n % 2 = 0
      BY <2>2, <3>1
    <3>3. k % 2 = 1
      BY <3>2, Parity
    <3> QED BY <3>1, <3>2, <3>3
  <2>7. arguments[Option] = Trim[argv[n]]
    BY <2>2, <2>4, <2>5, <2>6
  <2>8. Named'
    BY <1>1, <2>1, <2>2, <2>4, <2>7 DEF Named, FileName
  <2> QED BY <1>1, <1>3, <2>8 DEF ArgsInv
<1> QED BY <1>1, <1>2, <1>3

(* The later phases leave the command line alone.                          *)
LEMMA ArgsStep == Inv /\ ArgsInv /\ [Next]_vars => ArgsInv'
<1> SUFFICES ASSUME Inv, ArgsInv, [Next]_vars PROVE ArgsInv'
  OBVIOUS
<1>1. CASE Load
  <2>1. /\ UNCHANGED <<argv, taken, name, arguments>> /\ phase = "load"
        /\ \/ phase' = "arguments"
           \/ phase' = "main" /\ help'
           \/ phase' = "ended"
    BY <1>1 DEF Load, Proceed, BadArguments, Stop
  <2>2. taken = 0 /\ name = Blank /\ DOMAIN arguments = {} /\ argv \in Seq(Tokens)
    BY <2>1 DEF ArgsInv, Empty
  <2>3. Taken'
    BY <2>1, <2>2 DEF Taken
  <2> QED BY <2>1, <2>2, <2>3 DEF ArgsInv
<1>2. CASE TakeToken
  BY <1>2, TakeKeeps
<1>3. CASE EndOfTokens
  BY <1>3, EndKeeps
<1>4. CASE UnusableFile \/ ReadFile \/ Extract \/ Validate \/ Construct \/ ShowHelp \/ MakeProcess
  <2>1. /\ UNCHANGED <<argv, arguments, help>>
        /\ phase \in {"file", "json", "settings", "construct", "main"}
        /\ phase' \in {"json", "settings", "construct", "main", "serving", "ended"}
    BY <1>4 DEF UnusableFile, ReadFile, Extract, Validate, Construct, ShowHelp, MakeProcess,
       Proceed, BadArguments, Stop
  <2>2. Named <=> Named'
    BY <2>1 DEF Named, FileName
  <2> QED BY <2>1, <2>2 DEF ArgsInv
<1>5. CASE UNCHANGED vars
  BY <1>5 DEF vars, ArgsInv, Taken, Named, FileName
<1> QED BY <1>1, <1>2, <1>3, <1>4, <1>5 DEF Next

(* The file that is read is the one behind the last -f, and -f is at every *)
(* place where an option can be (load_arguments).                          *)
THEOREM TheNamedFileIsRead == Spec => []ReadsTheNamedFile
<1>1. Spec => []Inv
  BY InitInv, StepInv, PTL DEF Spec
<1>2. Init => ArgsInv
  <2> SUFFICES ASSUME Init PROVE ArgsInv
    OBVIOUS
  <2>1. argv \in Seq(Tokens)
    BY DEF Init
  <2> QED BY <2>1 DEF Init, ArgsInv
<1>3. Inv /\ ArgsInv => ReadsTheNamedFile
  BY DEF Inv, HelpInv, ArgsInv, Named, ReadsTheNamedFile
<1> QED BY <1>1, <1>2, <1>3, ArgsStep, PTL DEF Spec

=============================================================================
