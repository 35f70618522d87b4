---------------------------- MODULE LoggingProofs ----------------------------
(***************************************************************************)
(* Proofs about Logging, for any number of threads, calls and settings.    *)
(***************************************************************************)
EXTENDS Logging, SequenceTheorems, TLAPS

LOCAL INSTANCE SequencesExt

USE LoggingAssumption

(* The rungs of the ladder.                                                *)
LEMMA Rungs ==
  /\ DOMAIN Ladder = 1..6
  /\ Ladder[1] = "trace" /\ Ladder[2] = "debug" /\ Ladder[3] = "info"
  /\ Ladder[4] = "warn" /\ Ladder[5] = "error" /\ Ladder[6] = "fatal"
  /\ Levels = {"trace", "debug", "info", "warn", "error", "fatal"}
  /\ \A i \in DOMAIN Ladder :
       (CHOOSE j \in DOMAIN Ladder : Ladder[j] = Ladder[i]) = i
<1>1. /\ DOMAIN Ladder = 1..6
      /\ Ladder[1] = "trace" /\ Ladder[2] = "debug" /\ Ladder[3] = "info"
      /\ Ladder[4] = "warn" /\ Ladder[5] = "error" /\ Ladder[6] = "fatal"
  BY DEF Ladder
<1>2. \A i \in 1..6 : i = 1 \/ i = 2 \/ i = 3 \/ i = 4 \/ i = 5 \/ i = 6
  OBVIOUS
<1>3. \A i, j \in DOMAIN Ladder : Ladder[i] = Ladder[j] => i = j
  BY <1>1, <1>2
<1>4. ASSUME NEW i \in DOMAIN Ladder
      PROVE  (CHOOSE j \in DOMAIN Ladder : Ladder[j] = Ladder[i]) = i
  BY <1>3
<1> QED
  BY <1>1, <1>2, <1>4 DEF Levels

(* Where a level stands on the ladder; dev counts as info.                 *)
LEMMA SeverityOf ==
  /\ Severity("trace") = 1 /\ Severity("debug") = 2 /\ Severity("info") = 3
  /\ Severity("warn") = 4 /\ Severity("error") = 5 /\ Severity("fatal") = 6
  /\ Severity("dev") = 3
<1>1. ASSUME NEW level, level # "dev"
      PROVE  Severity(level) = CHOOSE j \in DOMAIN Ladder : Ladder[j] = level
  BY <1>1 DEF Severity
<1>2. Severity("dev") = CHOOSE j \in DOMAIN Ladder : Ladder[j] = "info"
  BY DEF Severity
<1> QED
  BY <1>1, <1>2, Rungs

(* The level asked next is the one below.                                  *)
LEMMA NextLowerIs ==
  /\ NextLower("debug") = "trace" /\ NextLower("info") = "debug"
  /\ NextLower("warn") = "info" /\ NextLower("error") = "warn"
  /\ NextLower("fatal") = "error"
<1>1. ASSUME NEW i \in DOMAIN Ladder
      PROVE  NextLower(Ladder[i]) = Ladder[i - 1]
  BY Rungs DEF NextLower
<1>2. /\ NextLower(Ladder[2]) = Ladder[1] /\ NextLower(Ladder[3]) = Ladder[2]
      /\ NextLower(Ladder[4]) = Ladder[3] /\ NextLower(Ladder[5]) = Ladder[4]
      /\ NextLower(Ladder[6]) = Ladder[5]
  BY <1>1, Rungs
<1> QED
  BY <1>2, Rungs

IsAtLeast(level) == Severity(level) >= Severity(setting.level)

SettingType ==
  [level : Levels \cup {"dev"}, console : BOOLEAN, output : BOOLEAN]

(* What a level's static says is what the configuration asks for: where it *)
(* does not depend on the next lower level, and where it does.             *)
LEMMA StaticsDecide ==
  ASSUME setting \in SettingType, NEW level \in Levels
  PROVE  /\ IsDecided(level) => (IsOnByItself(level) <=> IsAtLeast(level))
         /\ ~IsDecided(level) => /\ NextLower(level) \in Levels
                                 /\ IsAtLeast(NextLower(level)) <=> IsAtLeast(level)
<1>1. /\ level \in {"trace", "debug", "info", "warn", "error", "fatal"}
      /\ setting.level \in {"trace", "debug", "info", "warn", "error", "fatal", "dev"}
  BY Rungs DEF SettingType
<1> USE SeverityOf, NextLowerIs, Rungs
    DEF IsDecided, IsOnByItself, AllLevelsOff, IsAtLeast
<1>2. CASE setting.level \in {"info", "dev"}
  BY <1>1, <1>2
<1>3. CASE setting.level = "trace"
  BY <1>1, <1>3
<1>4. CASE setting.level = "debug"
  BY <1>1, <1>4
<1>5. CASE setting.level = "warn"
  BY <1>1, <1>5
<1>6. CASE setting.level = "error"
  BY <1>1, <1>6
<1>7. CASE setting.level = "fatal"
  BY <1>1, <1>7
<1> QED
  BY <1>1, <1>2, <1>3, <1>4, <1>5, <1>6, <1>7
-----------------------------------------------------------------------------
(* Types.                                                                  *)

(* A thread inside a call has made one.                                    *)
CallIsOpen == \A t \in Threads : pc[t] # "idle" => calls[t] # <<>>

LEMMA LastOf ==
  ASSUME NEW S, NEW s \in Seq(S), s # <<>>
  PROVE  /\ Last(s) = s[Len(s)] /\ Last(s) \in S
         /\ Front(s) \in Seq(S)
         /\ Len(s) \in Nat \ {0} /\ Len(s) \in DOMAIN s
         /\ DOMAIN Front(s) \subseteq DOMAIN s
         /\ \A i \in DOMAIN Front(s) : Front(s)[i] = s[i]
<1>1. Len(s) \in Nat \ {0} /\ DOMAIN s = 1..Len(s)
  OBVIOUS
<1>2. Last(s) = s[Len(s)] /\ Last(s) \in S
  BY <1>1 DEF Last
<1>3. /\ Front(s) \in Seq(S)
      /\ DOMAIN Front(s) \subseteq DOMAIN s
      /\ \A i \in DOMAIN Front(s) : Front(s)[i] = s[i]
  BY <1>1 DEF Front
<1> QED
  BY <1>1, <1>2, <1>3

LEMMA AppendOne ==
  ASSUME NEW S, NEW s \in Seq(S), NEW x \in S
  PROVE  /\ Append(s, x) \in Seq(S) /\ Append(s, x) # <<>>
         /\ Len(s) \in Nat /\ Len(Append(s, x)) = Len(s) + 1
         /\ Append(s, x)[Len(s) + 1] = x
         /\ DOMAIN s = 1..Len(s)
         /\ DOMAIN Append(s, x) = DOMAIN s \cup {Len(s) + 1}
         /\ \A i \in DOMAIN s : Append(s, x)[i] = s[i] /\ i < Len(s) + 1
<1>1. /\ Append(s, x) \in Seq(S) /\ Append(s, x) # <<>>
      /\ Len(s) \in Nat /\ Len(Append(s, x)) = Len(s) + 1
      /\ Append(s, x)[Len(s) + 1] = x
      /\ \A i \in 1..Len(s) : Append(s, x)[i] = s[i]
  BY AppendProperties
<1>2. DOMAIN s = 1..Len(s) /\ DOMAIN Append(s, x) = 1..(Len(s) + 1)
  BY <1>1
<1>3. /\ 1..(Len(s) + 1) = (1..Len(s)) \cup {Len(s) + 1}
      /\ \A i \in 1..Len(s) : i < Len(s) + 1
  BY <1>1
<1> QED
  BY <1>1, <1>2, <1>3

LEMMA LineType ==
  ASSUME TypeOK, NEW t \in Threads, calls[t] # <<>>
  PROVE  /\ CallOf(t) \in Levels /\ CallOf(t) = calls[t][Len(calls[t])]
         /\ Len(calls[t]) \in Nat \ {0} /\ Len(calls[t]) \in DOMAIN calls[t]
         /\ LineOf(t) \in Line
<1>1. calls[t] \in Seq(Levels) /\ line[t] \in 1..2
  BY DEF TypeOK
<1>2. /\ CallOf(t) \in Levels /\ CallOf(t) = calls[t][Len(calls[t])]
      /\ Len(calls[t]) \in Nat \ {0} /\ Len(calls[t]) \in DOMAIN calls[t]
  BY <1>1, LastOf DEF CallOf
<1> QED
  BY <1>1, <1>2 DEF LineOf, Line

LEMMA PutType ==
  ASSUME TypeOK, NEW t \in Threads, calls[t] # <<>>, NEW half \in 1..2,
         Put(t, half)
  PROVE  file' \in Seq(Pieces) /\ broken' \in BOOLEAN
<1>1. Piece(t, half) \in Pieces
  BY LineType DEF Piece, Pieces
<1>2. file \in Seq(Pieces) /\ broken \in BOOLEAN
  BY DEF TypeOK
<1>3. Append(file, Piece(t, half)) \in Seq(Pieces)
  BY <1>1, <1>2
<1> QED
  BY <1>2, <1>3, Zenon DEF Put

LEMMA LineDoneType ==
  ASSUME TypeOK, NEW t \in Threads, calls[t] # <<>>, LineDone(t)
  PROVE  pc' \in [Threads -> Places] /\ line' \in [Threads -> 1..2]
<1>1. LinesOf(CallOf(t)) \in 1..2
  BY DEF LinesOf
<1>2. line[t] \in 1..2 /\ line \in [Threads -> 1..2]
  BY DEF TypeOK
<1>3. line[t] < LinesOf(CallOf(t)) => line[t] + 1 \in 1..2
  BY <1>1, <1>2
<1>4. line' \in [Threads -> 1..2]
  BY <1>2, <1>3 DEF LineDone
<1>5. pc' \in [Threads -> Places]
  BY DEF LineDone, Goto, TypeOK, Places
<1> QED
  BY <1>4, <1>5

LEMMA TypeNext ==
  ASSUME TypeOK, CallIsOpen, [Next]_vars
  PROVE  TypeOK' /\ CallIsOpen'
<1> USE DEF Goto, Answer
<1>1. ASSUME NEW t \in Threads, Call(t)
      PROVE  TypeOK' /\ CallIsOpen'
  <2>1. PICK level \in Called :
          /\ calls' = [calls EXCEPT ![t] = Append(@, level)]
          /\ \/ UNCHANGED <<pc, asked>>
             \/ Goto(t, "asking") /\ asked' = [asked EXCEPT ![t] = <<level>>]
    BY <1>1 DEF Call
  <2>2. level \in Levels
    OBVIOUS
  <2>3. /\ calls' \in [Threads -> Seq(Levels)]
        /\ calls'[t] # <<>>
        /\ \A u \in Threads \ {t} : calls'[u] = calls[u]
    <3>1. calls[t] \in Seq(Levels) /\ calls \in [Threads -> Seq(Levels)]
      BY DEF TypeOK
    <3>2. Append(calls[t], level) \in Seq(Levels) /\ Append(calls[t], level) # <<>>
      BY <2>2, <3>1
    <3> QED
      BY <2>1, <3>1, <3>2
  <2>4. /\ pc' \in [Threads -> Places]
        /\ asked' \in [Threads -> Seq(Levels)]
        /\ \A u \in Threads \ {t} : pc'[u] = pc[u]
    <3>1. <<level>> \in Seq(Levels)
      BY <2>2
    <3>2. "asking" \in Places
      BY DEF Places
    <3>3. /\ pc \in [Threads -> Places]
          /\ asked \in [Threads -> Seq(Levels)]
      BY DEF TypeOK
    <3>4. CASE UNCHANGED <<pc, asked>>
      BY <3>3, <3>4
    <3>5. CASE /\ pc' = [pc EXCEPT ![t] = "asking"]
               /\ asked' = [asked EXCEPT ![t] = <<level>>]
      BY <3>1, <3>2, <3>3, <3>5
    <3> QED
      BY <2>1, <3>4, <3>5
  <2>5. TypeOK'
    BY <1>1, <2>3, <2>4 DEF TypeOK, Call, levelVars, outVars
  <2> QED
    BY <2>3, <2>4, <2>5 DEF CallIsOpen
<1>2. ASSUME NEW t \in Threads, Enter(t)
      PROVE  TypeOK' /\ CallIsOpen'
  <2>1. /\ asked[t] \in Seq(Levels) /\ asked[t] # <<>>
        /\ Last(asked[t]) \in Levels
        /\ Front(asked[t]) \in Seq(Levels)
    BY <1>2, LastOf DEF Enter, TypeOK
  <2>2. setting \in SettingType
    BY DEF TypeOK, SettingType
  <2>3. PICK level \in Levels : level = Last(asked[t])
    BY <2>1
  <2>4. CASE asked' = [asked EXCEPT ![t] = Front(@)]
    <3>1. asked' \in [Threads -> Seq(Levels)]
      BY <2>1, <2>4 DEF TypeOK
    <3>2. /\ guard' \in [Levels -> Threads \cup {NoThread}]
          /\ known' \subseteq Levels
      <4>1. guard \in [Levels -> Threads \cup {NoThread}] /\ known \subseteq Levels
        BY DEF TypeOK
      <4>2. guard' = guard \/ guard' = [guard EXCEPT ![level] = t]
        BY <1>2, <2>3, Zenon DEF Enter, levelVars
      <4>3. known' = known \/ known' = known \cup {level}
        BY <1>2, <2>3, Zenon DEF Enter, levelVars
      <4> QED
        BY <2>3, <4>1, <4>2, <4>3
    <3>4. on' \in [Levels -> BOOLEAN]
      <4>1. PICK value \in BOOLEAN : value = IsOnByItself(level)
        BY Zenon DEF IsOnByItself
      <4>2. on \in [Levels -> BOOLEAN]
        BY DEF TypeOK
      <4>3. on' = on \/ on' = [on EXCEPT ![level] = value]
        BY <1>2, <2>3, <4>1, Zenon DEF Enter, levelVars
      <4> QED
        BY <4>2, <4>3, Zenon
    <3>3. answer' \in [Threads -> {"none", "yes", "no"}]
      BY <1>2 DEF Enter, TypeOK
    <3> QED
      BY <1>2, <3>1, <3>2, <3>3, <3>4 DEF Enter, TypeOK, CallIsOpen, outVars
  <2>5. CASE /\ ~IsDecided(level)
             /\ guard' = [guard EXCEPT ![level] = t]
             /\ asked' = [asked EXCEPT ![t] = Append(@, NextLower(level))]
             /\ UNCHANGED <<known, on, answer>>
    <3>1. NextLower(level) \in Levels
      BY <2>2, <2>5, StaticsDecide
    <3>2. asked' \in [Threads -> Seq(Levels)]
      BY <2>1, <2>5, <3>1 DEF TypeOK
    <3> QED
      BY <1>2, <2>5, <3>2 DEF Enter, TypeOK, CallIsOpen, outVars
  <2> QED
    BY <1>2, <2>3, <2>4, <2>5 DEF Enter
<1>3. ASSUME NEW t \in Threads, Initialise(t)
      PROVE  TypeOK' /\ CallIsOpen'
  <2>1. /\ Last(asked[t]) \in Levels
        /\ Front(asked[t]) \in Seq(Levels)
    BY <1>3, LastOf DEF Initialise, TypeOK
  <2>2. on' \in [Levels -> BOOLEAN]
    <3>1. on \in [Levels -> BOOLEAN]
      BY DEF TypeOK
    <3>2. PICK value \in BOOLEAN : value = (answer[t] = "yes")
      BY Zenon
    <3>3. on' = [on EXCEPT ![Last(asked[t])] = value]
      BY <1>3, <3>2, Zenon DEF Initialise
    <3> QED
      BY <3>1, <3>3, Zenon
  <2> QED
    BY <1>3, <2>1, <2>2 DEF Initialise, TypeOK, CallIsOpen, outVars
<1>4. ASSUME NEW t \in Threads, Answered(t)
      PROVE  TypeOK' /\ CallIsOpen'
  <2>1. /\ pc' = [pc EXCEPT ![t] = "compose"] \/ pc' = [pc EXCEPT ![t] = "idle"]
        /\ pc[t] # "idle"
    BY <1>4 DEF Answered
  <2>2. pc' \in [Threads -> Places]
    BY <2>1 DEF TypeOK, Places
  <2>3. /\ answer' \in [Threads -> {"none", "yes", "no"}]
        /\ line' \in [Threads -> 1..2]
    BY <1>4 DEF Answered, TypeOK
  <2>4. TypeOK'
    BY <1>4, <2>2, <2>3, Zenon DEF Answered, TypeOK, levelVars, outVars
  <2>5. calls' = calls
    BY <1>4 DEF Answered
  <2> QED
    BY <2>1, <2>4, <2>5 DEF CallIsOpen, TypeOK
<1>5. ASSUME NEW t \in Threads, Compose(t)
      PROVE  TypeOK' /\ CallIsOpen'
  BY <1>5 DEF Compose, TypeOK, CallIsOpen, Places, levelVars
<1>6. ASSUME NEW t \in Threads, Show(t)
      PROVE  TypeOK' /\ CallIsOpen'
  <2>1. calls[t] # <<>>
    BY <1>6 DEF Show, CallIsOpen
  <2>2. screen' \in Seq(Line)
    BY <1>6, <2>1, LineType DEF Show, TypeOK
  <2>3. pc' \in [Threads -> Places] /\ line' \in [Threads -> 1..2]
    BY <1>6, <2>1, LineDoneType DEF Show, TypeOK, Places
  <2>4. \A u \in Threads \ {t} : pc'[u] = pc[u]
    BY <1>6 DEF Show, LineDone, TypeOK
  <2>5. TypeOK'
    BY <1>6, <2>2, <2>3 DEF Show, TypeOK, levelVars
  <2> QED
    BY <1>6, <2>1, <2>4, <2>5 DEF Show, CallIsOpen
<1>7. ASSUME NEW t \in Threads, Lock(t)
      PROVE  TypeOK' /\ CallIsOpen'
  BY <1>7 DEF Lock, TypeOK, CallIsOpen, Places, levelVars
<1>8. ASSUME NEW t \in Threads, Write(t)
      PROVE  TypeOK' /\ CallIsOpen'
  <2>1. file' \in Seq(Pieces) /\ broken' \in BOOLEAN
    BY <1>8, PutType DEF Write, CallIsOpen
  <2> QED
    BY <1>8, <2>1 DEF Write, TypeOK, CallIsOpen, Places, levelVars
<1>9. ASSUME NEW t \in Threads, Flush(t)
      PROVE  TypeOK' /\ CallIsOpen'
  <2>1. calls[t] # <<>>
    BY <1>9 DEF Flush, CallIsOpen
  <2>2. file' \in Seq(Pieces) /\ broken' \in BOOLEAN
    BY <1>9, <2>1, PutType DEF Flush
  <2>3. pc' \in [Threads -> Places] /\ line' \in [Threads -> 1..2]
    BY <1>9, <2>1, LineDoneType DEF Flush
  <2>4. \A u \in Threads \ {t} : pc'[u] = pc[u]
    BY <1>9 DEF Flush, LineDone, TypeOK
  <2>5. TypeOK'
    BY <1>9, <2>2, <2>3 DEF Flush, TypeOK, levelVars
  <2> QED
    BY <1>9, <2>1, <2>4, <2>5 DEF Flush, CallIsOpen
<1>10. CASE UNCHANGED vars
  BY <1>10 DEF vars, levelVars, outVars, TypeOK, CallIsOpen
<1> QED
  BY <1>1, <1>2, <1>3, <1>4, <1>5, <1>6, <1>7, <1>8, <1>9, <1>10
  DEF Next, Done, InCall

LEMMA TypeInit == Init => TypeOK /\ CallIsOpen
<1> SUFFICES ASSUME Init PROVE TypeOK /\ CallIsOpen
  OBVIOUS
<1>1. on \in [Levels -> BOOLEAN]
  BY Zenon DEF Init
<1>2. /\ calls \in [Threads -> Seq(Levels)]
      /\ asked \in [Threads -> Seq(Levels)]
      /\ screen \in Seq(Line)
      /\ file \in Seq(Pieces)
  BY DEF Init
<1>3. pc \in [Threads -> Places] /\ CallIsOpen
  BY DEF Init, Places, CallIsOpen
<1>4. /\ setting \in Settings
      /\ guard \in [Levels -> Threads \cup {NoThread}]
      /\ known \subseteq Levels
      /\ answer \in [Threads -> {"none", "yes", "no"}]
      /\ line \in [Threads -> 1..2]
      /\ holder \in Threads \cup {NoThread}
  BY DEF Init
<1>5. broken \in BOOLEAN /\ exitFlag \in BOOLEAN
  BY Zenon DEF Init
<1> QED
  BY <1>1, <1>2, <1>3, <1>4, <1>5, Zenon DEF TypeOK

(* The variables have their types.                                         *)
THEOREM TypeCorrect == Spec => []TypeOK
<1>1. Spec => [](TypeOK /\ CallIsOpen)
  BY TypeInit, TypeNext, PTL DEF Spec
<1> QED
  BY <1>1, PTL
-----------------------------------------------------------------------------
(* What a thread is told about its level.                                  *)

(* A step of one thread leaves the others where they are.                  *)
LEMMA OthersStay ==
  ASSUME TypeOK, NEW t \in Threads, Call(t) \/ InCall(t)
  PROVE  /\ setting' = setting
         /\ \A u \in Threads \ {t} :
              /\ pc'[u] = pc[u] /\ calls'[u] = calls[u] /\ asked'[u] = asked[u]
              /\ answer'[u] = answer[u] /\ line'[u] = line[u]
<1> USE DEF Goto, TypeOK
<1>1. CASE Call(t)
  BY <1>1 DEF Call
<1>2. CASE Enter(t)
  BY <1>2 DEF Enter, Answer
<1>3. CASE Initialise(t)
  BY <1>3 DEF Initialise
<1>4. CASE Answered(t)
  BY <1>4 DEF Answered
<1>5. CASE Compose(t)
  BY <1>5 DEF Compose
<1>6. CASE Show(t)
  BY <1>6 DEF Show, LineDone
<1>7. CASE Lock(t)
  BY <1>7 DEF Lock
<1>8. CASE Write(t)
  BY <1>8 DEF Write
<1>9. CASE Flush(t)
  BY <1>9 DEF Flush, LineDone
<1> QED
  BY <1>1, <1>2, <1>3, <1>4, <1>5, <1>6, <1>7, <1>8, <1>9 DEF InCall

(* A static that is there says what the configuration asks for.            *)
StaticsAreRight == \A l \in known : on[l] <=> IsAtLeast(l)

InLines == {"compose", "show", "lock", "write", "flush"}

(* All the levels that a thread is asking for are, for this configuration, *)
(* as good as the level of its call, and so is the answer it brings back.  *)
KnowsItsLevel(t) ==
  /\ pc[t] # "asking" => asked[t] = <<>> /\ answer[t] = "none"
  /\ pc[t] = "asking" =>
       /\ IsConsulted
       /\ \A i \in DOMAIN asked[t] : IsAtLeast(asked[t][i]) <=> IsAtLeast(CallOf(t))
       /\ answer[t] # "none" => (answer[t] = "yes" <=> IsAtLeast(CallOf(t)))
       /\ asked[t] = <<>> => answer[t] # "none"
  /\ pc[t] \in InLines => IsWanted(CallOf(t)) /\ line[t] <= LinesOf(CallOf(t))
  /\ pc[t] \in {"lock", "write", "flush"} => setting.output

LevelsAreRight == StaticsAreRight /\ \A t \in Threads : KnowsItsLevel(t)

(* A thread that does not move keeps what it knows.                        *)
LEMMA KnowsStill ==
  ASSUME NEW u \in Threads, KnowsItsLevel(u), setting' = setting,
         pc'[u] = pc[u], calls'[u] = calls[u], asked'[u] = asked[u],
         answer'[u] = answer[u], line'[u] = line[u]
  PROVE  KnowsItsLevel(u)'
  BY DEF KnowsItsLevel, CallOf, IsWanted, IsConsulted, IsAtLeast

LEMMA LevelsNext ==
  ASSUME TypeOK, CallIsOpen, TypeOK', LevelsAreRight, [Next]_vars
  PROVE  LevelsAreRight'
<1> USE DEF Goto
<1>1. ASSUME UNCHANGED vars PROVE LevelsAreRight'
  BY <1>1, KnowsStill
  DEF vars, levelVars, LevelsAreRight, StaticsAreRight, IsAtLeast
<1>2. ASSUME NEW t \in Threads, Call(t) \/ InCall(t)
      PROVE  LevelsAreRight'
  <2>1. /\ setting' = setting
        /\ \A u \in Threads \ {t} : KnowsItsLevel(u)'
    BY <1>2, OthersStay, KnowsStill DEF LevelsAreRight
  <2>2. KnowsItsLevel(t) /\ StaticsAreRight
    BY DEF LevelsAreRight
  <2>3. \A l : IsAtLeast(l)' = IsAtLeast(l)
    BY <2>1 DEF IsAtLeast
  <2>4. ASSUME KnowsItsLevel(t)', StaticsAreRight'
        PROVE  LevelsAreRight'
    BY <2>1, <2>4 DEF LevelsAreRight
  <2>5. UNCHANGED <<known, on>> => StaticsAreRight'
    BY <2>2, <2>3 DEF StaticsAreRight
  <2>6. CASE Call(t)
    <3>1. PICK level \in Called :
            /\ calls' = [calls EXCEPT ![t] = Append(@, level)]
            /\ \/ UNCHANGED <<pc, asked>>
               \/ /\ IsConsulted /\ pc' = [pc EXCEPT ![t] = "asking"]
                  /\ asked' = [asked EXCEPT ![t] = <<level>>]
      BY <2>6 DEF Call
    <3>2. calls[t] \in Seq(Levels) /\ pc[t] = "idle" /\ answer'[t] = answer[t]
      BY <2>6 DEF Call, TypeOK
    <3>3. calls'[t] = Append(calls[t], level)
      BY <3>1 DEF TypeOK
    <3>4. CallOf(t)' = level
      BY <3>2, <3>3 DEF CallOf, Last
    <3>5. CASE UNCHANGED <<pc, asked>>
      <4>1. pc'[t] = "idle" /\ asked'[t] = <<>> /\ answer'[t] = "none"
        BY <2>2, <3>2, <3>5 DEF KnowsItsLevel
      <4> QED
        BY <2>4, <2>5, <2>6, <4>1 DEF KnowsItsLevel, InLines, Call, levelVars
    <3>6. CASE /\ IsConsulted /\ pc' = [pc EXCEPT ![t] = "asking"]
               /\ asked' = [asked EXCEPT ![t] = <<level>>]
      <4>1. pc'[t] = "asking" /\ asked'[t] = <<level>> /\ answer'[t] = "none"
        BY <2>2, <3>2, <3>6 DEF KnowsItsLevel, TypeOK
      <4>2. IsConsulted'
        BY <2>1, <3>6 DEF IsConsulted
      <4> QED
        BY <2>4, <2>5, <2>6, <3>4, <4>1, <4>2
        DEF KnowsItsLevel, InLines, Call, levelVars
    <3> QED
      BY <3>1, <3>5, <3>6
  <2>7. CASE Enter(t)
    <3>1. /\ asked[t] \in Seq(Levels) /\ asked[t] # <<>>
          /\ pc[t] = "asking" /\ pc'[t] = "asking" /\ calls' = calls
          /\ answer[t] = "none"
      BY <2>7 DEF Enter, TypeOK
    <3>2. PICK level \in Levels : level = Last(asked[t])
      BY <3>1, LastOf
    <3>3. CallOf(t)' = CallOf(t) /\ IsConsulted /\ IsConsulted'
      BY <2>1, <2>2, <3>1 DEF CallOf, KnowsItsLevel, IsConsulted
    <3>4. /\ IsAtLeast(level) <=> IsAtLeast(CallOf(t))
          /\ \A i \in DOMAIN asked[t] :
               IsAtLeast(asked[t][i]) <=> IsAtLeast(CallOf(t))
      BY <2>2, <3>1, <3>2, LastOf DEF KnowsItsLevel
    <3>5. setting \in SettingType
      BY DEF TypeOK, SettingType
    <3>6. ASSUME NEW value \in BOOLEAN, value <=> IsAtLeast(level),
                 answer' = [answer EXCEPT ![t] = IF value THEN "yes" ELSE "no"],
                 asked' = [asked EXCEPT ![t] = Front(@)]
          PROVE  KnowsItsLevel(t)'
      <4>1. /\ asked'[t] = Front(asked[t])
            /\ answer'[t] = IF value THEN "yes" ELSE "no"
        BY <3>6 DEF TypeOK
      <4>2. \A i \in DOMAIN asked'[t] :
              IsAtLeast(asked'[t][i]) <=> IsAtLeast(CallOf(t))
        <5>1. \A i \in DOMAIN Front(asked[t]) :
                i \in DOMAIN asked[t] /\ Front(asked[t])[i] = asked[t][i]
          BY <3>1, LastOf
        <5> QED
          BY <3>4, <4>1, <5>1
      <4> QED
        BY <2>3, <3>1, <3>3, <3>4, <3>6, <4>1, <4>2 DEF KnowsItsLevel, InLines
    <3>7. CASE /\ level \in known
               /\ asked' = [asked EXCEPT ![t] = Front(@)]
               /\ answer' = [answer EXCEPT ![t] = IF on[level] THEN "yes" ELSE "no"]
               /\ UNCHANGED levelVars
      <4>1. on[level] \in BOOLEAN
        BY DEF TypeOK
      <4>2. on[level] <=> IsAtLeast(level)
        BY <2>2, <3>7 DEF StaticsAreRight
      <4> QED
        BY <2>4, <2>5, <3>6, <3>7, <4>1, <4>2 DEF levelVars
    <3>8. CASE /\ IsDecided(level)
               /\ known' = known \cup {level}
               /\ on' = [on EXCEPT ![level] = IsOnByItself(level)]
               /\ asked' = [asked EXCEPT ![t] = Front(@)]
               /\ answer' = [answer EXCEPT ![t] =
                              IF IsOnByItself(level) THEN "yes" ELSE "no"]
      <4>1. PICK value \in BOOLEAN : value = IsOnByItself(level)
        BY Zenon DEF IsOnByItself
      <4>2. value <=> IsAtLeast(level)
        BY <3>5, <3>8, <4>1, StaticsDecide
      <4>3. KnowsItsLevel(t)'
        BY <3>6, <3>8, <4>1, <4>2
      <4>4. \A l \in known' : on'[l] = IF l = level THEN value ELSE on[l]
        BY <3>8, <4>1 DEF TypeOK
      <4>5. StaticsAreRight'
        BY <2>2, <2>3, <3>8, <4>2, <4>4 DEF StaticsAreRight
      <4> QED
        BY <2>4, <4>3, <4>5
    <3>9. CASE /\ ~IsDecided(level)
               /\ asked' = [asked EXCEPT ![t] = Append(@, NextLower(level))]
               /\ UNCHANGED <<known, on, answer>>
      <4>1. PICK next \in Levels :
              next = NextLower(level) /\ (IsAtLeast(next) <=> IsAtLeast(level))
        BY <3>5, <3>9, StaticsDecide
      <4>2. asked'[t] = Append(asked[t], next)
        BY <3>9, <4>1 DEF TypeOK
      <4>3. \A i \in DOMAIN asked'[t] :
              IsAtLeast(asked'[t][i]) <=> IsAtLeast(CallOf(t))
        <5>1. \A i \in DOMAIN asked'[t] :
                \/ asked'[t][i] = next
                \/ i \in DOMAIN asked[t] /\ asked'[t][i] = asked[t][i]
          BY <3>1, <4>1, <4>2, AppendOne
        <5> QED
          BY <3>4, <4>1, <5>1
      <4>4. KnowsItsLevel(t)'
        BY <2>3, <3>1, <3>3, <3>9, <4>2, <4>3 DEF KnowsItsLevel, InLines
      <4> QED
        BY <2>4, <2>5, <3>9, <4>4
    <3> QED
      BY <2>7, <3>2, <3>7, <3>8, <3>9, Zenon DEF Enter, Answer
  <2>8. CASE Initialise(t)
    <3>1. /\ asked[t] \in Seq(Levels) /\ asked[t] # <<>>
          /\ pc[t] = "asking" /\ pc'[t] = "asking" /\ calls' = calls
          /\ answer[t] # "none" /\ answer'[t] = answer[t]
      BY <2>8 DEF Initialise, TypeOK
    <3>2. PICK level \in Levels : level = Last(asked[t])
      BY <3>1, LastOf
    <3>3. CallOf(t)' = CallOf(t) /\ IsConsulted /\ IsConsulted'
      BY <2>1, <2>2, <3>1 DEF CallOf, KnowsItsLevel, IsConsulted
    <3>4. /\ IsAtLeast(level) <=> IsAtLeast(CallOf(t))
          /\ answer[t] = "yes" <=> IsAtLeast(CallOf(t))
      BY <2>2, <3>1, <3>2, LastOf DEF KnowsItsLevel
    <3>5. asked'[t] = Front(asked[t])
      BY <2>8 DEF Initialise, TypeOK
    <3>6. \A i \in DOMAIN asked'[t] :
            IsAtLeast(asked'[t][i]) <=> IsAtLeast(CallOf(t))
      <4>1. \A i \in DOMAIN asked'[t] :
              i \in DOMAIN asked[t] /\ asked'[t][i] = asked[t][i]
        BY <3>1, <3>5, LastOf
      <4> QED
        BY <2>2, <3>1, <4>1 DEF KnowsItsLevel
    <3>7. KnowsItsLevel(t)'
      BY <2>3, <3>1, <3>3, <3>4, <3>6, SMTT(30) DEF KnowsItsLevel, InLines
    <3>8. PICK value \in BOOLEAN : value = (answer[t] = "yes")
      BY Zenon
    <3>9. on' = [on EXCEPT ![level] = value] /\ known' = known \cup {level}
      BY <2>8, <3>2, <3>8, Zenon DEF Initialise
    <3>10. \A l \in known' : on'[l] = IF l = level THEN value ELSE on[l]
      BY <3>9 DEF TypeOK
    <3>11. value <=> IsAtLeast(level)
      BY <3>4, <3>8
    <3>12. StaticsAreRight'
      BY <2>2, <2>3, <3>9, <3>10, <3>11 DEF StaticsAreRight
    <3> QED
      BY <2>4, <3>7, <3>12
  <2>9. CASE Answered(t)
    <3>1. /\ pc[t] = "asking" /\ calls' = calls /\ asked'[t] = <<>>
          /\ answer'[t] = "none" /\ line'[t] = 1
          /\ pc'[t] = IF answer[t] = "yes" THEN "compose" ELSE "idle"
      BY <2>9 DEF Answered, TypeOK
    <3>2. answer[t] = "yes" => IsWanted(CallOf(t))
      BY <2>2, <3>1 DEF KnowsItsLevel, IsWanted, IsAtLeast
    <3>3. CallOf(t)' = CallOf(t) /\ (IsWanted(CallOf(t)) => IsWanted(CallOf(t))')
      BY <2>1, <3>1 DEF CallOf, IsWanted, IsConsulted
    <3>4. 1 <= LinesOf(CallOf(t)')
      BY DEF LinesOf
    <3>5. KnowsItsLevel(t)'
      BY <3>1, <3>2, <3>3, <3>4 DEF KnowsItsLevel, InLines
    <3> QED
      BY <2>4, <2>5, <2>9, <3>5 DEF Answered, levelVars
  <2>10. ASSUME pc[t] \in InLines, calls' = calls, pc'[t] \in InLines \cup {"idle"},
                asked'[t] = asked[t], answer'[t] = answer[t],
                pc'[t] \in InLines => line'[t] <= LinesOf(CallOf(t)),
                pc'[t] \in {"lock", "write", "flush"} => setting.output,
                UNCHANGED <<known, on>>
         PROVE  LevelsAreRight'
    <3>1. /\ pc[t] # "asking" /\ pc'[t] # "asking"
          /\ asked'[t] = <<>> /\ answer'[t] = "none"
      BY <2>2, <2>10 DEF KnowsItsLevel, InLines
    <3>2. CallOf(t)' = CallOf(t) /\ IsWanted(CallOf(t)) /\ IsWanted(CallOf(t))'
      BY <2>1, <2>2, <2>10 DEF CallOf, IsWanted, IsConsulted, KnowsItsLevel
    <3>3. KnowsItsLevel(t)'
      BY <2>1, <2>10, <3>1, <3>2 DEF KnowsItsLevel
    <3> QED
      BY <2>4, <2>5, <2>10, <3>3
  <2>11. /\ pc[t] \in InLines => line[t] <= LinesOf(CallOf(t))
         /\ pc[t] \in {"lock", "write", "flush"} => setting.output
    BY <2>2 DEF KnowsItsLevel
  <2>12. LineDone(t) => /\ pc'[t] \in {"compose", "idle"}
                        /\ pc'[t] # "idle" => line'[t] <= LinesOf(CallOf(t))
    <3>1. LinesOf(CallOf(t)) \in 1..2
      BY DEF LinesOf
    <3>2. line[t] \in 1..2 /\ line \in [Threads -> 1..2] /\ pc \in [Threads -> Places]
      BY DEF TypeOK
    <3>3. ASSUME line[t] < LinesOf(CallOf(t)), line' = [line EXCEPT ![t] = @ + 1]
          PROVE  line'[t] <= LinesOf(CallOf(t))
      BY <3>1, <3>2, <3>3
    <3> QED
      BY <3>2, <3>3 DEF LineDone
  <2>13. CASE Compose(t)
    BY <2>10, <2>11, <2>13 DEF Compose, TypeOK, InLines, levelVars
  <2>14. CASE Show(t)
    <3>1. CASE setting.output
      BY <2>10, <2>11, <2>14, <3>1 DEF Show, TypeOK, InLines, levelVars
    <3>2. CASE ~setting.output
      BY <2>10, <2>12, <2>14, <3>2 DEF Show, TypeOK, InLines, levelVars
    <3> QED
      BY <3>1, <3>2
  <2>15. CASE Lock(t)
    BY <2>10, <2>11, <2>15 DEF Lock, TypeOK, InLines, levelVars
  <2>16. CASE Write(t)
    BY <2>10, <2>11, <2>16 DEF Write, TypeOK, InLines, levelVars
  <2>17. CASE Flush(t)
    BY <2>10, <2>12, <2>17 DEF Flush, TypeOK, InLines, levelVars
  <2> QED
    BY <1>2, <2>6, <2>7, <2>8, <2>9, <2>13, <2>14, <2>15, <2>16, <2>17 DEF InCall
<1> QED
  BY <1>1, <1>2 DEF Next, Done
-----------------------------------------------------------------------------
(* The log file.                                                           *)

HolderWrites ==
  \A t \in Threads : pc[t] \in {"write", "flush"} <=> holder = t

(* While nothing has failed, the file ends in the first half of the line   *)
(* of the thread that is about to flush, or in the end of a line.          *)
EndsAsWritten ==
  ~broken =>
    /\ \A t \in Threads : pc[t] = "flush" =>
         file # <<>> /\ file[Len(file)] = Piece(t, 1)
    /\ file # <<>> /\ (\A t \in Threads : pc[t] # "flush") =>
         file[Len(file)].half = 2

FileIsWhole == HolderWrites /\ EndsAsWritten /\ LinesAreWhole

(* A step that leaves the file alone, outside of the mutex.                *)
LEMMA FileLeft ==
  ASSUME TypeOK, FileIsWhole, NEW t \in Threads,
         pc[t] \notin {"write", "flush"}, pc' \in [Threads -> Places],
         pc'[t] \notin {"write", "flush"}, UNCHANGED <<holder, file, broken>>,
         \A u \in Threads \ {t} :
           pc'[u] = pc[u] /\ calls'[u] = calls[u] /\ line'[u] = line[u]
  PROVE  FileIsWhole'
<1>1. HolderWrites'
  BY DEF FileIsWhole, HolderWrites
<1>2. \A u \in Threads : pc'[u] = "flush" <=> pc[u] = "flush"
  OBVIOUS
<1>3. \A u \in Threads \ {t} : Piece(u, 1)' = Piece(u, 1)
  BY DEF Piece, LineOf, CallOf
<1>4. EndsAsWritten'
  BY <1>2, <1>3 DEF FileIsWhole, EndsAsWritten
<1>5. LinesAreWhole'
  BY DEF FileIsWhole, LinesAreWhole
<1> QED
  BY <1>1, <1>4, <1>5 DEF FileIsWhole

(* Writing and flushing under the mutex.                                   *)
LEMMA FilePut ==
  ASSUME TypeOK, CallIsOpen, FileIsWhole, NEW t \in Threads,
         pc[t] \in {"write", "flush"},
         NEW half \in 1..2, half = (IF pc[t] = "write" THEN 1 ELSE 2),
         ~broken, file' = Append(file, Piece(t, half))
  PROVE  LinesAreWhole' /\ file' # <<>> /\ file'[Len(file')] = Piece(t, half)
<1>1. PICK piece \in Pieces : piece = Piece(t, half) /\ piece.half = half
  BY LineType DEF Piece, Pieces, CallIsOpen
<1>2. file \in Seq(Pieces)
  BY DEF TypeOK
<1>3. PICK n \in Nat : n = Len(file) /\ DOMAIN file = 1..n
  BY <1>2
<1>4. /\ file' # <<>> /\ Len(file') = n + 1 /\ file'[n + 1] = piece
      /\ DOMAIN file' = 1..(n + 1)
      /\ \A i \in 1..n : file'[i] = file[i]
  BY <1>1, <1>2, <1>3, AppendOne
<1>5. CASE pc[t] = "write"
  <2>1. \A u \in Threads : pc[u] # "flush"
    BY <1>5 DEF FileIsWhole, HolderWrites
  <2>2. n > 0 => file[n].half = 2
    BY <1>3, <2>1 DEF FileIsWhole, EndsAsWritten
  <2>3. half = 1
    BY <1>5
  <2>4. ASSUME NEW i \in 1..(n + 1)
        PROVE  IF file'[i].half = 1
               THEN i < n + 1 => file'[i + 1].half = 2 /\ file'[i + 1].of = file'[i].of
               ELSE i > 1 /\ file'[i - 1].half = 1
    <3>1. CASE i = n + 1
      BY <1>1, <1>4, <2>3, <3>1
    <3>2. CASE i = n /\ n > 0
      BY <1>3, <1>4, <2>2, <3>2 DEF FileIsWhole, LinesAreWhole
    <3>3. CASE i < n
      BY <1>3, <1>4, <3>3 DEF FileIsWhole, LinesAreWhole
    <3>4. i = n + 1 \/ (i = n /\ n > 0) \/ i < n
      BY <1>3
    <3> QED
      BY <3>1, <3>2, <3>3, <3>4
  <2> QED
    BY <1>1, <1>4, <2>4 DEF LinesAreWhole
<1>6. CASE pc[t] = "flush"
  <2>1. n > 0 /\ file[n] = Piece(t, 1)
    BY <1>2, <1>3, <1>6 DEF FileIsWhole, EndsAsWritten
  <2>2. half = 2 /\ file[n].half = 1 /\ piece.of = file[n].of
    BY <1>1, <1>6, <2>1 DEF Piece
  <2>3. ASSUME NEW i \in 1..(n + 1)
        PROVE  IF file'[i].half = 1
               THEN i < n + 1 => file'[i + 1].half = 2 /\ file'[i + 1].of = file'[i].of
               ELSE i > 1 /\ file'[i - 1].half = 1
    <3>1. CASE i = n + 1
      BY <1>1, <1>4, <2>1, <2>2, <3>1
    <3>2. CASE i = n
      BY <1>1, <1>3, <1>4, <2>1, <2>2, <3>2
    <3>3. CASE i < n
      BY <1>3, <1>4, <3>3 DEF FileIsWhole, LinesAreWhole
    <3>4. i = n + 1 \/ (i = n /\ n > 0) \/ i < n
      BY <1>3
    <3> QED
      BY <3>1, <3>2, <3>3, <3>4
  <2> QED
    BY <1>1, <1>4, <2>3 DEF LinesAreWhole
<1> QED
  BY <1>5, <1>6

LEMMA FileNext ==
  ASSUME TypeOK, CallIsOpen, TypeOK', FileIsWhole, [Next]_vars
  PROVE  FileIsWhole'
<1> USE DEF Goto
<1>1. CASE UNCHANGED vars
  BY <1>1 DEF vars, levelVars, outVars, FileIsWhole, HolderWrites, EndsAsWritten,
              LinesAreWhole, Piece, LineOf, CallOf
<1>2. ASSUME NEW t \in Threads, Call(t) \/ InCall(t)
      PROVE  FileIsWhole'
  <2>1. /\ \A u \in Threads \ {t} :
             pc'[u] = pc[u] /\ calls'[u] = calls[u] /\ line'[u] = line[u]
        /\ \A u \in Threads \ {t} : Piece(u, 1)' = Piece(u, 1)
    BY <1>2, OthersStay DEF Piece, LineOf, CallOf
  <2>2. pc \in [Threads -> Places] /\ pc' \in [Threads -> Places]
    BY DEF TypeOK
  <2>3. CASE /\ pc[t] \notin {"write", "flush"}
             /\ pc'[t] \notin {"write", "flush"}
             /\ UNCHANGED <<holder, file, broken>>
    BY <2>1, <2>2, <2>3, FileLeft
  <2>4. CASE Lock(t)
    <3>1. /\ pc[t] = "lock" /\ holder = NoThread /\ holder' = t
          /\ pc'[t] = "write" /\ UNCHANGED <<file, broken>>
      BY <2>2, <2>4 DEF Lock
    <3>2. HolderWrites'
      BY <2>1, <3>1 DEF FileIsWhole, HolderWrites
    <3>3. EndsAsWritten' /\ LinesAreWhole'
      <4>1. \A u \in Threads : pc'[u] = "flush" => u # t /\ pc[u] = "flush"
        BY <2>1, <3>1
      <4>2. \A u \in Threads : pc[u] = "flush" => u # t /\ pc'[u] = "flush"
        BY <2>1, <3>1
      <4>3. EndsAsWritten'
        BY <2>1, <3>1, <4>1, <4>2 DEF FileIsWhole, EndsAsWritten
      <4> QED
        BY <3>1, <4>3 DEF FileIsWhole, LinesAreWhole
    <3> QED
      BY <3>2, <3>3 DEF FileIsWhole
  <2>5. CASE Write(t)
    <3>1. /\ pc[t] = "write" /\ pc'[t] = "flush"
          /\ UNCHANGED <<calls, line, holder>>
      BY <2>2, <2>5 DEF Write
    <3>2. HolderWrites'
      BY <2>1, <3>1 DEF FileIsWhole, HolderWrites
    <3>3. Piece(t, 1)' = Piece(t, 1)
      BY <3>1 DEF Piece, LineOf, CallOf
    <3>4. CASE ~broken /\ file' = Append(file, Piece(t, 1)) /\ UNCHANGED broken
      <4>1. LinesAreWhole' /\ file' # <<>> /\ file'[Len(file')] = Piece(t, 1)
        BY <3>1, <3>4, FilePut
      <4>2. \A u \in Threads : pc'[u] = "flush" => u = t
        BY <3>1, <3>2 DEF HolderWrites
      <4>3. EndsAsWritten'
        BY <3>1, <3>3, <4>1, <4>2 DEF EndsAsWritten
      <4> QED
        BY <3>2, <4>1, <4>3 DEF FileIsWhole
    <3>5. CASE broken' = TRUE /\ UNCHANGED file
      BY <3>2, <3>5 DEF FileIsWhole, EndsAsWritten, LinesAreWhole
    <3> QED
      BY <2>5, <3>4, <3>5 DEF Write, Put
  <2>6. CASE Flush(t)
    <3>1. /\ pc[t] = "flush" /\ pc'[t] \notin {"write", "flush"}
          /\ holder' = NoThread
      BY <2>2, <2>6 DEF Flush, LineDone
    <3>2. HolderWrites'
      BY <2>1, <3>1 DEF FileIsWhole, HolderWrites
    <3>3. \A u \in Threads : pc'[u] # "flush"
      BY <3>1, <3>2 DEF HolderWrites
    <3>4. CASE ~broken /\ file' = Append(file, Piece(t, 2)) /\ UNCHANGED broken
      <4>1. LinesAreWhole' /\ file' # <<>> /\ file'[Len(file')] = Piece(t, 2)
        BY <3>1, <3>4, FilePut
      <4>2. EndsAsWritten'
        BY <3>3, <4>1 DEF EndsAsWritten, Piece
      <4> QED
        BY <3>2, <4>1, <4>2 DEF FileIsWhole
    <3>5. CASE broken' = TRUE /\ UNCHANGED file
      BY <3>2, <3>5 DEF FileIsWhole, EndsAsWritten, LinesAreWhole
    <3> QED
      BY <2>6, <3>4, <3>5 DEF Flush, Put
  <2>7. CASE Call(t)
    BY <2>2, <2>3, <2>7 DEF Call, outVars
  <2>8. CASE Enter(t) \/ Initialise(t)
    BY <2>3, <2>8 DEF Enter, Initialise, outVars
  <2>9. CASE Answered(t)
    BY <2>2, <2>3, <2>9 DEF Answered, outVars
  <2>10. CASE Compose(t)
    BY <2>2, <2>3, <2>10 DEF Compose
  <2>11. CASE Show(t)
    BY <2>2, <2>3, <2>11 DEF Show, LineDone
  <2> QED
    BY <1>2, <2>4, <2>5, <2>6, <2>7, <2>8, <2>9, <2>10, <2>11 DEF InCall
<1> QED
  BY <1>1, <1>2 DEF Next, Done

LEMMA FileInit == Init => FileIsWhole
  BY DEF Init, FileIsWhole, HolderWrites, EndsAsWritten, LinesAreWhole

(* No line of the log has another one inside: all that can be missing is   *)
(* the end of the last. For any number of threads, whatever fails.         *)
THEOREM LinesStayWhole == Spec => []LinesAreWhole
<1>1. Init => TypeOK /\ CallIsOpen /\ FileIsWhole
  BY TypeInit, FileInit
<1>2. TypeOK /\ CallIsOpen /\ FileIsWhole /\ [Next]_vars
        => (TypeOK /\ CallIsOpen /\ FileIsWhole)'
  BY TypeNext, FileNext
<1>3. FileIsWhole => LinesAreWhole
  BY DEF FileIsWhole
<1> QED
  BY <1>1, <1>2, <1>3, PTL DEF Spec
-----------------------------------------------------------------------------
(* The order of the lines.                                                 *)

(* The line l comes before the kth line of the cth call.                   *)
Earlier(l, c, k) == l.call < c \/ (l.call = c /\ l.line < k)

(* A log has the lines of a thread in their order, none from the kth line  *)
(* of its cth call on, and all before that unless some have been lost.     *)
Reached(t, wanted, log, c, k, whole) ==
  /\ KeepsOrder(t, wanted, log)
  /\ \A i \in DOMAIN log : log[i].thread = t => Earlier(log[i], c, k)
  /\ whole => \A l \in wanted : Earlier(l, c, k) => \E i \in DOMAIN log : log[i] = l

(* The log goes on, with the line l.                                       *)
GoesOn(log, more, l) ==
  \E n \in Nat :
    /\ \A i \in DOMAIN log : i < n /\ more[i] = log[i]
    /\ DOMAIN more = DOMAIN log \cup {n}
    /\ more[n] = l

IsLog(log) == DOMAIN log \subseteq Nat /\ \A i \in DOMAIN log : log[i] \in Line

(* What another thread writes changes nothing for this one.                *)
LEMMA OthersLine ==
  ASSUME NEW log, NEW more, NEW l, IsLog(log), GoesOn(log, more, l),
         NEW t, l.thread # t, NEW wanted, \A m \in wanted : m.thread = t,
         NEW c, NEW k, NEW whole, Reached(t, wanted, log, c, k, whole)
  PROVE  Reached(t, wanted, more, c, k, whole)
<1>1. PICK n \in Nat : /\ \A i \in DOMAIN log : i < n /\ more[i] = log[i]
                       /\ DOMAIN more = DOMAIN log \cup {n}
                       /\ more[n] = l
  BY DEF GoesOn
<1>2. \A i \in DOMAIN more : more[i].thread = t =>
        i \in DOMAIN log /\ more[i] = log[i]
  BY <1>1
<1>3. \A m \in wanted, i \in DOMAIN more : i \in DOMAIN log =>
        ((\E j \in DOMAIN more : j < i /\ more[j] = m)
           <=> \E j \in DOMAIN log : j < i /\ log[j] = m)
  BY <1>1
<1>4. KeepsOrder(t, wanted, more)
  BY <1>2, <1>3 DEF KeepsOrder, Reached
<1>5. \A m \in wanted : (\E i \in DOMAIN log : log[i] = m)
                          => \E i \in DOMAIN more : more[i] = m
  BY <1>1
<1> QED
  BY <1>2, <1>4, <1>5 DEF Reached

(* A thread writes the line it has come to.                                *)
LEMMA OwnLine ==
  ASSUME NEW log, NEW more, NEW l \in Line, IsLog(log), GoesOn(log, more, l),
         NEW t, l.thread = t, NEW wanted, l \in wanted, wanted \subseteq Line,
         Reached(t, wanted, log, l.call, l.line, TRUE),
         \A m \in wanted : m.thread = t,
         \A m \in wanted : m.call = l.call /\ m.line = l.line => m = l
  PROVE  Reached(t, wanted, more, l.call, l.line + 1, TRUE)
<1>1. PICK n \in Nat : /\ \A i \in DOMAIN log : i < n /\ more[i] = log[i]
                       /\ DOMAIN more = DOMAIN log \cup {n}
                       /\ more[n] = l
  BY DEF GoesOn
<1>2. /\ DOMAIN log \subseteq Nat
      /\ \A i \in DOMAIN log : log[i] \in Line
  BY DEF IsLog
<1>3. ASSUME NEW m \in Line
      PROVE  /\ Precedes(m, l) <=> Earlier(m, l.call, l.line)
             /\ Earlier(m, l.call, l.line) => Earlier(m, l.call, l.line + 1)
             /\ Earlier(m, l.call, l.line + 1)
                  => \/ Earlier(m, l.call, l.line)
                     \/ m.call = l.call /\ m.line = l.line
  BY DEF Precedes, Earlier, Line
<1>4. Earlier(l, l.call, l.line + 1)
  BY DEF Earlier, Line
<1>5. /\ KeepsOrder(t, wanted, log)
      /\ \A i \in DOMAIN log : log[i].thread = t => Earlier(log[i], l.call, l.line)
      /\ \A m \in wanted : Earlier(m, l.call, l.line)
                               => \E i \in DOMAIN log : log[i] = m
  BY DEF Reached
<1>6. \A m \in wanted : (\E i \in DOMAIN log : log[i] = m)
                          <=> Earlier(m, l.call, l.line)
  BY <1>5
<1>7. \A m \in wanted, i \in DOMAIN more : i \in DOMAIN log =>
        ((\E j \in DOMAIN more : j < i /\ more[j] = m)
           <=> \E j \in DOMAIN log : j < i /\ log[j] = m)
  BY <1>1, <1>2
<1>8. \A m \in wanted : (\E j \in DOMAIN more : j < n /\ more[j] = m)
                          <=> \E j \in DOMAIN log : log[j] = m
  BY <1>1, <1>2
<1>9. ASSUME NEW i \in DOMAIN more, more[i].thread = t
      PROVE  /\ more[i] \in wanted
             /\ \A m \in wanted :
                  Precedes(m, more[i]) <=> \E j \in DOMAIN more : j < i /\ more[j] = m
             /\ Earlier(more[i], l.call, l.line + 1)
  <2>1. CASE i \in DOMAIN log
    <3>1. more[i] = log[i] /\ log[i] \in Line /\ log[i].thread = t
      BY <1>1, <1>2, <1>9, <2>1
    <3>2. /\ log[i] \in wanted
          /\ \A m \in wanted :
               Precedes(m, log[i]) <=> \E j \in DOMAIN log : j < i /\ log[j] = m
      BY <1>5, <2>1, <3>1 DEF KeepsOrder
    <3>3. Earlier(log[i], l.call, l.line + 1)
      <4>1. Earlier(log[i], l.call, l.line)
        BY <1>5, <2>1, <3>1
      <4> QED
        BY <1>3, <3>1, <4>1
    <3>4. \A m \in wanted :
            (\E j \in DOMAIN more : j < i /\ more[j] = m)
              <=> \E j \in DOMAIN log : j < i /\ log[j] = m
      BY <1>7, <2>1
    <3> QED
      BY <3>1, <3>2, <3>3, <3>4
  <2>2. CASE i = n
    <3>1. more[i] = l /\ Earlier(l, l.call, l.line + 1)
      BY <1>1, <1>4, <2>2
    <3>2. \A m \in wanted : Precedes(m, l) <=> Earlier(m, l.call, l.line)
      BY <1>3
    <3>3. \A m \in wanted :
            Precedes(m, l) <=> \E j \in DOMAIN more : j < n /\ more[j] = m
      BY <1>6, <1>8, <3>2
    <3> QED
      BY <2>2, <3>1, <3>3
  <2> QED
    BY <1>1, <2>1, <2>2
<1>10. ASSUME NEW m \in wanted, Earlier(m, l.call, l.line + 1)
      PROVE  \E i \in DOMAIN more : more[i] = m
  <2>1. CASE m = l
    BY <1>1, <2>1
  <2>2. CASE m # l
    <3>1. Earlier(m, l.call, l.line) \/ (m.call = l.call /\ m.line = l.line)
      BY <1>3, <1>10
    <3>2. Earlier(m, l.call, l.line)
      BY <2>2, <3>1
    <3> QED
      BY <1>1, <1>5, <3>2
  <2> QED
    BY <2>1, <2>2
<1> QED
  BY <1>9, <1>10 DEF Reached, KeepsOrder

(* The thread moves on past lines that are not wanted, or have been lost.  *)
LEMMA PassesBy ==
  ASSUME NEW log, NEW t, NEW wanted, NEW c, NEW k, NEW c2, NEW k2,
         NEW whole, NEW whole2, whole2 => whole,
         Reached(t, wanted, log, c, k, whole),
         \A m \in wanted : Earlier(m, c, k) => Earlier(m, c2, k2),
         whole2 => \A m \in wanted : Earlier(m, c2, k2) => Earlier(m, c, k)
  PROVE  Reached(t, wanted, log, c2, k2, whole2)
<1>1. \A i \in DOMAIN log : log[i].thread = t => log[i] \in wanted
  BY DEF Reached, KeepsOrder
<1> QED
  BY <1>1 DEF Reached

(* A call makes more lines wanted, behind all those that were.             *)
LEMMA MoreWanted ==
  ASSUME NEW log, NEW t, NEW wanted, NEW wanted2, NEW c \in Nat, NEW whole,
         wanted2 \subseteq Line, wanted \subseteq wanted2,
         \A m \in wanted2 : m.thread = t,
         \A m \in wanted : m.call < c,
         \A m \in wanted2 : m \notin wanted => m.call = c,
         Reached(t, wanted, log, c, 1, whole)
  PROVE  Reached(t, wanted2, log, c, 1, whole)
<1>1. \A m \in wanted2 : m \notin wanted => ~Earlier(m, c, 1)
  BY DEF Earlier, Line
<1>2. \A i \in DOMAIN log : log[i].thread = t =>
        log[i] \in wanted /\ log[i].call < c
  BY DEF Reached, KeepsOrder
<1>3. ASSUME NEW i \in DOMAIN log, log[i].thread = t,
             NEW m \in wanted2, m \notin wanted
      PROVE  ~Precedes(m, log[i]) /\ ~\E j \in DOMAIN log : j < i /\ log[j] = m
  <2>1. log[i] \in Line /\ log[i].call < c /\ m.call = c /\ m \in Line
    BY <1>2, <1>3
  <2>2. ~Precedes(m, log[i])
    BY <2>1 DEF Precedes, Line
  <2>3. \A j \in DOMAIN log : log[j] # m
    BY <1>2, <1>3
  <2> QED
    BY <2>2, <2>3
<1>4. KeepsOrder(t, wanted2, log)
  BY <1>2, <1>3 DEF Reached, KeepsOrder
<1> QED
  BY <1>1, <1>4 DEF Reached

(* The lines a thread has to write are its own, each one once.             *)
LEMMA WantedIs ==
  ASSUME TypeOK, NEW t \in Threads
  PROVE  /\ WantedLines(t) \subseteq Line
         /\ \A m \in WantedLines(t) :
              /\ m.thread = t
              /\ m.call \in DOMAIN calls[t] /\ m.level = calls[t][m.call]
              /\ IsWanted(m.level) /\ m.line <= LinesOf(m.level)
         /\ \A l, m \in WantedLines(t) : m.call = l.call /\ m.line = l.line => m = l
         /\ \A d \in DOMAIN calls[t], j \in 1..2 :
              IsWanted(calls[t][d]) /\ j <= LinesOf(calls[t][d]) =>
                [thread |-> t, call |-> d, level |-> calls[t][d], line |-> j]
                  \in WantedLines(t)
<1>1. calls[t] \in Seq(Levels) /\ DOMAIN calls[t] \subseteq Nat \ {0}
  BY DEF TypeOK
<1>2. \A d \in DOMAIN calls[t], j \in 1..2 :
        [thread |-> t, call |-> d, level |-> calls[t][d], line |-> j] \in Line
  BY <1>1 DEF Line
<1>3. ASSUME NEW m \in WantedLines(t)
      PROVE  /\ \E d \in DOMAIN calls[t], j \in 1..2 :
                  m = [thread |-> t, call |-> d, level |-> calls[t][d], line |-> j]
             /\ IsWanted(m.level) /\ m.line <= LinesOf(m.level)
  BY <1>3 DEF WantedLines
<1>4. ASSUME NEW m \in WantedLines(t)
      PROVE  /\ m \in Line /\ m.thread = t
             /\ m.call \in DOMAIN calls[t] /\ m.level = calls[t][m.call]
             /\ m = [thread |-> t, call |-> m.call, level |-> calls[t][m.call],
                     line |-> m.line]
  <2>1. PICK d \in DOMAIN calls[t], j \in 1..2 :
          m = [thread |-> t, call |-> d, level |-> calls[t][d], line |-> j]
    BY <1>3
  <2>2. m.thread = t /\ m.call = d /\ m.level = calls[t][d] /\ m.line = j
    BY <2>1
  <2> QED
    BY <1>2, <2>1, <2>2
<1>5. \A l, m \in WantedLines(t) : m.call = l.call /\ m.line = l.line => m = l
  BY <1>4
<1>6. ASSUME NEW d \in DOMAIN calls[t], NEW j \in 1..2,
             IsWanted(calls[t][d]), j <= LinesOf(calls[t][d])
      PROVE  [thread |-> t, call |-> d, level |-> calls[t][d], line |-> j]
               \in WantedLines(t)
  BY <1>6 DEF WantedLines
<1> QED
  BY <1>3, <1>4, <1>5, <1>6
-----------------------------------------------------------------------------
(* The logs while threads write.                                           *)

NextCall(t) == IF pc[t] = "idle" THEN Len(calls[t]) + 1 ELSE Len(calls[t])

NextInFile(t) == IF pc[t] \in InLines THEN line[t] ELSE 1

NextOnScreen(t) ==
  IF pc[t] \in {"lock", "write", "flush"} THEN line[t] + 1 ELSE NextInFile(t)

(* Both logs have the lines of a thread up to where it is.                 *)
FileUpToDate(t) ==
  Reached(t, WantedLines(t), Written, NextCall(t), NextInFile(t),
          setting.output /\ ~broken)

ScreenUpToDate(t) ==
  Reached(t, WantedLines(t), screen, NextCall(t), NextOnScreen(t), setting.console)

LogsAreUpToDate == \A t \in Threads : FileUpToDate(t) /\ ScreenUpToDate(t)

LEMMA LogsAreLogs == ASSUME TypeOK PROVE IsLog(Written) /\ IsLog(screen)
<1>1. IsLog(screen)
  <2>1. screen \in Seq(Line)
    BY DEF TypeOK
  <2> QED
    BY <2>1 DEF IsLog
<1>2. IsLog(Written)
  <2>1. file \in Seq(Pieces)
    BY DEF TypeOK
  <2>2. DOMAIN file \subseteq Nat /\ \A i \in DOMAIN file : file[i] \in Pieces
    BY <2>1
  <2>3. \A piece \in Pieces : piece.of \in Line
    BY DEF Pieces
  <2> QED
    BY <2>2, <2>3 DEF IsLog, Written
<1> QED
  BY <1>1, <1>2

(* A first half adds no line to the log, a second half one.                *)
LEMMA WrittenGrows ==
  ASSUME TypeOK, NEW t \in Threads, calls[t] # <<>>, NEW half \in 1..2,
         file' = Append(file, Piece(t, half))
  PROVE  /\ half = 1 => Written' = Written
         /\ half = 2 => GoesOn(Written, Written', LineOf(t))
<1>1. PICK piece \in Pieces : /\ piece = Piece(t, half)
                              /\ piece.half = half /\ piece.of = LineOf(t)
  BY LineType DEF Piece, Pieces
<1>2. PICK n \in Nat : n = Len(file) + 1
  BY DEF TypeOK
<1>3. file \in Seq(Pieces)
  BY DEF TypeOK
<1>4. /\ DOMAIN file' = DOMAIN file \cup {n} /\ file'[n] = piece
      /\ \A i \in DOMAIN file : file'[i] = file[i] /\ i < n
      /\ n \notin DOMAIN file
  BY <1>1, <1>2, <1>3, AppendOne
<1>5. CASE half = 1
  <2>1. {j \in DOMAIN file' : file'[j].half = 2} = {j \in DOMAIN file : file[j].half = 2}
    BY <1>1, <1>4, <1>5
  <2> QED
    BY <1>4, <1>5, <2>1 DEF Written
<1>6. CASE half = 2
  <2>1. DOMAIN Written' = DOMAIN Written \cup {n}
    BY <1>1, <1>4, <1>6 DEF Written
  <2>2. \A i \in DOMAIN Written : i < n /\ Written'[i] = Written[i]
    BY <1>4, <2>1 DEF Written
  <2>3. Written'[n] = LineOf(t)
    BY <1>1, <1>4, <2>1 DEF Written
  <2> QED
    BY <1>6, <2>1, <2>2, <2>3 DEF GoesOn
<1> QED
  BY <1>5, <1>6

LEMMA ScreenGrows ==
  ASSUME TypeOK, NEW t \in Threads, calls[t] # <<>>,
         screen' = Append(screen, LineOf(t))
  PROVE  GoesOn(screen, screen', LineOf(t))
<1>1. PICK l \in Line : l = LineOf(t)
  BY LineType
<1>2. PICK n \in Nat : n = Len(screen) + 1
  BY DEF TypeOK
<1>3. screen \in Seq(Line)
  BY DEF TypeOK
<1>4. /\ DOMAIN screen' = DOMAIN screen \cup {n} /\ screen'[n] = l
      /\ \A i \in DOMAIN screen : screen'[i] = screen[i] /\ i < n
  BY <1>1, <1>2, <1>3, AppendOne
<1> QED
  BY <1>1, <1>4 DEF GoesOn

(* What a step may do to the logs and to the bad state of the file.        *)
LEMMA LogsGrow ==
  ASSUME TypeOK, CallIsOpen, NEW t \in Threads, Call(t) \/ InCall(t)
  PROVE  /\ Written' = Written \/ GoesOn(Written, Written', LineOf(t))
         /\ screen' = screen \/ GoesOn(screen, screen', LineOf(t))
         /\ broken => broken'
<1>1. UNCHANGED file => Written' = Written
  BY DEF Written
<1>2. CASE Call(t) \/ Enter(t) \/ Initialise(t) \/ Answered(t)
  BY <1>1, <1>2 DEF Call, Enter, Initialise, Answered, outVars
<1>3. CASE Compose(t) \/ Lock(t)
  BY <1>1, <1>3 DEF Compose, Lock
<1>4. CASE Show(t)
  <2>1. calls[t] # <<>>
    BY <1>4 DEF Show, CallIsOpen
  <2> QED
    BY <1>1, <1>4, <2>1, ScreenGrows DEF Show
<1>5. ASSUME NEW half \in 1..2, Put(t, half), UNCHANGED screen, calls[t] # <<>>
      PROVE  /\ Written' = Written \/ GoesOn(Written, Written', LineOf(t))
             /\ screen' = screen \/ GoesOn(screen, screen', LineOf(t))
             /\ broken => broken'
  <2>1. CASE file' = Append(file, Piece(t, half)) /\ UNCHANGED broken
    BY <1>5, <2>1, WrittenGrows
  <2>2. CASE broken' = TRUE /\ UNCHANGED file
    BY <1>1, <1>5, <2>2
  <2> QED
    BY <1>5, <2>1, <2>2 DEF Put
<1>6. CASE Write(t)
  BY <1>5, <1>6 DEF Write, CallIsOpen
<1>7. CASE Flush(t)
  BY <1>5, <1>7 DEF Flush, CallIsOpen
<1> QED
  BY <1>2, <1>3, <1>4, <1>6, <1>7 DEF InCall

(* A thread that does not move is where it was.                            *)
LEMMA PlaceKept ==
  ASSUME NEW u \in Threads, setting' = setting, pc'[u] = pc[u],
         calls'[u] = calls[u], line'[u] = line[u]
  PROVE  /\ WantedLines(u)' = WantedLines(u)
         /\ NextCall(u)' = NextCall(u)
         /\ NextInFile(u)' = NextInFile(u)
         /\ NextOnScreen(u)' = NextOnScreen(u)
<1>1. WantedLines(u)' = WantedLines(u)
  BY DEF WantedLines, IsWanted, IsConsulted
<1> QED
  BY <1>1 DEF NextCall, NextInFile, NextOnScreen

(* What is in the logs stays there, and the file is only ever less whole.  *)
LEMMA StillUpToDate ==
  ASSUME TypeOK, NEW u \in Threads, setting' = setting, broken => broken',
         WantedLines(u)' = WantedLines(u),
         NextCall(u)' = NextCall(u)
  PROVE  /\ NextInFile(u)' = NextInFile(u) /\ Written' = Written /\ FileUpToDate(u)
           => FileUpToDate(u)'
         /\ NextOnScreen(u)' = NextOnScreen(u) /\ screen' = screen /\ ScreenUpToDate(u)
           => ScreenUpToDate(u)'
<1>1. ASSUME NextInFile(u)' = NextInFile(u), Written' = Written, FileUpToDate(u)
      PROVE  FileUpToDate(u)'
  BY <1>1 DEF FileUpToDate, Reached
<1>2. ASSUME NextOnScreen(u)' = NextOnScreen(u), screen' = screen, ScreenUpToDate(u)
      PROVE  ScreenUpToDate(u)'
  BY <1>2 DEF ScreenUpToDate
<1> QED
  BY <1>1, <1>2

(* The other threads' lines.                                               *)
LEMMA OthersUpToDate ==
  ASSUME TypeOK, CallIsOpen, LogsAreUpToDate, NEW t \in Threads,
         Call(t) \/ InCall(t), NEW u \in Threads \ {t}
  PROVE  FileUpToDate(u)' /\ ScreenUpToDate(u)'
<1>1. /\ setting' = setting
      /\ WantedLines(u)' = WantedLines(u) /\ NextCall(u)' = NextCall(u)
      /\ NextInFile(u)' = NextInFile(u) /\ NextOnScreen(u)' = NextOnScreen(u)
  BY OthersStay, PlaceKept
<1>2. FileUpToDate(u) /\ ScreenUpToDate(u)
  BY DEF LogsAreUpToDate
<1>3. /\ LineOf(t).thread # u
      /\ \A m \in WantedLines(u) : m.thread = u
      /\ IsLog(Written) /\ IsLog(screen)
  BY WantedIs, LogsAreLogs DEF LineOf
<1>4. broken => broken'
  BY LogsGrow
<1>5. FileUpToDate(u)'
  <2>1. CASE Written' = Written
    BY <1>1, <1>2, <1>4, <2>1, StillUpToDate
  <2>2. CASE GoesOn(Written, Written', LineOf(t))
    <3>1. Reached(u, WantedLines(u), Written, NextCall(u), NextInFile(u),
                  setting.output /\ ~broken)
      BY <1>2 DEF FileUpToDate
    <3>2. Reached(u, WantedLines(u), Written', NextCall(u), NextInFile(u),
                  setting.output /\ ~broken)
      BY <1>3, <2>2, <3>1, OthersLine
    <3> QED
      BY <1>1, <1>4, <3>2 DEF FileUpToDate, Reached
  <2> QED
    BY <2>1, <2>2, LogsGrow
<1>6. ScreenUpToDate(u)'
  <2>1. CASE screen' = screen
    BY <1>1, <1>2, <1>4, <2>1, StillUpToDate
  <2>2. CASE GoesOn(screen, screen', LineOf(t))
    <3>1. Reached(u, WantedLines(u), screen, NextCall(u), NextOnScreen(u),
                  setting.console)
      BY <1>2 DEF ScreenUpToDate
    <3>2. Reached(u, WantedLines(u), screen', NextCall(u), NextOnScreen(u),
                  setting.console)
      BY <1>3, <2>2, <3>1, OthersLine
    <3> QED
      BY <1>1, <3>2 DEF ScreenUpToDate
  <2> QED
    BY <2>1, <2>2, LogsGrow
<1> QED
  BY <1>5, <1>6

(* The line a thread has come to is one of those it has to write.          *)
LEMMA LineIsWanted ==
  ASSUME TypeOK, NEW t \in Threads, calls[t] # <<>>, IsWanted(CallOf(t)),
         line[t] <= LinesOf(CallOf(t))
  PROVE  /\ LineOf(t) \in WantedLines(t) /\ LineOf(t) \in Line
         /\ LineOf(t).thread = t
         /\ LineOf(t).call = Len(calls[t]) /\ LineOf(t).line = line[t]
<1>1. /\ CallOf(t) = calls[t][Len(calls[t])]
      /\ Len(calls[t]) \in DOMAIN calls[t] /\ LineOf(t) \in Line
  BY LineType
<1>2. line[t] \in 1..2
  BY DEF TypeOK
<1>3. LineOf(t) \in WantedLines(t)
  <2>1. PICK d \in DOMAIN calls[t] : d = Len(calls[t])
    BY <1>1
  <2>2. IsWanted(calls[t][d]) /\ line[t] <= LinesOf(calls[t][d])
    BY <1>1, <2>1
  <2>3. [thread |-> t, call |-> d, level |-> calls[t][d], line |-> line[t]]
          \in WantedLines(t)
    BY <1>2, <2>2, WantedIs
  <2>4. LineOf(t) = [thread |-> t, call |-> d, level |-> calls[t][d], line |-> line[t]]
    BY <1>1, <2>1 DEF LineOf
  <2> QED
    BY <2>3, <2>4
<1> QED
  BY <1>1, <1>3 DEF LineOf

(* Writing it.                                                             *)
LEMMA Writes ==
  ASSUME TypeOK, NEW t \in Threads, calls[t] # <<>>, IsWanted(CallOf(t)),
         line[t] <= LinesOf(CallOf(t)), NEW log, NEW more, IsLog(log),
         GoesOn(log, more, LineOf(t)),
         Reached(t, WantedLines(t), log, Len(calls[t]), line[t], TRUE)
  PROVE  Reached(t, WantedLines(t), more, Len(calls[t]), line[t] + 1, TRUE)
<1>1. PICK l \in Line : /\ l = LineOf(t) /\ l \in WantedLines(t) /\ l.thread = t
                        /\ l.call = Len(calls[t]) /\ l.line = line[t]
  BY LineIsWanted
<1>2. /\ WantedLines(t) \subseteq Line
      /\ \A m \in WantedLines(t) : m.thread = t
      /\ \A m \in WantedLines(t) : m.call = l.call /\ m.line = l.line => m = l
  BY <1>1, WantedIs
<1>3. Reached(t, WantedLines(t), log, l.call, l.line, TRUE)
  BY <1>1
<1>4. GoesOn(log, more, l)
  BY <1>1
<1>5. Reached(t, WantedLines(t), more, l.call, l.line + 1, TRUE)
  BY <1>1, <1>2, <1>3, <1>4, OwnLine
<1> QED
  BY <1>1, <1>5

(* Not writing it.                                                         *)
LEMMA Loses ==
  ASSUME TypeOK, NEW t \in Threads, NEW log, NEW whole,
         Reached(t, WantedLines(t), log, Len(calls[t]), line[t], whole)
  PROVE  Reached(t, WantedLines(t), log, Len(calls[t]), line[t] + 1, FALSE)
<1>1. \A m \in WantedLines(t) : Earlier(m, Len(calls[t]), line[t])
                                   => Earlier(m, Len(calls[t]), line[t] + 1)
  <2>1. WantedLines(t) \subseteq Line /\ line[t] \in 1..2
    BY WantedIs DEF TypeOK
  <2>2. \A m \in Line : m.line \in Nat
    BY DEF Line
  <2> QED
    BY <2>1, <2>2 DEF Earlier
<1> QED
  BY <1>1, PassesBy

(* The line is done.                                                       *)
LEMMA AfterLine ==
  ASSUME TypeOK, NEW t \in Threads, calls[t] # <<>>, calls' = calls,
         line[t] <= LinesOf(CallOf(t)), LineDone(t), NEW log, NEW whole,
         Reached(t, WantedLines(t), log, Len(calls[t]), line[t] + 1, whole)
  PROVE  /\ Reached(t, WantedLines(t), log, NextCall(t)', NextInFile(t)', whole)
         /\ NextOnScreen(t)' = NextInFile(t)'
<1>1. /\ line[t] \in 1..2 /\ line \in [Threads -> 1..2]
      /\ pc \in [Threads -> Places] /\ LinesOf(CallOf(t)) \in 1..2
  BY DEF TypeOK, LinesOf
<1>2. CASE /\ line[t] < LinesOf(CallOf(t))
           /\ pc' = [pc EXCEPT ![t] = "compose"]
           /\ line' = [line EXCEPT ![t] = @ + 1]
  <2>1. pc'[t] = "compose" /\ line'[t] = line[t] + 1
    BY <1>1, <1>2
  <2>2. /\ NextCall(t)' = Len(calls[t]) /\ NextInFile(t)' = line[t] + 1
        /\ NextOnScreen(t)' = NextInFile(t)'
    BY <2>1 DEF NextCall, NextInFile, NextOnScreen, InLines
  <2> QED
    BY <2>2
<1>3. CASE line[t] >= LinesOf(CallOf(t)) /\ pc' = [pc EXCEPT ![t] = "idle"]
  <2>1. pc'[t] = "idle" /\ line[t] = LinesOf(CallOf(t))
    BY <1>1, <1>3
  <2>2. PICK n \in Nat : n = Len(calls[t]) /\ DOMAIN calls[t] = 1..n
    BY DEF TypeOK
  <2>3. /\ NextCall(t)' = n + 1 /\ NextInFile(t)' = 1
        /\ NextOnScreen(t)' = NextInFile(t)'
    BY <2>1, <2>2 DEF NextCall, NextInFile, NextOnScreen, InLines
  <2>4. \A m \in WantedLines(t) :
          /\ m.call \in 1..n /\ m.line \in Nat
          /\ m.call = n => m.line <= line[t]
    <3>1. CallOf(t) = calls[t][n]
      BY <2>2, LineType
    <3>2. \A m \in WantedLines(t) :
            /\ m.call \in 1..n /\ m.level = calls[t][m.call]
            /\ m.line <= LinesOf(m.level) /\ m \in Line
      BY <2>2, WantedIs
    <3>3. \A m \in Line : m.line \in Nat
      BY DEF Line
    <3> QED
      BY <2>1, <3>1, <3>2, <3>3
  <2>5. ASSUME NEW m \in WantedLines(t)
        PROVE  Earlier(m, n, line[t] + 1) /\ Earlier(m, n + 1, 1)
    <3>1. /\ m.call \in 1..n /\ m.line \in Nat
          /\ m.call = n => m.line <= line[t]
      BY <2>4
    <3>2. m.call < n \/ (m.call = n /\ m.line < line[t] + 1)
      BY <1>1, <3>1
    <3>3. m.call < n + 1
      BY <3>1
    <3> QED
      BY <3>2, <3>3 DEF Earlier
  <2> QED
    BY <2>2, <2>3, <2>5, PassesBy
<1> QED
  BY <1>1, <1>2, <1>3 DEF LineDone, Goto

(* Another call: what it has to write comes after all the rest.            *)
LEMMA CallWants ==
  ASSUME TypeOK, NEW t \in Threads, Call(t)
  PROVE  /\ WantedLines(t) \subseteq WantedLines(t)'
         /\ WantedLines(t)' \subseteq Line
         /\ \A m \in WantedLines(t)' : m.thread = t
         /\ \A m \in WantedLines(t)' :
              m \notin WantedLines(t) => m.call = Len(calls[t]) + 1
         /\ \A m \in WantedLines(t) : m.call < Len(calls[t]) + 1
         /\ ~IsConsulted => WantedLines(t)' = {}
         /\ Len(calls[t]) \in Nat /\ Len(calls'[t]) = Len(calls[t]) + 1
<1>1. /\ calls \in [Threads -> Seq(Levels)] /\ calls[t] \in Seq(Levels)
      /\ Called \subseteq Levels
  BY DEF TypeOK, LoggingAssumption
<1>2. PICK level \in Levels : calls' = [calls EXCEPT ![t] = Append(@, level)]
  BY <1>1 DEF Call
<1>3. calls'[t] = Append(calls[t], level) /\ setting' = setting
  BY <1>1, <1>2 DEF Call
<1>4. PICK n \in Nat : n = Len(calls[t])
  BY <1>1
<1>5. /\ calls'[t] \in Seq(Levels) /\ Len(calls'[t]) = n + 1
      /\ DOMAIN calls[t] = 1..n /\ DOMAIN calls'[t] = 1..(n + 1)
      /\ \A d \in 1..n : calls'[t][d] = calls[t][d] /\ d \in 1..(n + 1)
  <2>1. /\ calls'[t] \in Seq(Levels) /\ Len(calls'[t]) = n + 1
        /\ \A d \in DOMAIN calls[t] : calls'[t][d] = calls[t][d]
    BY <1>1, <1>3, <1>4, AppendOne
  <2>2. DOMAIN calls[t] = 1..n /\ DOMAIN calls'[t] = 1..(n + 1)
    BY <1>1, <1>4, <2>1
  <2> QED
    BY <2>1, <2>2
<1>6. \A l : IsWanted(l)' = IsWanted(l)
  BY <1>3 DEF IsWanted, IsConsulted
<1>7. ASSUME NEW m \in WantedLines(t)
      PROVE  m \in WantedLines(t)' /\ m.call < n + 1
  <2>1. PICK d \in 1..n, j \in 1..2 :
          m = [thread |-> t, call |-> d, level |-> calls[t][d], line |-> j]
    BY <1>5 DEF WantedLines
  <2>2. IsWanted(m.level) /\ m.line <= LinesOf(m.level)
    BY DEF WantedLines
  <2>3. IsWanted(m.level)'
    BY <1>6, <2>2
  <2>4. m = [thread |-> t, call |-> d, level |-> calls'[t][d], line |-> j]
    BY <1>5, <2>1
  <2>5. d \in DOMAIN calls'[t]
    BY <1>5
  <2>6. m \in WantedLines(t)'
    BY <2>2, <2>3, <2>4, <2>5 DEF WantedLines
  <2>7. m.call = d /\ d < n + 1
    BY <2>1
  <2> QED
    BY <2>6, <2>7
<1>8. ASSUME NEW m \in WantedLines(t)'
      PROVE  /\ m \in Line /\ m.thread = t /\ IsWanted(m.level)
             /\ m \notin WantedLines(t) => m.call = n + 1
  <2>1. PICK d \in 1..(n + 1), j \in 1..2 :
          m = [thread |-> t, call |-> d, level |-> calls'[t][d], line |-> j]
    BY <1>5 DEF WantedLines
  <2>2. IsWanted(m.level)' /\ m.line <= LinesOf(m.level)
    BY DEF WantedLines
  <2>3. IsWanted(m.level)
    BY <1>6, <2>2
  <2>4. calls'[t][d] \in Levels /\ d \in Nat \ {0}
    BY <1>5
  <2>5. m \in Line /\ m.thread = t /\ m.call = d
    BY <2>1, <2>4 DEF Line
  <2>6. CASE d \in 1..n
    <3>1. m = [thread |-> t, call |-> d, level |-> calls[t][d], line |-> j]
      BY <1>5, <2>1, <2>6
    <3>2. d \in DOMAIN calls[t]
      BY <1>5, <2>6
    <3>3. m \in WantedLines(t)
      BY <2>2, <2>3, <3>1, <3>2 DEF WantedLines
    <3> QED
      BY <2>3, <2>5, <3>3
  <2>7. CASE d = n + 1
    BY <2>3, <2>5, <2>7
  <2>8. d \in 1..n \/ d = n + 1
    OBVIOUS
  <2> QED
    BY <2>6, <2>7, <2>8
<1>9. ~IsConsulted => WantedLines(t)' = {}
  BY <1>8 DEF IsWanted
<1> QED
  BY <1>4, <1>5, <1>7, <1>8, <1>9

LEMMA CallUpToDate ==
  ASSUME TypeOK, LogsAreUpToDate, NEW t \in Threads, Call(t)
  PROVE  FileUpToDate(t)' /\ ScreenUpToDate(t)'
<1>1. /\ pc[t] = "idle" /\ setting' = setting /\ broken' = broken
      /\ Written' = Written /\ screen' = screen
  BY DEF Call, outVars, Written
<1>2. PICK n \in Nat : n = Len(calls[t]) /\ Len(calls'[t]) = n + 1
  BY CallWants
<1>3. NextCall(t) = n + 1 /\ NextInFile(t) = 1 /\ NextOnScreen(t) = 1
  BY <1>1, <1>2 DEF NextCall, NextInFile, NextOnScreen, InLines
<1>4. /\ Reached(t, WantedLines(t), Written, n + 1, 1, setting.output /\ ~broken)
      /\ Reached(t, WantedLines(t), screen, n + 1, 1, setting.console)
  BY <1>3 DEF LogsAreUpToDate, FileUpToDate, ScreenUpToDate
<1>5. PICK wanted2 : wanted2 = WantedLines(t)'
  OBVIOUS
<1>6. /\ wanted2 \subseteq Line /\ WantedLines(t) \subseteq wanted2
      /\ \A m \in wanted2 : m.thread = t
      /\ \A m \in WantedLines(t) : m.call < n + 1
      /\ \A m \in wanted2 : m \notin WantedLines(t) => m.call = n + 1
  BY <1>2, <1>5, CallWants
<1>7. /\ Reached(t, wanted2, Written, n + 1, 1, setting.output /\ ~broken)
      /\ Reached(t, wanted2, screen, n + 1, 1, setting.console)
  <2>1. n + 1 \in Nat
    OBVIOUS
  <2> QED
    BY <1>4, <1>6, <2>1, MoreWanted
<1>8. CASE IsConsulted
  <2>1. pc'[t] = "asking"
    BY <1>8 DEF Call, Goto, TypeOK
  <2>2. NextCall(t)' = n + 1 /\ NextInFile(t)' = 1 /\ NextOnScreen(t)' = 1
    BY <1>2, <2>1 DEF NextCall, NextInFile, NextOnScreen, InLines
  <2> QED
    BY <1>1, <1>5, <1>7, <2>2 DEF FileUpToDate, ScreenUpToDate
<1>9. CASE ~IsConsulted
  <2>1. pc'[t] = "idle" /\ wanted2 = {}
    BY <1>1, <1>5, <1>9, CallWants DEF Call
  <2>2. NextCall(t)' = n + 2 /\ NextInFile(t)' = 1 /\ NextOnScreen(t)' = 1
    BY <1>2, <2>1 DEF NextCall, NextInFile, NextOnScreen, InLines
  <2>3. /\ Reached(t, wanted2, Written, n + 2, 1, setting.output /\ ~broken)
        /\ Reached(t, wanted2, screen, n + 2, 1, setting.console)
    BY <1>7, <2>1, PassesBy
  <2> QED
    BY <1>1, <1>5, <2>2, <2>3 DEF FileUpToDate, ScreenUpToDate
<1> QED
  BY <1>8, <1>9

(* The level is on, and the thread goes on to its first line; or it is     *)
(* not, and the call had nothing to write.                                 *)
LEMMA AnsweredUpToDate ==
  ASSUME TypeOK, CallIsOpen, LevelsAreRight, LogsAreUpToDate, NEW t \in Threads,
         Answered(t)
  PROVE  FileUpToDate(t)' /\ ScreenUpToDate(t)'
<1>1. /\ pc[t] = "asking" /\ asked[t] = <<>> /\ calls' = calls
      /\ setting' = setting /\ broken' = broken /\ line'[t] = 1
      /\ Written' = Written /\ screen' = screen
      /\ pc'[t] = IF answer[t] = "yes" THEN "compose" ELSE "idle"
  BY DEF Answered, outVars, Written, Goto, TypeOK
<1>2. WantedLines(t)' = WantedLines(t)
  BY <1>1 DEF WantedLines, IsWanted, IsConsulted
<1>3. calls[t] # <<>>
  BY <1>1 DEF CallIsOpen
<1>4. PICK n \in Nat : n = Len(calls[t]) /\ DOMAIN calls[t] = 1..n
  BY DEF TypeOK
<1>5. NextCall(t) = n /\ NextInFile(t) = 1 /\ NextOnScreen(t) = 1
  BY <1>1, <1>4 DEF NextCall, NextInFile, NextOnScreen, InLines
<1>6. /\ Reached(t, WantedLines(t), Written, n, 1, setting.output /\ ~broken)
      /\ Reached(t, WantedLines(t), screen, n, 1, setting.console)
  BY <1>5 DEF LogsAreUpToDate, FileUpToDate, ScreenUpToDate
<1>7. CASE answer[t] = "yes"
  <2>1. NextCall(t)' = n /\ NextInFile(t)' = 1 /\ NextOnScreen(t)' = 1
    BY <1>1, <1>4, <1>7 DEF NextCall, NextInFile, NextOnScreen, InLines
  <2> QED
    BY <1>1, <1>2, <1>6, <2>1 DEF FileUpToDate, ScreenUpToDate
<1>8. CASE answer[t] # "yes"
  <2>1. NextCall(t)' = n + 1 /\ NextInFile(t)' = 1 /\ NextOnScreen(t)' = 1
    BY <1>1, <1>4, <1>8 DEF NextCall, NextInFile, NextOnScreen, InLines
  <2>2. ~IsWanted(calls[t][n])
    <3>1. CallOf(t) = calls[t][n]
      BY <1>3, <1>4, LineType
    <3>2. KnowsItsLevel(t)
      BY DEF LevelsAreRight
    <3> QED
      BY <1>1, <1>8, <3>1, <3>2 DEF KnowsItsLevel, IsWanted, IsAtLeast
  <2>3. ASSUME NEW m \in WantedLines(t)
        PROVE  Earlier(m, n, 1) /\ Earlier(m, n + 1, 1)
    <3>1. m.call \in 1..n /\ IsWanted(m.level) /\ m.level = calls[t][m.call]
      BY <1>4, WantedIs
    <3>2. m.call # n
      BY <2>2, <3>1
    <3>3. m.call < n /\ m.call < n + 1
      BY <3>1, <3>2
    <3> QED
      BY <3>3 DEF Earlier
  <2>4. /\ Reached(t, WantedLines(t), Written, n + 1, 1, setting.output /\ ~broken)
        /\ Reached(t, WantedLines(t), screen, n + 1, 1, setting.console)
    BY <1>6, <2>3, PassesBy
  <2> QED
    BY <1>1, <1>2, <2>1, <2>4 DEF FileUpToDate, ScreenUpToDate
<1> QED
  BY <1>7, <1>8

(* To the console.                                                         *)
LEMMA ShowUpToDate ==
  ASSUME TypeOK, CallIsOpen, LevelsAreRight, LogsAreUpToDate, NEW t \in Threads,
         Show(t)
  PROVE  FileUpToDate(t)' /\ ScreenUpToDate(t)'
<1>1. /\ pc[t] = "show" /\ calls' = calls /\ setting' = setting /\ broken' = broken
      /\ Written' = Written
  BY DEF Show, Written
<1>2. WantedLines(t)' = WantedLines(t)
  BY <1>1 DEF WantedLines, IsWanted, IsConsulted
<1>3. /\ calls[t] # <<>> /\ IsWanted(CallOf(t)) /\ line[t] <= LinesOf(CallOf(t))
  BY <1>1 DEF CallIsOpen, LevelsAreRight, KnowsItsLevel, InLines
<1>4. /\ NextCall(t) = Len(calls[t]) /\ NextInFile(t) = line[t]
      /\ NextOnScreen(t) = line[t]
  BY <1>1 DEF NextCall, NextInFile, NextOnScreen, InLines
<1>5. /\ Reached(t, WantedLines(t), Written, Len(calls[t]), line[t],
                 setting.output /\ ~broken)
      /\ Reached(t, WantedLines(t), screen, Len(calls[t]), line[t], setting.console)
  BY <1>4 DEF LogsAreUpToDate, FileUpToDate, ScreenUpToDate
<1>6. Reached(t, WantedLines(t), screen', Len(calls[t]), line[t] + 1, setting.console)
  <2>1. CASE setting.console
    <3>1. GoesOn(screen, screen', LineOf(t)) /\ IsLog(screen)
      BY <1>3, <2>1, ScreenGrows, LogsAreLogs DEF Show
    <3>2. Reached(t, WantedLines(t), screen, Len(calls[t]), line[t], TRUE)
      BY <1>5, <2>1 DEF Reached
    <3>3. Reached(t, WantedLines(t), screen', Len(calls[t]), line[t] + 1, TRUE)
      BY <1>3, <3>1, <3>2, Writes
    <3> QED
      BY <3>3 DEF Reached
  <2>2. CASE ~setting.console
    <3>1. screen' = screen
      BY <2>2 DEF Show
    <3>2. Reached(t, WantedLines(t), screen, Len(calls[t]), line[t] + 1, FALSE)
      BY <1>5, Loses
    <3> QED
      BY <2>2, <3>1, <3>2 DEF Reached
  <2> QED
    BY <2>1, <2>2
<1>7. CASE setting.output
  <2>1. pc'[t] = "lock" /\ line' = line
    BY <1>7 DEF Show, Goto, TypeOK
  <2>2. /\ NextCall(t)' = Len(calls[t]) /\ NextInFile(t)' = line[t]
        /\ NextOnScreen(t)' = line[t] + 1
    BY <1>1, <2>1 DEF NextCall, NextInFile, NextOnScreen, InLines
  <2> QED
    BY <1>1, <1>2, <1>5, <1>6, <2>2 DEF FileUpToDate, ScreenUpToDate
<1>8. CASE ~setting.output
  <2>1. LineDone(t)
    BY <1>8 DEF Show
  <2>2. Reached(t, WantedLines(t), Written, Len(calls[t]), line[t] + 1, FALSE)
    BY <1>5, Loses
  <2>3. /\ Reached(t, WantedLines(t), Written, NextCall(t)', NextInFile(t)', FALSE)
        /\ NextOnScreen(t)' = NextInFile(t)'
    BY <1>1, <1>3, <2>1, <2>2, AfterLine
  <2>4. Reached(t, WantedLines(t), screen', NextCall(t)', NextInFile(t)',
                setting.console)
    BY <1>1, <1>3, <1>6, <2>1, AfterLine
  <2>5. Reached(t, WantedLines(t), Written, NextCall(t)', NextInFile(t)',
                setting.output /\ ~broken)
    BY <1>8, <2>3 DEF Reached
  <2> QED
    BY <1>1, <1>2, <2>3, <2>4, <2>5 DEF FileUpToDate, ScreenUpToDate
<1> QED
  BY <1>7, <1>8

(* To the file.                                                            *)
LEMMA FlushUpToDate ==
  ASSUME TypeOK, CallIsOpen, LevelsAreRight, LogsAreUpToDate, NEW t \in Threads,
         Flush(t)
  PROVE  FileUpToDate(t)' /\ ScreenUpToDate(t)'
<1>1. /\ pc[t] = "flush" /\ calls' = calls /\ setting' = setting
      /\ screen' = screen /\ LineDone(t) /\ Put(t, 2)
  BY DEF Flush
<1>2. WantedLines(t)' = WantedLines(t)
  BY <1>1 DEF WantedLines, IsWanted, IsConsulted
<1>3. /\ calls[t] # <<>> /\ IsWanted(CallOf(t)) /\ line[t] <= LinesOf(CallOf(t))
      /\ setting.output
  BY <1>1 DEF CallIsOpen, LevelsAreRight, KnowsItsLevel, InLines
<1>4. /\ NextCall(t) = Len(calls[t]) /\ NextInFile(t) = line[t]
      /\ NextOnScreen(t) = line[t] + 1
  BY <1>1 DEF NextCall, NextInFile, NextOnScreen, InLines
<1>5. /\ Reached(t, WantedLines(t), Written, Len(calls[t]), line[t],
                 setting.output /\ ~broken)
      /\ Reached(t, WantedLines(t), screen, Len(calls[t]), line[t] + 1,
                 setting.console)
  BY <1>4 DEF LogsAreUpToDate, FileUpToDate, ScreenUpToDate
<1>6. Reached(t, WantedLines(t), Written', Len(calls[t]), line[t] + 1, ~broken')
  <2>1. CASE ~broken /\ file' = Append(file, Piece(t, 2)) /\ UNCHANGED broken
    <3>1. GoesOn(Written, Written', LineOf(t)) /\ IsLog(Written)
      BY <1>3, <2>1, WrittenGrows, LogsAreLogs
    <3>2. Reached(t, WantedLines(t), Written, Len(calls[t]), line[t], TRUE)
      BY <1>3, <1>5, <2>1 DEF Reached
    <3>3. Reached(t, WantedLines(t), Written', Len(calls[t]), line[t] + 1, TRUE)
      BY <1>3, <3>1, <3>2, Writes
    <3> QED
      BY <3>3 DEF Reached
  <2>2. CASE broken' = TRUE /\ UNCHANGED file
    <3>1. Written' = Written
      BY <2>2 DEF Written
    <3>2. Reached(t, WantedLines(t), Written, Len(calls[t]), line[t] + 1, FALSE)
      BY <1>5, Loses
    <3> QED
      BY <2>2, <3>1, <3>2 DEF Reached
  <2> QED
    BY <1>1, <2>1, <2>2 DEF Put
<1>7. /\ Reached(t, WantedLines(t), Written', NextCall(t)', NextInFile(t)', ~broken')
      /\ NextOnScreen(t)' = NextInFile(t)'
  BY <1>1, <1>3, <1>6, AfterLine
<1>8. Reached(t, WantedLines(t), screen, NextCall(t)', NextInFile(t)', setting.console)
  BY <1>1, <1>3, <1>5, AfterLine
<1>9. FileUpToDate(t)'
  BY <1>1, <1>2, <1>7 DEF FileUpToDate, Reached
<1> QED
  BY <1>1, <1>2, <1>7, <1>8, <1>9 DEF ScreenUpToDate

(* The other steps write no line to the end and go on with the same one.   *)
LEMMA StepUpToDate ==
  ASSUME TypeOK, CallIsOpen, LogsAreUpToDate, NEW t \in Threads,
         Enter(t) \/ Initialise(t) \/ Compose(t) \/ Lock(t) \/ Write(t)
  PROVE  FileUpToDate(t)' /\ ScreenUpToDate(t)'
<1>1. /\ calls' = calls /\ setting' = setting /\ line' = line /\ screen' = screen
  BY DEF Enter, Initialise, Compose, Lock, Write, outVars
<1>2. WantedLines(t)' = WantedLines(t)
  BY <1>1 DEF WantedLines, IsWanted, IsConsulted
<1>3. /\ NextCall(t)' = NextCall(t) /\ NextInFile(t)' = NextInFile(t)
      /\ NextOnScreen(t)' = NextOnScreen(t)
  <2>1. pc \in [Threads -> Places]
    BY DEF TypeOK
  <2>2. CASE Enter(t) \/ Initialise(t)
    BY <1>1, <2>2 DEF Enter, Initialise, NextCall, NextInFile, NextOnScreen
  <2>3. CASE Compose(t) \/ Lock(t) \/ Write(t)
    BY <1>1, <2>1, <2>3
    DEF Compose, Lock, Write, Goto, NextCall, NextInFile, NextOnScreen, InLines
  <2> QED
    BY <2>2, <2>3
<1>4. Written' = Written /\ (broken => broken')
  <2>1. UNCHANGED file => Written' = Written
    BY DEF Written
  <2>2. CASE Enter(t) \/ Initialise(t) \/ Compose(t) \/ Lock(t)
    BY <2>1, <2>2 DEF Enter, Initialise, Compose, Lock, outVars
  <2>3. CASE Write(t)
    <3>1. Put(t, 1) /\ calls[t] # <<>>
      BY <2>3 DEF Write, CallIsOpen
    <3> QED
      BY <2>1, <3>1, WrittenGrows DEF Put
  <2> QED
    BY <2>2, <2>3
<1> QED
  BY <1>1, <1>2, <1>3, <1>4, StillUpToDate DEF LogsAreUpToDate

LEMMA LogsNext ==
  ASSUME TypeOK, CallIsOpen, LevelsAreRight, LogsAreUpToDate, [Next]_vars
  PROVE  LogsAreUpToDate'
<1>1. CASE UNCHANGED vars
  <2>1. /\ setting' = setting /\ pc' = pc /\ calls' = calls /\ line' = line
        /\ screen' = screen /\ file' = file /\ broken' = broken
    BY <1>1 DEF vars, levelVars, outVars
  <2>2. Written' = Written
    BY <2>1 DEF Written
  <2> QED
    BY <2>1, <2>2, PlaceKept, StillUpToDate DEF LogsAreUpToDate
<1>2. ASSUME NEW t \in Threads, Call(t) \/ InCall(t)
      PROVE  LogsAreUpToDate'
  <2>1. \A u \in Threads \ {t} : FileUpToDate(u)' /\ ScreenUpToDate(u)'
    BY <1>2, OthersUpToDate
  <2>2. CASE Call(t)
    BY <2>1, <2>2, CallUpToDate DEF LogsAreUpToDate
  <2>3. CASE Answered(t)
    BY <2>1, <2>3, AnsweredUpToDate DEF LogsAreUpToDate
  <2>4. CASE Show(t)
    BY <2>1, <2>4, ShowUpToDate DEF LogsAreUpToDate
  <2>5. CASE Flush(t)
    BY <2>1, <2>5, FlushUpToDate DEF LogsAreUpToDate
  <2>6. CASE Enter(t) \/ Initialise(t) \/ Compose(t) \/ Lock(t) \/ Write(t)
    BY <2>1, <2>6, StepUpToDate DEF LogsAreUpToDate
  <2> QED
    BY <1>2, <2>2, <2>3, <2>4, <2>5, <2>6 DEF InCall
<1> QED
  BY <1>1, <1>2 DEF Next, Done

LEMMA LevelsInit == Init => LevelsAreRight
  BY DEF Init, LevelsAreRight, StaticsAreRight, KnowsItsLevel, InLines

LEMMA LogsInit == Init => LogsAreUpToDate
<1> SUFFICES ASSUME Init, NEW t \in Threads
             PROVE  FileUpToDate(t) /\ ScreenUpToDate(t)
  BY DEF LogsAreUpToDate
<1>1. calls[t] = <<>> /\ DOMAIN file = {} /\ DOMAIN screen = {}
  BY DEF Init
<1>2. WantedLines(t) = {} /\ DOMAIN Written = {}
  BY <1>1 DEF WantedLines, Written
<1> QED
  BY <1>1, <1>2 DEF FileUpToDate, ScreenUpToDate, Reached, KeepsOrder

(* Each thread's lines are on the console and in the log in the order of   *)
(* its calls, once each and without gaps, and those of a call that has     *)
(* returned are there, unless a write had failed. For any number of        *)
(* threads, calls and configurations, whoever has found out which levels   *)
(* are on.                                                                 *)
THEOREM LogsAreComplete == Spec => []LogHasNoGaps
<1> DEFINE IInv == TypeOK /\ CallIsOpen /\ LevelsAreRight /\ LogsAreUpToDate
<1>1. Init => IInv
  BY TypeInit, LevelsInit, LogsInit
<1>2. IInv /\ [Next]_vars => IInv'
  BY TypeNext, LevelsNext, LogsNext
<1>3. IInv => LogHasNoGaps
  <2> SUFFICES ASSUME IInv, NEW t \in Threads
               PROVE  /\ KeepsOrder(t, WantedLines(t), Written)
                      /\ KeepsOrder(t, WantedLines(t), screen)
                      /\ pc[t] = "idle" /\ setting.output /\ ~broken
                           => HasAll(WantedLines(t), Written)
                      /\ pc[t] = "idle" /\ setting.console
                           => HasAll(WantedLines(t), screen)
    BY DEF LogHasNoGaps
  <2>1. /\ Reached(t, WantedLines(t), Written, NextCall(t), NextInFile(t),
                   setting.output /\ ~broken)
        /\ Reached(t, WantedLines(t), screen, NextCall(t), NextOnScreen(t),
                   setting.console)
    BY DEF LogsAreUpToDate, FileUpToDate, ScreenUpToDate
  <2>2. \A m \in WantedLines(t) : m.call \in 1..Len(calls[t])
    <3>1. DOMAIN calls[t] = 1..Len(calls[t])
      BY DEF TypeOK
    <3> QED
      BY <3>1, WantedIs
  <2>3. ASSUME pc[t] = "idle", NEW m \in WantedLines(t), NEW k
        PROVE  Earlier(m, NextCall(t), k)
    <3>1. NextCall(t) = Len(calls[t]) + 1 /\ Len(calls[t]) \in Nat
      BY <2>3 DEF NextCall, TypeOK
    <3>2. m.call < Len(calls[t]) + 1
      BY <2>2, <3>1
    <3> QED
      BY <3>1, <3>2 DEF Earlier
  <2> QED
    BY <2>1, <2>3 DEF Reached, HasAll
<1> QED
  BY <1>1, <1>2, <1>3, PTL DEF Spec
-----------------------------------------------------------------------------
(* The exit flag.                                                          *)

(* From the first line of a LOG_FATAL on the flag is set.                  *)
FatalIsTold ==
  /\ \A t \in Threads :
       pc[t] \in {"show", "lock", "write", "flush"} /\ CallOf(t) = "fatal" => exitFlag
  /\ FatalLineMeansExit

LEMMA FatalNext ==
  ASSUME TypeOK, CallIsOpen, FatalIsTold, [Next]_vars
  PROVE  FatalIsTold'
<1>1. CASE UNCHANGED vars
  BY <1>1 DEF vars, levelVars, outVars, FatalIsTold, FatalLineMeansExit, CallOf
<1>2. ASSUME NEW t \in Threads, Call(t) \/ InCall(t)
      PROVE  FatalIsTold'
  <2>1. \A u \in Threads \ {t} : pc'[u] = pc[u] /\ CallOf(u)' = CallOf(u)
    BY <1>2, OthersStay DEF CallOf
  <2>2. pc \in [Threads -> Places]
    BY DEF TypeOK
  <2>3. exitFlag => exitFlag'
    BY <1>2 DEF Call, InCall, Enter, Initialise, Answered, Compose, Show, Lock,
                Write, Flush, outVars
  <2>4. ASSUME UNCHANGED <<screen, file>>,
               pc'[t] \in {"show", "lock", "write", "flush"} /\ CallOf(t)' = "fatal"
                 => exitFlag'
        PROVE  FatalIsTold'
    BY <2>1, <2>3, <2>4 DEF FatalIsTold, FatalLineMeansExit
  <2>5. CASE Call(t)
    BY <2>2, <2>4, <2>5 DEF Call, outVars, Goto
  <2>6. CASE Enter(t) \/ Initialise(t)
    BY <2>4, <2>6 DEF Enter, Initialise, outVars
  <2>7. CASE Answered(t)
    BY <2>2, <2>4, <2>7 DEF Answered, outVars, Goto
  <2>8. CASE Compose(t)
    <3>1. CallOf(t)' = CallOf(t) /\ (CallOf(t) = "fatal" => exitFlag')
      BY <2>8 DEF Compose, CallOf
    <3> QED
      BY <2>4, <2>8, <3>1 DEF Compose
  <2>9. CASE Lock(t)
    BY <2>2, <2>4, <2>9 DEF Lock, CallOf, FatalIsTold
  <2>10. ASSUME pc[t] \in {"show", "write", "flush"}, calls' = calls,
                exitFlag' = exitFlag,
                \/ screen' = screen
                \/ screen' = Append(screen, LineOf(t)),
                \/ file' = file
                \/ \E half \in 1..2 : file' = Append(file, Piece(t, half))
         PROVE  FatalIsTold'
    <3>1. /\ calls[t] # <<>> /\ CallOf(t)' = CallOf(t)
          /\ CallOf(t) = "fatal" => exitFlag
      BY <2>10 DEF CallIsOpen, CallOf, FatalIsTold
    <3>2. PICK l \in Line : l = LineOf(t) /\ l.level = CallOf(t)
      BY <3>1, LineType DEF LineOf
    <3>3. ASSUME NEW i \in DOMAIN screen', screen'[i].level = "fatal"
          PROVE  exitFlag
      <4>1. screen \in Seq(Line)
        BY DEF TypeOK
      <4>2. CASE screen' = Append(screen, l)
        <5>1. (i \in DOMAIN screen /\ screen'[i] = screen[i]) \/ screen'[i] = l
          BY <4>1, <4>2, AppendOne
        <5> QED
          BY <3>1, <3>2, <3>3, <5>1 DEF FatalIsTold, FatalLineMeansExit
      <4>3. CASE screen' = screen
        BY <3>3, <4>3 DEF FatalIsTold, FatalLineMeansExit
      <4> QED
        BY <2>10, <3>2, <4>2, <4>3
    <3>4. ASSUME NEW i \in DOMAIN file', file'[i].of.level = "fatal"
          PROVE  exitFlag
      <4>1. file \in Seq(Pieces)
        BY DEF TypeOK
      <4>2. ASSUME NEW half \in 1..2, file' = Append(file, Piece(t, half))
            PROVE  exitFlag
        <5>1. PICK piece \in Pieces : piece = Piece(t, half) /\ piece.of = l
          <6>1. [of |-> l, half |-> half] \in Pieces
            BY <4>2 DEF Pieces
          <6> QED
            BY <3>2, <6>1 DEF Piece
        <5>2. (i \in DOMAIN file /\ file'[i] = file[i]) \/ file'[i] = piece
          BY <4>1, <4>2, <5>1, AppendOne
        <5> QED
          BY <3>1, <3>2, <3>4, <5>1, <5>2 DEF FatalIsTold, FatalLineMeansExit
      <4>3. CASE file' = file
        BY <3>4, <4>3 DEF FatalIsTold, FatalLineMeansExit
      <4> QED
        BY <2>10, <4>2, <4>3
    <3>5. FatalLineMeansExit'
      BY <2>10, <3>3, <3>4 DEF FatalLineMeansExit
    <3> QED
      BY <2>1, <2>10, <3>1, <3>5 DEF FatalIsTold
  <2>11. CASE Show(t)
    BY <2>10, <2>11 DEF Show
  <2>12. CASE Write(t)
    BY <2>10, <2>12 DEF Write, Put
  <2>13. CASE Flush(t)
    BY <2>10, <2>13 DEF Flush, Put
  <2> QED
    BY <1>2, <2>5, <2>6, <2>7, <2>8, <2>9, <2>11, <2>12, <2>13 DEF InCall
<1> QED
  BY <1>1, <1>2 DEF Next, Done

(* Whoever reads of a fatal condition, on the console or in the log, reads *)
(* it of a server that has been told to exit.                              *)
THEOREM FatalMeansExit == Spec => []FatalLineMeansExit
<1>1. Init => TypeOK /\ CallIsOpen /\ FatalIsTold
  BY TypeInit DEF Init, FatalIsTold, FatalLineMeansExit
<1>2. TypeOK /\ CallIsOpen /\ FatalIsTold /\ [Next]_vars
        => (TypeOK /\ CallIsOpen /\ FatalIsTold)'
  BY TypeNext, FatalNext
<1>3. FatalIsTold => FatalLineMeansExit
  BY DEF FatalIsTold
<1> QED
  BY <1>1, <1>2, <1>3, PTL DEF Spec
=============================================================================
