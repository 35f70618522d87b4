--------------------------- MODULE JsonTextProofs ---------------------------
(***************************************************************************)
(* Proofs about JsonText, for texts over any alphabet, of any length and   *)
(* nested as deeply as they may be. Stacks keeps the parser's stack and    *)
(* the handler's in step: the paths of the open containers are prefixes of *)
(* one another and lead to containers. NumberInv says what the scanner of  *)
(* numbers has read in each of its states, and so what it returns.         *)
(* SyntaxInv is about every language that is closed under the productions  *)
(* of JSON: the text that has been read is the head of each open container *)
(* in turn, the beginning that belongs to the place where the parser is,   *)
(* and the token or number that is being read.                             *)
(***************************************************************************)
EXTENDS JsonText, FiniteSetTheorems, SequenceTheorems, TLAPS

(* Paths in a document: of names, and of indices in decimal.               *)
Steps == Names \cup {ToString(n) : n \in Nat}

Paths == Seq(Steps)

Containers == {"array", "object"}

NumberStates ==
  {"minus", "zero", "any1", "decimal1", "decimal2", "exponent", "sign", "any2"}

ParserTypes ==
  /\ states \in Seq(Containers)
  /\ refs \in Seq(Paths)
  /\ element \in Paths
  /\ DOMAIN document \subseteq Paths /\ IsFiniteSet(DOMAIN document)
  /\ scanner \in NumberStates \cup {"start", "token"}
  /\ kind \in {"unsigned", "integer", "float"}
  /\ scanner = "token" /\ token.type = "string" => token.datum \in Names

(* The container that has been started and is not on the parser's stack    *)
(* yet.                                                                    *)
Started == IF at \in {"object_start", "array_start", "first_colon"} THEN 1 ELSE 0

ContainerAt(i) ==
  IF i \in DOMAIN states THEN states[i]
  ELSE IF at = "array_start" THEN "array" ELSE "object"

(* The paths of the open containers: each is one step below the one it is  *)
(* in.                                                                     *)
OpenPaths ==
  \A i \in DOMAIN refs :
    /\ refs[i] \in DOMAIN document
    /\ document[refs[i]].type = ContainerAt(i)
    /\ Len(refs[i]) = i - 1
    /\ i > 1 => Front(refs[i]) = refs[i - 1]

(* Where the parser is, and which container is open there.                 *)
Expects ==
  /\ at = "end" => states = <<>>
  /\ at = "after_element" => states # <<>> /\ Last(states) = "array"
  /\ at \in {"key", "colon", "after_member"} =>
       states # <<>> /\ Last(states) = "object"

(* Where a member is to be assigned.                                       *)
AtMember ==
  \/ at \in {"colon", "first_colon"}
  \/ at = "value" /\ states # <<>> /\ Last(states) = "object"

MemberIsThere ==
  AtMember =>
    /\ element \in DOMAIN document
    /\ Len(element) = Len(refs) /\ Front(element) = Last(refs)

Stacks ==
  verdict = "reading" =>
    /\ Len(refs) = Len(states) + Started
    /\ OpenPaths /\ Expects /\ MemberIsThere

-----------------------------------------------------------------------------
(* What is put into a document is there, and shorter paths keep what they  *)
(* had.                                                                    *)
LEMMA PutIsThere ==
  ASSUME NEW d, NEW path \in Paths, NEW leaf,
         DOMAIN d \subseteq Paths, IsFiniteSet(DOMAIN d)
  PROVE  /\ DOMAIN Put(d, path, leaf) \subseteq Paths
         /\ IsFiniteSet(DOMAIN Put(d, path, leaf))
         /\ path \in DOMAIN Put(d, path, leaf)
         /\ Put(d, path, leaf)[path] = leaf
<1> PICK others : others = {p \in DOMAIN d : ~IsPrefix(path, p)}
  OBVIOUS
<1>1. DOMAIN Put(d, path, leaf) = others \cup {path}
  BY DEF Put
<1>2. others \subseteq DOMAIN d
  OBVIOUS
<1>3. IsFiniteSet(others)
  BY <1>2, FS_Subset
<1>4. IsFiniteSet(others \cup {path})
  BY <1>3, FS_AddElement
<1>5. Put(d, path, leaf)[path] = leaf
  BY DEF Put
<1> QED
  BY <1>1, <1>2, <1>4, <1>5

LEMMA PutKeepsShorter ==
  ASSUME NEW d, NEW path \in Paths, NEW leaf,
         NEW p \in DOMAIN d, p \in Paths, Len(p) < Len(path)
  PROVE  p \in DOMAIN Put(d, path, leaf) /\ Put(d, path, leaf)[p] = d[p]
<1>1. Len(p) \in Nat /\ Len(path) \in Nat
  BY LenProperties DEF Paths
<1>2. ~IsPrefix(path, p)
  BY <1>1 DEF IsPrefix
<1>3. p # path
  BY <1>1
<1> QED
  BY <1>2, <1>3 DEF Put

(* The ends of a sequence.                                                 *)
LEMMA FrontOfSeq ==
  ASSUME NEW S, NEW s \in Seq(S), s # <<>>
  PROVE  /\ Front(s) \in Seq(S) /\ Len(Front(s)) = Len(s) - 1
         /\ \A i \in 1..(Len(s) - 1) : Front(s)[i] = s[i]
         /\ Last(s) \in S /\ Len(s) \in Nat \ {0}
<1>1. Len(s) \in Nat /\ Len(s) # 0
  BY EmptySeq, LenProperties
<1>2. \A i \in 1..Len(s) : s[i] \in S
  BY ElementOfSeq
<1>3. \A i \in 1..(Len(s) - 1) : s[i] \in S
  BY <1>1, <1>2
<1>4. /\ SubSeq(s, 1, Len(s) - 1) \in Seq(S)
      /\ Len(SubSeq(s, 1, Len(s) - 1)) =
           IF 1 <= Len(s) - 1 THEN Len(s) - 1 - 1 + 1 ELSE 0
      /\ \A i \in 1..(Len(s) - 1 - 1 + 1) :
           SubSeq(s, 1, Len(s) - 1)[i] = s[1 + i - 1]
  BY <1>1, <1>3, SubSeqProperties
<1>a. Front(s) = SubSeq(s, 1, Len(s) - 1)
  BY DEF Front
<1> PICK n \in Nat : n = Len(s) - 1
  BY <1>1
<1>b. /\ Front(s) \in Seq(S)
      /\ Len(Front(s)) = IF 1 <= n THEN n - 1 + 1 ELSE 0
      /\ \A i \in 1..(n - 1 + 1) : Front(s)[i] = s[1 + i - 1]
  BY <1>4, <1>a
<1>5. /\ Front(s) \in Seq(S) /\ Len(Front(s)) = Len(s) - 1
      /\ \A i \in 1..(Len(s) - 1) : Front(s)[i] = s[i]
  BY <1>b
<1> QED
  BY <1>1, <1>2, <1>5 DEF Last

LEMMA FrontOfAppend ==
  ASSUME NEW S, NEW s \in Seq(S), NEW e \in S
  PROVE  /\ Append(s, e) \in Seq(S) /\ Len(Append(s, e)) = Len(s) + 1
         /\ Append(s, e) # <<>>
         /\ Front(Append(s, e)) = s /\ Last(Append(s, e)) = e
         /\ \A i \in 1..Len(s) : Append(s, e)[i] = s[i]
         /\ Len(s) \in Nat
<1>1. Len(s) \in Nat
  BY LenProperties
<1>2. /\ Append(s, e) \in Seq(S) /\ Len(Append(s, e)) = Len(s) + 1
      /\ \A i \in 1..Len(s) : Append(s, e)[i] = s[i]
      /\ Append(s, e)[Len(s) + 1] = e
      /\ Append(s, e) # <<>>
  BY <1>1, AppendProperties
<1> PICK t : t = Append(s, e)
  OBVIOUS
<1>b. t \in Seq(S) /\ t # <<>>
  BY <1>2
<1>a. /\ Front(t) \in Seq(S) /\ Len(Front(t)) = Len(t) - 1
      /\ \A i \in 1..(Len(t) - 1) : Front(t)[i] = t[i]
  BY <1>b, FrontOfSeq, Zenon
<1>3. /\ Front(Append(s, e)) \in Seq(S)
      /\ Len(Front(Append(s, e))) = Len(s)
      /\ \A i \in 1..Len(s) : Front(Append(s, e))[i] = s[i]
  BY <1>1, <1>2, <1>a
<1>4. Front(Append(s, e)) = s
  BY <1>3, SeqEqual
<1>5. Last(Append(s, e)) = e
  BY <1>2 DEF Last
<1> QED
  BY <1>1, <1>2, <1>4, <1>5
-----------------------------------------------------------------------------
LEMMA InitTypes == Init => ParserTypes /\ Stacks
<1> SUFFICES ASSUME Init PROVE ParserTypes /\ Stacks
  OBVIOUS
<1>1. states = <<>> /\ refs = <<>> /\ element = <<>> /\ at = "value"
  BY DEF Init
<1>2. states \in Seq(Containers) /\ refs \in Seq(Paths) /\ element \in Paths
  BY <1>1 DEF Paths
<1>3. DOMAIN document = {<<>>}
  BY DEF Init
<1>a. <<>> \in Paths
  BY DEF Paths
<1>b. IsFiniteSet({<<>>})
  BY FS_Singleton
<1>4. IsFiniteSet(DOMAIN document) /\ DOMAIN document \subseteq Paths
  BY <1>3, <1>a, <1>b
<1>5. ParserTypes
  BY <1>2, <1>4 DEF Init, ParserTypes
<1>6. Len(refs) = Len(states) + Started
  BY <1>1 DEF Started
<1>7. OpenPaths
  BY <1>1 DEF OpenPaths
<1>8. Expects /\ MemberIsThere
  BY <1>1 DEF Expects, MemberIsThere, AtMember
<1> QED
  BY <1>5, <1>6, <1>7, <1>8 DEF Stacks
-----------------------------------------------------------------------------
(* The places of the two stacks while no container has just been started.  *)
LEMMA StacksAreLevel ==
  ASSUME ParserTypes, Stacks, verdict = "reading"
  PROVE  /\ Len(states) \in Nat /\ Len(refs) \in Nat
         /\ DOMAIN states = 1..Len(states) /\ DOMAIN refs = 1..Len(refs)
         /\ \A i \in DOMAIN states : states[i] \in Containers
         /\ \A i \in DOMAIN refs : refs[i] \in Paths
         /\ Len(refs) = Len(states) + Started
         /\ Started \in {0, 1}
<1>1. /\ states \in Seq(Containers) /\ refs \in Seq(Paths)
      /\ Len(refs) = Len(states) + Started
  BY DEF ParserTypes, Stacks
<1>2. Len(states) \in Nat /\ Len(refs) \in Nat
  BY <1>1, LenProperties
<1>3. DOMAIN states = 1..Len(states) /\ DOMAIN refs = 1..Len(refs)
  BY <1>1, LenProperties
<1>4. /\ \A i \in DOMAIN states : states[i] \in Containers
      /\ \A i \in DOMAIN refs : refs[i] \in Paths
  BY <1>1, <1>3, ElementOfSeq
<1>5. Started \in {0, 1}
  BY DEF Started
<1> QED
  BY <1>1, <1>2, <1>3, <1>4, <1>5

(* Where a value goes: one step below the container that is open.          *)
LEMMA PlaceIsBelow ==
  ASSUME ParserTypes, Stacks, verdict = "reading", at = "value"
  PROVE  /\ Place \in Paths /\ Len(Place) = Len(refs)
         /\ refs # <<>> => Front(Place) = Last(refs)
<1>a. Started = 0
  BY DEF Started
<1>1. Started = 0 /\ Len(refs) = Len(states) /\ DOMAIN states = DOMAIN refs
      /\ DOMAIN refs = 1..Len(refs) /\ Len(refs) \in Nat
  <2>1. /\ Len(refs) = Len(states) + Started /\ Len(states) \in Nat /\ Len(refs) \in Nat
        /\ DOMAIN states = 1..Len(states) /\ DOMAIN refs = 1..Len(refs)
    BY StacksAreLevel
  <2>2. Len(refs) = Len(states)
    BY <1>a, <2>1
  <2> QED
    BY <1>a, <2>1, <2>2
<1>2. CASE refs = <<>>
  <2>1. Place = <<>>
    BY <1>2 DEF Place
  <2>2. <<>> \in Paths
    BY DEF Paths
  <2> QED
    BY <1>2, <2>1, <2>2
<1>3. CASE refs # <<>>
  <2>1. Len(refs) # 0 /\ Len(refs) \in DOMAIN refs /\ states # <<>>
    BY <1>1, <1>3, EmptySeq DEF ParserTypes
  <2>2. /\ Last(refs) \in Paths /\ Len(Last(refs)) = Len(refs) - 1
        /\ document[Last(refs)].type = Last(states)
    BY <1>1, <2>1, StacksAreLevel DEF Stacks, OpenPaths, ContainerAt, Last
  <2>3. CASE Last(states) = "array"
    <3> PICK below : below = {p \in DOMAIN document : p # <<>> /\ Front(p) = Last(refs)}
      OBVIOUS
    <3>1. Cardinality(below) \in Nat
      <4>1. IsFiniteSet(DOMAIN document) /\ below \in SUBSET DOMAIN document
        BY DEF ParserTypes
      <4>2. IsFiniteSet(below)
        BY <4>1, FS_Subset
      <4> QED
        BY <4>2, FS_CardinalityType
    <3>2. ToString(Cardinality(below)) \in Steps
      BY <3>1 DEF Steps
    <3>3. Place = Append(Last(refs), ToString(Cardinality(below)))
      BY <1>3, <2>2, <2>3 DEF Place
    <3>4. Last(refs) \in Seq(Steps)
      BY <2>2 DEF Paths
    <3>5. /\ Place \in Seq(Steps) /\ Len(Place) = Len(Last(refs)) + 1
          /\ Front(Place) = Last(refs)
      BY <3>2, <3>3, <3>4, FrontOfAppend
    <3> QED
      BY <1>1, <2>1, <2>2, <3>5 DEF Paths
  <2>4. CASE Last(states) # "array"
    <3>1. Last(states) = "object"
      BY <1>1, <2>1, <2>4, StacksAreLevel DEF Containers, Last
    <3>2. Place = element
      BY <1>3, <2>2, <2>4 DEF Place
    <3>3. AtMember
      BY <2>1, <3>1 DEF AtMember
    <3> QED
      BY <3>2, <3>3 DEF Stacks, MemberIsThere, ParserTypes
  <2> QED
    BY <2>3, <2>4
<1> QED
  BY <1>2, <1>3

(* Putting a leaf below the open containers leaves them alone.             *)
LEMMA PutKeepsOpenPaths ==
  ASSUME ParserTypes, Stacks, verdict = "reading",
         NEW path \in Paths, Len(path) >= Len(refs), NEW leaf, NEW i \in DOMAIN refs
  PROVE  /\ refs[i] \in DOMAIN Put(document, path, leaf)
         /\ Put(document, path, leaf)[refs[i]] = document[refs[i]]
<1>1. i \in 1..Len(refs) /\ Len(refs) \in Nat /\ refs[i] \in Paths
  BY StacksAreLevel
<1>2. refs[i] \in DOMAIN document /\ Len(refs[i]) = i - 1
  BY DEF Stacks, OpenPaths
<1>3. Len(path) \in Nat
  BY LenProperties DEF Paths
<1>4. Len(refs[i]) < Len(path)
  BY <1>1, <1>2, <1>3
<1> QED
  BY <1>1, <1>2, <1>4, PutKeepsShorter

(* After a value, a container or the text may go on.                       *)
LEMMA StacksAfterValue ==
  ASSUME states' \in Seq(Containers), at' = AfterValue(states'),
         Len(refs') = Len(states'), DOMAIN refs' = DOMAIN states',
         \A i \in DOMAIN refs' :
           /\ refs'[i] \in DOMAIN document'
           /\ document'[refs'[i]].type = states'[i]
           /\ Len(refs'[i]) = i - 1
           /\ i > 1 => Front(refs'[i]) = refs'[i - 1]
  PROVE  Stacks'
<1>1. at' \in {"end", "after_element", "after_member"}
  BY DEF AfterValue
<1>2. Started' = 0
  BY <1>1 DEF Started
<1>3. Len(states') \in Nat
  BY LenProperties
<1>4. OpenPaths'
  BY DEF OpenPaths, ContainerAt
<1>5. Expects'
  <2>1. states' # <<>> => Last(states') \in Containers
    BY FrontOfSeq
  <2> QED
    BY <2>1 DEF Expects, AfterValue, Containers
<1>6. MemberIsThere'
  BY <1>1 DEF MemberIsThere, AtMember
<1> QED
  BY <1>2, <1>3, <1>4, <1>5, <1>6 DEF Stacks

(* The number's next state.                                                *)
LEMMA NumberStepIsState ==
  ASSUME NEW state \in NumberStates, NEW c
  PROVE  NumberStep(state, c) \in NumberStates \cup {"error", "done"}
BY DEF NumberStep, NumberStates

LEMMA LexerKeepsTypes ==
  ASSUME ParserTypes, LineEnd \/ Scan \/ ScanNumber
  PROVE  /\ scanner' \in NumberStates \cup {"start", "token"}
         /\ kind' \in {"unsigned", "integer", "float"}
         /\ scanner' = "token" /\ token'.type = "string" => token'.datum \in Names
<1>a. /\ scanner \in NumberStates \cup {"start", "token"}
      /\ kind \in {"unsigned", "integer", "float"}
  BY DEF ParserTypes
<1>1. CASE LineEnd
  BY <1>1, <1>a DEF LineEnd
<1>2. CASE Scan
  <2>1. scanner = "start"
    BY <1>2 DEF Scan
  <2> PICK c \in Coming :
        \/ UNCHANGED <<scanner, buffer, kind, token>>
        \/ c \in Marks \cup {End} /\ Return(c, 0) /\ UNCHANGED <<buffer, kind>>
        \/ c \in Names /\ Return("string", c) /\ UNCHANGED <<buffer, kind>>
        \/ c \in Words /\ Return("word", c) /\ UNCHANGED <<buffer, kind>>
        \/ /\ scanner' = IF c = "-" THEN "minus"
                         ELSE IF DigitValue[c] = 0 THEN "zero" ELSE "any1"
           /\ kind' = IF c = "-" THEN "integer" ELSE "unsigned"
        \/ Return("error", 0) /\ UNCHANGED <<buffer, kind>>
    BY <1>2 DEF Scan
  <2>2. CASE UNCHANGED <<scanner, buffer, kind, token>>
    BY <2>1, <2>2, <1>a
  <2>3. CASE c \in Marks \cup {End} /\ Return(c, 0) /\ UNCHANGED <<buffer, kind>>
    BY <2>3, <1>a DEF Return, Marks, End
  <2>4. CASE c \in Names /\ Return("string", c) /\ UNCHANGED <<buffer, kind>>
    BY <2>4, <1>a DEF Return
  <2>5. CASE c \in Words /\ Return("word", c) /\ UNCHANGED <<buffer, kind>>
    BY <2>5, <1>a DEF Return
  <2>6. CASE /\ scanner' = IF c = "-" THEN "minus"
                           ELSE IF DigitValue[c] = 0 THEN "zero" ELSE "any1"
             /\ kind' = IF c = "-" THEN "integer" ELSE "unsigned"
    BY <2>6 DEF NumberStates
  <2>7. CASE Return("error", 0) /\ UNCHANGED <<buffer, kind>>
    BY <2>7, <1>a DEF Return
  <2> QED
    BY <2>2, <2>3, <2>4, <2>5, <2>6, <2>7
<1>3. CASE ScanNumber
  <2> PICK c \in Coming :
        \/ Return("error", 0) /\ UNCHANGED <<ungot, buffer, kind>>
        \/ /\ token' = NumberToken(kind, buffer) /\ scanner' = "token"
           /\ UNCHANGED <<buffer, kind>>
        \/ /\ NumberStep(scanner, c) \notin {"error", "done"}
           /\ scanner' = NumberStep(scanner, c)
           /\ kind' = IF NumberStep(scanner, c) \in {"decimal1", "exponent"}
                      THEN "float" ELSE kind
           /\ UNCHANGED <<ungot, token>>
    BY <1>3 DEF ScanNumber
  <2>1. CASE Return("error", 0) /\ UNCHANGED <<ungot, buffer, kind>>
    BY <2>1, <1>a DEF Return
  <2>2. CASE /\ token' = NumberToken(kind, buffer) /\ scanner' = "token"
             /\ UNCHANGED <<buffer, kind>>
    BY <2>2, <1>a DEF NumberToken
  <2>3. CASE /\ NumberStep(scanner, c) \notin {"error", "done"}
             /\ scanner' = NumberStep(scanner, c)
             /\ kind' = IF NumberStep(scanner, c) \in {"decimal1", "exponent"}
                        THEN "float" ELSE kind
    <3>1. scanner \in NumberStates
      BY <1>3, <1>a DEF ScanNumber
    <3>2. scanner' \in NumberStates
      BY <2>3, <3>1, NumberStepIsState
    <3> QED
      BY <2>3, <3>2, <1>a DEF NumberStates
  <2> QED
    BY <2>1, <2>2, <2>3
<1> QED
  BY <1>1, <1>2, <1>3

(* A step of the lexer.                                                    *)
LEMMA LexerKeepsStacks ==
  ASSUME ParserTypes, Stacks, LineEnd \/ Scan \/ ScanNumber
  PROVE  ParserTypes' /\ Stacks'
<1>1. UNCHANGED parserVars
  BY DEF LineEnd, Scan, ScanNumber
<1>2. Stacks'
  BY <1>1 DEF parserVars, Stacks, Started, OpenPaths, ContainerAt, Expects, MemberIsThere,
              AtMember
<1> QED
  BY <1>1, <1>2, LexerKeepsTypes DEF ParserTypes, parserVars
-----------------------------------------------------------------------------
LEMMA ScalarKeepsStacks ==
  ASSUME ParserTypes, Stacks, ParseScalar
  PROVE  ParserTypes' /\ Stacks'
<1>1. /\ verdict = "reading" /\ at = "value" /\ scanner' = "start"
      /\ UNCHANGED <<kind, token, states, refs, element>>
  BY DEF ParseScalar, Take, Refuse
<1>2. CASE Refuse
  BY <1>1, <1>2 DEF Refuse, ParserTypes, Stacks
<1>3. CASE /\ document' = Put(document, Place, token)
           /\ at' = AfterValue(states)
  <2>1. Place \in Paths /\ Len(Place) = Len(refs)
    BY <1>1, PlaceIsBelow
  <2>2. DOMAIN document' \subseteq Paths /\ IsFiniteSet(DOMAIN document')
    BY <1>3, <2>1, PutIsThere DEF ParserTypes
  <2>3. /\ DOMAIN states = 1..Len(states) /\ DOMAIN refs = 1..Len(refs)
        /\ Len(states) \in Nat /\ Len(refs) \in Nat
        /\ Len(refs) = Len(states) + Started
    BY <1>1, StacksAreLevel
  <2>4. Len(refs) = Len(states) /\ DOMAIN refs = DOMAIN states
    BY <1>1, <2>3 DEF Started
  <2>5. ASSUME NEW i \in DOMAIN refs
        PROVE  /\ refs[i] \in DOMAIN document'
               /\ document'[refs[i]].type = states[i]
               /\ Len(refs[i]) = i - 1
               /\ i > 1 => Front(refs[i]) = refs[i - 1]
    <3>1. refs[i] \in DOMAIN document' /\ document'[refs[i]] = document[refs[i]]
      BY <1>1, <1>3, <2>1, <2>3, PutKeepsOpenPaths
    <3> QED
      BY <1>1, <2>4, <3>1 DEF Stacks, OpenPaths, ContainerAt
  <2>6. Stacks'
    BY <1>1, <1>3, <2>4, <2>5, StacksAfterValue DEF ParserTypes
  <2> QED
    BY <1>1, <2>2, <2>6 DEF ParserTypes
<1> QED
  BY <1>2, <1>3 DEF ParseScalar

LEMMA StartKeepsStacks ==
  ASSUME ParserTypes, Stacks, ParseStart
  PROVE  ParserTypes' /\ Stacks'
<1> PICK leaf : /\ leaf.type = IF token.type = "[" THEN "array" ELSE "object"
                /\ document' = Put(document, Place, leaf)
  BY DEF ParseStart
<1>1. /\ verdict = "reading" /\ at = "value" /\ scanner' = "start"
      /\ UNCHANGED <<kind, token, states, element, verdict>>
      /\ refs' = Append(refs, Place)
      /\ at' = IF token.type = "[" THEN "array_start" ELSE "object_start"
  BY DEF ParseStart, Take
<1>2. /\ Place \in Paths /\ Len(Place) = Len(refs)
      /\ refs # <<>> => Front(Place) = Last(refs)
  BY <1>1, PlaceIsBelow
<1>3. /\ DOMAIN document' \subseteq Paths /\ IsFiniteSet(DOMAIN document')
      /\ Place \in DOMAIN document' /\ document'[Place] = leaf
  BY <1>2, PutIsThere DEF ParserTypes
<1>4. /\ DOMAIN states = 1..Len(states) /\ DOMAIN refs = 1..Len(refs)
      /\ Len(states) \in Nat /\ Len(refs) \in Nat
      /\ Len(refs) = Len(states) + Started
  BY <1>1, StacksAreLevel
<1>5. Len(refs) = Len(states) /\ DOMAIN refs = DOMAIN states
  BY <1>1, <1>4 DEF Started
<1>6. /\ refs' \in Seq(Paths) /\ Len(refs') = Len(refs) + 1
      /\ Last(refs') = Place
      /\ \A i \in 1..Len(refs) : refs'[i] = refs[i]
  BY <1>1, <1>2, FrontOfAppend DEF ParserTypes
<1>7. DOMAIN refs' = 1..(Len(refs) + 1) /\ refs'[Len(refs) + 1] = Place
  BY <1>6, LenProperties DEF Last
<1>8. ASSUME NEW i \in DOMAIN refs'
      PROVE  /\ refs'[i] \in DOMAIN document'
             /\ document'[refs'[i]].type = ContainerAt(i)'
             /\ Len(refs'[i]) = i - 1
             /\ i > 1 => Front(refs'[i]) = refs'[i - 1]
  <2>1. CASE i \in DOMAIN refs
    <3>1. refs[i] \in DOMAIN document' /\ document'[refs[i]] = document[refs[i]]
      BY <1>1, <1>2, <1>4, <2>1, PutKeepsOpenPaths
    <3>2. refs'[i] = refs[i] /\ (i > 1 => refs'[i - 1] = refs[i - 1])
      BY <1>4, <1>6, <2>1
    <3>3. document[refs[i]].type = ContainerAt(i)'
      BY <1>1, <1>5, <2>1 DEF Stacks, OpenPaths, ContainerAt
    <3> QED
      BY <1>1, <2>1, <3>1, <3>2, <3>3 DEF Stacks, OpenPaths
  <2>2. CASE i \notin DOMAIN refs
    <3>1. i = Len(refs) + 1 /\ refs'[i] = Place
      BY <1>4, <1>7, <2>2
    <3>2. leaf.type = ContainerAt(i)'
      BY <1>1, <1>5, <2>2 DEF ContainerAt
    <3>3. i > 1 => Front(Place) = refs'[i - 1]
      BY <1>2, <1>4, <1>6, <3>1 DEF Last
    <3> QED
      BY <1>2, <1>3, <1>4, <3>1, <3>2, <3>3
  <2> QED
    BY <2>1, <2>2
<1>9. Stacks'
  <2>1. Started' = 1
    BY <1>1 DEF Started
  <2>2. OpenPaths'
    BY <1>8 DEF OpenPaths
  <2>3. Expects' /\ MemberIsThere'
    BY <1>1 DEF Expects, MemberIsThere, AtMember
  <2> QED
    BY <1>1, <1>5, <1>6, <2>1, <2>2, <2>3 DEF Stacks
<1> QED
  BY <1>1, <1>3, <1>6, <1>9 DEF ParserTypes

(* A container that ends takes its path with it.                           *)
LEMMA EndKeepsStacks ==
  ASSUME ParserTypes, Stacks, verdict = "reading", refs # <<>>,
         refs' = Front(refs), at' = AfterValue(states'), document' = document,
         states' \in Seq(Containers), Len(states') = Len(refs) - 1,
         \A i \in DOMAIN states' : i \in DOMAIN states /\ states'[i] = states[i]
  PROVE  refs' \in Seq(Paths) /\ Stacks'
<1>1. /\ DOMAIN refs = 1..Len(refs) /\ Len(refs) \in Nat
  BY StacksAreLevel
<1>2. /\ refs' \in Seq(Paths) /\ Len(refs') = Len(refs) - 1
      /\ \A i \in 1..(Len(refs) - 1) : refs'[i] = refs[i]
  BY FrontOfSeq DEF ParserTypes
<1>3. /\ DOMAIN refs' = 1..(Len(refs) - 1) /\ DOMAIN states' = 1..(Len(refs) - 1)
  BY <1>2, LenProperties
<1>4. ASSUME NEW i \in DOMAIN refs'
      PROVE  /\ refs'[i] \in DOMAIN document'
             /\ document'[refs'[i]].type = states'[i]
             /\ Len(refs'[i]) = i - 1
             /\ i > 1 => Front(refs'[i]) = refs'[i - 1]
  <2>1. i \in DOMAIN refs /\ i \in DOMAIN states' /\ i \in 1..(Len(refs) - 1)
    BY <1>1, <1>3
  <2>2. refs'[i] = refs[i] /\ (i > 1 => refs'[i - 1] = refs[i - 1])
    BY <1>1, <1>2, <2>1
  <2>3. i \in DOMAIN states /\ states'[i] = states[i]
    BY <2>1
  <2> QED
    BY <2>1, <2>2, <2>3 DEF Stacks, OpenPaths, ContainerAt
<1>5. Len(refs') = Len(states') /\ DOMAIN refs' = DOMAIN states'
  BY <1>2, <1>3
<1> QED
  BY <1>2, <1>4, <1>5, StacksAfterValue

(* The member a name stands for is there, one step below the object that   *)
(* is open.                                                                *)
LEMMA KeyIsMember ==
  ASSUME ParserTypes, Stacks, verdict = "reading", refs # <<>>,
         NEW name \in Names, Key(name)
  PROVE  /\ element' \in Paths /\ element' \in DOMAIN document'
         /\ Len(element') = Len(refs) /\ Front(element') = Last(refs)
         /\ DOMAIN document' \subseteq Paths /\ IsFiniteSet(DOMAIN document')
         /\ \A i \in DOMAIN refs :
              refs[i] \in DOMAIN document' /\ document'[refs[i]] = document[refs[i]]
<1> PICK path : path = Append(Last(refs), name)
  OBVIOUS
<1>1. /\ element' = path
      /\ document' = IF path \in DOMAIN document THEN document
                     ELSE Put(document, path, Null)
  BY DEF Key
<1>2. /\ DOMAIN refs = 1..Len(refs) /\ Len(refs) \in Nat /\ Len(refs) # 0
      /\ \A i \in DOMAIN refs : refs[i] \in Paths
  BY StacksAreLevel, EmptySeq DEF ParserTypes
<1>3. Last(refs) \in Paths /\ Len(Last(refs)) = Len(refs) - 1
  BY <1>2 DEF Stacks, OpenPaths, Last
<1>4. name \in Steps /\ Last(refs) \in Seq(Steps)
  BY <1>3 DEF Steps, Paths
<1>5. /\ path \in Seq(Steps) /\ Len(path) = Len(Last(refs)) + 1
      /\ Front(path) = Last(refs)
  BY <1>4, FrontOfAppend
<1>6. path \in Paths /\ Len(path) = Len(refs)
  BY <1>2, <1>3, <1>5 DEF Paths
<1>7. CASE path \in DOMAIN document
  BY <1>1, <1>5, <1>6, <1>7 DEF ParserTypes, Stacks, OpenPaths
<1>8. CASE path \notin DOMAIN document
  <2>1. document' = Put(document, path, Null)
    BY <1>1, <1>8
  <2>2. /\ DOMAIN document' \subseteq Paths /\ IsFiniteSet(DOMAIN document')
        /\ path \in DOMAIN document'
    BY <1>6, <2>1, PutIsThere DEF ParserTypes
  <2>3. ASSUME NEW i \in DOMAIN refs
        PROVE  refs[i] \in DOMAIN document' /\ document'[refs[i]] = document[refs[i]]
    <3>1. Len(path) >= Len(refs)
      BY <1>2, <1>6
    <3>2. /\ refs[i] \in DOMAIN Put(document, path, Null)
          /\ Put(document, path, Null)[refs[i]] = document[refs[i]]
      BY <1>6, <3>1, PutKeepsOpenPaths
    <3> QED
      BY <2>1, <3>2
  <2> QED
    BY <1>1, <1>5, <1>6, <2>2, <2>3
<1> QED
  BY <1>7, <1>8

LEMMA ObjectStartKeepsStacks ==
  ASSUME ParserTypes, Stacks, ParseObjectStart
  PROVE  ParserTypes' /\ Stacks'
<1>1. /\ verdict = "reading" /\ at = "object_start" /\ scanner = "token"
      /\ scanner' = "start" /\ UNCHANGED <<kind, token>>
  BY DEF ParseObjectStart, Take
<1>2. /\ DOMAIN states = 1..Len(states) /\ DOMAIN refs = 1..Len(refs)
      /\ Len(states) \in Nat /\ Len(refs) \in Nat
      /\ Len(refs) = Len(states) + Started
  BY <1>1, StacksAreLevel
<1>3. Started = 1
  BY <1>1 DEF Started
<1>4. refs # <<>>
  BY <1>2, <1>3
<1>5. CASE /\ refs' = Front(refs) /\ at' = AfterValue(states)
           /\ UNCHANGED <<states, element, document, verdict>>
  <2>1. refs' \in Seq(Paths) /\ Stacks'
    BY <1>1, <1>2, <1>3, <1>4, <1>5, EndKeepsStacks DEF ParserTypes
  <2> QED
    BY <1>1, <1>5, <2>1 DEF ParserTypes
<1>6. CASE /\ token.type = "string" /\ Key(token.datum) /\ at' = "first_colon"
           /\ UNCHANGED <<states, refs, verdict>>
  <2>1. token.datum \in Names
    BY <1>1, <1>6 DEF ParserTypes
  <2>2. /\ element' \in Paths /\ element' \in DOMAIN document'
        /\ Len(element') = Len(refs) /\ Front(element') = Last(refs)
        /\ DOMAIN document' \subseteq Paths /\ IsFiniteSet(DOMAIN document')
        /\ \A i \in DOMAIN refs :
             refs[i] \in DOMAIN document' /\ document'[refs[i]] = document[refs[i]]
    BY <1>1, <1>4, <1>6, <2>1, KeyIsMember
  <2>3. Started' = 1
    BY <1>6 DEF Started
  <2>4. OpenPaths'
    <3>1. \A i \in DOMAIN refs : ContainerAt(i)' = ContainerAt(i)
      BY <1>1, <1>6 DEF ContainerAt
    <3> QED
      BY <1>1, <1>6, <2>2, <3>1 DEF Stacks, OpenPaths
  <2>5. Expects'
    BY <1>6 DEF Expects
  <2>6. MemberIsThere'
    BY <1>6, <2>2 DEF MemberIsThere
  <2>7. Stacks'
    BY <1>2, <1>3, <1>6, <2>3, <2>4, <2>5, <2>6 DEF Stacks
  <2> QED
    BY <1>1, <1>6, <2>2, <2>7 DEF ParserTypes
<1>7. CASE Refuse
  BY <1>1, <1>7 DEF Refuse, ParserTypes, Stacks
<1> QED
  BY <1>5, <1>6, <1>7 DEF ParseObjectStart, Unexpected

LEMMA FirstColonKeepsStacks ==
  ASSUME ParserTypes, Stacks, ParseFirstColon
  PROVE  ParserTypes' /\ Stacks'
<1>1. /\ verdict = "reading" /\ at = "first_colon"
      /\ scanner' = "start" /\ UNCHANGED <<kind, token>>
  BY DEF ParseFirstColon, Take
<1>2. /\ DOMAIN states = 1..Len(states) /\ DOMAIN refs = 1..Len(refs)
      /\ Len(states) \in Nat /\ Len(refs) \in Nat
      /\ Len(refs) = Len(states) + Started
  BY <1>1, StacksAreLevel
<1>3. Started = 1
  BY <1>1 DEF Started
<1>4. CASE /\ states' = Append(states, "object") /\ at' = "value"
           /\ UNCHANGED <<refs, element, document, verdict>>
  <2>1. "object" \in Containers
    BY DEF Containers
  <2>2. /\ states' \in Seq(Containers) /\ Len(states') = Len(states) + 1
        /\ states' # <<>> /\ Last(states') = "object"
        /\ \A i \in 1..Len(states) : states'[i] = states[i]
    BY <1>4, <2>1, FrontOfAppend DEF ParserTypes
  <2>3. DOMAIN states' = 1..(Len(states) + 1) /\ states'[Len(states) + 1] = "object"
    BY <2>2, LenProperties DEF Last
  <2>4. Started' = 0 /\ Len(refs') = Len(states') + Started'
    BY <1>2, <1>3, <1>4, <2>2 DEF Started
  <2>5. OpenPaths'
    <3>1. ASSUME NEW i \in DOMAIN refs PROVE ContainerAt(i)' = ContainerAt(i)
      <4>1. i \in DOMAIN states'
        BY <1>2, <1>3, <2>3
      <4>2. CASE i \in DOMAIN states
        BY <1>2, <2>2, <4>1, <4>2 DEF ContainerAt
      <4>3. CASE i \notin DOMAIN states
        BY <1>1, <1>2, <1>3, <2>3, <4>1, <4>3 DEF ContainerAt
      <4> QED
        BY <4>2, <4>3
    <3> QED
      BY <1>1, <1>4, <3>1 DEF Stacks, OpenPaths
  <2>6. Expects'
    BY <1>4 DEF Expects
  <2>7. MemberIsThere'
    BY <1>1, <1>4 DEF Stacks, MemberIsThere, AtMember
  <2>8. Stacks'
    BY <2>4, <2>5, <2>6, <2>7 DEF Stacks
  <2> QED
    BY <1>1, <1>4, <2>2, <2>8 DEF ParserTypes
<1>5. CASE Refuse
  BY <1>1, <1>5 DEF Refuse, ParserTypes, Stacks
<1> QED
  BY <1>4, <1>5 DEF ParseFirstColon, Unexpected

LEMMA ArrayStartKeepsStacks ==
  ASSUME ParserTypes, Stacks, ParseArrayStart
  PROVE  ParserTypes' /\ Stacks'
<1>1. /\ verdict = "reading" /\ at = "array_start"
      /\ UNCHANGED <<kind, token, element, document, verdict>>
  BY DEF ParseArrayStart
<1>2. /\ DOMAIN states = 1..Len(states) /\ DOMAIN refs = 1..Len(refs)
      /\ Len(states) \in Nat /\ Len(refs) \in Nat
      /\ Len(refs) = Len(states) + Started
  BY <1>1, StacksAreLevel
<1>3. Started = 1
  BY <1>1 DEF Started
<1>4. refs # <<>>
  BY <1>2, <1>3
<1>5. CASE /\ refs' = Front(refs) /\ at' = AfterValue(states) /\ scanner' = "start"
           /\ UNCHANGED states
  <2>1. refs' \in Seq(Paths) /\ Stacks'
    BY <1>1, <1>2, <1>3, <1>4, <1>5, EndKeepsStacks DEF ParserTypes
  <2> QED
    BY <1>1, <1>5, <2>1 DEF ParserTypes
<1>6. CASE /\ states' = Append(states, "array") /\ at' = "value"
           /\ UNCHANGED <<refs, scanner>>
  <2>1. "array" \in Containers
    BY DEF Containers
  <2>2. /\ states' \in Seq(Containers) /\ Len(states') = Len(states) + 1
        /\ states' # <<>> /\ Last(states') = "array"
        /\ \A i \in 1..Len(states) : states'[i] = states[i]
    BY <1>6, <2>1, FrontOfAppend DEF ParserTypes
  <2>3. DOMAIN states' = 1..(Len(states) + 1) /\ states'[Len(states) + 1] = "array"
    BY <2>2, LenProperties DEF Last
  <2>4. Started' = 0 /\ Len(refs') = Len(states') + Started'
    BY <1>2, <1>3, <1>6, <2>2 DEF Started
  <2>5. OpenPaths'
    <3>1. ASSUME NEW i \in DOMAIN refs PROVE ContainerAt(i)' = ContainerAt(i)
      <4>1. i \in DOMAIN states'
        BY <1>2, <1>3, <2>3
      <4>2. CASE i \in DOMAIN states
        BY <1>2, <2>2, <4>1, <4>2 DEF ContainerAt
      <4>3. CASE i \notin DOMAIN states
        BY <1>1, <1>2, <1>3, <2>3, <4>1, <4>3 DEF ContainerAt
      <4> QED
        BY <4>2, <4>3
    <3> QED
      BY <1>1, <1>6, <3>1 DEF Stacks, OpenPaths
  <2>6. Expects' /\ MemberIsThere'
    BY <1>6, <2>2 DEF Expects, MemberIsThere, AtMember
  <2>7. Stacks'
    BY <2>4, <2>5, <2>6 DEF Stacks
  <2> QED
    BY <1>1, <1>6, <2>2, <2>7 DEF ParserTypes
<1> QED
  BY <1>5, <1>6 DEF ParseArrayStart

(* end_object and end_array.                                               *)
LEMMA ParseEndKeepsStacks ==
  ASSUME ParserTypes, Stacks, verdict = "reading",
         at \in {"after_element", "after_member"}, ParseEnd
  PROVE  /\ states' \in Seq(Containers) /\ refs' \in Seq(Paths) /\ Stacks'
<1>1. /\ DOMAIN states = 1..Len(states) /\ Len(states) \in Nat /\ Len(refs) \in Nat
      /\ Len(refs) = Len(states) + Started
  BY StacksAreLevel
<1>2. Started = 0 /\ states # <<>>
  BY DEF Started, Stacks, Expects
<1>3. /\ states' \in Seq(Containers) /\ Len(states') = Len(states) - 1
      /\ \A i \in 1..(Len(states) - 1) : states'[i] = states[i]
      /\ Len(states) # 0
  BY <1>2, FrontOfSeq DEF ParserTypes, ParseEnd
<1>4. DOMAIN states' = 1..(Len(states) - 1)
  BY <1>3, LenProperties
<1>5. /\ refs # <<>> /\ Len(states') = Len(refs) - 1
      /\ \A i \in DOMAIN states' : i \in DOMAIN states /\ states'[i] = states[i]
  BY <1>1, <1>2, <1>3, <1>4
<1>6. refs' = Front(refs) /\ at' = AfterValue(states') /\ document' = document
  BY DEF ParseEnd
<1> QED
  BY <1>3, <1>5, <1>6, EndKeepsStacks

LEMMA AfterElementKeepsStacks ==
  ASSUME ParserTypes, Stacks, ParseAfterElement \/ ParseAfterMember
  PROVE  ParserTypes' /\ Stacks'
<1>1. /\ verdict = "reading" /\ at \in {"after_element", "after_member"}
      /\ scanner' = "start" /\ UNCHANGED <<kind, token>>
  BY DEF ParseAfterElement, ParseAfterMember, Take
<1>2. CASE /\ at' = IF at = "after_element" THEN "value" ELSE "key"
           /\ UNCHANGED <<states, refs, element, document, verdict>>
  <2>1. Started = 0 /\ Started' = 0
    BY <1>1, <1>2 DEF Started
  <2>2. OpenPaths'
    BY <1>1, <1>2 DEF Stacks, OpenPaths, ContainerAt
  <2>3. Expects'
    BY <1>1, <1>2 DEF Stacks, Expects
  <2>4. MemberIsThere'
    BY <1>1, <1>2 DEF Stacks, Expects, MemberIsThere, AtMember
  <2>5. Stacks'
    BY <1>1, <1>2, <2>1, <2>2, <2>3, <2>4 DEF Stacks
  <2> QED
    BY <1>1, <1>2, <2>5 DEF ParserTypes
<1>3. CASE ParseEnd
  <2>1. states' \in Seq(Containers) /\ refs' \in Seq(Paths) /\ Stacks'
    BY <1>1, <1>3, ParseEndKeepsStacks
  <2> QED
    BY <1>1, <1>3, <2>1 DEF ParserTypes, ParseEnd
<1>4. CASE Refuse
  BY <1>1, <1>4 DEF Refuse, ParserTypes, Stacks
<1> QED
  BY <1>2, <1>3, <1>4 DEF ParseAfterElement, ParseAfterMember, Unexpected

LEMMA KeyKeepsStacks ==
  ASSUME ParserTypes, Stacks, ParseKey
  PROVE  ParserTypes' /\ Stacks'
<1>1. /\ verdict = "reading" /\ at = "key" /\ scanner = "token"
      /\ scanner' = "start" /\ UNCHANGED <<kind, token>>
  BY DEF ParseKey, Take
<1>2. /\ Len(states) \in Nat /\ Len(refs) \in Nat
      /\ Len(refs) = Len(states) + Started
  BY <1>1, StacksAreLevel
<1>3. Started = 0 /\ states # <<>> /\ Last(states) = "object"
  BY <1>1 DEF Started, Stacks, Expects
<1>4. refs # <<>>
  BY <1>2, <1>3, EmptySeq DEF ParserTypes
<1>5. CASE /\ token.type = "string" /\ Key(token.datum) /\ at' = "colon"
           /\ UNCHANGED <<states, refs, verdict>>
  <2>1. token.datum \in Names
    BY <1>1, <1>5 DEF ParserTypes
  <2>2. /\ element' \in Paths /\ element' \in DOMAIN document'
        /\ Len(element') = Len(refs) /\ Front(element') = Last(refs)
        /\ DOMAIN document' \subseteq Paths /\ IsFiniteSet(DOMAIN document')
        /\ \A i \in DOMAIN refs :
             refs[i] \in DOMAIN document' /\ document'[refs[i]] = document[refs[i]]
    BY <1>1, <1>4, <1>5, <2>1, KeyIsMember
  <2>3. Started' = 0
    BY <1>5 DEF Started
  <2>4. OpenPaths'
    <3>1. \A i \in DOMAIN refs : ContainerAt(i)' = ContainerAt(i)
      BY <1>1, <1>5 DEF ContainerAt
    <3> QED
      BY <1>1, <1>5, <2>2, <3>1 DEF Stacks, OpenPaths
  <2>5. Expects' /\ MemberIsThere'
    BY <1>3, <1>5, <2>2 DEF Expects, MemberIsThere
  <2>6. Stacks'
    BY <1>2, <1>3, <1>5, <2>3, <2>4, <2>5 DEF Stacks
  <2> QED
    BY <1>1, <1>5, <2>2, <2>6 DEF ParserTypes
<1>6. CASE Refuse
  BY <1>1, <1>6 DEF Refuse, ParserTypes, Stacks
<1> QED
  BY <1>5, <1>6 DEF ParseKey, Unexpected

LEMMA ColonKeepsStacks ==
  ASSUME ParserTypes, Stacks, ParseColon
  PROVE  ParserTypes' /\ Stacks'
<1>1. /\ verdict = "reading" /\ at = "colon"
      /\ scanner' = "start" /\ UNCHANGED <<kind, token>>
  BY DEF ParseColon, Take
<1>2. CASE /\ at' = "value" /\ UNCHANGED <<states, refs, element, document, verdict>>
  <2>1. Started = 0 /\ Started' = 0
    BY <1>1, <1>2 DEF Started
  <2>2. OpenPaths'
    BY <1>1, <1>2 DEF Stacks, OpenPaths, ContainerAt
  <2>3. Expects' /\ MemberIsThere'
    BY <1>1, <1>2 DEF Stacks, Expects, MemberIsThere, AtMember
  <2>4. Stacks'
    BY <1>1, <1>2, <2>1, <2>2, <2>3 DEF Stacks
  <2> QED
    BY <1>1, <1>2, <2>4 DEF ParserTypes
<1>3. CASE Refuse
  BY <1>1, <1>3 DEF Refuse, ParserTypes, Stacks
<1> QED
  BY <1>2, <1>3 DEF ParseColon, Unexpected

LEMMA EndOfInputKeepsStacks ==
  ASSUME ParserTypes, Stacks, ParseEndOfInput \/ RefuseValue
  PROVE  ParserTypes' /\ Stacks'
<1>1. /\ verdict' # "reading" /\ scanner' = "start"
      /\ UNCHANGED <<kind, token, at, states, refs, element, document>>
  BY DEF ParseEndOfInput, RefuseValue, Unexpected, Refuse, Take
<1> QED
  BY <1>1 DEF ParserTypes, Stacks

LEMMA NextKeepsStacks ==
  ASSUME ParserTypes, Stacks, [Next]_vars
  PROVE  ParserTypes' /\ Stacks'
<1>1. CASE UNCHANGED vars
  BY <1>1 DEF vars, lexerVars, parserVars, ParserTypes, Stacks, Started, OpenPaths,
              ContainerAt, Expects, MemberIsThere, AtMember
<1>2. CASE LineEnd \/ Scan \/ ScanNumber
  BY <1>2, LexerKeepsStacks
<1>3. CASE ParseScalar
  BY <1>3, ScalarKeepsStacks
<1>4. CASE ParseStart
  BY <1>4, StartKeepsStacks
<1>5. CASE ParseObjectStart
  BY <1>5, ObjectStartKeepsStacks
<1>6. CASE ParseFirstColon
  BY <1>6, FirstColonKeepsStacks
<1>7. CASE ParseArrayStart
  BY <1>7, ArrayStartKeepsStacks
<1>8. CASE ParseAfterElement \/ ParseAfterMember
  BY <1>8, AfterElementKeepsStacks
<1>9. CASE ParseKey
  BY <1>9, KeyKeepsStacks
<1>10. CASE ParseColon
  BY <1>10, ColonKeepsStacks
<1>11. CASE ParseEndOfInput \/ RefuseValue
  BY <1>11, EndOfInputKeepsStacks
<1> QED
  BY <1>1, <1>2, <1>3, <1>4, <1>5, <1>6, <1>7, <1>8, <1>9, <1>10, <1>11 DEF Next

LEMMA StacksImplyAgreement ==
  ASSUME ParserTypes, Stacks
  PROVE  StacksAgree
<1> SUFFICES ASSUME verdict = "reading"
             PROVE  /\ Len(refs) = Len(states) + Started
                    /\ OpenPaths /\ MemberIsThere
  BY DEF StacksAgree, Started, OpenPaths, ContainerAt, MemberIsThere, AtMember
<1> QED
  BY DEF Stacks

(* The parser's stack and the handler's agree, for texts over any alphabet *)
(* and of any length, nested as deeply as they may be: no assertion of     *)
(* json_sax_dom_parser can fail.                                           *)
THEOREM StacksAreInStep == Spec => []StacksAgree
<1>1. Init => ParserTypes /\ Stacks
  BY InitTypes
<1>2. ParserTypes /\ Stacks /\ [Next]_vars => ParserTypes' /\ Stacks'
  BY NextKeepsStacks
<1>3. ParserTypes /\ Stacks => StacksAgree
  BY StacksImplyAgreement
<1> QED
  BY <1>1, <1>2, <1>3, PTL DEF Spec
-----------------------------------------------------------------------------
(* Where a sequence is split at a mark: at the first one, or at its end.   *)
LEMMA PositionOfFirst ==
  ASSUME NEW S, NEW s \in Seq(S), NEW mark, NEW k \in 1..Len(s),
         s[k] = mark, \A i \in 1..(k - 1) : s[i] # mark
  PROVE  PositionOf(mark, s) = k
<1>1. DOMAIN s = 1..Len(s) /\ Len(s) \in Nat
  BY LenProperties
<1>2. k \in DOMAIN s /\ s[k] = mark /\ \A j \in 1..(k - 1) : s[j] # mark
  BY <1>1
<1>3. ASSUME NEW i \in DOMAIN s, s[i] = mark, \A j \in 1..(i - 1) : s[j] # mark
      PROVE  i = k
  <2>1. i \in Nat /\ k \in Nat /\ i >= 1 /\ k >= 1
    BY <1>1
  <2>2. ~(i < k) /\ ~(k < i)
    BY <2>1, <1>3
  <2> QED
    BY <2>1, <2>2
<1>4. (CHOOSE i \in DOMAIN s : s[i] = mark /\ \A j \in 1..(i - 1) : s[j] # mark) = k
  BY <1>2, <1>3
<1> QED
  BY <1>2, <1>4 DEF PositionOf

LEMMA NoMarkNoSplit ==
  ASSUME NEW S, NEW s \in Seq(S), NEW mark, \A i \in 1..Len(s) : s[i] # mark
  PROVE  UpTo(mark, s) = s /\ From(mark, s) = <<>>
<1>1. DOMAIN s = 1..Len(s) /\ Len(s) \in Nat
  BY LenProperties
<1>2. PositionOf(mark, s) = Len(s) + 1
  BY <1>1 DEF PositionOf
<1>3. UpTo(mark, s) = SubSeq(s, 1, Len(s))
  BY <1>1, <1>2 DEF UpTo
<1>4. From(mark, s) = SubSeq(s, Len(s) + 1, Len(s))
  BY <1>2 DEF From
<1> QED
  BY <1>1, <1>3, <1>4, SubSeqFull, SubSeqEmpty

LEMMA SplitAtMark ==
  ASSUME NEW S, NEW a \in Seq(S), NEW c \in Seq(S), NEW mark \in S,
         \A i \in 1..Len(a) : a[i] # mark
  PROVE  /\ UpTo(mark, a \o (<<mark>> \o c)) = a
         /\ From(mark, a \o (<<mark>> \o c)) = <<mark>> \o c
         /\ a \o (<<mark>> \o c) \in Seq(S)
<1> PICK s : s = a \o (<<mark>> \o c)
  OBVIOUS
<1> PICK t : t = <<mark>> \o c
  OBVIOUS
<1>1. Len(a) \in Nat /\ Len(c) \in Nat
  BY LenProperties
<1>a. <<mark>> \in Seq(S) /\ Len(<<mark>>) = 1 /\ <<mark>>[1] = mark
  OBVIOUS
<1>2. /\ t \in Seq(S) /\ Len(t) = 1 + Len(c) /\ t[1] = mark
  BY <1>1, <1>a, ConcatProperties
<1>3. /\ s \in Seq(S) /\ Len(s) = Len(a) + Len(t)
      /\ \A i \in 1..(Len(a) + Len(t)) : s[i] = IF i <= Len(a) THEN a[i] ELSE t[i - Len(a)]
  BY <1>2, ConcatProperties
<1> PICK k \in Nat : k = Len(a) + 1
  BY <1>1
<1>4. k \in 1..Len(s) /\ s[k] = mark /\ \A i \in 1..(k - 1) : s[i] # mark
  BY <1>1, <1>2, <1>3
<1>5. PositionOf(mark, s) = k
  BY <1>3, <1>4, PositionOfFirst
<1>b. UpTo(mark, s) = SubSeq(s, 1, k - 1) /\ From(mark, s) = SubSeq(s, k, Len(s))
  BY <1>5 DEF UpTo, From
<1>c. k - 1 = Len(a)
  BY <1>1
<1>6. UpTo(mark, s) = SubSeq(s, 1, Len(a)) /\ From(mark, s) = SubSeq(s, Len(a) + 1, Len(s))
  BY <1>b, <1>c
<1>7. SubSeq(s, 1, Len(a)) = a
  <2>1. \A i \in 1..Len(a) : s[i] = a[i] /\ s[i] \in S
    BY <1>1, <1>2, <1>3, ElementOfSeq
  <2>2. /\ SubSeq(s, 1, Len(a)) \in Seq(S)
        /\ Len(SubSeq(s, 1, Len(a))) = IF 1 <= Len(a) THEN Len(a) - 1 + 1 ELSE 0
        /\ \A i \in 1..(Len(a) - 1 + 1) : SubSeq(s, 1, Len(a))[i] = s[1 + i - 1]
    BY <1>1, <2>1, SubSeqProperties
  <2>3. /\ Len(SubSeq(s, 1, Len(a))) = Len(a)
        /\ \A i \in 1..Len(a) : SubSeq(s, 1, Len(a))[i] = a[i]
    BY <1>1, <2>1, <2>2
  <2> QED
    BY <2>2, <2>3, SeqEqual
<1>8. SubSeq(s, Len(a) + 1, Len(s)) = t
  <2>0. Len(s) = k + Len(c) /\ Len(s) \in Nat
    BY <1>1, <1>2, <1>3
  <2>1. \A i \in k..Len(s) : s[i] \in S
    BY <1>3, <2>0, ElementOfSeq
  <2>2. /\ SubSeq(s, k, Len(s)) \in Seq(S)
        /\ Len(SubSeq(s, k, Len(s))) = IF k <= Len(s) THEN Len(s) - k + 1 ELSE 0
        /\ \A i \in 1..(Len(s) - k + 1) : SubSeq(s, k, Len(s))[i] = s[k + i - 1]
    BY <2>0, <2>1, SubSeqProperties
  <2>3. Len(SubSeq(s, k, Len(s))) = Len(t)
    BY <1>1, <1>2, <2>0, <2>2
  <2>4. ASSUME NEW i \in 1..Len(t) PROVE SubSeq(s, k, Len(s))[i] = t[i]
    <3>0. i \in 1..(Len(s) - k + 1)
      BY <1>1, <1>2, <2>0
    <3>1. SubSeq(s, k, Len(s))[i] = s[k + i - 1]
      BY <2>2, <3>0
    <3>2. k + i - 1 \in 1..(Len(a) + Len(t)) /\ ~(k + i - 1 <= Len(a)) /\ k + i - 1 - Len(a) = i
      BY <1>1, <1>2
    <3> QED
      BY <1>3, <3>1, <3>2
  <2> QED
    BY <1>2, <2>2, <2>3, <2>4, SeqEqual
<1> QED
  BY <1>3, <1>6, <1>7, <1>8

-----------------------------------------------------------------------------
(* One sequence after another, by a name: the lemmas about it below are all *)
(* that most proofs need to know of it.                                    *)
Cat(s, t) == s \o t

Point == <<".">>

Exponent == <<"e">>

(* The parts of a number.                                                  *)
Signs == {<<>>, <<"-">>}

ExponentSigns == {<<>>, <<"+">>, <<"-">>}

Naturals == {s \in Seq(Digits) : s # <<>>}

Wholes == {s \in Naturals : Len(s) > 1 => DigitValue[Head(s)] # 0}

Unsigneds ==
  Wholes \cup {Cat(whole, Cat(Point, n)) : whole \in Wholes, n \in Naturals}

Mantissas == {Cat(sign, x) : sign \in Signs, x \in Unsigneds}

LEMMA DigitsAreNoMarks ==
  /\ \A d \in Digits : d \notin {"-", "+", ".", "e"} /\ d \in NumberSymbols
  /\ {"-", "+", ".", "e"} \subseteq NumberSymbols
BY GrammarAssumption DEF NumberSymbols

LEMMA PartsAreSequences ==
  /\ Naturals \subseteq Seq(NumberSymbols) /\ Wholes \subseteq Naturals
  /\ Signs \subseteq Seq(NumberSymbols) /\ ExponentSigns \subseteq Seq(NumberSymbols)
  /\ \A s \in Naturals : /\ Len(s) \in Nat \ {0}
                          /\ \A i \in 1..Len(s) : s[i] \in Digits
                          /\ IsNatural(s)
  /\ \A s \in Wholes : IsWhole(s)
<1>1. Seq(Digits) \subseteq Seq(NumberSymbols)
  BY SeqMonotonic DEF NumberSymbols
<1>2. Naturals \subseteq Seq(NumberSymbols) /\ Wholes \subseteq Naturals
  BY <1>1 DEF Naturals, Wholes
<1>3. Signs \subseteq Seq(NumberSymbols) /\ ExponentSigns \subseteq Seq(NumberSymbols)
  BY DigitsAreNoMarks DEF Signs, ExponentSigns
<1>5. ASSUME NEW s \in Naturals
      PROVE  /\ Len(s) \in Nat \ {0} /\ \A i \in 1..Len(s) : s[i] \in Digits
             /\ IsNatural(s)
  <2>1. s \in Seq(Digits) /\ s # <<>>
    BY DEF Naturals
  <2>2. Len(s) \in Nat /\ Len(s) # 0 /\ DOMAIN s = 1..Len(s)
    BY <2>1, LenProperties, EmptySeq
  <2>3. \A i \in 1..Len(s) : s[i] \in Digits
    BY <2>1, ElementOfSeq
  <2> QED
    BY <2>1, <2>2, <2>3 DEF IsNatural
<1>6. ASSUME NEW s \in Wholes PROVE IsWhole(s)
  BY <1>2, <1>5 DEF Wholes, IsWhole
<1> QED
  BY <1>1, <1>2, <1>3, <1>5, <1>6

(* What is put before a sequence is its head, and the rest its tail.       *)
LEMMA HeadAndTail ==
  ASSUME NEW S, NEW s \in Seq(S), NEW first \in S
  PROVE  /\ <<first>> \o s \in Seq(S) /\ <<first>> \o s # <<>>
         /\ Head(<<first>> \o s) = first /\ Tail(<<first>> \o s) = s
<1> PICK t : t = <<first>> \o s
  OBVIOUS
<1>1. <<first>> \in Seq(S) /\ Len(<<first>>) = 1 /\ <<first>>[1] = first
  OBVIOUS
<1>2. Len(s) \in Nat
  BY LenProperties
<1>3. /\ t \in Seq(S) /\ Len(t) = 1 + Len(s)
      /\ \A i \in 1..(1 + Len(s)) : t[i] = IF i <= 1 THEN first ELSE s[i - 1]
  BY <1>1, ConcatProperties
<1>4. t # <<>> /\ t[1] = first
  BY <1>2, <1>3
<1>5. Head(t) = first
  BY <1>3, <1>4
<1>6. /\ Tail(t) \in Seq(S) /\ Len(Tail(t)) = Len(t) - 1
      /\ \A i \in 1..Len(Tail(t)) : Tail(t)[i] = t[i + 1]
  BY <1>3, <1>4, HeadTailProperties
<1>7. \A i \in 1..Len(s) : Tail(t)[i] = s[i]
  BY <1>2, <1>3, <1>6
<1>8. Tail(t) = s
  BY <1>2, <1>3, <1>6, <1>7, SeqEqual
<1> QED
  BY <1>3, <1>4, <1>5, <1>8

(* A sign is taken off, and nothing else.                                  *)
LEMMA WithoutSign ==
  ASSUME NEW S, NEW s \in Seq(S), s # <<>>, NEW signs, Head(s) \notin signs
  PROVE  /\ Without(signs, <<>> \o s) = s
         /\ \A sign \in signs \cap S : Without(signs, <<sign>> \o s) = s
<1>1. <<>> \o s = s
  BY ConcatEmptySeq
<1>2. ASSUME NEW sign \in signs \cap S PROVE Without(signs, <<sign>> \o s) = s
  <2>1. /\ <<sign>> \o s # <<>> /\ Head(<<sign>> \o s) = sign
        /\ Tail(<<sign>> \o s) = s
    BY HeadAndTail
  <2> QED
    BY <2>1 DEF Without
<1> QED
  BY <1>1, <1>2 DEF Without

(* A sequence that begins with a digit.                                    *)
LEMMA HeadOfNatural ==
  ASSUME NEW n \in Naturals, NEW s \in Seq(NumberSymbols)
  PROVE  /\ Head(n) \in Digits /\ Head(n \o s) = Head(n) /\ n \o s # <<>>
         /\ n \o s \in Seq(NumberSymbols)
<1>1. /\ n \in Seq(NumberSymbols) /\ Len(n) \in Nat \ {0}
      /\ n[1] \in Digits /\ n # <<>>
  BY PartsAreSequences DEF Naturals
<1>2. Len(s) \in Nat
  BY LenProperties
<1>3. /\ n \o s \in Seq(NumberSymbols) /\ Len(n \o s) = Len(n) + Len(s)
      /\ (n \o s)[1] = n[1]
  BY <1>1, <1>2, ConcatProperties
<1>4. n \o s # <<>>
  BY <1>1, <1>2, <1>3
<1> QED
  BY <1>1, <1>3, <1>4

(* No mark among the symbols of two sequences, no mark in both together.   *)
LEMMA NoMarkInConcat ==
  ASSUME NEW S, NEW s \in Seq(S), NEW t \in Seq(S), NEW mark,
         \A i \in 1..Len(s) : s[i] # mark, \A i \in 1..Len(t) : t[i] # mark
  PROVE  \A i \in 1..Len(s \o t) : (s \o t)[i] # mark
<1> PICK u : u = s \o t
  OBVIOUS
<1>1. Len(s) \in Nat /\ Len(t) \in Nat
  BY LenProperties
<1>2. /\ Len(u) = Len(s) + Len(t)
      /\ \A i \in 1..(Len(s) + Len(t)) : u[i] = IF i <= Len(s) THEN s[i] ELSE t[i - Len(s)]
  BY ConcatProperties
<1>3. ASSUME NEW i \in 1..Len(u) PROVE u[i] # mark
  <2>1. CASE i <= Len(s)
    BY <1>1, <1>2, <2>1
  <2>2. CASE ~(i <= Len(s))
    <3>1. u[i] = t[i - Len(s)] /\ i - Len(s) \in 1..Len(t)
      BY <1>1, <1>2, <2>2
    <3> QED
      BY <3>1
  <2> QED
    BY <2>1, <2>2
<1> QED
  BY <1>3

(* A number without sign and exponent.                                     *)
LEMMA UnsignedIsRead ==
  ASSUME NEW x \in Unsigneds
  PROVE  /\ x \in Seq(NumberSymbols) /\ x # <<>> /\ Head(x) \in Digits
         /\ \A i \in 1..Len(x) : x[i] # "e"
         /\ IsWhole(UpTo(".", x))
         /\ From(".", x) # <<>> => IsNatural(Tail(From(".", x)))
<1>1. CASE x \in Wholes
  <2>1. /\ x \in Seq(NumberSymbols) /\ x \in Naturals /\ IsWhole(x)
        /\ \A i \in 1..Len(x) : x[i] \in Digits
    BY <1>1, PartsAreSequences
  <2>2. \A i \in 1..Len(x) : x[i] # "." /\ x[i] # "e"
    BY <2>1, DigitsAreNoMarks
  <2>3. UpTo(".", x) = x /\ From(".", x) = <<>>
    BY <2>1, <2>2, NoMarkNoSplit
  <2>4. Len(x) \in Nat \ {0} /\ x # <<>>
    BY <2>1, PartsAreSequences DEF Naturals
  <2>5. Head(x) \in Digits
    BY <2>1, <2>4
  <2> QED
    BY <2>1, <2>2, <2>3, <2>4, <2>5
<1>2. CASE x \notin Wholes
  <2> PICK whole \in Wholes, n \in Naturals : x = whole \o (<<".">> \o n)
    BY <1>2 DEF Unsigneds, Cat, Point
  <2> PICK f : f = <<".">> \o n
    OBVIOUS
  <2>1. /\ whole \in Seq(NumberSymbols) /\ whole \in Naturals /\ IsWhole(whole)
        /\ \A i \in 1..Len(whole) : whole[i] \in Digits
    BY PartsAreSequences
  <2>2. /\ n \in Seq(NumberSymbols) /\ IsNatural(n)
        /\ \A i \in 1..Len(n) : n[i] \in Digits
    BY PartsAreSequences
  <2>3. "." \in NumberSymbols /\ <<".">> \in Seq(NumberSymbols)
        /\ \A i \in 1..Len(<<".">>) : <<".">>[i] # "e"
    BY DigitsAreNoMarks
  <2>4. f \in Seq(NumberSymbols) /\ f # <<>> /\ Tail(f) = n
    BY <2>2, <2>3, HeadAndTail
  <2>5. \A i \in 1..Len(whole) : whole[i] # "." /\ whole[i] # "e"
    BY <2>1, DigitsAreNoMarks
  <2>6. \A i \in 1..Len(n) : n[i] # "e"
    BY <2>2, DigitsAreNoMarks
  <2>7. UpTo(".", x) = whole /\ From(".", x) = f
    <3>1. \A i \in 1..Len(whole) : whole[i] # "."
      BY <2>5
    <3>2. /\ UpTo(".", whole \o (<<".">> \o n)) = whole
          /\ From(".", whole \o (<<".">> \o n)) = <<".">> \o n
      <4>1. whole \in Seq(NumberSymbols)
        BY <2>1
      <4>2. n \in Seq(NumberSymbols)
        BY <2>2
      <4>3. "." \in NumberSymbols
        BY <2>3
      <4> QED
        BY ONLY <3>1, <4>1, <4>2, <4>3, SplitAtMark
    <3> QED
      BY <3>2
  <2>8. \A i \in 1..Len(f) : f[i] # "e"
    BY <2>2, <2>3, <2>6, NoMarkInConcat
  <2>9. \A i \in 1..Len(x) : x[i] # "e"
    BY <2>1, <2>4, <2>5, <2>8, NoMarkInConcat
  <2>10. x \in Seq(NumberSymbols) /\ x # <<>> /\ Head(x) \in Digits
    BY <2>1, <2>4, HeadOfNatural
  <2> QED
    BY <2>1, <2>2, <2>4, <2>7, <2>9, <2>10
<1> QED
  BY <1>1, <1>2

(* A mantissa reads as one.                                                *)
LEMMA MantissaIsRead ==
  ASSUME NEW m \in Mantissas
  PROVE  /\ m \in Seq(NumberSymbols) /\ \A i \in 1..Len(m) : m[i] # "e"
         /\ IsWhole(UpTo(".", Without({"-"}, m)))
         /\ From(".", Without({"-"}, m)) # <<>> =>
              IsNatural(Tail(From(".", Without({"-"}, m))))
<1> PICK sign \in Signs, x \in Unsigneds : m = sign \o x
  BY DEF Mantissas, Cat
<1>1. /\ x \in Seq(NumberSymbols) /\ x # <<>> /\ Head(x) \in Digits
      /\ \A i \in 1..Len(x) : x[i] # "e"
      /\ IsWhole(UpTo(".", x))
      /\ From(".", x) # <<>> => IsNatural(Tail(From(".", x)))
  BY UnsignedIsRead
<1>2. sign \in Seq(NumberSymbols) /\ \A i \in 1..Len(sign) : sign[i] # "e"
  <2>1. CASE sign = <<>>
    BY <2>1
  <2>2. CASE sign = <<"-">>
    BY <2>2, DigitsAreNoMarks
  <2> QED
    BY <2>1, <2>2 DEF Signs
<1>3. Head(x) \notin {"-"} /\ "-" \in NumberSymbols
  BY <1>1, DigitsAreNoMarks
<1>4. /\ Without({"-"}, <<>> \o x) = x
      /\ \A s \in {"-"} \cap NumberSymbols : Without({"-"}, <<s>> \o x) = x
  BY <1>1, <1>3, WithoutSign
<1>5. Without({"-"}, m) = x
  BY <1>3, <1>4 DEF Signs
<1>6. m \in Seq(NumberSymbols)
  BY <1>1, <1>2, ConcatProperties
<1>7. \A i \in 1..Len(m) : m[i] # "e"
  BY <1>1, <1>2, NoMarkInConcat
<1> QED
  BY <1>1, <1>5, <1>6, <1>7

LEMMA MantissaIsNumber ==
  ASSUME NEW m \in Mantissas
  PROVE  IsNumber(m)
<1>1. /\ m \in Seq(NumberSymbols) /\ \A i \in 1..Len(m) : m[i] # "e"
      /\ IsWhole(UpTo(".", Without({"-"}, m)))
      /\ From(".", Without({"-"}, m)) # <<>> =>
           IsNatural(Tail(From(".", Without({"-"}, m))))
  BY MantissaIsRead
<1>2. UpTo("e", m) = m /\ From("e", m) = <<>>
  BY <1>1, NoMarkNoSplit
<1> QED
  BY <1>1, <1>2 DEF IsNumber

LEMMA ExponentIsNumber ==
  ASSUME NEW m \in Mantissas, NEW sign \in ExponentSigns, NEW n \in Naturals
  PROVE  IsNumber(Cat(m, Cat(Exponent, Cat(sign, n))))
<1> PICK g : g = sign \o n
  OBVIOUS
<1> PICK s : s = m \o (<<"e">> \o g)
  OBVIOUS
<1>1. /\ m \in Seq(NumberSymbols) /\ \A i \in 1..Len(m) : m[i] # "e"
      /\ IsWhole(UpTo(".", Without({"-"}, m)))
      /\ From(".", Without({"-"}, m)) # <<>> =>
           IsNatural(Tail(From(".", Without({"-"}, m))))
  BY MantissaIsRead
<1>2. n \in Seq(NumberSymbols) /\ sign \in Seq(NumberSymbols) /\ IsNatural(n)
      /\ n # <<>> /\ n \in Naturals
  BY PartsAreSequences DEF Naturals
<1>3. g \in Seq(NumberSymbols)
  BY <1>2, ConcatProperties
<1>4. "e" \in NumberSymbols
  BY DigitsAreNoMarks
<1>5. UpTo("e", s) = m /\ From("e", s) = <<"e">> \o g
  <2>1. m \in Seq(NumberSymbols)
    BY <1>1
  <2>2. \A i \in 1..Len(m) : m[i] # "e"
    BY <1>1
  <2>3. g \in Seq(NumberSymbols) /\ "e" \in NumberSymbols
    BY <1>3, <1>4
  <2>4. /\ UpTo("e", m \o (<<"e">> \o g)) = m
        /\ From("e", m \o (<<"e">> \o g)) = <<"e">> \o g
    BY ONLY <2>1, <2>2, <2>3, SplitAtMark
  <2> QED
    BY <2>4
<1>6. Tail(<<"e">> \o g) = g
  BY <1>3, <1>4, HeadAndTail
<1>7. Without({"+", "-"}, g) = n
  <2>1. <<>> \in Seq(NumberSymbols)
    OBVIOUS
  <2>2. Head(n) \in Digits
    BY <1>2, <2>1, HeadOfNatural
  <2>3. Head(n) \notin {"+", "-"}
    BY <2>2, DigitsAreNoMarks
  <2>4. /\ Without({"+", "-"}, <<>> \o n) = n
        /\ \A c \in {"+", "-"} \cap NumberSymbols : Without({"+", "-"}, <<c>> \o n) = n
    BY <1>2, <2>3, WithoutSign
  <2>5. "+" \in {"+", "-"} \cap NumberSymbols /\ "-" \in {"+", "-"} \cap NumberSymbols
    BY DigitsAreNoMarks
  <2>6. Without({"+", "-"}, <<"+">> \o n) = n /\ Without({"+", "-"}, <<"-">> \o n) = n
    BY <2>4, <2>5
  <2>7. sign = <<>> \/ sign = <<"+">> \/ sign = <<"-">>
    BY DEF ExponentSigns
  <2>8. Without({"+", "-"}, <<>> \o n) = n
    BY <2>4
  <2> QED
    BY <2>6, <2>7, <2>8, Zenon
<1>8. IsNumber(s)
  BY <1>1, <1>2, <1>5, <1>6, <1>7 DEF IsNumber
<1> QED
  BY <1>8 DEF Cat, Exponent
-----------------------------------------------------------------------------
(* What scan_number has read when it is in a state.                        *)
IsSoFar(state, s) ==
  /\ state = "minus" => s = <<"-">>
  /\ state \in {"zero", "any1"} =>
       \E sign \in Signs, whole \in Wholes :
         /\ s = Cat(sign, whole)
         /\ state = "any1" => DigitValue[Head(whole)] # 0
  /\ state = "decimal1" =>
       \E sign \in Signs, whole \in Wholes : s = Cat(sign, Cat(whole, Point))
  /\ state = "decimal2" =>
       \E sign \in Signs, whole \in Wholes, n \in Naturals :
         s = Cat(sign, Cat(whole, Cat(Point, n)))
  /\ state = "exponent" => \E m \in Mantissas : s = Cat(m, Exponent)
  /\ state = "sign" =>
       \E m \in Mantissas, sign \in ExponentSigns : s = Cat(m, Cat(Exponent, sign))
  /\ state = "any2" =>
       \E m \in Mantissas, sign \in ExponentSigns, n \in Naturals :
         s = Cat(m, Cat(Exponent, Cat(sign, n)))

(* The number that has been read so far, and its type.                     *)
NumberSoFar == IsSoFar(scanner, buffer)

KindSoFar ==
  scanner \in NumberStates =>
    /\ buffer \in Seq(NumberSymbols) /\ buffer # <<>>
    /\ kind = IF scanner \notin {"minus", "zero", "any1"} THEN "float"
              ELSE IF Head(buffer) = "-" THEN "integer" ELSE "unsigned"

NumberTypes == {"unsigned", "integer", "float"}

(* A number that has been returned.                                        *)
NumberIsRead ==
  scanner = "token" /\ token.type \in NumberTypes =>
    /\ IsNumber(buffer) /\ token = NumberLeaf(buffer)

NumberInv ==
  /\ scanner \in NumberStates \cup {"start", "token"}
  /\ NumberSoFar /\ KindSoFar /\ NumberIsRead

-----------------------------------------------------------------------------
(* Another symbol.                                                         *)
LEMMA CatOfNumberSymbols ==
  /\ \A s, t \in Seq(NumberSymbols) : Cat(s, t) \in Seq(NumberSymbols)
  /\ \A s, t, u \in Seq(NumberSymbols) : Cat(Cat(s, t), u) = Cat(s, Cat(t, u))
  /\ \A s \in Seq(NumberSymbols) : Cat(<<>>, s) = s
<1>1. ASSUME NEW s \in Seq(NumberSymbols), NEW t \in Seq(NumberSymbols)
      PROVE  Cat(s, t) \in Seq(NumberSymbols)
  BY ConcatProperties DEF Cat
<1>2. ASSUME NEW s \in Seq(NumberSymbols), NEW t \in Seq(NumberSymbols),
             NEW u \in Seq(NumberSymbols)
      PROVE  Cat(Cat(s, t), u) = Cat(s, Cat(t, u))
  BY ConcatAssociative DEF Cat
<1>3. ASSUME NEW s \in Seq(NumberSymbols) PROVE Cat(<<>>, s) = s
  BY ConcatEmptySeq DEF Cat
<1> QED
  BY <1>1, <1>2, <1>3

LEMMA CatAssociates ==
  ASSUME NEW s \in Seq(NumberSymbols), NEW t \in Seq(NumberSymbols),
         NEW u \in Seq(NumberSymbols)
  PROVE  Cat(Cat(s, t), u) = Cat(s, Cat(t, u))
BY ConcatAssociative DEF Cat

LEMMA CatOfThree ==
  ASSUME NEW s \in Seq(NumberSymbols), NEW t \in Seq(NumberSymbols),
         NEW u \in Seq(NumberSymbols), NEW w \in Seq(NumberSymbols)
  PROVE  Cat(Cat(s, Cat(t, u)), w) = Cat(s, Cat(t, Cat(u, w)))
<1> PICK tu : tu = Cat(t, u)
  OBVIOUS
<1>1. tu \in Seq(NumberSymbols)
  BY CatOfNumberSymbols
<1>2. Cat(Cat(s, tu), w) = Cat(s, Cat(tu, w))
  BY <1>1, CatAssociates
<1>3. Cat(Cat(t, u), w) = Cat(t, Cat(u, w))
  BY CatAssociates
<1> QED
  BY <1>2, <1>3

LEMMA CatOfFour ==
  ASSUME NEW s \in Seq(NumberSymbols), NEW t \in Seq(NumberSymbols),
         NEW u \in Seq(NumberSymbols), NEW v \in Seq(NumberSymbols),
         NEW w \in Seq(NumberSymbols)
  PROVE  Cat(Cat(s, Cat(t, Cat(u, v))), w) = Cat(s, Cat(t, Cat(u, Cat(v, w))))
<1> PICK uv : uv = Cat(u, v)
  OBVIOUS
<1>1. uv \in Seq(NumberSymbols)
  BY CatOfNumberSymbols
<1>2. Cat(Cat(s, Cat(t, uv)), w) = Cat(s, Cat(t, Cat(uv, w)))
  BY <1>1, CatOfThree
<1>3. Cat(Cat(u, v), w) = Cat(u, Cat(v, w))
  BY CatAssociates
<1> QED
  BY <1>2, <1>3

LEMMA AppendIsCat ==
  ASSUME NEW s \in Seq(NumberSymbols), NEW c \in NumberSymbols
  PROVE  /\ Append(s, c) = Cat(s, <<c>>) /\ <<c>> \in Seq(NumberSymbols)
         /\ Append(s, c) # <<>> /\ Append(s, c) \in Seq(NumberSymbols)
BY AppendIsConcat, AppendProperties DEF Cat

LEMMA NaturalGrows ==
  ASSUME NEW d \in Digits
  PROVE  /\ <<d>> \in Naturals /\ <<d>> \in Wholes /\ Head(<<d>>) = d
         /\ \A n \in Naturals : Cat(n, <<d>>) \in Naturals
         /\ \A w \in Wholes : DigitValue[Head(w)] # 0 =>
              Cat(w, <<d>>) \in Wholes /\ Head(Cat(w, <<d>>)) = Head(w)
<1>1. <<d>> \in Seq(Digits) /\ <<d>> # <<>> /\ Len(<<d>>) = 1 /\ Head(<<d>>) = d
  OBVIOUS
<1>2. <<d>> \in Naturals /\ <<d>> \in Wholes
  BY <1>1 DEF Naturals, Wholes
<1>3. ASSUME NEW n \in Naturals
      PROVE  Cat(n, <<d>>) \in Naturals /\ Head(Cat(n, <<d>>)) = Head(n)
  <2>1. n \in Seq(Digits) /\ <<d>> \in Seq(NumberSymbols)
    BY <1>2, PartsAreSequences DEF Naturals
  <2>2. Cat(n, <<d>>) \in Seq(Digits)
    BY <1>1, <2>1, ConcatProperties DEF Cat
  <2>3. Cat(n, <<d>>) # <<>> /\ Head(Cat(n, <<d>>)) = Head(n)
    BY <2>1, HeadOfNatural DEF Cat
  <2> QED
    BY <2>2, <2>3 DEF Naturals
<1>4. ASSUME NEW w \in Wholes, DigitValue[Head(w)] # 0
      PROVE  Cat(w, <<d>>) \in Wholes /\ Head(Cat(w, <<d>>)) = Head(w)
  BY <1>3, <1>4 DEF Wholes
<1> QED
  BY <1>1, <1>2, <1>3, <1>4

(* The symbols with which a number goes on.                                *)
LEMMA NumberStepSymbol ==
  ASSUME NEW state \in NumberStates, NEW c, NumberStep(state, c) \in NumberStates
  PROVE  /\ c \in NumberSymbols
         /\ \/ /\ state = "minus" /\ c \in Digits
                /\ NumberStep(state, c) = IF DigitValue[c] = 0 THEN "zero" ELSE "any1"
            \/ state = "any1" /\ c \in Digits /\ NumberStep(state, c) = "any1"
            \/ /\ state \in {"zero", "any1"} /\ c = "."
               /\ NumberStep(state, c) = "decimal1"
            \/ /\ state \in {"zero", "any1", "decimal2"} /\ c = "e"
               /\ NumberStep(state, c) = "exponent"
            \/ /\ state \in {"decimal1", "decimal2"} /\ c \in Digits
               /\ NumberStep(state, c) = "decimal2"
            \/ /\ state = "exponent" /\ c \in {"+", "-"}
               /\ NumberStep(state, c) = "sign"
            \/ /\ state \in {"exponent", "sign", "any2"} /\ c \in Digits
               /\ NumberStep(state, c) = "any2"
<1> USE DigitsAreNoMarks DEF NumberStep, NumberStates
<1>1. CASE state = "minus"
  BY <1>1
<1>2. CASE state = "zero"
  BY <1>2
<1>3. CASE state = "any1"
  BY <1>3
<1>4. CASE state = "decimal1"
  BY <1>4
<1>5. CASE state = "decimal2"
  BY <1>5
<1>6. CASE state = "exponent"
  BY <1>6
<1>7. CASE state = "sign"
  BY <1>7
<1>8. CASE state = "any2"
  BY <1>8
<1> QED
  BY <1>1, <1>2, <1>3, <1>4, <1>5, <1>6, <1>7, <1>8

LEMMA MantissaForms ==
  ASSUME NEW sign \in Signs, NEW whole \in Wholes
  PROVE  /\ Cat(sign, whole) \in Mantissas
         /\ \A n \in Naturals : Cat(sign, Cat(whole, Cat(Point, n))) \in Mantissas
<1>1. whole \in Unsigneds /\ \A n \in Naturals : Cat(whole, Cat(Point, n)) \in Unsigneds
  BY DEF Unsigneds
<1> QED
  BY <1>1 DEF Mantissas

LEMMA PartsAreIn ==
  /\ \A sign \in Signs : sign \in Seq(NumberSymbols)
  /\ \A whole \in Wholes : whole \in Seq(NumberSymbols)
  /\ \A n \in Naturals : n \in Seq(NumberSymbols)
  /\ \A m \in Mantissas : m \in Seq(NumberSymbols)
  /\ \A sign \in ExponentSigns : sign \in Seq(NumberSymbols)
  /\ Point \in Seq(NumberSymbols) /\ Exponent \in Seq(NumberSymbols)
  /\ <<>> \in Seq(NumberSymbols)
<1>1. \A m \in Mantissas : m \in Seq(NumberSymbols)
  BY MantissaIsRead
<1>2. /\ Point \in Seq(NumberSymbols) /\ Exponent \in Seq(NumberSymbols)
      /\ <<>> \in Seq(NumberSymbols)
  BY DigitsAreNoMarks DEF Point, Exponent
<1> QED
  BY <1>1, <1>2, PartsAreSequences

(* A number that goes on is read as far as it goes.                        *)
LEMMA NumberGrows ==
  ASSUME NEW state \in NumberStates, NEW s \in Seq(NumberSymbols), IsSoFar(state, s),
         NEW c, NumberStep(state, c) \in NumberStates
  PROVE  c \in NumberSymbols /\ IsSoFar(NumberStep(state, c), Append(s, c))
<1>1. c \in NumberSymbols
  BY NumberStepSymbol
<1>0. PICK next, longer, one :
        next = NumberStep(state, c) /\ longer = Append(s, c) /\ one = <<c>>
  OBVIOUS
<1>2. longer = Cat(s, one) /\ one \in Seq(NumberSymbols)
  BY <1>0, <1>1, AppendIsCat
<1> SUFFICES IsSoFar(next, longer)
  BY <1>0, <1>1
<1>3. CASE state = "minus" /\ c \in Digits /\ next = IF DigitValue[c] = 0 THEN "zero" ELSE "any1"
  <2>1. longer = Cat(<<"-">>, one)
    BY <1>2, <1>3 DEF IsSoFar
  <2>2. <<"-">> \in Signs /\ one \in Wholes /\ Head(one) = c
    BY <1>0, <1>3, NaturalGrows DEF Signs
  <2> QED
    BY <1>3, <2>1, <2>2 DEF IsSoFar
<1>4. CASE state = "any1" /\ c \in Digits /\ next = "any1"
  <2> PICK sign \in Signs, whole \in Wholes :
        s = Cat(sign, whole) /\ DigitValue[Head(whole)] # 0
    BY <1>4 DEF IsSoFar
  <2>1. sign \in Seq(NumberSymbols) /\ whole \in Seq(NumberSymbols)
    BY PartsAreIn
  <2>3. longer = Cat(sign, Cat(whole, one))
    BY <1>2, <2>1, CatAssociates
  <2>2. Cat(whole, one) \in Wholes /\ DigitValue[Head(Cat(whole, one))] # 0
    BY <1>0, <1>4, NaturalGrows
  <2> QED
    BY <1>4, <2>2, <2>3 DEF IsSoFar
<1>5. CASE state \in {"zero", "any1"} /\ c = "." /\ next = "decimal1"
  <2> PICK sign \in Signs, whole \in Wholes : s = Cat(sign, whole)
    BY <1>5 DEF IsSoFar
  <2>1. longer = Cat(sign, Cat(whole, Point))
    <3>1. one = Point
      BY <1>0, <1>5 DEF Point
    <3>2. sign \in Seq(NumberSymbols) /\ whole \in Seq(NumberSymbols)
      BY PartsAreIn
    <3>3. longer = Cat(sign, Cat(whole, one))
      BY <1>2, <3>2, CatAssociates
    <3> QED
      BY <3>1, <3>3
  <2> QED
    BY <1>5, <2>1 DEF IsSoFar
<1>6. CASE state \in {"zero", "any1", "decimal2"} /\ c = "e" /\ next = "exponent"
  <2>1. s \in Mantissas
    <3>1. CASE state \in {"zero", "any1"}
      BY <3>1, MantissaForms DEF IsSoFar
    <3>2. CASE state = "decimal2"
      BY <3>2, MantissaForms DEF IsSoFar
    <3> QED
      BY <1>6, <3>1, <3>2
  <2>2. longer = Cat(s, Exponent)
    BY <1>0, <1>2, <1>6 DEF Exponent
  <2> QED
    BY <1>6, <2>1, <2>2 DEF IsSoFar
<1>7. CASE state \in {"decimal1", "decimal2"} /\ c \in Digits /\ next = "decimal2"
  <2>1. CASE state = "decimal1"
    <3> PICK sign \in Signs, whole \in Wholes : s = Cat(sign, Cat(whole, Point))
      BY <2>1 DEF IsSoFar
    <3>1. longer = Cat(sign, Cat(whole, Cat(Point, one)))
      <4>1. /\ sign \in Seq(NumberSymbols) /\ whole \in Seq(NumberSymbols)
            /\ Point \in Seq(NumberSymbols)
        BY PartsAreIn
      <4> QED
        BY <1>2, <4>1, CatOfThree
    <3>2. one \in Naturals
      BY <1>0, <1>7, NaturalGrows
    <3> QED
      BY <1>7, <3>1, <3>2 DEF IsSoFar
  <2>2. CASE state = "decimal2"
    <3> PICK sign \in Signs, whole \in Wholes, n \in Naturals :
          s = Cat(sign, Cat(whole, Cat(Point, n)))
      BY <2>2 DEF IsSoFar
    <3>1. longer = Cat(sign, Cat(whole, Cat(Point, Cat(n, one))))
      <4>1. /\ sign \in Seq(NumberSymbols) /\ whole \in Seq(NumberSymbols)
            /\ Point \in Seq(NumberSymbols) /\ n \in Seq(NumberSymbols)
        BY PartsAreIn
      <4> QED
        BY <1>2, <4>1, CatOfFour
    <3>2. Cat(n, one) \in Naturals
      BY <1>0, <1>7, NaturalGrows
    <3> QED
      BY <1>7, <3>1, <3>2 DEF IsSoFar
  <2> QED
    BY <1>7, <2>1, <2>2
<1>8. CASE state = "exponent" /\ c \in {"+", "-"} /\ next = "sign"
  <2> PICK m \in Mantissas : s = Cat(m, Exponent)
    BY <1>8 DEF IsSoFar
  <2>1. longer = Cat(m, Cat(Exponent, one))
    <3>1. m \in Seq(NumberSymbols) /\ Exponent \in Seq(NumberSymbols)
      BY PartsAreIn
    <3> QED
      BY <1>2, <3>1, CatAssociates
  <2>2. one \in ExponentSigns
    BY <1>0, <1>8 DEF ExponentSigns
  <2> QED
    BY <1>8, <2>1, <2>2 DEF IsSoFar
<1>9. CASE state \in {"exponent", "sign", "any2"} /\ c \in Digits /\ next = "any2"
  <2>1. PICK m \in Mantissas, sign \in ExponentSigns, n \in Naturals :
          longer = Cat(m, Cat(Exponent, Cat(sign, n)))
    <3>1. CASE state = "exponent"
      <4> PICK m \in Mantissas : s = Cat(m, Exponent)
        BY <3>1 DEF IsSoFar
      <4>1. longer = Cat(m, Cat(Exponent, Cat(<<>>, one)))
        <5>1. m \in Seq(NumberSymbols) /\ Exponent \in Seq(NumberSymbols)
          BY PartsAreIn
        <5>2. Cat(<<>>, one) = one
          BY <1>2, CatOfNumberSymbols
        <5>3. longer = Cat(m, Cat(Exponent, one))
          BY <1>2, <5>1, CatAssociates
        <5> QED
          BY <5>2, <5>3
      <4>2. <<>> \in ExponentSigns /\ one \in Naturals
        BY <1>0, <1>9, NaturalGrows DEF ExponentSigns
      <4> QED
        BY <4>1, <4>2
    <3>2. CASE state = "sign"
      <4> PICK m \in Mantissas, sign \in ExponentSigns : s = Cat(m, Cat(Exponent, sign))
        BY <3>2 DEF IsSoFar
      <4>1. longer = Cat(m, Cat(Exponent, Cat(sign, one)))
        <5>1. /\ m \in Seq(NumberSymbols) /\ Exponent \in Seq(NumberSymbols)
              /\ sign \in Seq(NumberSymbols)
          BY PartsAreIn
        <5> QED
          BY <1>2, <5>1, CatOfThree
      <4>2. one \in Naturals
        BY <1>0, <1>9, NaturalGrows
      <4> QED
        BY <4>1, <4>2
    <3>3. CASE state = "any2"
      <4> PICK m \in Mantissas, sign \in ExponentSigns, n \in Naturals :
            s = Cat(m, Cat(Exponent, Cat(sign, n)))
        BY <3>3 DEF IsSoFar
      <4>1. longer = Cat(m, Cat(Exponent, Cat(sign, Cat(n, one))))
        <5>1. /\ m \in Seq(NumberSymbols) /\ Exponent \in Seq(NumberSymbols)
              /\ sign \in Seq(NumberSymbols) /\ n \in Seq(NumberSymbols)
          BY PartsAreIn
        <5> QED
          BY <1>2, <5>1, CatOfFour
      <4>2. Cat(n, one) \in Naturals
        BY <1>0, <1>9, NaturalGrows
      <4> QED
        BY <4>1, <4>2
    <3> QED
      BY <1>9, <3>1, <3>2, <3>3
  <2> QED
    BY <1>9, <2>1 DEF IsSoFar
<1> QED
  BY <1>0, <1>3, <1>4, <1>5, <1>6, <1>7, <1>8, <1>9, NumberStepSymbol
-----------------------------------------------------------------------------
(* A number that ends.                                                     *)
LEMMA MarkInConcat ==
  ASSUME NEW s \in Seq(NumberSymbols), NEW t \in Seq(NumberSymbols), NEW mark,
         NEW k \in DOMAIN t, t[k] = mark
  PROVE  \E i \in DOMAIN Cat(s, t) : Cat(s, t)[i] = mark
<1>1. Len(s) \in Nat /\ Len(t) \in Nat /\ k \in 1..Len(t)
  BY LenProperties
<1>0. PICK u : u = s \o t
  OBVIOUS
<1>2. /\ u \in Seq(NumberSymbols) /\ Len(u) = Len(s) + Len(t)
      /\ \A i \in 1..(Len(s) + Len(t)) : u[i] = IF i <= Len(s) THEN s[i] ELSE t[i - Len(s)]
  BY <1>0, ConcatProperties
<1>3. DOMAIN u = 1..(Len(s) + Len(t))
  BY <1>2, LenProperties
<1>4. /\ Len(s) + k \in 1..(Len(s) + Len(t)) /\ ~(Len(s) + k <= Len(s))
      /\ Len(s) + k - Len(s) = k
  BY <1>1
<1>5. u[Len(s) + k] = mark
  BY <1>2, <1>4
<1> QED
  BY <1>0, <1>3, <1>4, <1>5 DEF Cat

LEMMA FractionHasPoint ==
  ASSUME NEW sign \in Signs, NEW whole \in Wholes, NEW n \in Naturals
  PROVE  LET s == Cat(sign, Cat(whole, Cat(Point, n)))
         IN  \E i \in DOMAIN s : s[i] = "."
<1>1. /\ sign \in Seq(NumberSymbols) /\ whole \in Seq(NumberSymbols)
      /\ n \in Seq(NumberSymbols)
  BY PartsAreIn
<1>0. PICK f, g : f = Cat(Point, n) /\ g = Cat(whole, f)
  OBVIOUS
<1>2. f \in Seq(NumberSymbols) /\ f # <<>> /\ Head(f) = "."
  BY <1>0, <1>1, HeadAndTail, DigitsAreNoMarks DEF Cat, Point
<1>3. 1 \in DOMAIN f /\ f[1] = "."
  <2>1. Len(f) \in Nat /\ Len(f) # 0 /\ DOMAIN f = 1..Len(f)
    BY <1>2, LenProperties, EmptySeq
  <2> QED
    BY <1>2, <2>1
<1>4. \E i \in DOMAIN Cat(whole, f) : Cat(whole, f)[i] = "."
  BY <1>1, <1>2, <1>3, MarkInConcat
<1>5. g \in Seq(NumberSymbols)
  BY <1>0, <1>1, <1>2, CatOfNumberSymbols
<1>6. \E i \in DOMAIN Cat(sign, g) : Cat(sign, g)[i] = "."
  BY <1>0, <1>1, <1>4, <1>5, MarkInConcat
<1> QED
  BY <1>0, <1>6

LEMMA ExponentHasE ==
  ASSUME NEW m \in Mantissas, NEW sign \in ExponentSigns, NEW n \in Naturals
  PROVE  LET s == Cat(m, Cat(Exponent, Cat(sign, n)))
         IN  \E i \in DOMAIN s : s[i] = "e"
<1>1. /\ m \in Seq(NumberSymbols) /\ sign \in Seq(NumberSymbols)
      /\ n \in Seq(NumberSymbols)
  BY PartsAreIn
<1>0. PICK f, g : f = Cat(sign, n) /\ g = Cat(Exponent, f)
  OBVIOUS
<1>2. f \in Seq(NumberSymbols)
  BY <1>0, <1>1, CatOfNumberSymbols
<1>3. g \in Seq(NumberSymbols) /\ g # <<>> /\ Head(g) = "e"
  BY <1>0, <1>2, HeadAndTail, DigitsAreNoMarks DEF Cat, Exponent
<1>4. 1 \in DOMAIN g /\ g[1] = "e"
  <2>1. Len(g) \in Nat /\ Len(g) # 0 /\ DOMAIN g = 1..Len(g)
    BY <1>3, LenProperties, EmptySeq
  <2> QED
    BY <1>3, <2>1
<1>5. \E i \in DOMAIN Cat(m, g) : Cat(m, g)[i] = "e"
  BY <1>1, <1>3, <1>4, MarkInConcat
<1> QED
  BY <1>0, <1>5

LEMMA WholeHasNoMark ==
  ASSUME NEW sign \in Signs, NEW whole \in Wholes
  PROVE  LET s == Cat(sign, whole)
         IN  s \in Seq(NumberSymbols) /\ \A i \in DOMAIN s : s[i] \notin {".", "e"}
<1>1. /\ sign \in Seq(NumberSymbols) /\ whole \in Seq(NumberSymbols)
      /\ \A i \in 1..Len(whole) : whole[i] \in Digits
  BY PartsAreIn, PartsAreSequences
<1>2. /\ \A i \in 1..Len(sign) : sign[i] # "."
      /\ \A i \in 1..Len(sign) : sign[i] # "e"
  <2>1. CASE sign = <<>>
    BY <2>1
  <2>2. CASE sign = <<"-">>
    BY <2>2
  <2> QED
    BY <2>1, <2>2 DEF Signs
<1>3. /\ \A i \in 1..Len(whole) : whole[i] # "."
      /\ \A i \in 1..Len(whole) : whole[i] # "e"
  BY <1>1, DigitsAreNoMarks
<1>4. \A i \in 1..Len(sign \o whole) : (sign \o whole)[i] # "."
  BY <1>1, <1>2, <1>3, NoMarkInConcat
<1>5. \A i \in 1..Len(sign \o whole) : (sign \o whole)[i] # "e"
  BY <1>1, <1>2, <1>3, NoMarkInConcat
<1>6. sign \o whole \in Seq(NumberSymbols)
  BY <1>1, ConcatProperties
<1>7. DOMAIN (sign \o whole) = 1..Len(sign \o whole)
  BY <1>6, LenProperties
<1> QED
  BY <1>4, <1>5, <1>6, <1>7 DEF Cat

LEMMA NumberEnds ==
  ASSUME scanner \in NumberStates, NumberSoFar, KindSoFar,
         NEW c, NumberStep(scanner, c) = "done"
  PROVE  /\ IsNumber(buffer) /\ NumberToken(kind, buffer) = NumberLeaf(buffer)
         /\ kind \in NumberTypes
<1>1. scanner \in {"zero", "any1", "decimal2", "any2"}
  BY DEF NumberStep, NumberStates
<1>2. /\ kind = IF scanner \notin {"minus", "zero", "any1"} THEN "float"
               ELSE IF Head(buffer) = "-" THEN "integer" ELSE "unsigned"
  BY DEF KindSoFar
<1>3. CASE scanner \in {"zero", "any1"}
  <2>1. PICK sign \in Signs, whole \in Wholes : buffer = Cat(sign, whole)
    BY <1>3 DEF NumberSoFar, IsSoFar
  <2>2. buffer \in Mantissas
    BY <2>1, MantissaForms
  <2>3. IsNumber(buffer)
    BY <2>2, MantissaIsNumber
  <2>4. \A i \in DOMAIN buffer : buffer[i] \notin {".", "e"}
    BY <2>1, WholeHasNoMark
  <2>5. CASE Head(buffer) = "-"
    <3>1. kind = "integer"
      BY <1>2, <1>3, <2>5
    <3> QED
      BY <2>3, <2>4, <2>5, <3>1 DEF NumberToken, NumberLeaf, NumberTypes
  <2>6. CASE Head(buffer) # "-"
    <3>1. kind = "unsigned"
      BY <1>2, <1>3, <2>6
    <3>2. IntegerValue(buffer) = DecimalValue(buffer)
      BY <2>6 DEF IntegerValue
    <3> QED
      BY <2>3, <2>4, <2>6, <3>1, <3>2 DEF NumberToken, NumberLeaf, NumberTypes
  <2> QED
    BY <2>5, <2>6
<1>4. CASE scanner \in {"decimal2", "any2"}
  <2>1. kind = "float"
    BY <1>2, <1>4
  <2>2. IsNumber(buffer) /\ \E i \in DOMAIN buffer : buffer[i] \in {".", "e"}
    <3>1. CASE scanner = "decimal2"
      <4>1. PICK sign \in Signs, whole \in Wholes, n \in Naturals :
              buffer = Cat(sign, Cat(whole, Cat(Point, n)))
        BY <3>1 DEF NumberSoFar, IsSoFar
      <4>2. buffer \in Mantissas
        BY <4>1, MantissaForms
      <4>3. \E i \in DOMAIN buffer : buffer[i] = "."
        BY <4>1, FractionHasPoint
      <4> QED
        BY <4>2, <4>3, MantissaIsNumber
    <3>2. CASE scanner = "any2"
      <4>1. PICK m \in Mantissas, sign \in ExponentSigns, n \in Naturals :
              buffer = Cat(m, Cat(Exponent, Cat(sign, n)))
        BY <3>2 DEF NumberSoFar, IsSoFar
      <4>2. \E i \in DOMAIN buffer : buffer[i] = "e"
        BY <4>1, ExponentHasE
      <4> QED
        BY <4>1, <4>2, ExponentIsNumber
    <3> QED
      BY <1>4, <3>1, <3>2
  <2>3. NumberLeaf(buffer) = [type |-> "float", datum |-> buffer]
    BY <2>2 DEF NumberLeaf
  <2>4. NumberToken(kind, buffer) = [type |-> "float", datum |-> buffer]
    BY <2>1 DEF NumberToken
  <2> QED
    BY <2>1, <2>2, <2>3, <2>4 DEF NumberTypes
<1> QED
  BY <1>1, <1>3, <1>4
-----------------------------------------------------------------------------
(* The lexer's steps.                                                      *)
LEMMA NumberBegins ==
  ASSUME NEW c \in Digits \cup {"-"},
         scanner' = IF c = "-" THEN "minus" ELSE IF DigitValue[c] = 0 THEN "zero" ELSE "any1",
         kind' = IF c = "-" THEN "integer" ELSE "unsigned", buffer' = <<c>>
  PROVE  scanner' \in NumberStates /\ NumberSoFar' /\ KindSoFar'
<1>1. c \in NumberSymbols /\ scanner' \in {"minus", "zero", "any1"}
  BY DigitsAreNoMarks
<1>2. buffer' \in Seq(NumberSymbols) /\ buffer' # <<>> /\ Head(buffer') = c
  BY <1>1
<1>3. KindSoFar'
  BY <1>1, <1>2 DEF KindSoFar
<1>4. CASE c = "-"
  BY <1>1, <1>3, <1>4 DEF NumberSoFar, IsSoFar, NumberStates
<1>5. CASE c # "-"
  <2>1. <<c>> \in Wholes /\ Head(<<c>>) = c
    BY <1>5, NaturalGrows
  <2>a. <<c>> \in Seq(NumberSymbols)
    BY <1>1
  <2>b. Cat(<<>>, <<c>>) = <<c>>
    BY <2>a, CatOfNumberSymbols
  <2>2. <<>> \in Signs /\ Cat(<<>>, <<c>>) = <<c>>
    BY <2>b DEF Signs
  <2>3. scanner' \in {"zero", "any1"} /\ (scanner' = "any1" => DigitValue[c] # 0)
    BY <1>5
  <2>4. \E sign \in Signs, whole \in Wholes :
          buffer' = Cat(sign, whole) /\ (scanner' = "any1" => DigitValue[Head(whole)] # 0)
    BY <2>1, <2>2, <2>3
  <2>5. IsSoFar(scanner', buffer')
    BY <2>3, <2>4 DEF IsSoFar
  <2> QED
    BY <1>1, <1>3, <2>5 DEF NumberSoFar, NumberStates
<1> QED
  BY <1>4, <1>5

LEMMA ScanKeepsNumbers ==
  ASSUME NumberInv, Scan
  PROVE  NumberInv'
<1>1. PICK c \in Coming :
        \/ c = "space" /\ UNCHANGED <<scanner, buffer, kind, token>>
        \/ c \in Marks \cup {End} /\ Return(c, 0)
        \/ c \in Names /\ Return("string", c)
        \/ c \in Words /\ Return("word", c)
        \/ /\ c \in Digits \cup {"-"}
           /\ scanner' = IF c = "-" THEN "minus"
                         ELSE IF DigitValue[c] = 0 THEN "zero" ELSE "any1"
           /\ kind' = IF c = "-" THEN "integer" ELSE "unsigned"
           /\ buffer' = <<c>>
        \/ c \in {"junk", "+", ".", "e"} /\ Return("error", 0)
  BY DEF Scan
<1>2. CASE UNCHANGED <<scanner, buffer, kind, token>>
  BY <1>2 DEF NumberInv, NumberSoFar, IsSoFar, KindSoFar, NumberIsRead
<1>3. CASE \E type \in Marks \cup {End, "string", "word", "error"} :
             \E datum : Return(type, datum)
  <2>1. /\ scanner' = "token"
        /\ token'.type \in Marks \cup {End, "string", "word", "error"}
    BY <1>3 DEF Return
  <2>2. token'.type \notin NumberTypes
    BY <2>1 DEF NumberTypes, Marks, End
  <2> QED
    BY <2>1, <2>2 DEF NumberInv, NumberSoFar, IsSoFar, KindSoFar, NumberIsRead,
                       NumberStates, NumberTypes
<1>4. CASE /\ c \in Digits \cup {"-"}
           /\ scanner' = IF c = "-" THEN "minus"
                         ELSE IF DigitValue[c] = 0 THEN "zero" ELSE "any1"
           /\ kind' = IF c = "-" THEN "integer" ELSE "unsigned"
           /\ buffer' = <<c>>
  <2>1. scanner' \in NumberStates /\ NumberSoFar' /\ KindSoFar'
    BY <1>4, NumberBegins
  <2>2. scanner' # "token"
    BY <2>1 DEF NumberStates
  <2> QED
    BY <2>1, <2>2 DEF NumberInv, NumberIsRead
<1> QED
  BY <1>1, <1>2, <1>3, <1>4

LEMMA ScanNumberKeepsNumbers ==
  ASSUME NumberInv, ScanNumber
  PROVE  NumberInv'
<1>1. scanner \in NumberStates
  BY DEF NumberInv, ScanNumber
<1>2. PICK c \in Coming :
        \/ NumberStep(scanner, c) = "error" /\ Return("error", 0)
        \/ /\ NumberStep(scanner, c) = "done"
           /\ token' = NumberToken(kind, buffer) /\ scanner' = "token"
           /\ UNCHANGED <<buffer, kind>>
        \/ /\ NumberStep(scanner, c) \notin {"error", "done"}
           /\ scanner' = NumberStep(scanner, c)
           /\ kind' = IF NumberStep(scanner, c) \in {"decimal1", "exponent"}
                      THEN "float" ELSE kind
           /\ buffer' = Append(buffer, c)
  BY DEF ScanNumber
<1>3. CASE Return("error", 0)
  BY <1>3 DEF Return, NumberInv, NumberSoFar, IsSoFar, KindSoFar, NumberIsRead,
              NumberStates, NumberTypes
<1>4. CASE /\ NumberStep(scanner, c) = "done"
           /\ token' = NumberToken(kind, buffer) /\ scanner' = "token"
           /\ UNCHANGED <<buffer, kind>>
  <2>1. /\ IsNumber(buffer) /\ NumberToken(kind, buffer) = NumberLeaf(buffer)
        /\ kind \in NumberTypes
    BY <1>1, <1>4, NumberEnds DEF NumberInv
  <2>2. NumberIsRead'
    BY <1>4, <2>1 DEF NumberIsRead
  <2> QED
    BY <1>4, <2>2 DEF NumberInv, NumberSoFar, IsSoFar, KindSoFar, NumberStates
<1>5. CASE /\ NumberStep(scanner, c) \notin {"error", "done"}
           /\ scanner' = NumberStep(scanner, c)
           /\ kind' = IF NumberStep(scanner, c) \in {"decimal1", "exponent"}
                      THEN "float" ELSE kind
           /\ buffer' = Append(buffer, c)
  <2>1. scanner' \in NumberStates
    BY <1>1, <1>5, NumberStepIsState
  <2>2. buffer \in Seq(NumberSymbols) /\ buffer # <<>>
    BY <1>1 DEF NumberInv, KindSoFar
  <2>3. c \in NumberSymbols /\ NumberSoFar'
    BY <1>1, <1>5, <2>1, <2>2, NumberGrows DEF NumberInv, NumberSoFar
  <2>4. /\ buffer' \in Seq(NumberSymbols) /\ buffer' # <<>>
        /\ Head(buffer') = Head(buffer)
    BY <1>5, <2>2, <2>3, AppendProperties, HeadTailAppend
  <2>5. kind' = IF scanner' \notin {"minus", "zero", "any1"} THEN "float"
                ELSE IF Head(buffer') = "-" THEN "integer" ELSE "unsigned"
    <3>1. kind = IF scanner \notin {"minus", "zero", "any1"} THEN "float"
                 ELSE IF Head(buffer) = "-" THEN "integer" ELSE "unsigned"
      BY <1>1 DEF NumberInv, KindSoFar
    <3>2. \/ /\ scanner \in {"minus", "any1"} /\ scanner' \in {"zero", "any1"}
          \/ scanner \notin {"minus", "zero", "any1"} /\ scanner' \notin {"minus", "zero", "any1"}
          \/ scanner' \in {"decimal1", "exponent"}
      BY <1>1, <1>5, <2>1, NumberStepSymbol
    <3> QED
      BY <1>5, <2>4, <3>1, <3>2
  <2>6. KindSoFar'
    BY <2>4, <2>5 DEF KindSoFar
  <2>7. scanner' # "token"
    BY <2>1 DEF NumberStates
  <2> QED
    BY <2>1, <2>3, <2>6, <2>7 DEF NumberInv, NumberIsRead
<1> QED
  BY <1>2, <1>3, <1>4, <1>5

LEMMA NextKeepsNumbers ==
  ASSUME NumberInv, [Next]_vars
  PROVE  NumberInv'
<1>1. CASE Scan
  BY <1>1, ScanKeepsNumbers
<1>2. CASE ScanNumber
  BY <1>2, ScanNumberKeepsNumbers
<1>3. CASE UNCHANGED <<scanner, buffer, kind, token>>
  BY <1>3 DEF NumberInv, NumberSoFar, IsSoFar, KindSoFar, NumberIsRead
<1>4. CASE scanner' = "start"
  BY <1>4 DEF NumberInv, NumberSoFar, IsSoFar, KindSoFar, NumberIsRead,
              NumberStates
<1>5. CASE UNCHANGED vars
  BY <1>3, <1>5 DEF vars, lexerVars
<1>6. CASE LineEnd
  BY <1>3, <1>6 DEF LineEnd
<1>7. CASE ParseArrayStart
  BY <1>3, <1>4, <1>7 DEF ParseArrayStart
<1> QED
  BY <1>1, <1>2, <1>4, <1>5, <1>6, <1>7
     DEF Next, ParseScalar, ParseStart, RefuseValue, ParseObjectStart, ParseFirstColon,
         ParseAfterElement, ParseAfterMember, ParseKey, ParseColon, ParseEndOfInput, Take

LEMMA InitNumbers == Init => NumberInv
BY DEF Init, NumberInv, NumberSoFar, IsSoFar, KindSoFar, NumberIsRead,
       NumberStates

(* What the scanner returns as a number is one by the grammar of JSON, and *)
(* its type and value are those the grammar gives it, for every alphabet   *)
(* of digits, every limit of integers and numbers of any length.           *)
THEOREM NumbersAreRead == Spec => []NumberIsRead
<1>1. NumberInv => NumberIsRead
  BY DEF NumberInv
<1>2. NumberInv /\ [Next]_vars => NumberInv'
  BY NextKeepsNumbers
<1> QED
  BY <1>1, <1>2, InitNumbers, PTL DEF Spec
-----------------------------------------------------------------------------
(* Sets of texts that are closed under the productions, and the beginnings *)
(* of their containers.                                                    *)
Languages ==
  {L \in [values : SUBSET Texts, elements : SUBSET Texts, members : SUBSET Texts] :
     AreJson(L.values, L.elements, L.members)}

ValuesOf(L) == L.values

ElementsOf(L) == L.elements

MembersOf(L) == L.members

(* A container that has been opened, behind white space.                   *)
Opened(mark, b) == Cat(b, <<mark>>)

(* A list, as far as its last comma.                                       *)
ListHeads(lists) == {<<>>} \cup {Cat(x, <<",">>) : x \in lists}

ArrayStarts ==
  {t \in Texts : \E b \in Blanks, w \in Blanks : t = Cat(Opened("[", b), w)}

ObjectStarts ==
  {t \in Texts : \E b \in Blanks, w \in Blanks : t = Cat(Opened("{", b), w)}

ArrayHeads(L) ==
  {t \in Texts : \E b \in Blanks, h \in ListHeads(ElementsOf(L)) :
     t = Cat(Opened("[", b), h)}

ArrayTails(L) ==
  {t \in Texts : \E p \in ArrayHeads(L), v \in ValuesOf(L) : t = Cat(p, v)}

KeyStarts(L) ==
  {t \in Texts : \E b \in Blanks, h \in ListHeads(MembersOf(L)), w \in Blanks :
     t = Cat(Cat(Opened("{", b), h), w)}

MemberNames(L) ==
  {t \in Texts : \E q \in KeyStarts(L), n \in Names, c \in Blanks :
     t = Cat(Cat(q, <<n>>), c)}

MemberHeads(L) == {t \in Texts : \E q \in MemberNames(L) : t = Cat(q, <<":">>)}

ObjectTails(L) ==
  {t \in Texts : \E p \in MemberHeads(L), v \in ValuesOf(L) : t = Cat(p, v)}
-----------------------------------------------------------------------------
LEMMA TextsAreTexts ==
  /\ <<>> \in Texts /\ <<>> \in Blanks
  /\ Blanks \subseteq Texts /\ Seq(NumberSymbols) \subseteq Texts
  /\ \A c \in Symbols : <<c>> \in Texts
  /\ \A c \in Spaces : <<c>> \in Blanks
  /\ Spaces \subseteq Symbols /\ Marks \subseteq Symbols
  /\ Names \subseteq Symbols /\ Words \subseteq Symbols
  /\ NumberSymbols \subseteq Symbols
<1>1. /\ Spaces \subseteq Symbols /\ Marks \subseteq Symbols
      /\ Names \subseteq Symbols /\ Words \subseteq Symbols
      /\ NumberSymbols \subseteq Symbols
  BY DEF Symbols
<1>2. Blanks \subseteq Texts /\ Seq(NumberSymbols) \subseteq Texts
  BY <1>1, SeqMonotonic DEF Blanks, Texts
<1>3. <<>> \in Texts /\ <<>> \in Blanks
  BY DEF Texts, Blanks
<1>4. /\ \A c \in Symbols : <<c>> \in Texts
      /\ \A c \in Spaces : <<c>> \in Blanks
  BY DEF Texts, Blanks
<1> QED
  BY <1>1, <1>2, <1>3, <1>4

LEMMA CatIsText ==
  /\ \A s, t \in Texts : Cat(s, t) \in Texts
  /\ \A s \in Texts : Cat(s, <<>>) = s /\ Cat(<<>>, s) = s
  /\ \A s, t \in Blanks : Cat(s, t) \in Blanks
<1>1. ASSUME NEW s \in Texts, NEW t \in Texts PROVE Cat(s, t) \in Texts
  BY ConcatProperties DEF Cat, Texts
<1>2. ASSUME NEW s \in Texts PROVE Cat(s, <<>>) = s /\ Cat(<<>>, s) = s
  BY ConcatEmptySeq DEF Cat, Texts
<1>3. ASSUME NEW s \in Blanks, NEW t \in Blanks PROVE Cat(s, t) \in Blanks
  BY ConcatProperties DEF Cat, Blanks
<1> QED
  BY <1>1, <1>2, <1>3

LEMMA TextAssociates ==
  ASSUME NEW s \in Texts, NEW t \in Texts, NEW u \in Texts
  PROVE  Cat(Cat(s, t), u) = Cat(s, Cat(t, u))
BY ConcatAssociative DEF Cat, Texts

(* The productions, as they are needed below.                              *)
LEMMA ScalarsBelong ==
  ASSUME NEW L \in Languages
  PROVE  /\ \A n \in Names \cup Words : <<n>> \in ValuesOf(L)
         /\ \A s \in Seq(NumberSymbols) : IsNumber(s) /\ CanBeHeld(s) => s \in ValuesOf(L)
BY DEF Languages, ValuesOf, ElementsOf, MembersOf, AreJson, ScalarsAreIn

LEMMA LanguagesAreTexts ==
  ASSUME NEW L \in Languages
  PROVE  /\ ValuesOf(L) \subseteq Texts /\ ElementsOf(L) \subseteq Texts
         /\ MembersOf(L) \subseteq Texts
BY DEF Languages, ValuesOf, ElementsOf, MembersOf

LEMMA BlanksBelong ==
  ASSUME NEW L \in Languages, NEW b \in Blanks, NEW v \in ValuesOf(L)
  PROVE  Cat(b, v) \in ValuesOf(L) /\ Cat(v, b) \in ValuesOf(L)
BY DEF Languages, ValuesOf, ElementsOf, MembersOf, AreJson, BlanksAreIn, Cat

LEMMA ContainersBelong ==
  ASSUME NEW L \in Languages
  PROVE  /\ \A x \in Blanks \cup ElementsOf(L) :
              Cat(Cat(<<"[">>, x), <<"]">>) \in ValuesOf(L)
         /\ \A x \in Blanks \cup MembersOf(L) :
              Cat(Cat(<<"{">>, x), <<"}">>) \in ValuesOf(L)
BY DEF Languages, ValuesOf, ElementsOf, MembersOf, AreJson, ContainersAreIn, Cat

LEMMA ElementsBelong ==
  ASSUME NEW L \in Languages, NEW h \in ListHeads(ElementsOf(L)), NEW v \in ValuesOf(L)
  PROVE  Cat(h, v) \in ElementsOf(L)
<1>1. /\ ValuesOf(L) \subseteq ElementsOf(L)
      /\ \A e \in ElementsOf(L) : Cat(Cat(e, <<",">>), v) \in ElementsOf(L)
  BY DEF Languages, ValuesOf, ElementsOf, MembersOf, AreJson, ListsAreIn, Cat
<1>2. v \in Texts
  BY LanguagesAreTexts
<1>3. CASE h = <<>>
  BY <1>1, <1>2, <1>3, CatIsText
<1>4. CASE \E e \in ElementsOf(L) : h = Cat(e, <<",">>)
  BY <1>1, <1>4
<1> QED
  BY <1>3, <1>4 DEF ListHeads

MemberText(b, n, c, v) == Cat(Cat(Cat(Cat(b, <<n>>), c), <<":">>), v)

LEMMA MembersBelong ==
  ASSUME NEW L \in Languages, NEW h \in ListHeads(MembersOf(L)),
         NEW b \in Blanks, NEW n \in Names, NEW c \in Blanks, NEW v \in ValuesOf(L)
  PROVE  Cat(h, MemberText(b, n, c, v)) \in MembersOf(L)
<1> PICK m : m = MemberText(b, n, c, v)
  OBVIOUS
<1>1. m \in MembersOf(L)
  BY DEF Languages, ValuesOf, ElementsOf, MembersOf, AreJson, ListsAreIn, Member, MemberText, Cat
<1>2. ASSUME NEW x \in MembersOf(L) PROVE Cat(Cat(x, <<",">>), m) \in MembersOf(L)
  BY DEF Languages, ValuesOf, ElementsOf, MembersOf, AreJson, ListsAreIn, Member, MemberText, Cat
<1>3. m \in Texts
  BY <1>1, LanguagesAreTexts
<1>4. CASE h = <<>>
  BY <1>1, <1>3, <1>4, CatIsText
<1>5. CASE \E x \in MembersOf(L) : h = Cat(x, <<",">>)
  BY <1>2, <1>5
<1> QED
  BY <1>4, <1>5 DEF ListHeads
-----------------------------------------------------------------------------
LEMMA ListHeadsAreTexts ==
  ASSUME NEW L \in Languages
  PROVE  ListHeads(ElementsOf(L)) \subseteq Texts /\ ListHeads(MembersOf(L)) \subseteq Texts
<1>1. <<",">> \in Texts
  BY TextsAreTexts DEF Marks
<1>2. ElementsOf(L) \subseteq Texts /\ MembersOf(L) \subseteq Texts
  BY LanguagesAreTexts
<1>3. /\ \A x \in ElementsOf(L) : Cat(x, <<",">>) \in Texts
      /\ \A x \in MembersOf(L) : Cat(x, <<",">>) \in Texts
  BY <1>1, <1>2, CatIsText
<1> QED
  BY <1>3, TextsAreTexts DEF ListHeads

LEMMA OpenedIsText ==
  ASSUME NEW mark \in Marks, NEW b \in Blanks
  PROVE  Opened(mark, b) \in Texts
<1>1. <<mark>> \in Texts /\ b \in Texts
  BY TextsAreTexts
<1> QED
  BY <1>1, CatIsText DEF Opened

LEMMA BeginningsAreTexts ==
  ASSUME NEW L \in Languages
  PROVE  /\ ArrayStarts \subseteq Texts /\ ObjectStarts \subseteq Texts
         /\ ArrayHeads(L) \subseteq Texts /\ ArrayTails(L) \subseteq Texts
         /\ KeyStarts(L) \subseteq Texts /\ MemberNames(L) \subseteq Texts
         /\ MemberHeads(L) \subseteq Texts /\ ObjectTails(L) \subseteq Texts
BY DEF ArrayStarts, ObjectStarts, ArrayHeads, ArrayTails, KeyStarts, MemberNames,
       MemberHeads, ObjectTails

(* A container is closed, behind white space.                              *)
LEMMA ClosedBehindBlanks ==
  ASSUME NEW L \in Languages, NEW b \in Blanks, NEW x \in Texts,
         NEW mark \in Marks, NEW closing \in Marks,
         Cat(Cat(<<mark>>, x), <<closing>>) \in ValuesOf(L)
  PROVE  Cat(Cat(Opened(mark, b), x), <<closing>>) \in ValuesOf(L)
<1>1. b \in Texts /\ <<mark>> \in Texts /\ <<closing>> \in Texts
  BY TextsAreTexts
<1>2. Cat(Opened(mark, b), x) = Cat(b, Cat(<<mark>>, x))
  BY <1>1, TextAssociates DEF Opened
<1>3. Cat(<<mark>>, x) \in Texts
  BY <1>1, CatIsText
<1>4. Cat(Cat(b, Cat(<<mark>>, x)), <<closing>>) = Cat(b, Cat(Cat(<<mark>>, x), <<closing>>))
  BY <1>1, <1>3, TextAssociates
<1>5. Cat(b, Cat(Cat(<<mark>>, x), <<closing>>)) \in ValuesOf(L)
  BY BlanksBelong
<1> QED
  BY <1>2, <1>4, <1>5

(* What is between the brackets is a list.                                 *)
LEMMA ArrayTailIsList ==
  ASSUME NEW L \in Languages, NEW q \in ArrayTails(L)
  PROVE  \E b \in Blanks, e \in ElementsOf(L) : q = Cat(Opened("[", b), e)
<1>1. PICK b \in Blanks, h \in ListHeads(ElementsOf(L)), v \in ValuesOf(L) :
        q = Cat(Cat(Opened("[", b), h), v)
  BY DEF ArrayTails, ArrayHeads
<1>2. Opened("[", b) \in Texts
  BY OpenedIsText DEF Marks
<1>3. h \in Texts /\ v \in Texts
  BY ListHeadsAreTexts, LanguagesAreTexts
<1>4. q = Cat(Opened("[", b), Cat(h, v))
  BY <1>1, <1>2, <1>3, TextAssociates
<1>5. Cat(h, v) \in ElementsOf(L)
  BY ElementsBelong
<1> QED
  BY <1>4, <1>5

LEMMA MemberIsAppended ==
  ASSUME NEW x \in Texts, NEW b \in Texts, NEW n \in Names, NEW c \in Texts, NEW v \in Texts
  PROVE  /\ Cat(Cat(Cat(Cat(Cat(x, b), <<n>>), c), <<":">>), v) = Cat(x, MemberText(b, n, c, v))
         /\ MemberText(b, n, c, v) \in Texts
<1>1. <<n>> \in Texts /\ <<":">> \in Texts
  BY TextsAreTexts DEF Marks
<1>2. PICK b1 : b1 = Cat(b, <<n>>)
  OBVIOUS
<1>3. b1 \in Texts /\ Cat(Cat(x, b), <<n>>) = Cat(x, b1)
  BY <1>1, <1>2, CatIsText, TextAssociates
<1>4. PICK b2 : b2 = Cat(b1, c)
  OBVIOUS
<1>5. b2 \in Texts /\ Cat(Cat(x, b1), c) = Cat(x, b2)
  BY <1>3, <1>4, CatIsText, TextAssociates
<1>6. PICK b3 : b3 = Cat(b2, <<":">>)
  OBVIOUS
<1>7. b3 \in Texts /\ Cat(Cat(x, b2), <<":">>) = Cat(x, b3)
  BY <1>1, <1>5, <1>6, CatIsText, TextAssociates
<1>8. Cat(b3, v) \in Texts /\ Cat(Cat(x, b3), v) = Cat(x, Cat(b3, v))
  BY <1>7, CatIsText, TextAssociates
<1>9. MemberText(b, n, c, v) = Cat(b3, v)
  BY <1>2, <1>4, <1>6 DEF MemberText
<1> QED
  BY <1>3, <1>5, <1>7, <1>8, <1>9

LEMMA ObjectTailIsList ==
  ASSUME NEW L \in Languages, NEW q \in ObjectTails(L)
  PROVE  \E b \in Blanks, m \in MembersOf(L) : q = Cat(Opened("{", b), m)
<1>1. PICK p \in MemberHeads(L), v \in ValuesOf(L) : q = Cat(p, v)
  BY DEF ObjectTails
<1>2. PICK r \in MemberNames(L) : p = Cat(r, <<":">>)
  BY DEF MemberHeads
<1>3. PICK k \in KeyStarts(L), n \in Names, c \in Blanks : r = Cat(Cat(k, <<n>>), c)
  BY DEF MemberNames
<1>4. PICK b \in Blanks, h \in ListHeads(MembersOf(L)), w \in Blanks :
        k = Cat(Cat(Opened("{", b), h), w)
  BY DEF KeyStarts
<1>5. /\ Opened("{", b) \in Texts /\ h \in Texts /\ w \in Texts /\ c \in Texts /\ v \in Texts
  BY OpenedIsText, ListHeadsAreTexts, LanguagesAreTexts, TextsAreTexts DEF Marks
<1>6. PICK m : m = MemberText(w, n, c, v)
  OBVIOUS
<1>7. PICK x : x = Cat(Opened("{", b), h)
  OBVIOUS
<1>8. x \in Texts
  BY <1>5, <1>7, CatIsText
<1>9. q = Cat(x, m) /\ m \in Texts
  <2>1. q = Cat(Cat(Cat(Cat(Cat(x, w), <<n>>), c), <<":">>), v)
    BY <1>1, <1>2, <1>3, <1>4, <1>7
  <2>2. w \in Texts /\ c \in Texts /\ v \in Texts
    BY <1>5
  <2>3. /\ Cat(Cat(Cat(Cat(Cat(x, w), <<n>>), c), <<":">>), v) = Cat(x, MemberText(w, n, c, v))
        /\ MemberText(w, n, c, v) \in Texts
    BY <1>8, <2>2, MemberIsAppended, Zenon
  <2> QED
    BY <1>6, <2>1, <2>3
<1>a. m \in Texts /\ Opened("{", b) \in Texts /\ h \in Texts
  BY <1>5, <1>9
<1>b. Cat(Cat(Opened("{", b), h), m) = Cat(Opened("{", b), Cat(h, m))
  BY <1>a, TextAssociates
<1>10. Cat(x, m) = Cat(Opened("{", b), Cat(h, m))
  BY <1>7, <1>b
<1>11. Cat(h, m) \in MembersOf(L)
  BY <1>6, MembersBelong
<1> QED
  BY <1>9, <1>10, <1>11
-----------------------------------------------------------------------------
(* How a container goes on.                                                *)
LEMMA ArraysEnd ==
  ASSUME NEW L \in Languages, NEW q \in ArrayStarts \cup ArrayTails(L)
  PROVE  Cat(q, <<"]">>) \in ValuesOf(L)
<1>1. PICK b \in Blanks, x \in Blanks \cup ElementsOf(L) : q = Cat(Opened("[", b), x)
  BY ArrayTailIsList DEF ArrayStarts
<1>2. x \in Texts
  BY LanguagesAreTexts, TextsAreTexts
<1>3. Cat(Cat(<<"[">>, x), <<"]">>) \in ValuesOf(L)
  BY ContainersBelong
<1>4. "[" \in Marks /\ "]" \in Marks
  BY DEF Marks
<1> QED
  BY <1>1, <1>2, <1>3, <1>4, ClosedBehindBlanks

LEMMA ObjectsEnd ==
  ASSUME NEW L \in Languages, NEW q \in ObjectStarts \cup ObjectTails(L)
  PROVE  Cat(q, <<"}">>) \in ValuesOf(L)
<1>1. PICK b \in Blanks, x \in Blanks \cup MembersOf(L) : q = Cat(Opened("{", b), x)
  BY ObjectTailIsList DEF ObjectStarts
<1>2. x \in Texts
  BY LanguagesAreTexts, TextsAreTexts
<1>3. Cat(Cat(<<"{">>, x), <<"}">>) \in ValuesOf(L)
  BY ContainersBelong
<1>4. "{" \in Marks /\ "}" \in Marks
  BY DEF Marks
<1> QED
  BY <1>1, <1>2, <1>3, <1>4, ClosedBehindBlanks

LEMMA ArraysGoOn ==
  ASSUME NEW L \in Languages, NEW q \in ArrayTails(L)
  PROVE  Cat(q, <<",">>) \in ArrayHeads(L)
<1>1. PICK b \in Blanks, e \in ElementsOf(L) : q = Cat(Opened("[", b), e)
  BY ArrayTailIsList
<1>2. Opened("[", b) \in Texts /\ e \in Texts /\ <<",">> \in Texts
  BY OpenedIsText, LanguagesAreTexts, TextsAreTexts DEF Marks
<1>3. Cat(q, <<",">>) = Cat(Opened("[", b), Cat(e, <<",">>))
  BY <1>1, <1>2, TextAssociates
<1>4. Cat(e, <<",">>) \in ListHeads(ElementsOf(L))
  BY DEF ListHeads
<1>5. q \in Texts /\ Cat(q, <<",">>) \in Texts
  BY <1>2, BeginningsAreTexts, CatIsText
<1> QED
  BY <1>3, <1>4, <1>5 DEF ArrayHeads

LEMMA ObjectsGoOn ==
  ASSUME NEW L \in Languages, NEW q \in ObjectTails(L)
  PROVE  Cat(q, <<",">>) \in KeyStarts(L)
<1>1. PICK b \in Blanks, m \in MembersOf(L) : q = Cat(Opened("{", b), m)
  BY ObjectTailIsList
<1>2. Opened("{", b) \in Texts /\ m \in Texts /\ <<",">> \in Texts
  BY OpenedIsText, LanguagesAreTexts, TextsAreTexts DEF Marks
<1>3. Cat(q, <<",">>) = Cat(Opened("{", b), Cat(m, <<",">>))
  BY <1>1, <1>2, TextAssociates
<1>4. Cat(m, <<",">>) \in ListHeads(MembersOf(L))
  BY DEF ListHeads
<1>5. PICK h \in ListHeads(MembersOf(L)) : h = Cat(m, <<",">>)
  BY <1>4
<1>6. Cat(Opened("{", b), h) \in Texts
  BY <1>2, ListHeadsAreTexts, CatIsText
<1>7. Cat(q, <<",">>) = Cat(Cat(Opened("{", b), h), <<>>)
  BY <1>3, <1>5, <1>6, CatIsText
<1>8. <<>> \in Blanks
  BY TextsAreTexts
<1>9. q \in Texts /\ Cat(q, <<",">>) \in Texts
  BY <1>2, BeginningsAreTexts, CatIsText
<1> QED
  BY <1>5, <1>7, <1>8, <1>9 DEF KeyStarts

LEMMA NamesFollow ==
  ASSUME NEW L \in Languages, NEW q \in ObjectStarts \cup KeyStarts(L), NEW n \in Names
  PROVE  Cat(q, <<n>>) \in MemberNames(L)
<1>1. q \in KeyStarts(L)
  <2>1. ASSUME NEW b \in Blanks, NEW w \in Blanks, q = Cat(Opened("{", b), w)
        PROVE  q \in KeyStarts(L)
    <3>1. Opened("{", b) \in Texts
      BY OpenedIsText DEF Marks
    <3>2. q = Cat(Cat(Opened("{", b), <<>>), w)
      BY <2>1, <3>1, CatIsText
    <3>3. <<>> \in ListHeads(MembersOf(L))
      BY DEF ListHeads
    <3>4. q \in Texts
      BY BeginningsAreTexts
    <3> QED
      BY <3>2, <3>3, <3>4 DEF KeyStarts
  <2> QED
    BY <2>1 DEF ObjectStarts
<1>2. q \in Texts /\ <<n>> \in Texts
  BY <1>1, BeginningsAreTexts, TextsAreTexts
<1>3. Cat(q, <<n>>) \in Texts
  BY <1>2, CatIsText
<1>4. Cat(q, <<n>>) = Cat(Cat(q, <<n>>), <<>>)
  BY <1>3, CatIsText
<1>5. <<>> \in Blanks
  BY TextsAreTexts
<1> QED
  BY <1>1, <1>3, <1>4, <1>5 DEF MemberNames
-----------------------------------------------------------------------------
(* What may stand behind the open containers, where the parser is at a     *)
(* place.                                                                  *)
Tails(L, place) ==
  CASE place = "value" -> Blanks
    [] place = "array_start" -> ArrayStarts
    [] place = "object_start" -> ObjectStarts
    [] place \in {"first_colon", "colon"} -> MemberNames(L)
    [] place = "key" -> KeyStarts(L)
    [] place = "after_element" -> ArrayTails(L)
    [] place = "after_member" -> ObjectTails(L)
    [] OTHER -> ValuesOf(L)

HeadsIn(L, container) ==
  IF container = "array" THEN ArrayHeads(L) ELSE MemberHeads(L)

(* What may stand before the place: n containers, each as far as the next. *)
Before(L, stack, n) ==
  {x \in Texts : \E F \in [Nat -> Texts] :
     /\ F[0] = <<>> /\ F[n] = x
     /\ \A i \in 1..n : \E p \in HeadsIn(L, stack[i]) : F[i] = Cat(F[i - 1], p)}

(* The containers that the beginning of a place is not part of.            *)
DepthAt(place, stack) ==
  IF place \in {"after_element", "after_member", "key", "colon"}
  THEN Len(stack) - 1 ELSE Len(stack)

(* The text up to a place.                                                 *)
Said(L, t, place, stack) ==
  \E x \in Before(L, stack, DepthAt(place, stack)), q \in Tails(L, place) : t = Cat(x, q)
-----------------------------------------------------------------------------
LEMMA HeadsAreTexts ==
  ASSUME NEW L \in Languages, NEW container, NEW p \in HeadsIn(L, container)
  PROVE  p \in Texts
BY BeginningsAreTexts DEF HeadsIn

LEMMA TailsAreTexts ==
  ASSUME NEW L \in Languages, NEW place, NEW q \in Tails(L, place)
  PROVE  q \in Texts
<1>1. Blanks \subseteq Texts /\ ValuesOf(L) \subseteq Texts
  BY TextsAreTexts, LanguagesAreTexts
<1> QED
  BY <1>1, BeginningsAreTexts DEF Tails

LEMMA NothingBefore ==
  ASSUME NEW L, NEW stack
  PROVE  Before(L, stack, 0) = {<<>>}
<1>1. ASSUME NEW x \in Before(L, stack, 0) PROVE x = <<>>
  BY DEF Before
<1> PICK F : F = [i \in Nat |-> <<>>]
  OBVIOUS
<1>2. F \in [Nat -> Texts] /\ F[0] = <<>> /\ <<>> \in Texts
  BY TextsAreTexts
<1>3. <<>> \in Before(L, stack, 0)
  BY <1>2 DEF Before
<1> QED
  BY <1>1, <1>3

(* One more container.                                                     *)
LEMMA MoreBefore ==
  ASSUME NEW L \in Languages, NEW old, NEW new, NEW n \in Nat, NEW x \in Before(L, old, n),
         \A i \in 1..n : new[i] = old[i],
         NEW m \in Nat, m = n + 1, NEW p \in HeadsIn(L, new[m])
  PROVE  Cat(x, p) \in Before(L, new, m)
<1> PICK F \in [Nat -> Texts] :
      /\ F[0] = <<>> /\ F[n] = x
      /\ \A i \in 1..n : \E h \in HeadsIn(L, old[i]) : F[i] = Cat(F[i - 1], h)
  BY DEF Before
<1>1. x \in Texts /\ p \in Texts
  BY HeadsAreTexts DEF Before
<1>2. Cat(x, p) \in Texts
  BY <1>1, CatIsText
<1> PICK y \in Texts : y = Cat(x, p)
  BY <1>2
<1> PICK G : G = [F EXCEPT ![m] = y]
  OBVIOUS
<1>3. G \in [Nat -> Texts] /\ G[m] = y /\ \A i \in Nat : i # m => G[i] = F[i]
  OBVIOUS
<1>4. G[0] = <<>>
  BY <1>3
<1>5. ASSUME NEW i \in 1..m PROVE \E h \in HeadsIn(L, new[i]) : G[i] = Cat(G[i - 1], h)
  <2>1. CASE i = m
    <3>1. G[i] = Cat(x, p) /\ G[i - 1] = x
      BY <1>3, <2>1
    <3> QED
      BY <2>1, <3>1
  <2>2. CASE i # m
    <3>1. i \in 1..n /\ i \in Nat /\ i - 1 \in Nat /\ i - 1 # m
      BY <2>2
    <3>2. G[i] = F[i] /\ G[i - 1] = F[i - 1] /\ new[i] = old[i]
      BY <1>3, <2>2, <3>1
    <3>3. \E h \in HeadsIn(L, old[i]) : F[i] = Cat(F[i - 1], h)
      BY <3>1
    <3> QED
      BY <3>2, <3>3
  <2> QED
    BY <2>1, <2>2
<1>6. y \in Before(L, new, m)
  BY <1>3, <1>4, <1>5 DEF Before
<1> QED
  BY <1>6

(* One less.                                                               *)
Splits(L, stack, n, m, y) ==
  \E x \in Before(L, stack, n), p \in HeadsIn(L, stack[m]) : y = Cat(x, p)

LEMMA LessBefore ==
  ASSUME NEW L \in Languages, NEW stack, NEW n \in Nat, NEW m \in Nat, m = n + 1,
         NEW y \in Before(L, stack, m)
  PROVE  Splits(L, stack, n, m, y)
<1> PICK F \in [Nat -> Texts] :
      /\ F[0] = <<>> /\ F[m] = y
      /\ \A i \in 1..m : \E h \in HeadsIn(L, stack[i]) : F[i] = Cat(F[i - 1], h)
  BY DEF Before
<1>1. \A i \in 1..n : \E h \in HeadsIn(L, stack[i]) : F[i] = Cat(F[i - 1], h)
  <2> TAKE i \in 1..n
  <2>1. i \in 1..m
    OBVIOUS
  <2> QED
    BY <2>1
<1>2. F[n] \in Texts
  OBVIOUS
<1>3. F[n] \in Before(L, stack, n)
  BY <1>1, <1>2 DEF Before
<1>4. \E h \in HeadsIn(L, stack[m]) : F[m] = Cat(F[m - 1], h)
  OBVIOUS
<1>5. m - 1 = n
  OBVIOUS
<1> QED
  BY <1>3, <1>4, <1>5 DEF Splits

LEMMA SameBefore ==
  ASSUME NEW L \in Languages, NEW old, NEW new, NEW n \in Nat,
         NEW x \in Before(L, old, n), \A i \in 1..n : new[i] = old[i]
  PROVE  x \in Before(L, new, n)
<1> PICK F \in [Nat -> Texts] :
      /\ F[0] = <<>> /\ F[n] = x
      /\ \A i \in 1..n : \E h \in HeadsIn(L, old[i]) : F[i] = Cat(F[i - 1], h)
  BY DEF Before
<1>1. \A i \in 1..n : \E h \in HeadsIn(L, new[i]) : F[i] = Cat(F[i - 1], h)
  OBVIOUS
<1>2. x \in Texts
  BY DEF Before
<1> QED
  BY <1>1, <1>2 DEF Before
-----------------------------------------------------------------------------
(* What a token adds to what has been said.                                *)
LEMMA BlanksFollow ==
  ASSUME NEW L \in Languages, NEW place, NEW q \in Tails(L, place), NEW s \in Spaces
  PROVE  Cat(q, <<s>>) \in Tails(L, place)
<1>1. /\ <<s>> \in Texts /\ <<s>> \in Blanks /\ q \in Texts /\ Cat(q, <<s>>) \in Texts
  BY TextsAreTexts, TailsAreTexts, CatIsText
<1>2. ASSUME NEW x \in Texts, NEW w \in Blanks
      PROVE  Cat(Cat(x, w), <<s>>) = Cat(x, Cat(w, <<s>>)) /\ Cat(w, <<s>>) \in Blanks
  BY <1>1, TextsAreTexts, TextAssociates, CatIsText
<1>3. ASSUME NEW x \in Texts, NEW v \in ValuesOf(L)
      PROVE  Cat(Cat(x, v), <<s>>) = Cat(x, Cat(v, <<s>>)) /\ Cat(v, <<s>>) \in ValuesOf(L)
  BY <1>1, LanguagesAreTexts, TextAssociates, BlanksBelong
<1>4. CASE place = "value"
  BY <1>1, <1>4, CatIsText DEF Tails
<1>5. CASE place = "array_start"
  <2>1. PICK b \in Blanks, w \in Blanks : q = Cat(Opened("[", b), w)
    BY <1>5 DEF Tails, ArrayStarts
  <2>2. Opened("[", b) \in Texts
    BY OpenedIsText DEF Marks
  <2>3. /\ Cat(q, <<s>>) = Cat(Opened("[", b), Cat(w, <<s>>)) /\ Cat(w, <<s>>) \in Blanks
    BY <1>2, <2>1, <2>2
  <2> QED
    BY <1>1, <1>5, <2>3 DEF Tails, ArrayStarts
<1>6. CASE place = "object_start"
  <2>1. PICK b \in Blanks, w \in Blanks : q = Cat(Opened("{", b), w)
    BY <1>6 DEF Tails, ObjectStarts
  <2>2. Opened("{", b) \in Texts
    BY OpenedIsText DEF Marks
  <2>3. /\ Cat(q, <<s>>) = Cat(Opened("{", b), Cat(w, <<s>>)) /\ Cat(w, <<s>>) \in Blanks
    BY <1>2, <2>1, <2>2
  <2> QED
    BY <1>1, <1>6, <2>3 DEF Tails, ObjectStarts
<1>7. CASE place \in {"first_colon", "colon"}
  <2>0. q \in MemberNames(L)
    BY <1>7 DEF Tails
  <2>1. PICK k \in KeyStarts(L), n \in Names, c \in Blanks : q = Cat(Cat(k, <<n>>), c)
    BY <2>0 DEF MemberNames
  <2>2. k \in Texts /\ <<n>> \in Texts
    BY BeginningsAreTexts, TextsAreTexts
  <2>3. Cat(k, <<n>>) \in Texts
    BY <2>2, CatIsText
  <2>4. Cat(q, <<s>>) = Cat(Cat(k, <<n>>), Cat(c, <<s>>)) /\ Cat(c, <<s>>) \in Blanks
    BY <1>2, <2>1, <2>3
  <2>5. Cat(q, <<s>>) \in MemberNames(L)
    BY <1>1, <2>4 DEF MemberNames
  <2> QED
    BY <1>7, <2>5 DEF Tails
<1>8. CASE place = "key"
  <2>1. PICK b \in Blanks, h \in ListHeads(MembersOf(L)), w \in Blanks :
          q = Cat(Cat(Opened("{", b), h), w)
    BY <1>8 DEF Tails, KeyStarts
  <2>2. Opened("{", b) \in Texts /\ h \in Texts
    BY OpenedIsText, ListHeadsAreTexts DEF Marks
  <2>3. Cat(Opened("{", b), h) \in Texts
    BY <2>2, CatIsText
  <2>4. /\ Cat(q, <<s>>) = Cat(Cat(Opened("{", b), h), Cat(w, <<s>>))
        /\ Cat(w, <<s>>) \in Blanks
    BY <1>2, <2>1, <2>3
  <2> QED
    BY <1>1, <1>8, <2>4 DEF Tails, KeyStarts
<1>9. CASE place = "after_element"
  <2>1. PICK p \in ArrayHeads(L), v \in ValuesOf(L) : q = Cat(p, v)
    BY <1>9 DEF Tails, ArrayTails
  <2>2. p \in Texts
    BY BeginningsAreTexts
  <2>3. Cat(q, <<s>>) = Cat(p, Cat(v, <<s>>)) /\ Cat(v, <<s>>) \in ValuesOf(L)
    BY <1>3, <2>1, <2>2
  <2> QED
    BY <1>1, <1>9, <2>3 DEF Tails, ArrayTails
<1>10. CASE place = "after_member"
  <2>1. PICK p \in MemberHeads(L), v \in ValuesOf(L) : q = Cat(p, v)
    BY <1>10 DEF Tails, ObjectTails
  <2>2. p \in Texts
    BY BeginningsAreTexts
  <2>3. Cat(q, <<s>>) = Cat(p, Cat(v, <<s>>)) /\ Cat(v, <<s>>) \in ValuesOf(L)
    BY <1>3, <2>1, <2>2
  <2> QED
    BY <1>1, <1>10, <2>3 DEF Tails, ObjectTails
<1>11. CASE place \notin {"value", "array_start", "object_start", "first_colon", "colon",
                          "key", "after_element", "after_member"}
  <2>1. Tails(L, place) = ValuesOf(L)
    BY <1>11 DEF Tails
  <2> QED
    BY <1>1, <2>1, BlanksBelong
<1> QED
  BY <1>4, <1>5, <1>6, <1>7, <1>8, <1>9, <1>10, <1>11

(* A text that goes on in its last part.                                   *)
LEMMA SaidGoesOn ==
  ASSUME NEW L \in Languages, NEW stack, NEW n, NEW x \in Before(L, stack, n),
         NEW q \in Texts, NEW s \in Texts
  PROVE  Cat(Cat(x, q), s) = Cat(x, Cat(q, s)) /\ x \in Texts
<1>1. x \in Texts
  BY DEF Before
<1> QED
  BY <1>1, TextAssociates

LEMMA SaidIsText ==
  ASSUME NEW L \in Languages, NEW t, NEW place, NEW stack, Said(L, t, place, stack)
  PROVE  t \in Texts
<1>1. PICK x \in Before(L, stack, DepthAt(place, stack)), q \in Tails(L, place) : t = Cat(x, q)
  BY DEF Said
<1>2. x \in Texts /\ q \in Texts
  BY TailsAreTexts DEF Before
<1> QED
  BY <1>1, <1>2, CatIsText

LEMMA BlankIsSaid ==
  ASSUME NEW L \in Languages, NEW t, NEW place, NEW stack, Said(L, t, place, stack),
         NEW s \in Spaces
  PROVE  Said(L, Cat(t, <<s>>), place, stack)
<1>1. PICK x \in Before(L, stack, DepthAt(place, stack)), q \in Tails(L, place) : t = Cat(x, q)
  BY DEF Said
<1>2. q \in Texts /\ <<s>> \in Texts
  BY TailsAreTexts, TextsAreTexts
<1>3. Cat(t, <<s>>) = Cat(x, Cat(q, <<s>>))
  BY <1>1, <1>2, SaidGoesOn
<1>4. Cat(q, <<s>>) \in Tails(L, place)
  BY BlanksFollow
<1> QED
  BY <1>3, <1>4 DEF Said

(* A stack of the parser.                                                  *)
IsStack(stack) == stack \in Seq(Containers)

LEMMA StackHasLast ==
  ASSUME NEW stack, IsStack(stack)
  PROVE  /\ Len(stack) \in Nat
         /\ stack # <<>> =>
              /\ Last(stack) \in Containers /\ Last(stack) = stack[Len(stack)]
              /\ \E n \in Nat : Len(stack) = n + 1
<1>1. Len(stack) \in Nat
  BY LenProperties DEF IsStack
<1>2. ASSUME stack # <<>>
      PROVE  Last(stack) \in Containers /\ Len(stack) # 0
  BY <1>2, FrontOfSeq DEF IsStack
<1>3. Last(stack) = stack[Len(stack)]
  BY DEF Last
<1>4. ASSUME stack # <<>> PROVE \E n \in Nat : Len(stack) = n + 1
  <2>1. Len(stack) - 1 \in Nat /\ Len(stack) = (Len(stack) - 1) + 1
    BY <1>1, <1>2, <1>4
  <2> QED
    BY <2>1
<1> QED
  BY <1>1, <1>2, <1>3, <1>4

(* After a value.                                                          *)
LEMMA ValueIsSaid ==
  ASSUME NEW L \in Languages, NEW stack, IsStack(stack),
         NEW x \in Before(L, stack, Len(stack)), NEW v \in ValuesOf(L)
  PROVE  Said(L, Cat(x, v), AfterValue(stack), stack)
<1>1. CASE stack = <<>>
  <2>1. AfterValue(stack) = "end" /\ DepthAt("end", stack) = Len(stack)
    BY <1>1 DEF AfterValue, DepthAt
  <2>2. v \in Tails(L, "end")
    BY DEF Tails
  <2> QED
    BY <2>1, <2>2 DEF Said
<1>2. CASE stack # <<>>
  <2>2. PICK n \in Nat : Len(stack) = n + 1
    BY <1>2, StackHasLast
  <2>3. PICK y \in Before(L, stack, n), p \in HeadsIn(L, Last(stack)) : x = Cat(y, p)
    <3>1. PICK m \in Nat : m = Len(stack)
      BY <2>2
    <3>2. m = n + 1
      BY <2>2, <3>1
    <3>3. x \in Before(L, stack, m)
      BY <3>1
    <3>4. stack[m] = Last(stack)
      BY <3>1 DEF Last
    <3>5. Splits(L, stack, n, m, x)
      BY <3>2, <3>3, LessBefore
    <3> QED
      BY <3>4, <3>5 DEF Splits
  <2>4. p \in Texts /\ v \in Texts
    BY HeadsAreTexts, LanguagesAreTexts
  <2>5. Cat(x, v) = Cat(y, Cat(p, v)) /\ Cat(p, v) \in Texts
    BY <2>3, <2>4, SaidGoesOn, CatIsText
  <2>6. CASE Last(stack) = "array"
    <3>1. AfterValue(stack) = "after_element" /\ DepthAt("after_element", stack) = n
      BY <1>2, <2>2, <2>6 DEF AfterValue, DepthAt
    <3>2. Cat(p, v) \in Tails(L, "after_element")
      BY <2>5, <2>6 DEF Tails, ArrayTails, HeadsIn
    <3> QED
      BY <2>5, <3>1, <3>2 DEF Said
  <2>7. CASE Last(stack) # "array"
    <3>1. AfterValue(stack) = "after_member" /\ DepthAt("after_member", stack) = n
      BY <1>2, <2>2, <2>7 DEF AfterValue, DepthAt
    <3>2. Cat(p, v) \in Tails(L, "after_member")
      BY <2>5, <2>7 DEF Tails, ObjectTails, HeadsIn
    <3> QED
      BY <2>5, <3>1, <3>2 DEF Said
  <2> QED
    BY <2>6, <2>7
<1> QED
  BY <1>1, <1>2

LEMMA ScalarIsSaid ==
  ASSUME NEW L \in Languages, NEW t, NEW stack, IsStack(stack),
         Said(L, t, "value", stack), NEW v \in ValuesOf(L)
  PROVE  Said(L, Cat(t, v), AfterValue(stack), stack)
<1>1. PICK x \in Before(L, stack, Len(stack)), q \in Blanks : t = Cat(x, q)
  BY DEF Said, DepthAt, Tails
<1>2. q \in Texts /\ v \in Texts
  BY TextsAreTexts, LanguagesAreTexts
<1>3. Cat(t, v) = Cat(x, Cat(q, v))
  BY <1>1, <1>2, SaidGoesOn
<1>4. Cat(q, v) \in ValuesOf(L)
  BY BlanksBelong
<1> QED
  BY <1>3, <1>4, ValueIsSaid

LEMMA StartIsSaid ==
  ASSUME NEW L \in Languages, NEW t, NEW stack, Said(L, t, "value", stack)
  PROVE  /\ Said(L, Cat(t, <<"[">>), "array_start", stack)
         /\ Said(L, Cat(t, <<"{">>), "object_start", stack)
<1>1. PICK x \in Before(L, stack, Len(stack)), q \in Blanks : t = Cat(x, q)
  BY DEF Said, DepthAt, Tails
<1>2. q \in Texts /\ <<"[">> \in Texts /\ <<"{">> \in Texts /\ <<>> \in Blanks
  BY TextsAreTexts DEF Marks
<1>b. x \in Texts
  BY DEF Before
<1>a. \A s \in Texts : Cat(Cat(x, q), s) = Cat(x, Cat(q, s))
  BY <1>2, <1>b, TextAssociates
<1>3. Cat(t, <<"[">>) = Cat(x, Opened("[", q)) /\ Cat(t, <<"{">>) = Cat(x, Opened("{", q))
  BY <1>1, <1>2, <1>a DEF Opened
<1>4. Opened("[", q) \in Texts /\ Opened("{", q) \in Texts
  BY OpenedIsText DEF Marks
<1>5. /\ Opened("[", q) = Cat(Opened("[", q), <<>>)
      /\ Opened("{", q) = Cat(Opened("{", q), <<>>)
  BY <1>4, CatIsText
<1>6. Opened("[", q) \in ArrayStarts /\ Opened("{", q) \in ObjectStarts
  BY <1>2, <1>4, <1>5 DEF ArrayStarts, ObjectStarts
<1> QED
  BY <1>3, <1>6 DEF Said, DepthAt, Tails

LEMMA EmptyIsSaid ==
  ASSUME NEW L \in Languages, NEW t, NEW stack, IsStack(stack)
  PROVE  /\ Said(L, t, "array_start", stack) =>
              Said(L, Cat(t, <<"]">>), AfterValue(stack), stack)
         /\ Said(L, t, "object_start", stack) =>
              Said(L, Cat(t, <<"}">>), AfterValue(stack), stack)
<1>0. <<"]">> \in Texts /\ <<"}">> \in Texts
  BY TextsAreTexts DEF Marks
<1>a. \A n : Before(L, stack, n) \subseteq Texts
  BY DEF Before
<1>1. ASSUME Said(L, t, "array_start", stack)
      PROVE  Said(L, Cat(t, <<"]">>), AfterValue(stack), stack)
  <2>1. PICK x \in Before(L, stack, Len(stack)), q \in ArrayStarts : t = Cat(x, q)
    BY <1>1 DEF Said, DepthAt, Tails
  <2>2. x \in Texts /\ q \in Texts
    BY <1>a, BeginningsAreTexts
  <2>3. Cat(t, <<"]">>) = Cat(x, Cat(q, <<"]">>))
    BY <1>0, <2>1, <2>2, TextAssociates
  <2>4. Cat(q, <<"]">>) \in ValuesOf(L)
    BY ArraysEnd
  <2> QED
    BY <2>3, <2>4, ValueIsSaid
<1>2. ASSUME Said(L, t, "object_start", stack)
      PROVE  Said(L, Cat(t, <<"}">>), AfterValue(stack), stack)
  <2>1. PICK x \in Before(L, stack, Len(stack)), q \in ObjectStarts : t = Cat(x, q)
    BY <1>2 DEF Said, DepthAt, Tails
  <2>2. x \in Texts /\ q \in Texts
    BY <1>a, BeginningsAreTexts
  <2>3. Cat(t, <<"}">>) = Cat(x, Cat(q, <<"}">>))
    BY <1>0, <2>1, <2>2, TextAssociates
  <2>4. Cat(q, <<"}">>) \in ValuesOf(L)
    BY ObjectsEnd
  <2> QED
    BY <2>3, <2>4, ValueIsSaid
<1> QED
  BY <1>1, <1>2

(* A container that is put on the stack.                                   *)
LEMMA PushedIsBehind ==
  ASSUME NEW stack, IsStack(stack), NEW container \in Containers
  PROVE  \E n \in Nat :
           /\ Len(stack) = n /\ Len(Append(stack, container)) = n + 1
           /\ \A i \in 1..n : Append(stack, container)[i] = stack[i]
           /\ Append(stack, container)[n + 1] = container
<1>1. Len(stack) \in Nat
  BY StackHasLast
<1>2. /\ Len(Append(stack, container)) = Len(stack) + 1
      /\ \A i \in 1..Len(stack) : Append(stack, container)[i] = stack[i]
      /\ Append(stack, container)[Len(stack) + 1] = container
  BY AppendProperties DEF IsStack
<1> QED
  BY <1>1, <1>2

LEMMA ContainerIsEntered ==
  ASSUME NEW L \in Languages, NEW stack, IsStack(stack), NEW container \in Containers,
         NEW x \in Before(L, stack, Len(stack)), NEW p \in HeadsIn(L, container),
         NEW w \in Blanks
  PROVE  Said(L, Cat(Cat(x, p), w), "value", Append(stack, container))
<1>1. PICK n \in Nat :
        /\ Len(stack) = n /\ Len(Append(stack, container)) = n + 1
        /\ \A i \in 1..n : Append(stack, container)[i] = stack[i]
        /\ Append(stack, container)[n + 1] = container
  BY PushedIsBehind
<1>2. PICK new : new = Append(stack, container)
  OBVIOUS
<1>3. PICK m \in Nat : m = n + 1
  OBVIOUS
<1>4. p \in HeadsIn(L, new[m])
  BY <1>1, <1>2, <1>3
<1>5. \A i \in 1..n : new[i] = stack[i]
  BY <1>1, <1>2
<1>6. x \in Before(L, stack, n)
  BY <1>1
<1>7. Cat(x, p) \in Before(L, new, m)
  BY <1>3, <1>4, <1>5, <1>6, MoreBefore
<1>8. DepthAt("value", new) = m
  BY <1>1, <1>2, <1>3 DEF DepthAt
<1>9. w \in Tails(L, "value")
  BY DEF Tails
<1>10. Said(L, Cat(Cat(x, p), w), "value", new)
  BY <1>7, <1>8, <1>9 DEF Said
<1> QED
  BY <1>2, <1>10

LEMMA ArrayIsEntered ==
  ASSUME NEW L \in Languages, NEW t, NEW stack, IsStack(stack),
         Said(L, t, "array_start", stack)
  PROVE  Said(L, t, "value", Append(stack, "array"))
<1>1. PICK x \in Before(L, stack, Len(stack)), q \in ArrayStarts : t = Cat(x, q)
  BY DEF Said, DepthAt, Tails
<1>2. PICK b \in Blanks, w \in Blanks : q = Cat(Opened("[", b), w)
  BY DEF ArrayStarts
<1>3. x \in Texts /\ Opened("[", b) \in Texts /\ w \in Texts
  BY OpenedIsText, TextsAreTexts DEF Before, Marks
<1>4. t = Cat(Cat(x, Opened("[", b)), w)
  <2>1. Cat(Cat(x, Opened("[", b)), w) = Cat(x, Cat(Opened("[", b), w))
    BY <1>3, TextAssociates
  <2> QED
    BY <1>1, <1>2, <2>1
<1>5. Opened("[", b) \in HeadsIn(L, "array")
  <2>1. Opened("[", b) = Cat(Opened("[", b), <<>>)
    BY <1>3, CatIsText
  <2>2. <<>> \in ListHeads(ElementsOf(L))
    BY DEF ListHeads
  <2> QED
    BY <1>3, <2>1, <2>2 DEF HeadsIn, ArrayHeads
<1>6. "array" \in Containers
  BY DEF Containers
<1> QED
  BY <1>4, <1>5, <1>6, ContainerIsEntered

LEMMA NameIsSaid ==
  ASSUME NEW L \in Languages, NEW t, NEW stack, NEW n \in Names
  PROVE  /\ Said(L, t, "object_start", stack) => Said(L, Cat(t, <<n>>), "first_colon", stack)
         /\ Said(L, t, "key", stack) => Said(L, Cat(t, <<n>>), "colon", stack)
<1>0. <<n>> \in Texts
  BY TextsAreTexts
<1>1. ASSUME NEW i, NEW x \in Before(L, stack, i), NEW q \in ObjectStarts \cup KeyStarts(L)
      PROVE  /\ Cat(Cat(x, q), <<n>>) = Cat(x, Cat(q, <<n>>))
             /\ Cat(q, <<n>>) \in MemberNames(L)
  <2>1. q \in Texts
    BY BeginningsAreTexts
  <2>2. x \in Texts
    BY DEF Before
  <2> QED
    BY <1>0, <2>1, <2>2, TextAssociates, NamesFollow
<1>2. ASSUME Said(L, t, "object_start", stack)
      PROVE  Said(L, Cat(t, <<n>>), "first_colon", stack)
  <2>1. PICK x \in Before(L, stack, Len(stack)), q \in ObjectStarts : t = Cat(x, q)
    BY <1>2 DEF Said, DepthAt, Tails
  <2>2. Cat(t, <<n>>) = Cat(x, Cat(q, <<n>>)) /\ Cat(q, <<n>>) \in MemberNames(L)
    BY <1>1, <2>1
  <2> QED
    BY <2>2 DEF Said, DepthAt, Tails
<1>3. ASSUME Said(L, t, "key", stack)
      PROVE  Said(L, Cat(t, <<n>>), "colon", stack)
  <2>1. PICK x \in Before(L, stack, Len(stack) - 1), q \in KeyStarts(L) : t = Cat(x, q)
    BY <1>3 DEF Said, DepthAt, Tails
  <2>2. Cat(t, <<n>>) = Cat(x, Cat(q, <<n>>)) /\ Cat(q, <<n>>) \in MemberNames(L)
    BY <1>1, <2>1
  <2> QED
    BY <2>2 DEF Said, DepthAt, Tails
<1> QED
  BY <1>2, <1>3

LEMMA FirstColonIsSaid ==
  ASSUME NEW L \in Languages, NEW t, NEW stack, IsStack(stack),
         Said(L, t, "first_colon", stack)
  PROVE  Said(L, Cat(t, <<":">>), "value", Append(stack, "object"))
<1>1. PICK x \in Before(L, stack, Len(stack)), q \in MemberNames(L) : t = Cat(x, q)
  BY DEF Said, DepthAt, Tails
<1>2. x \in Texts /\ q \in Texts /\ <<":">> \in Texts /\ <<>> \in Blanks
  BY BeginningsAreTexts, TextsAreTexts DEF Before, Marks
<1>3. Cat(q, <<":">>) \in Texts
  BY <1>2, CatIsText
<1>4. Cat(q, <<":">>) \in HeadsIn(L, "object")
  BY <1>3 DEF HeadsIn, MemberHeads
<1>5. Cat(t, <<":">>) = Cat(x, Cat(q, <<":">>))
  BY <1>1, <1>2, TextAssociates
<1>6. Cat(x, Cat(q, <<":">>)) \in Texts
  BY <1>2, <1>3, CatIsText
<1>7. Cat(t, <<":">>) = Cat(Cat(x, Cat(q, <<":">>)), <<>>)
  BY <1>5, <1>6, CatIsText
<1>8. "object" \in Containers
  BY DEF Containers
<1>9. Said(L, Cat(Cat(x, Cat(q, <<":">>)), <<>>), "value", Append(stack, "object"))
  BY <1>2, <1>4, <1>8, ContainerIsEntered
<1> QED
  BY <1>7, <1>9
-----------------------------------------------------------------------------
(* Inside a container: it goes on, or it ends.                             *)
LEMMA LastGoesOn ==
  ASSUME NEW L \in Languages, NEW stack, IsStack(stack), stack # <<>>,
         NEW x \in Before(L, stack, Len(stack) - 1), NEW p \in HeadsIn(L, Last(stack))
  PROVE  Said(L, Cat(x, p), "value", stack)
<1>1. PICK n \in Nat : Len(stack) = n + 1
  BY StackHasLast
<1>2. PICK m \in Nat : m = n + 1
  OBVIOUS
<1>3. p \in HeadsIn(L, stack[m])
  BY <1>1, <1>2 DEF Last
<1>4. \A i \in 1..n : stack[i] = stack[i]
  OBVIOUS
<1>5. x \in Before(L, stack, n)
  <2>1. Len(stack) - 1 = n
    BY <1>1
  <2> QED
    BY <2>1
<1>6. Cat(x, p) \in Before(L, stack, m)
  BY <1>2, <1>3, <1>4, <1>5, MoreBefore
<1>7. Cat(x, p) \in Texts /\ <<>> \in Blanks
  BY <1>6, TextsAreTexts DEF Before
<1>8. Cat(x, p) = Cat(Cat(x, p), <<>>)
  BY <1>7, CatIsText
<1>9. DepthAt("value", stack) = m
  BY <1>1, <1>2 DEF DepthAt
<1>10. <<>> \in Tails(L, "value")
  BY <1>7 DEF Tails
<1> QED
  BY <1>6, <1>8, <1>9, <1>10 DEF Said

LEMMA SeparatorIsSaid ==
  ASSUME NEW L \in Languages, NEW t, NEW stack, IsStack(stack), stack # <<>>
  PROVE  /\ Said(L, t, "after_element", stack) /\ Last(stack) = "array" =>
              Said(L, Cat(t, <<",">>), "value", stack)
         /\ Said(L, t, "after_member", stack) => Said(L, Cat(t, <<",">>), "key", stack)
         /\ Said(L, t, "colon", stack) /\ Last(stack) = "object" =>
              Said(L, Cat(t, <<":">>), "value", stack)
<1>0. <<",">> \in Texts /\ <<":">> \in Texts
  BY TextsAreTexts DEF Marks
<1>a. \A n : Before(L, stack, n) \subseteq Texts
  BY DEF Before
<1>1. ASSUME Said(L, t, "after_element", stack), Last(stack) = "array"
      PROVE  Said(L, Cat(t, <<",">>), "value", stack)
  <2>1. PICK x \in Before(L, stack, Len(stack) - 1), q \in ArrayTails(L) : t = Cat(x, q)
    BY <1>1 DEF Said, DepthAt, Tails
  <2>2. x \in Texts /\ q \in Texts
    BY <1>a, BeginningsAreTexts
  <2>3. Cat(t, <<",">>) = Cat(x, Cat(q, <<",">>))
    BY <1>0, <2>1, <2>2, TextAssociates
  <2>4. Cat(q, <<",">>) \in HeadsIn(L, Last(stack))
    BY <1>1, ArraysGoOn DEF HeadsIn
  <2> QED
    BY <2>3, <2>4, LastGoesOn
<1>2. ASSUME Said(L, t, "after_member", stack)
      PROVE  Said(L, Cat(t, <<",">>), "key", stack)
  <2>1. PICK x \in Before(L, stack, Len(stack) - 1), q \in ObjectTails(L) : t = Cat(x, q)
    BY <1>2 DEF Said, DepthAt, Tails
  <2>2. x \in Texts /\ q \in Texts
    BY <1>a, BeginningsAreTexts
  <2>3. Cat(t, <<",">>) = Cat(x, Cat(q, <<",">>))
    BY <1>0, <2>1, <2>2, TextAssociates
  <2>4. Cat(q, <<",">>) \in KeyStarts(L)
    BY ObjectsGoOn
  <2> QED
    BY <2>3, <2>4 DEF Said, DepthAt, Tails
<1>3. ASSUME Said(L, t, "colon", stack), Last(stack) = "object"
      PROVE  Said(L, Cat(t, <<":">>), "value", stack)
  <2>1. PICK x \in Before(L, stack, Len(stack) - 1), q \in MemberNames(L) : t = Cat(x, q)
    BY <1>3 DEF Said, DepthAt, Tails
  <2>2. x \in Texts /\ q \in Texts
    BY <1>a, BeginningsAreTexts
  <2>3. Cat(t, <<":">>) = Cat(x, Cat(q, <<":">>))
    BY <1>0, <2>1, <2>2, TextAssociates
  <2>4. Cat(q, <<":">>) \in Texts
    BY <1>0, <2>2, CatIsText
  <2>5. Cat(q, <<":">>) \in HeadsIn(L, Last(stack))
    BY <1>3, <2>4 DEF HeadsIn, MemberHeads
  <2> QED
    BY <2>3, <2>5, LastGoesOn
<1> QED
  BY <1>1, <1>2, <1>3

LEMMA EndIsSaid ==
  ASSUME NEW L \in Languages, NEW t, NEW stack, IsStack(stack), stack # <<>>
  PROVE  /\ IsStack(Front(stack))
         /\ Said(L, t, "after_element", stack) =>
              Said(L, Cat(t, <<"]">>), AfterValue(Front(stack)), Front(stack))
         /\ Said(L, t, "after_member", stack) =>
              Said(L, Cat(t, <<"}">>), AfterValue(Front(stack)), Front(stack))
<1>0. <<"]">> \in Texts /\ <<"}">> \in Texts
  BY TextsAreTexts DEF Marks
<1>a. \A n : Before(L, stack, n) \subseteq Texts
  BY DEF Before
<1>1. PICK n \in Nat : n = Len(stack) - 1
  BY StackHasLast
<1>b. /\ Front(stack) \in Seq(Containers) /\ Len(Front(stack)) = Len(stack) - 1
      /\ \A i \in 1..(Len(stack) - 1) : Front(stack)[i] = stack[i]
  BY FrontOfSeq DEF IsStack
<1>2. PICK front : front = Front(stack)
  OBVIOUS
<1>3. IsStack(front)
  BY <1>b, <1>2 DEF IsStack
<1>4. Len(front) = n
  BY <1>1, <1>b, <1>2
<1>5. \A i \in 1..n : front[i] = stack[i]
  BY <1>1, <1>b, <1>2
<1>6. ASSUME NEW x \in Before(L, stack, Len(stack) - 1), NEW v \in ValuesOf(L)
      PROVE  Said(L, Cat(x, v), AfterValue(front), front)
  <2>1. x \in Before(L, stack, n)
    BY <1>1
  <2>2. x \in Before(L, front, n)
    BY <1>5, <2>1, SameBefore
  <2>3. x \in Before(L, front, Len(front))
    BY <1>4, <2>2
  <2> QED
    BY <1>3, <2>3, ValueIsSaid
<1>7. ASSUME Said(L, t, "after_element", stack)
      PROVE  Said(L, Cat(t, <<"]">>), AfterValue(front), front)
  <2>1. PICK x \in Before(L, stack, Len(stack) - 1), q \in ArrayTails(L) : t = Cat(x, q)
    BY <1>7 DEF Said, DepthAt, Tails
  <2>2. x \in Texts /\ q \in Texts
    BY <1>a, BeginningsAreTexts
  <2>3. Cat(t, <<"]">>) = Cat(x, Cat(q, <<"]">>))
    BY <1>0, <2>1, <2>2, TextAssociates
  <2>4. Cat(q, <<"]">>) \in ValuesOf(L)
    BY ArraysEnd
  <2> QED
    BY <1>6, <2>3, <2>4
<1>8. ASSUME Said(L, t, "after_member", stack)
      PROVE  Said(L, Cat(t, <<"}">>), AfterValue(front), front)
  <2>1. PICK x \in Before(L, stack, Len(stack) - 1), q \in ObjectTails(L) : t = Cat(x, q)
    BY <1>8 DEF Said, DepthAt, Tails
  <2>2. x \in Texts /\ q \in Texts
    BY <1>a, BeginningsAreTexts
  <2>3. Cat(t, <<"}">>) = Cat(x, Cat(q, <<"}">>))
    BY <1>0, <2>1, <2>2, TextAssociates
  <2>4. Cat(q, <<"}">>) \in ValuesOf(L)
    BY ObjectsEnd
  <2> QED
    BY <1>6, <2>3, <2>4
<1> QED
  BY <1>2, <1>3, <1>7, <1>8

LEMMA EndIsValue ==
  ASSUME NEW L \in Languages, NEW t, NEW stack, stack = <<>>, Said(L, t, "end", stack)
  PROVE  t \in ValuesOf(L)
<1>1. DepthAt("end", stack) = 0
  BY DEF DepthAt
<1>2. PICK x \in Before(L, stack, 0), q \in ValuesOf(L) : t = Cat(x, q)
  BY <1>1 DEF Said, Tails
<1>3. x = <<>>
  BY NothingBefore
<1>4. q \in Texts
  BY LanguagesAreTexts
<1> QED
  BY <1>2, <1>3, <1>4, CatIsText
-----------------------------------------------------------------------------
(* The lexer's part: the text without the symbol that is to be read again, *)
(* and what of it is no token yet, or a token that is not taken yet.       *)
Consumed == IF ungot /\ current # End THEN Front(text) ELSE text

ReadingTypes ==
  /\ bound \in Bounds /\ text \in Texts
  /\ current \in Symbols \cup {End} /\ ungot \in BOOLEAN
  /\ ungot /\ current # End => text # <<>> /\ Last(text) = current
  /\ ungot => scanner \notin NumberStates
  /\ scanner = "token" /\ token.type = End => ~ungot

TokenIsHeld(L, s) ==
  /\ token.type \in Marks => s = <<token.type>>
  /\ token.type = End => s = <<>>
  /\ token.type = "string" => s = <<token.datum>>
  /\ token.type \in Scalars /\ (token.type = "float" => IsFinite(token.datum)) =>
       s \in ValuesOf(L)

NumberIsHeld(L, s) ==
  \A rest \in Seq(NumberSymbols) :
    IsNumber(Cat(buffer, rest)) /\ CanBeHeld(Cat(buffer, rest)) => Cat(s, rest) \in ValuesOf(L)

Holds(L, s) ==
  /\ scanner = "start" => s = <<>>
  /\ scanner = "token" => TokenIsHeld(L, s)
  /\ scanner \in NumberStates => NumberIsHeld(L, s)

Reading(L) ==
  \E t, s \in Texts : Consumed = Cat(t, s) /\ Holds(L, s) /\ Said(L, t, at, states)

(* The languages that the text has to be in.                               *)
Allowed(L) == HasLineEnd(text) => LinesAreJoined(ValuesOf(L))

SyntaxInv ==
  \A L \in Languages :
    Allowed(L) =>
      /\ verdict = "reading" => Reading(L)
      /\ verdict = "accepted" => text \in ValuesOf(L)
-----------------------------------------------------------------------------
LEMMA AppendedText ==
  ASSUME NEW t \in Texts, NEW c \in Symbols
  PROVE  /\ Append(t, c) = Cat(t, <<c>>) /\ Append(t, c) \in Texts
         /\ Append(t, c) # <<>> /\ Front(Append(t, c)) = t /\ Last(Append(t, c)) = c
         /\ HasLineEnd(t) => HasLineEnd(Append(t, c))
<1>1. Append(t, c) = t \o <<c>>
  BY AppendIsConcat DEF Texts
<1>2. /\ Append(t, c) \in Seq(Symbols) /\ Append(t, c) # <<>>
      /\ Len(Append(t, c)) = Len(t) + 1 /\ Len(t) \in Nat
      /\ Front(Append(t, c)) = t /\ Last(Append(t, c)) = c
      /\ \A i \in 1..Len(t) : Append(t, c)[i] = t[i]
  BY FrontOfAppend DEF Texts
<1>3. DOMAIN t = 1..Len(t) /\ DOMAIN Append(t, c) = 1..Len(Append(t, c))
  BY <1>2, LenProperties DEF Texts
<1>4. HasLineEnd(t) => HasLineEnd(Append(t, c))
  BY <1>2, <1>3 DEF HasLineEnd
<1> QED
  BY <1>1, <1>2, <1>4 DEF Texts, Cat

LEMMA TextEnds ==
  ASSUME NEW t \in Texts, t # <<>>
  PROVE  Front(t) \in Texts /\ t = Cat(Front(t), <<Last(t)>>)
<1>1. /\ Front(t) \in Seq(Symbols) /\ Len(Front(t)) = Len(t) - 1
      /\ \A i \in 1..(Len(t) - 1) : Front(t)[i] = t[i]
      /\ Last(t) \in Symbols /\ Len(t) \in Nat \ {0}
  BY FrontOfSeq DEF Texts
<1> PICK f : f = Front(t)
  OBVIOUS
<1> PICK e : e = Last(t)
  OBVIOUS
<1>2. f \in Seq(Symbols) /\ e \in Symbols
  BY <1>1
<1>3. /\ Append(f, e) \in Seq(Symbols) /\ Len(Append(f, e)) = Len(f) + 1
      /\ \A i \in 1..Len(f) : Append(f, e)[i] = f[i]
      /\ Append(f, e)[Len(f) + 1] = e
  BY <1>2, AppendProperties
<1>4. e = t[Len(t)]
  BY DEF Last
<1>5. Len(Append(f, e)) = Len(t) /\ t \in Seq(Symbols)
  BY <1>1, <1>3 DEF Texts
<1>6. \A i \in 1..Len(t) : Append(f, e)[i] = t[i]
  BY <1>1, <1>3, <1>4
<1>7. Append(f, e) = t
  BY <1>3, <1>5, <1>6, SeqEqual
<1>8. Append(f, e) = Cat(f, <<e>>)
  BY <1>2, AppendedText DEF Texts
<1> QED
  BY <1>2, <1>7, <1>8 DEF Texts

LEMMA ConsumedIsText ==
  ASSUME ReadingTypes
  PROVE  Consumed \in Texts
BY TextEnds DEF ReadingTypes, Consumed

LEMMA ComingIsSymbol ==
  ASSUME ReadingTypes, NEW c \in Coming
  PROVE  /\ c \in Symbols \cup {End}
         /\ ungot => c = current
<1>1. bound.alphabet \subseteq Symbols
  BY TextAssumption DEF ReadingTypes
<1> QED
  BY <1>1 DEF Coming, ReadingTypes

(* A symbol that is read is consumed.                                      *)
LEMMA GetConsumes ==
  ASSUME ReadingTypes, NEW c \in Coming, Get(c), ungot' = FALSE
  PROVE  /\ text' \in Texts /\ current' \in Symbols \cup {End} /\ bound' \in Bounds
         /\ c # End => Consumed' = Cat(Consumed, <<c>>)
         /\ c = End => Consumed' = Consumed
         /\ HasLineEnd(text) => HasLineEnd(text')
<1>1. c \in Symbols \cup {End} /\ (ungot => c = current)
  BY ComingIsSymbol
<1>2. /\ text' = IF ungot \/ c = End THEN text ELSE Append(text, c)
      /\ current' = c /\ bound' = bound
  BY DEF Get
<1>3. text \in Texts /\ bound \in Bounds
  BY DEF ReadingTypes
<1>4. Consumed' = text'
  BY DEF Consumed
<1>5. CASE ungot \/ c = End
  <2>1. text' = text
    BY <1>2, <1>5
  <2>2. c # End => Consumed = Front(text) /\ text # <<>> /\ Last(text) = c
    BY <1>1, <1>5 DEF ReadingTypes, Consumed
  <2>3. c = End => Consumed = text
    BY <1>1, <1>5 DEF Consumed
  <2>4. c # End => text = Cat(Consumed, <<c>>)
    BY <1>3, <2>2, TextEnds
  <2> QED
    BY <1>1, <1>2, <1>3, <1>4, <2>1, <2>3, <2>4
<1>6. CASE ~ungot /\ c # End
  <2>1. c \in Symbols /\ text' = Append(text, c)
    BY <1>1, <1>2, <1>6
  <2>2. Consumed = text
    BY <1>6 DEF Consumed
  <2>3. /\ Append(text, c) = Cat(text, <<c>>) /\ Append(text, c) \in Texts
        /\ HasLineEnd(text) => HasLineEnd(Append(text, c))
    BY <1>3, <2>1, AppendedText
  <2> QED
    BY <1>1, <1>2, <1>3, <1>4, <1>6, <2>1, <2>2, <2>3
<1> QED
  BY <1>5, <1>6

(* A symbol that is put back is not.                                       *)
LEMMA PutBackIsNotConsumed ==
  ASSUME ReadingTypes, ~ungot, NEW c \in Coming, Get(c), ungot' = TRUE
  PROVE  /\ text' \in Texts /\ current' \in Symbols \cup {End} /\ bound' \in Bounds
         /\ current' # End => text' # <<>> /\ Last(text') = current'
         /\ Consumed' = Consumed
         /\ HasLineEnd(text) => HasLineEnd(text')
<1>1. c \in Symbols \cup {End}
  BY ComingIsSymbol
<1>2. /\ text' = IF c = End THEN text ELSE Append(text, c)
      /\ current' = c /\ bound' = bound
  BY DEF Get
<1>3. text \in Texts /\ bound \in Bounds
  BY DEF ReadingTypes
<1>4. Consumed = text
  BY DEF Consumed
<1>5. CASE c = End
  <2>1. text' = text /\ Consumed' = text
    BY <1>2, <1>5 DEF Consumed
  <2> QED
    BY <1>1, <1>2, <1>3, <1>4, <1>5, <2>1
<1>6. CASE c # End
  <2>1. c \in Symbols /\ text' = Append(text, c)
    BY <1>1, <1>2, <1>6
  <2>2. /\ Append(text, c) \in Texts /\ Append(text, c) # <<>>
        /\ Front(Append(text, c)) = text /\ Last(Append(text, c)) = c
        /\ HasLineEnd(text) => HasLineEnd(Append(text, c))
    BY <1>3, <2>1, AppendedText
  <2>3. Consumed' = Front(text')
    BY <1>2, <1>6 DEF Consumed
  <2> QED
    BY <1>1, <1>2, <1>3, <1>4, <2>1, <2>2, <2>3
<1> QED
  BY <1>5, <1>6
-----------------------------------------------------------------------------
LEMMA InitReadingTypes == Init => ReadingTypes
BY TextsAreTexts DEF Init, ReadingTypes, NumberStates, Symbols, Spaces

LEMMA ScanKeepsReading ==
  ASSUME ReadingTypes, Scan
  PROVE  ReadingTypes'
<1>1. PICK c \in Coming : Get(c)
  BY DEF Scan
<1>2. ungot' = FALSE
  BY DEF Scan
<1> QED
  BY <1>1, <1>2, GetConsumes DEF ReadingTypes

LEMMA NumberTokenIsNumber ==
  ASSUME NEW type \in NumberTypes, NEW digits
  PROVE  NumberToken(type, digits).type \in NumberTypes
BY DEF NumberToken, NumberTypes

LEMMA ScanNumberKeepsReading ==
  ASSUME ReadingTypes, ScanNumber,
         scanner \in NumberStates, kind \in {"unsigned", "integer", "float"}
  PROVE  ReadingTypes'
<1>1. PICK c \in Coming :
        /\ Get(c)
        /\ \/ Return("error", 0) /\ UNCHANGED ungot
           \/ /\ ungot' = TRUE /\ scanner' = "token"
              /\ token' = NumberToken(kind, buffer)
           \/ /\ NumberStep(scanner, c) \notin {"error", "done"}
              /\ scanner' = NumberStep(scanner, c) /\ UNCHANGED ungot
  BY DEF ScanNumber
<1>2. ungot = FALSE
  BY DEF ReadingTypes
<1>3. CASE Return("error", 0) /\ UNCHANGED ungot
  <2>1. ungot' = FALSE /\ token'.type = "error"
    BY <1>2, <1>3 DEF Return
  <2>2. text' \in Texts /\ current' \in Symbols \cup {End} /\ bound' \in Bounds
    BY <1>1, <2>1, GetConsumes
  <2> QED
    BY <2>1, <2>2 DEF ReadingTypes
<1>4. CASE /\ ungot' = TRUE /\ scanner' = "token"
           /\ token' = NumberToken(kind, buffer)
  <2>1. token'.type \in NumberTypes
    BY <1>4, NumberTokenIsNumber DEF NumberTypes
  <2>2. /\ text' \in Texts /\ current' \in Symbols \cup {End} /\ bound' \in Bounds
        /\ current' # End => text' # <<>> /\ Last(text') = current'
    BY <1>1, <1>2, <1>4, PutBackIsNotConsumed
  <2> QED
    BY <1>4, <2>1, <2>2 DEF ReadingTypes, NumberTypes, NumberStates, End
<1>5. CASE /\ NumberStep(scanner, c) \notin {"error", "done"}
           /\ scanner' = NumberStep(scanner, c) /\ UNCHANGED ungot
  <2>1. scanner' \in NumberStates
    BY <1>5, NumberStepIsState
  <2>2. text' \in Texts /\ current' \in Symbols \cup {End} /\ bound' \in Bounds
    BY <1>1, <1>2, <1>5, GetConsumes
  <2> QED
    BY <1>2, <1>5, <2>1, <2>2 DEF ReadingTypes, NumberStates
<1> QED
  BY <1>1, <1>3, <1>4, <1>5

(* c_ifile takes a line end away before the lexer sees it.                 *)
LEMMA LineEndIsConsumed ==
  ASSUME ReadingTypes, LineEnd
  PROVE  /\ ReadingTypes'
         /\ Consumed' = Cat(Consumed, <<"newline">>)
         /\ HasLineEnd(text')
<1>1. /\ text' = Append(text, "newline") /\ ~ungot
      /\ UNCHANGED <<bound, current, ungot, scanner, token>>
  BY DEF LineEnd
<1>2. "newline" \in Symbols /\ text \in Texts
  BY TextsAreTexts DEF Spaces, ReadingTypes
<1>3. /\ Append(text, "newline") = Cat(text, <<"newline">>)
      /\ Append(text, "newline") \in Texts
  BY <1>2, AppendedText
<1>4. Consumed = text /\ Consumed' = text'
  BY <1>1 DEF Consumed
<1>5. HasLineEnd(text')
  <2>1. Len(text) \in Nat
    BY <1>2, LenProperties DEF Texts
  <2>2. /\ Append(text, "newline")[Len(text) + 1] = "newline"
        /\ Len(Append(text, "newline")) = Len(text) + 1
    BY <1>2, AppendProperties DEF Texts
  <2>3. DOMAIN Append(text, "newline") = 1..Len(Append(text, "newline"))
    BY <1>3, LenProperties DEF Texts
  <2>4. Len(text) + 1 \in DOMAIN Append(text, "newline")
    BY <2>1, <2>2, <2>3
  <2> QED
    BY <1>1, <2>2, <2>4 DEF HasLineEnd
<1> QED
  BY <1>1, <1>3, <1>4, <1>5 DEF ReadingTypes

LEMMA TakenKeepsReading ==
  ASSUME ReadingTypes, UNCHANGED <<bound, text, current, ungot, token>>,
         scanner' \in {"start", scanner}
  PROVE  ReadingTypes' /\ Consumed' = Consumed
BY DEF ReadingTypes, Consumed, NumberStates
-----------------------------------------------------------------------------
(* What the lexer does to the text that has been consumed.                 *)
LEMMA ScanReads ==
  ASSUME NEW L \in Languages, ReadingTypes, Scan, Reading(L)
  PROVE  Reading(L)'
<1>1. PICK c \in Coming :
        /\ Get(c)
        /\ \/ c = "space" /\ UNCHANGED scanner
           \/ c \in Marks \cup {End} /\ Return(c, 0)
           \/ c \in Names /\ Return("string", c)
           \/ c \in Words /\ Return("word", c)
           \/ /\ c \in Digits \cup {"-"}
              /\ scanner' \in {"minus", "zero", "any1"}
              /\ buffer' = <<c>>
           \/ c \in {"junk", "+", ".", "e"} /\ Return("error", 0)
  BY DEF Scan
<1>2. scanner = "start" /\ ungot' = FALSE /\ at' = at /\ states' = states
  BY DEF Scan, parserVars
<1>3. /\ c # End => Consumed' = Cat(Consumed, <<c>>)
      /\ c = End => Consumed' = Consumed
  BY <1>1, <1>2, GetConsumes
<1>4. Consumed \in Texts /\ Said(L, Consumed, at, states)
  <2>1. PICK t \in Texts, s \in Texts :
          Consumed = Cat(t, s) /\ Holds(L, s) /\ Said(L, t, at, states)
    BY DEF Reading
  <2>2. s = <<>>
    BY <1>2, <2>1 DEF Holds
  <2>3. Consumed = t
    BY <2>1, <2>2, CatIsText
  <2> QED
    BY <2>1, <2>3
<1>5. ASSUME NEW s \in Texts, Consumed' = Cat(Consumed, s), Holds(L, s)'
      PROVE  Reading(L)'
  BY <1>2, <1>4, <1>5 DEF Reading
<1>6. c # End => <<c>> \in Texts
  <2>1. c \in Symbols \cup {End}
    BY ComingIsSymbol
  <2> QED
    BY <2>1, TextsAreTexts
<1>7. CASE c = "space" /\ UNCHANGED scanner
  <2>1. c \in Spaces /\ c # End
    BY <1>7 DEF Spaces, End
  <2>2. Said(L, Cat(Consumed, <<c>>), at, states)
    BY <1>4, <2>1, BlankIsSaid
  <2>3. Cat(Consumed, <<c>>) \in Texts /\ Consumed' = Cat(Consumed, <<c>>)
    BY <1>3, <1>4, <1>6, <2>1, CatIsText
  <2>4. scanner' = "start"
    BY <1>2, <1>7
  <2>5. Holds(L, <<>>)'
    BY <2>4 DEF Holds, NumberStates
  <2>6. Consumed' = Cat(Consumed', <<>>) /\ <<>> \in Texts
    BY <2>3, CatIsText, TextsAreTexts
  <2> QED
    BY <1>2, <2>2, <2>3, <2>5, <2>6 DEF Reading
<1>8. CASE c = End /\ Return(c, 0)
  <2>1. scanner' = "token" /\ token'.type = End
    BY <1>8 DEF Return
  <2>2. Holds(L, <<>>)'
    BY <2>1 DEF Holds, TokenIsHeld, NumberStates, Marks, Scalars, End
  <2>3. Consumed' = Cat(Consumed, <<>>) /\ <<>> \in Texts
    BY <1>3, <1>4, <1>8, CatIsText, TextsAreTexts
  <2> QED
    BY <1>5, <2>2, <2>3
<1>9. ASSUME c # End, NEW type \in Marks \cup {"string", "word", "error"}, NEW datum,
             Return(type, datum),
             type \in Marks => type = c,
             type = "string" => c \in Names /\ datum = c,
             type = "word" => c \in Words
      PROVE  Reading(L)'
  <2>1. /\ scanner' = "token"
        /\ token'.type \in Marks \cup {"string", "word", "error"}
        /\ token'.type \in Marks => token'.type = c
        /\ token'.type = "string" => c \in Names /\ token'.datum = c
        /\ token'.type = "word" => c \in Words
    BY <1>9 DEF Return
  <2>2. token'.type \in {"string", "word"} => <<c>> \in ValuesOf(L)
    BY <2>1, ScalarsBelong
  <2>3. token'.type \in Scalars => token'.type \in {"string", "word"}
    BY <2>1 DEF Scalars, Marks
  <2>4. TokenIsHeld(L, <<c>>)'
    BY <2>1, <2>2, <2>3 DEF TokenIsHeld, Marks, End
  <2>5. Holds(L, <<c>>)'
    BY <2>1, <2>4 DEF Holds, NumberStates
  <2> QED
    BY <1>3, <1>5, <1>6, <1>9, <2>5
<1>10. CASE /\ c \in Digits \cup {"-"}
            /\ scanner' \in {"minus", "zero", "any1"}
            /\ buffer' = <<c>>
  <2>1. c \in NumberSymbols
    BY <1>10 DEF NumberSymbols
  <2>2. c # End /\ <<c>> \in Seq(NumberSymbols)
    BY <2>1, TextAssumption, TextsAreTexts
  <2>3. ASSUME NEW rest \in Seq(NumberSymbols),
               IsNumber(Cat(buffer', rest)), CanBeHeld(Cat(buffer', rest))
        PROVE  Cat(<<c>>, rest) \in ValuesOf(L)
    <3>1. Cat(<<c>>, rest) \in Seq(NumberSymbols)
      BY <2>2, CatOfNumberSymbols
    <3>2. Cat(buffer', rest) = Cat(<<c>>, rest)
      BY <1>10
    <3> QED
      BY <2>3, <3>1, <3>2, ScalarsBelong
  <2>4. NumberIsHeld(L, <<c>>)'
    BY <2>3 DEF NumberIsHeld
  <2>5. Holds(L, <<c>>)'
    BY <1>10, <2>4 DEF Holds
  <2> QED
    BY <1>3, <1>5, <1>6, <2>2, <2>5
<1>11. End \notin Marks \cup Names \cup Words \cup {"junk", "+", ".", "e"}
  BY TextAssumption DEF Symbols, NumberSymbols
<1>12. CASE c \in Marks /\ Return(c, 0)
  BY <1>9, <1>11, <1>12 DEF Marks
<1>13. CASE c \in Names /\ Return("string", c)
  BY <1>9, <1>11, <1>13 DEF Marks
<1>14. CASE c \in Words /\ Return("word", c)
  BY <1>9, <1>11, <1>14 DEF Marks
<1>15. CASE c \in {"junk", "+", ".", "e"} /\ Return("error", 0)
  BY <1>9, <1>11, <1>15 DEF Marks
<1> QED
  BY <1>1, <1>7, <1>8, <1>10, <1>12, <1>13, <1>14, <1>15

LEMMA ScanNumberReads ==
  ASSUME NEW L \in Languages, ReadingTypes, NumberInv, NumberInv', ScanNumber, Reading(L)
  PROVE  Reading(L)'
<1>0. scanner \in NumberStates /\ at' = at /\ states' = states
  BY DEF NumberInv, ScanNumber, parserVars
<1>1. PICK c \in Coming :
        /\ Get(c)
        /\ \/ Return("error", 0) /\ UNCHANGED <<ungot, buffer>>
           \/ /\ ungot' = TRUE /\ scanner' = "token"
              /\ token' = NumberToken(kind, buffer) /\ UNCHANGED buffer
           \/ /\ NumberStep(scanner, c) \notin {"error", "done"}
              /\ scanner' = NumberStep(scanner, c) /\ buffer' = Append(buffer, c)
              /\ UNCHANGED ungot
  BY DEF ScanNumber
<1>2. ungot = FALSE
  BY <1>0 DEF ReadingTypes
<1>3. PICK t \in Texts, s \in Texts :
        Consumed = Cat(t, s) /\ Holds(L, s) /\ Said(L, t, at, states)
  BY DEF Reading
<1>4. NumberIsHeld(L, s)
  BY <1>0, <1>3 DEF Holds
<1>5. ASSUME NEW w \in Texts, Consumed' = Cat(t, w), Holds(L, w)'
      PROVE  Reading(L)'
  BY <1>0, <1>3, <1>5 DEF Reading
<1>6. buffer \in Seq(NumberSymbols)
  BY <1>0 DEF NumberInv, KindSoFar
<1>7. CASE Return("error", 0) /\ UNCHANGED <<ungot, buffer>>
  <2>1. ungot' = FALSE /\ scanner' = "token" /\ token'.type = "error"
    BY <1>2, <1>7 DEF Return
  <2>2. \A w : Holds(L, w)'
    BY <2>1 DEF Holds, TokenIsHeld, NumberStates, Marks, Scalars, End
  <2>3. CASE c = End
    <3>1. Consumed' = Consumed
      BY <1>1, <2>1, <2>3, GetConsumes
    <3> QED
      BY <1>3, <1>5, <2>2, <3>1
  <2>4. CASE c # End
    <3>1. Consumed' = Cat(Consumed, <<c>>)
      BY <1>1, <2>1, <2>4, GetConsumes
    <3>2. c \in Symbols
      BY <2>4, ComingIsSymbol
    <3>3. <<c>> \in Texts
      BY <3>2, TextsAreTexts
    <3>4. Cat(s, <<c>>) \in Texts /\ Cat(Cat(t, s), <<c>>) = Cat(t, Cat(s, <<c>>))
      BY <3>3, CatIsText, TextAssociates
    <3> QED
      BY <1>3, <1>5, <2>2, <3>1, <3>4
  <2> QED
    BY <2>3, <2>4
<1>8. CASE /\ ungot' = TRUE /\ scanner' = "token"
           /\ token' = NumberToken(kind, buffer) /\ UNCHANGED buffer
  <2>1. Consumed' = Consumed
    BY <1>1, <1>2, <1>8, PutBackIsNotConsumed
  <2>2. token'.type \in NumberTypes
    BY <1>0, <1>8, NumberTokenIsNumber DEF NumberInv, KindSoFar, NumberTypes
  <2>3. IsNumber(buffer) /\ token' = NumberLeaf(buffer)
    BY <1>8, <2>2 DEF NumberInv, NumberIsRead
  <2>5. token'.type = "float" => token'.datum = buffer
    BY <2>3 DEF NumberLeaf
  <2>6. (token'.type = "float" => IsFinite(token'.datum)) => s \in ValuesOf(L)
    <3>1. SUFFICES ASSUME token'.type = "float" => IsFinite(token'.datum)
                   PROVE  s \in ValuesOf(L)
      OBVIOUS
    <3>2. CanBeHeld(buffer)
      BY <2>3, <2>5, <3>1 DEF CanBeHeld
    <3>3. <<>> \in Seq(NumberSymbols)
      OBVIOUS
    <3>4. Cat(buffer, <<>>) = buffer
      BY <1>6, ConcatEmptySeq DEF Cat
    <3>5. Cat(s, <<>>) = s
      BY CatIsText
    <3>6. IsNumber(Cat(buffer, <<>>)) /\ CanBeHeld(Cat(buffer, <<>>))
      BY <2>3, <3>2, <3>4
    <3>7. Cat(s, <<>>) \in ValuesOf(L)
      BY <1>4, <3>3, <3>6 DEF NumberIsHeld
    <3> QED
      BY <3>5, <3>7
  <2>7. TokenIsHeld(L, s)'
    BY <2>2, <2>6 DEF TokenIsHeld, NumberTypes, Marks, End
  <2>8. Holds(L, s)'
    BY <1>8, <2>7 DEF Holds, NumberStates
  <2> QED
    BY <1>3, <1>5, <2>1, <2>8
<1>9. CASE /\ NumberStep(scanner, c) \notin {"error", "done"}
           /\ scanner' = NumberStep(scanner, c) /\ buffer' = Append(buffer, c)
           /\ UNCHANGED ungot
  <2>1. NumberStep(scanner, c) \in NumberStates
    BY <1>0, <1>9, NumberStepIsState
  <2>2. c \in NumberSymbols
    BY <1>0, <2>1, NumberStepSymbol
  <2>3. c # End /\ <<c>> \in Texts
    BY <2>2, TextAssumption, TextsAreTexts
  <2>4. Consumed' = Cat(Consumed, <<c>>)
    BY <1>1, <1>2, <1>9, <2>3, GetConsumes
  <2>5. Cat(s, <<c>>) \in Texts /\ Cat(Cat(t, s), <<c>>) = Cat(t, Cat(s, <<c>>))
    BY <2>3, CatIsText, TextAssociates
  <2>6. <<c>> \in Seq(NumberSymbols) /\ buffer' = Cat(buffer, <<c>>)
    BY <1>6, <1>9, <2>2, AppendIsCat
  <2>7. ASSUME NEW rest \in Seq(NumberSymbols),
               IsNumber(Cat(buffer', rest)), CanBeHeld(Cat(buffer', rest))
        PROVE  Cat(Cat(s, <<c>>), rest) \in ValuesOf(L)
    <3>1. Cat(<<c>>, rest) \in Seq(NumberSymbols) /\ rest \in Texts
      BY <2>6, CatOfNumberSymbols, TextsAreTexts
    <3>2. Cat(buffer', rest) = Cat(buffer, Cat(<<c>>, rest))
      BY <1>6, <2>6, CatAssociates
    <3>3. Cat(s, Cat(<<c>>, rest)) \in ValuesOf(L)
      BY <1>4, <2>7, <3>1, <3>2 DEF NumberIsHeld
    <3>4. Cat(Cat(s, <<c>>), rest) = Cat(s, Cat(<<c>>, rest))
      BY <2>3, <3>1, TextAssociates
    <3> QED
      BY <3>3, <3>4
  <2>8. NumberIsHeld(L, Cat(s, <<c>>))'
    BY <2>7 DEF NumberIsHeld
  <2>9. Holds(L, Cat(s, <<c>>))'
    BY <1>9, <2>1, <2>8 DEF Holds, NumberStates
  <2> QED
    BY <1>3, <1>5, <2>4, <2>5, <2>9
<1> QED
  BY <1>1, <1>7, <1>8, <1>9

(* Behind the joined lines there is the same text.                         *)
LEMMA LineEndReads ==
  ASSUME NEW L \in Languages, ReadingTypes, LineEnd, LinesAreJoined(ValuesOf(L)),
         Reading(L), scanner \in NumberStates \cup {"start", "token"}
  PROVE  Reading(L)'
<1>1. /\ scanner \in NumberStates \cup {"start"}
      /\ UNCHANGED <<at, states, scanner, buffer>>
  BY DEF LineEnd, parserVars
<1>2. Consumed' = Cat(Consumed, <<"newline">>)
  BY LineEndIsConsumed
<1>3. PICK t \in Texts, s \in Texts :
        Consumed = Cat(t, s) /\ Holds(L, s) /\ Said(L, t, at, states)
  BY DEF Reading
<1>4. PICK nl : nl = <<"newline">>
  OBVIOUS
<1>5. nl \in Texts /\ "newline" \in Spaces
  BY <1>4, TextsAreTexts DEF Spaces
<1>6. CASE scanner = "start"
  <2>1. s = <<>>
    BY <1>3, <1>6 DEF Holds
  <2>2. Consumed = t
    BY <1>3, <2>1, CatIsText
  <2>3. Said(L, Cat(t, nl), at, states)
    BY <1>3, <1>4, <1>5, BlankIsSaid
  <2>4. Cat(t, nl) \in Texts /\ Cat(Cat(t, nl), <<>>) = Cat(t, nl) /\ <<>> \in Texts
    BY <1>5, CatIsText, TextsAreTexts
  <2>5. Holds(L, <<>>)'
    BY <1>1, <1>6 DEF Holds, NumberStates
  <2>6. Consumed' = Cat(Cat(t, nl), <<>>)
    BY <1>2, <1>4, <2>2, <2>4
  <2> QED
    BY <1>1, <2>3, <2>4, <2>5, <2>6 DEF Reading
<1>7. CASE scanner \in NumberStates
  <2>1. NumberIsHeld(L, s)
    BY <1>3, <1>7 DEF Holds
  <2>2. ASSUME NEW rest \in Seq(NumberSymbols),
               IsNumber(Cat(buffer, rest)), CanBeHeld(Cat(buffer, rest))
        PROVE  Cat(Cat(s, nl), rest) \in ValuesOf(L)
    <3>1. Cat(s, rest) \in ValuesOf(L)
      BY <2>1, <2>2 DEF NumberIsHeld
    <3>2. rest \in Texts
      BY TextsAreTexts
    <3> QED
      BY <1>4, <3>1, <3>2 DEF LinesAreJoined, Cat
  <2>3. NumberIsHeld(L, Cat(s, nl))'
    BY <1>1, <2>2 DEF NumberIsHeld
  <2>4. Holds(L, Cat(s, nl))'
    BY <1>1, <1>7, <2>3 DEF Holds, NumberStates
  <2>5. Cat(s, nl) \in Texts /\ Cat(Cat(t, s), nl) = Cat(t, Cat(s, nl))
    BY <1>5, CatIsText, TextAssociates
  <2>6. Consumed' = Cat(t, Cat(s, nl))
    BY <1>2, <1>3, <1>4, <2>5
  <2> QED
    BY <1>1, <1>3, <2>4, <2>5, <2>6 DEF Reading
<1> QED
  BY <1>1, <1>6, <1>7
-----------------------------------------------------------------------------
(* What the parser does with a token.                                      *)
LEMMA TokenIsNext ==
  ASSUME NEW L \in Languages, Reading(L), scanner = "token"
  PROVE  \E t, s \in Texts :
           Consumed = Cat(t, s) /\ TokenIsHeld(L, s) /\ Said(L, t, at, states)
BY DEF Reading, Holds

LEMMA TakenIsSaid ==
  ASSUME NEW L \in Languages, UNCHANGED <<text, current, ungot>>, scanner' = "start",
         NEW t \in Texts, NEW s \in Texts, Consumed = Cat(t, s),
         Said(L, Cat(t, s), at', states')
  PROVE  Reading(L)'
<1>1. Cat(t, s) \in Texts /\ Cat(Cat(t, s), <<>>) = Cat(t, s) /\ <<>> \in Texts
  BY CatIsText, TextsAreTexts
<1>2. Consumed' = Cat(Cat(t, s), <<>>)
  BY <1>1 DEF Consumed
<1>3. Holds(L, <<>>)'
  BY DEF Holds, NumberStates
<1> QED
  BY <1>1, <1>2, <1>3 DEF Reading

LEMMA ScalarReads ==
  ASSUME NEW L \in Languages, ParserTypes, Reading(L), ParseScalar
  PROVE  verdict' = "refused" \/ (verdict' = "reading" /\ Reading(L)')
<1>1. /\ scanner = "token" /\ verdict = "reading" /\ at = "value" /\ scanner' = "start"
      /\ UNCHANGED <<text, current, ungot>> /\ token.type \in Scalars
  BY DEF ParseScalar, Take
<1>2. CASE Refuse
  BY <1>2 DEF Refuse
<1>3. CASE /\ token.type = "float" => IsFinite(token.datum)
           /\ at' = AfterValue(states) /\ UNCHANGED <<states, verdict>>
  <2>1. PICK t \in Texts, s \in Texts :
          Consumed = Cat(t, s) /\ TokenIsHeld(L, s) /\ Said(L, t, at, states)
    BY <1>1, TokenIsNext
  <2>2. s \in ValuesOf(L)
    BY <1>1, <1>3, <2>1 DEF TokenIsHeld
  <2>3. IsStack(states) /\ Said(L, t, "value", states)
    BY <1>1, <2>1 DEF IsStack, ParserTypes
  <2>4. Said(L, Cat(t, s), AfterValue(states), states)
    BY <2>2, <2>3, ScalarIsSaid
  <2>5. Said(L, Cat(t, s), at', states')
    BY <1>3, <2>4
  <2>6. Reading(L)'
    BY <1>1, <2>1, <2>5, TakenIsSaid
  <2> QED
    BY <1>1, <1>3, <2>6
<1> QED
  BY <1>2, <1>3 DEF ParseScalar

LEMMA StartReads ==
  ASSUME NEW L \in Languages, Reading(L), ParseStart
  PROVE  verdict' = "reading" /\ Reading(L)'
<1>1. /\ scanner = "token" /\ verdict = "reading" /\ at = "value" /\ scanner' = "start"
      /\ UNCHANGED <<text, current, ungot, states, verdict>> /\ token.type \in {"{", "["}
      /\ at' = IF token.type = "[" THEN "array_start" ELSE "object_start"
  BY DEF ParseStart, Take
<1>2. PICK t \in Texts, s \in Texts :
        Consumed = Cat(t, s) /\ TokenIsHeld(L, s) /\ Said(L, t, at, states)
  BY <1>1, TokenIsNext
<1>3. s = <<token.type>>
  BY <1>1, <1>2 DEF TokenIsHeld, Marks
<1>4. /\ Said(L, Cat(t, <<"[">>), "array_start", states)
      /\ Said(L, Cat(t, <<"{">>), "object_start", states)
  BY <1>1, <1>2, StartIsSaid
<1>5. Said(L, Cat(t, s), at', states')
  BY <1>1, <1>3, <1>4
<1> QED
  BY <1>1, <1>2, <1>5, TakenIsSaid

LEMMA ObjectStartReads ==
  ASSUME NEW L \in Languages, ParserTypes, Reading(L), ParseObjectStart
  PROVE  verdict' = "refused" \/ (verdict' = "reading" /\ Reading(L)')
<1>1. /\ scanner = "token" /\ verdict = "reading" /\ at = "object_start"
      /\ scanner' = "start" /\ UNCHANGED <<text, current, ungot>>
  BY DEF ParseObjectStart, Take
<1>2. PICK t \in Texts, s \in Texts :
        Consumed = Cat(t, s) /\ TokenIsHeld(L, s) /\ Said(L, t, at, states)
  BY <1>1, TokenIsNext
<1>3. IsStack(states) /\ Said(L, t, "object_start", states)
  BY <1>1, <1>2 DEF IsStack, ParserTypes
<1>4. CASE Unexpected({"}", "string"})
  BY <1>4 DEF Unexpected, Refuse
<1>5. CASE token.type = "}" /\ at' = AfterValue(states) /\ UNCHANGED <<states, verdict>>
  <2>1. s = <<"}">>
    BY <1>2, <1>5 DEF TokenIsHeld, Marks
  <2>2. Said(L, Cat(t, <<"}">>), AfterValue(states), states)
    BY <1>3, EmptyIsSaid
  <2>3. Said(L, Cat(t, s), at', states')
    BY <1>5, <2>1, <2>2
  <2> QED
    BY <1>1, <1>2, <1>5, <2>3, TakenIsSaid
<1>6. CASE token.type = "string" /\ at' = "first_colon" /\ UNCHANGED <<states, verdict>>
  <2>1. s = <<token.datum>> /\ token.datum \in Names
    BY <1>1, <1>2, <1>6 DEF TokenIsHeld, ParserTypes
  <2>2. Said(L, Cat(t, <<token.datum>>), "first_colon", states)
    BY <1>3, <2>1, NameIsSaid
  <2>3. Said(L, Cat(t, s), at', states')
    BY <1>6, <2>1, <2>2
  <2> QED
    BY <1>1, <1>2, <1>6, <2>3, TakenIsSaid
<1> QED
  BY <1>4, <1>5, <1>6 DEF ParseObjectStart

LEMMA KeyReads ==
  ASSUME NEW L \in Languages, ParserTypes, Reading(L), ParseKey
  PROVE  verdict' = "refused" \/ (verdict' = "reading" /\ Reading(L)')
<1>1. /\ scanner = "token" /\ verdict = "reading" /\ at = "key"
      /\ scanner' = "start" /\ UNCHANGED <<text, current, ungot>>
  BY DEF ParseKey, Take
<1>2. CASE Unexpected({"string"})
  BY <1>2 DEF Unexpected, Refuse
<1>3. CASE token.type = "string" /\ at' = "colon" /\ UNCHANGED <<states, verdict>>
  <2>1. PICK t \in Texts, s \in Texts :
          Consumed = Cat(t, s) /\ TokenIsHeld(L, s) /\ Said(L, t, at, states)
    BY <1>1, TokenIsNext
  <2>2. s = <<token.datum>> /\ token.datum \in Names
    BY <1>1, <1>3, <2>1 DEF TokenIsHeld, ParserTypes
  <2>3. Said(L, Cat(t, <<token.datum>>), "colon", states)
    BY <1>1, <2>1, <2>2, NameIsSaid
  <2>4. Said(L, Cat(t, s), at', states')
    BY <1>3, <2>2, <2>3
  <2> QED
    BY <1>1, <1>3, <2>1, <2>4, TakenIsSaid
<1> QED
  BY <1>2, <1>3 DEF ParseKey

LEMMA FirstColonReads ==
  ASSUME NEW L \in Languages, ParserTypes, Reading(L), ParseFirstColon
  PROVE  verdict' = "refused" \/ (verdict' = "reading" /\ Reading(L)')
<1>1. /\ scanner = "token" /\ verdict = "reading" /\ at = "first_colon"
      /\ scanner' = "start" /\ UNCHANGED <<text, current, ungot>>
  BY DEF ParseFirstColon, Take
<1>2. CASE Unexpected({":"})
  BY <1>2 DEF Unexpected, Refuse
<1>3. CASE /\ token.type = ":" /\ at' = "value" /\ states' = Append(states, "object")
           /\ UNCHANGED verdict
  <2>1. PICK t \in Texts, s \in Texts :
          Consumed = Cat(t, s) /\ TokenIsHeld(L, s) /\ Said(L, t, at, states)
    BY <1>1, TokenIsNext
  <2>2. s = <<":">>
    BY <1>3, <2>1 DEF TokenIsHeld, Marks
  <2>3. IsStack(states) /\ Said(L, t, "first_colon", states)
    BY <1>1, <2>1 DEF IsStack, ParserTypes
  <2>4. Said(L, Cat(t, <<":">>), "value", Append(states, "object"))
    BY <2>3, FirstColonIsSaid
  <2>5. Said(L, Cat(t, s), at', states')
    BY <1>3, <2>2, <2>4
  <2> QED
    BY <1>1, <1>3, <2>1, <2>5, TakenIsSaid
<1> QED
  BY <1>2, <1>3 DEF ParseFirstColon

(* The first element of an array is looked at again, and not taken.        *)
LEMMA ArrayStartReads ==
  ASSUME NEW L \in Languages, ParserTypes, Reading(L), ParseArrayStart
  PROVE  verdict' = "reading" /\ Reading(L)'
<1>1. /\ scanner = "token" /\ verdict = "reading" /\ at = "array_start"
      /\ UNCHANGED <<text, current, ungot, buffer, token, verdict>>
  BY DEF ParseArrayStart
<1>2. PICK t \in Texts, s \in Texts :
        Consumed = Cat(t, s) /\ TokenIsHeld(L, s) /\ Said(L, t, at, states)
  BY <1>1, TokenIsNext
<1>3. IsStack(states) /\ Said(L, t, "array_start", states)
  BY <1>1, <1>2 DEF IsStack, ParserTypes
<1>4. CASE /\ token.type = "]" /\ at' = AfterValue(states) /\ scanner' = "start"
           /\ UNCHANGED states
  <2>1. s = <<"]">>
    BY <1>2, <1>4 DEF TokenIsHeld, Marks
  <2>2. Said(L, Cat(t, <<"]">>), AfterValue(states), states)
    BY <1>3, EmptyIsSaid
  <2>3. Said(L, Cat(t, s), at', states')
    BY <1>4, <2>1, <2>2
  <2> QED
    BY <1>1, <1>2, <1>4, <2>3, TakenIsSaid
<1>5. CASE /\ states' = Append(states, "array") /\ at' = "value" /\ UNCHANGED scanner
  <2>1. Said(L, t, "value", Append(states, "array"))
    BY <1>3, ArrayIsEntered
  <2>2. Said(L, t, at', states')
    BY <1>5, <2>1
  <2>3. Consumed' = Cat(t, s) /\ TokenIsHeld(L, s)'
    BY <1>1, <1>2 DEF Consumed, TokenIsHeld
  <2>4. Holds(L, s)'
    BY <1>1, <1>5, <2>3 DEF Holds, NumberStates
  <2> QED
    BY <1>1, <2>2, <2>3, <2>4 DEF Reading
<1> QED
  BY <1>4, <1>5 DEF ParseArrayStart

LEMMA AfterElementReads ==
  ASSUME NEW L \in Languages, ParserTypes, Stacks, Reading(L), ParseAfterElement
  PROVE  verdict' = "refused" \/ (verdict' = "reading" /\ Reading(L)')
<1>1. /\ scanner = "token" /\ verdict = "reading" /\ at = "after_element"
      /\ scanner' = "start" /\ UNCHANGED <<text, current, ungot>>
  BY DEF ParseAfterElement, Take
<1>2. PICK t \in Texts, s \in Texts :
        Consumed = Cat(t, s) /\ TokenIsHeld(L, s) /\ Said(L, t, at, states)
  BY <1>1, TokenIsNext
<1>3. IsStack(states) /\ Said(L, t, "after_element", states)
  BY <1>1, <1>2 DEF IsStack, ParserTypes
<1>4. states # <<>> /\ Last(states) = "array"
  BY <1>1 DEF Stacks, Expects
<1>5. CASE Unexpected({",", "]"})
  BY <1>5 DEF Unexpected, Refuse
<1>6. CASE token.type = "," /\ at' = "value" /\ UNCHANGED <<states, verdict>>
  <2>1. s = <<",">>
    BY <1>2, <1>6 DEF TokenIsHeld, Marks
  <2>2. Said(L, Cat(t, <<",">>), "value", states)
    BY <1>3, <1>4, SeparatorIsSaid
  <2>3. Said(L, Cat(t, s), at', states')
    BY <1>6, <2>1, <2>2
  <2> QED
    BY <1>1, <1>2, <1>6, <2>3, TakenIsSaid
<1>7. CASE token.type = "]" /\ ParseEnd
  <2>1. s = <<"]">>
    BY <1>2, <1>7 DEF TokenIsHeld, Marks
  <2>2. Said(L, Cat(t, <<"]">>), AfterValue(Front(states)), Front(states))
    BY <1>3, <1>4, EndIsSaid
  <2>3. Said(L, Cat(t, s), at', states')
    BY <1>7, <2>1, <2>2 DEF ParseEnd
  <2> QED
    BY <1>1, <1>2, <1>7, <2>3, TakenIsSaid DEF ParseEnd
<1> QED
  BY <1>5, <1>6, <1>7 DEF ParseAfterElement

LEMMA AfterMemberReads ==
  ASSUME NEW L \in Languages, ParserTypes, Stacks, Reading(L), ParseAfterMember
  PROVE  verdict' = "refused" \/ (verdict' = "reading" /\ Reading(L)')
<1>1. /\ scanner = "token" /\ verdict = "reading" /\ at = "after_member"
      /\ scanner' = "start" /\ UNCHANGED <<text, current, ungot>>
  BY DEF ParseAfterMember, Take
<1>2. PICK t \in Texts, s \in Texts :
        Consumed = Cat(t, s) /\ TokenIsHeld(L, s) /\ Said(L, t, at, states)
  BY <1>1, TokenIsNext
<1>3. IsStack(states) /\ Said(L, t, "after_member", states)
  BY <1>1, <1>2 DEF IsStack, ParserTypes
<1>4. states # <<>>
  BY <1>1 DEF Stacks, Expects
<1>5. CASE Unexpected({",", "}"})
  BY <1>5 DEF Unexpected, Refuse
<1>6. CASE token.type = "," /\ at' = "key" /\ UNCHANGED <<states, verdict>>
  <2>1. s = <<",">>
    BY <1>2, <1>6 DEF TokenIsHeld, Marks
  <2>2. Said(L, Cat(t, <<",">>), "key", states)
    BY <1>3, <1>4, SeparatorIsSaid
  <2>3. Said(L, Cat(t, s), at', states')
    BY <1>6, <2>1, <2>2
  <2> QED
    BY <1>1, <1>2, <1>6, <2>3, TakenIsSaid
<1>7. CASE token.type = "}" /\ ParseEnd
  <2>1. s = <<"}">>
    BY <1>2, <1>7 DEF TokenIsHeld, Marks
  <2>2. Said(L, Cat(t, <<"}">>), AfterValue(Front(states)), Front(states))
    BY <1>3, <1>4, EndIsSaid
  <2>3. Said(L, Cat(t, s), at', states')
    BY <1>7, <2>1, <2>2 DEF ParseEnd
  <2> QED
    BY <1>1, <1>2, <1>7, <2>3, TakenIsSaid DEF ParseEnd
<1> QED
  BY <1>5, <1>6, <1>7 DEF ParseAfterMember

LEMMA ColonReads ==
  ASSUME NEW L \in Languages, ParserTypes, Stacks, Reading(L), ParseColon
  PROVE  verdict' = "refused" \/ (verdict' = "reading" /\ Reading(L)')
<1>1. /\ scanner = "token" /\ verdict = "reading" /\ at = "colon"
      /\ scanner' = "start" /\ UNCHANGED <<text, current, ungot>>
  BY DEF ParseColon, Take
<1>2. CASE Unexpected({":"})
  BY <1>2 DEF Unexpected, Refuse
<1>3. CASE token.type = ":" /\ at' = "value" /\ UNCHANGED <<states, verdict>>
  <2>1. PICK t \in Texts, s \in Texts :
          Consumed = Cat(t, s) /\ TokenIsHeld(L, s) /\ Said(L, t, at, states)
    BY <1>1, TokenIsNext
  <2>2. s = <<":">>
    BY <1>3, <2>1 DEF TokenIsHeld, Marks
  <2>3. IsStack(states) /\ Said(L, t, "colon", states)
    BY <1>1, <2>1 DEF IsStack, ParserTypes
  <2>4. states # <<>> /\ Last(states) = "object"
    BY <1>1 DEF Stacks, Expects
  <2>5. Said(L, Cat(t, <<":">>), "value", states)
    BY <2>3, <2>4, SeparatorIsSaid
  <2>6. Said(L, Cat(t, s), at', states')
    BY <1>3, <2>2, <2>5
  <2> QED
    BY <1>1, <1>3, <2>1, <2>6, TakenIsSaid
<1> QED
  BY <1>2, <1>3 DEF ParseColon

(* The end of the input is taken where the value has been said.            *)
LEMMA EndOfInputReads ==
  ASSUME NEW L \in Languages, ReadingTypes, Stacks, Reading(L), ParseEndOfInput
  PROVE  \/ verdict' = "refused"
         \/ verdict' = "accepted" /\ text' \in ValuesOf(L)
<1>1. /\ scanner = "token" /\ verdict = "reading" /\ at = "end" /\ UNCHANGED text
  BY DEF ParseEndOfInput, Take
<1>2. CASE Unexpected({End})
  BY <1>2 DEF Unexpected, Refuse
<1>3. CASE token.type = End /\ verdict' = "accepted"
  <2>1. PICK t \in Texts, s \in Texts :
          Consumed = Cat(t, s) /\ TokenIsHeld(L, s) /\ Said(L, t, at, states)
    BY <1>1, TokenIsNext
  <2>2. s = <<>>
    BY <1>3, <2>1 DEF TokenIsHeld
  <2>3. Consumed = text
    BY <1>1, <1>3 DEF ReadingTypes, Consumed
  <2>4. text = t
    BY <2>1, <2>2, <2>3, CatIsText
  <2>5. states = <<>>
    BY <1>1 DEF Stacks, Expects
  <2>6. t \in ValuesOf(L)
    BY <1>1, <2>1, <2>5, EndIsValue
  <2> QED
    BY <1>1, <1>3, <2>4, <2>6
<1> QED
  BY <1>2, <1>3 DEF ParseEndOfInput
-----------------------------------------------------------------------------
LEMMA InitReads ==
  ASSUME NEW L \in Languages, Init
  PROVE  Reading(L)
<1>1. /\ text = <<>> /\ ~ungot /\ scanner = "start" /\ at = "value" /\ states = <<>>
  BY DEF Init
<1>2. Consumed = <<>>
  BY <1>1 DEF Consumed
<1>3. <<>> \in Texts /\ <<>> \in Blanks /\ Cat(<<>>, <<>>) = <<>>
  BY TextsAreTexts, CatIsText
<1>4. Said(L, <<>>, "value", <<>>)
  BY <1>3, NothingBefore DEF Said, DepthAt, Tails
<1>5. Holds(L, <<>>)
  BY <1>1 DEF Holds, NumberStates
<1> QED
  BY <1>1, <1>2, <1>3, <1>4, <1>5 DEF Reading

(* A line end stays in the text.                                           *)
LEMMA LineEndsStay ==
  ASSUME ReadingTypes, NumberInv, Scan \/ ScanNumber \/ LineEnd \/ UNCHANGED text,
         HasLineEnd(text)
  PROVE  HasLineEnd(text')
<1>1. CASE Scan
  <2>1. ungot' = FALSE /\ \E c \in Coming : Get(c)
    BY <1>1 DEF Scan
  <2> QED
    BY <2>1, GetConsumes
<1>2. CASE ScanNumber
  <2>1. ungot = FALSE
    BY <1>2 DEF ReadingTypes, ScanNumber, NumberInv
  <2>2. \E c \in Coming : Get(c) /\ (ungot' = TRUE \/ UNCHANGED ungot)
    BY <1>2 DEF ScanNumber
  <2>3. PICK c \in Coming : Get(c) /\ (ungot' = TRUE \/ ungot' = FALSE)
    BY <2>1, <2>2
  <2>4. CASE ungot' = FALSE
    BY <2>3, <2>4, GetConsumes
  <2>5. CASE ungot' = TRUE
    BY <2>1, <2>3, <2>5, PutBackIsNotConsumed
  <2> QED
    BY <2>3, <2>4, <2>5
<1>3. CASE LineEnd
  BY <1>3, LineEndIsConsumed
<1> QED
  BY <1>1, <1>2, <1>3

Parsing ==
  \/ ParseScalar \/ ParseStart \/ RefuseValue
  \/ ParseObjectStart \/ ParseFirstColon \/ ParseArrayStart
  \/ ParseAfterElement \/ ParseAfterMember \/ ParseKey \/ ParseColon
  \/ ParseEndOfInput

LEMMA ParserReads ==
  ASSUME NEW L \in Languages, ParserTypes, Stacks, ReadingTypes, Reading(L), Parsing
  PROVE  \/ verdict' = "refused"
         \/ verdict' = "reading" /\ Reading(L)'
         \/ verdict' = "accepted" /\ text' \in ValuesOf(L)
<1>1. CASE ParseScalar
  BY <1>1, ScalarReads
<1>2. CASE ParseStart
  BY <1>2, StartReads
<1>3. CASE RefuseValue
  BY <1>3 DEF RefuseValue, Unexpected, Refuse
<1>4. CASE ParseObjectStart
  BY <1>4, ObjectStartReads
<1>5. CASE ParseFirstColon
  BY <1>5, FirstColonReads
<1>6. CASE ParseArrayStart
  BY <1>6, ArrayStartReads
<1>7. CASE ParseAfterElement
  BY <1>7, AfterElementReads
<1>8. CASE ParseAfterMember
  BY <1>8, AfterMemberReads
<1>9. CASE ParseKey
  BY <1>9, KeyReads
<1>10. CASE ParseColon
  BY <1>10, ColonReads
<1>11. CASE ParseEndOfInput
  BY <1>11, EndOfInputReads
<1> QED
  BY <1>1, <1>2, <1>3, <1>4, <1>5, <1>6, <1>7, <1>8, <1>9, <1>10, <1>11 DEF Parsing

LEMMA ParsingTakes ==
  ASSUME Parsing
  PROVE  /\ verdict = "reading" /\ scanner = "token"
         /\ UNCHANGED <<bound, text, current, ungot, token>>
         /\ scanner' \in {"start", scanner}
BY DEF Parsing, ParseScalar, ParseStart, RefuseValue, ParseObjectStart, ParseFirstColon,
       ParseArrayStart, ParseAfterElement, ParseAfterMember, ParseKey, ParseColon,
       ParseEndOfInput, Take

ReadingInv == ParserTypes /\ Stacks /\ NumberInv /\ ReadingTypes /\ SyntaxInv

LEMMA NextKeepsReading ==
  ASSUME ReadingInv, [Next]_vars
  PROVE  ReadingInv'
<1>1. ParserTypes' /\ Stacks' /\ NumberInv'
  BY NextKeepsStacks, NextKeepsNumbers DEF ReadingInv
<1>2. \/ LineEnd \/ Scan \/ ScanNumber \/ Parsing
      \/ UNCHANGED vars
  BY DEF Next, Parsing
<1>3. ReadingTypes'
  <2>1. CASE LineEnd
    BY <2>1, LineEndIsConsumed DEF ReadingInv
  <2>2. CASE Scan
    BY <2>2, ScanKeepsReading DEF ReadingInv
  <2>3. CASE ScanNumber
    BY <2>3, ScanNumberKeepsReading DEF ReadingInv, NumberInv, ParserTypes, ScanNumber
  <2>4. CASE Parsing
    BY <2>4, ParsingTakes, TakenKeepsReading DEF ReadingInv
  <2>5. CASE UNCHANGED vars
    BY <2>5 DEF ReadingInv, ReadingTypes, vars, lexerVars
  <2> QED
    BY <1>2, <2>1, <2>2, <2>3, <2>4, <2>5
<1>4. ASSUME NEW L \in Languages, Allowed(L)'
      PROVE  /\ verdict' = "reading" => Reading(L)'
             /\ verdict' = "accepted" => text' \in ValuesOf(L)
  <2>1. Allowed(L)
    <3>1. Scan \/ ScanNumber \/ LineEnd \/ UNCHANGED text
      BY <1>2, ParsingTakes DEF vars, lexerVars
    <3>2. HasLineEnd(text) => HasLineEnd(text')
      BY <3>1, LineEndsStay DEF ReadingInv
    <3> QED
      BY <1>4, <3>2 DEF Allowed
  <2>2. /\ verdict = "reading" => Reading(L)
        /\ verdict = "accepted" => text \in ValuesOf(L)
    BY <2>1 DEF ReadingInv, SyntaxInv
  <2>3. CASE LineEnd
    <3>1. verdict = "reading" /\ verdict' = verdict
      BY <2>3 DEF LineEnd, parserVars
    <3>2. LinesAreJoined(ValuesOf(L))
      BY <1>4, <2>3, LineEndIsConsumed DEF Allowed, ReadingInv
    <3>3. Reading(L)'
      BY <2>2, <2>3, <3>1, <3>2, LineEndReads DEF ReadingInv, NumberInv
    <3> QED
      BY <3>1, <3>3
  <2>4. CASE Scan
    <3>1. verdict = "reading" /\ verdict' = verdict
      BY <2>4 DEF Scan, parserVars
    <3> QED
      BY <2>2, <2>4, <3>1, ScanReads DEF ReadingInv
  <2>5. CASE ScanNumber
    <3>1. verdict = "reading" /\ verdict' = verdict
      BY <2>5 DEF ScanNumber, parserVars
    <3> QED
      BY <1>1, <2>2, <2>5, <3>1, ScanNumberReads DEF ReadingInv
  <2>6. CASE Parsing
    <3>1. Reading(L)
      BY <2>2, <2>6, ParsingTakes
    <3>2. \/ verdict' = "refused"
          \/ verdict' = "reading" /\ Reading(L)'
          \/ verdict' = "accepted" /\ text' \in ValuesOf(L)
      BY <2>6, <3>1, ParserReads DEF ReadingInv
    <3> QED
      BY <3>2
  <2>7. CASE UNCHANGED vars
    <3>1. /\ verdict' = verdict /\ text' = text
          /\ Reading(L)' <=> Reading(L)
      BY <2>7 DEF vars, lexerVars, parserVars, Reading, Consumed, Holds, TokenIsHeld,
                  NumberIsHeld
    <3> QED
      BY <2>2, <3>1
  <2> QED
    BY <1>2, <2>3, <2>4, <2>5, <2>6, <2>7
<1>5. SyntaxInv'
  BY <1>4 DEF SyntaxInv
<1> QED
  BY <1>1, <1>3, <1>5 DEF ReadingInv

LEMMA InitReading == Init => ReadingInv
<1> SUFFICES ASSUME Init PROVE ReadingInv
  OBVIOUS
<1>1. ParserTypes /\ Stacks /\ NumberInv /\ ReadingTypes
  BY InitTypes, InitNumbers, InitReadingTypes
<1>2. \A L \in Languages : Reading(L)
  BY InitReads
<1>3. verdict = "reading"
  BY DEF Init
<1> QED
  BY <1>1, <1>2, <1>3 DEF ReadingInv, SyntaxInv

(* What is in every language that the text is allowed to be in is JSON.    *)
LEMMA AcceptedTextIsJson ==
  ASSUME SyntaxInv, verdict = "accepted"
  PROVE  IsJson(text)
<1>1. ASSUME NEW values \in SUBSET Texts, NEW elements \in SUBSET Texts,
             NEW members \in SUBSET Texts, AreJson(values, elements, members),
             HasLineEnd(text) => LinesAreJoined(values)
      PROVE  text \in values
  <2>1. PICK L : L = [values |-> values, elements |-> elements, members |-> members]
    OBVIOUS
  <2>2. L \in Languages /\ ValuesOf(L) = values
    BY <1>1, <2>1 DEF Languages, ValuesOf
  <2>3. Allowed(L)
    BY <1>1, <2>2 DEF Allowed
  <2> QED
    BY <2>2, <2>3 DEF SyntaxInv
<1> QED
  BY <1>1 DEF IsJson

(* The definition excludes something: all of it is in the texts that have  *)
(* a symbol, and they are closed under the productions.                    *)
LEMMA SomethingIsSaid ==
  ASSUME NEW s \in Texts, NEW t \in Texts, s # <<>> \/ t # <<>>
  PROVE  s \o t \in Texts \ {<<>>}
<1>1. s \o t \in Texts /\ Len(s \o t) = Len(s) + Len(t)
  BY ConcatProperties DEF Texts
<1>2. Len(s) \in Nat /\ Len(t) \in Nat /\ (Len(s) # 0 \/ Len(t) # 0)
  BY EmptySeq, LenProperties DEF Texts
<1>3. Len(s \o t) # 0
  BY <1>1, <1>2
<1> QED
  BY <1>1, <1>3

LEMMA EmptyIsNoNumber == ~IsNumber(<<>>)
<1>1. PositionOf("e", <<>>) = 1 /\ PositionOf(".", <<>>) = 1
  BY DEF PositionOf
<1>2. SubSeq(<<>>, 1, 0) = <<>>
  OBVIOUS
<1>3. UpTo("e", <<>>) = <<>> /\ UpTo(".", <<>>) = <<>>
  BY <1>1, <1>2 DEF UpTo
<1>4. Without({"-"}, <<>>) = <<>>
  BY DEF Without
<1> QED
  BY <1>3, <1>4 DEF IsNumber, IsWhole, IsNatural

LEMMA NoJsonIsEmpty ==
  ASSUME NEW t, IsJson(t)
  PROVE  t # <<>>
<1> DEFINE filled == Texts \ {<<>>}
<1>1. ScalarsAreIn(filled)
  <2>1. \A n \in Names \cup Words : <<n>> \in Texts /\ <<n>> # <<>>
    BY TextsAreTexts
  <2>2. \A s \in Seq(NumberSymbols) : s \in Texts
    BY TextsAreTexts
  <2> QED
    BY <2>1, <2>2, EmptyIsNoNumber DEF ScalarsAreIn
<1>2. \A b \in Blanks : b \in Texts
  BY TextsAreTexts
<1>3. \A m \in Marks \cup Names \cup Spaces : <<m>> \in filled
  BY TextsAreTexts
<1>a. \A x \in filled : x \in Texts /\ x # <<>>
  OBVIOUS
<1> HIDE DEF filled
<1>b. \A s \in Texts, x \in filled : s \o x \in filled /\ x \o s \in filled
  <2>1. ASSUME NEW s \in Texts, NEW x \in filled PROVE s \o x \in Texts \ {<<>>}
    BY <1>a, SomethingIsSaid
  <2>2. ASSUME NEW s \in Texts, NEW x \in filled PROVE x \o s \in Texts \ {<<>>}
    BY <1>a, SomethingIsSaid
  <2> QED
    BY <2>1, <2>2 DEF filled
<1>c. \A x \in filled : x \in Texts
  BY <1>a
<1>4. BlanksAreIn(filled)
  BY <1>2, <1>b DEF BlanksAreIn
<1>d. \A m \in {"{", "}", "[", "]", ":", ","} : <<m>> \in filled
  BY <1>3 DEF Marks
<1>5. ContainersAreIn(filled, filled, filled)
  BY <1>2, <1>b, <1>c, <1>d DEF ContainersAreIn
<1>6. \A b, c \in Blanks, n \in Names, v \in filled : Member(b, n, c, v) \in filled
  <2>1. SUFFICES ASSUME NEW b \in Blanks, NEW c \in Blanks, NEW n \in Names, NEW v \in filled
                 PROVE  Member(b, n, c, v) \in filled
    OBVIOUS
  <2>2. b \o <<n>> \in filled
    BY <1>2, <1>3, <1>b
  <2>3. (b \o <<n>>) \o c \in filled
    BY <2>2, <1>2, <1>b
  <2>4. ((b \o <<n>>) \o c) \o <<":">> \in filled
    BY <2>3, <1>c, <1>d, <1>b
  <2>5. (((b \o <<n>>) \o c) \o <<":">>) \o v \in filled
    BY <2>4, <1>c, <1>b
  <2> QED
    BY <2>5 DEF Member
<1>7. ListsAreIn(filled, filled, filled)
  <2>1. \A e, v \in filled : e \o <<",">> \o v \in filled
    BY <1>b, <1>c, <1>d
  <2> QED
    BY <1>6, <2>1 DEF ListsAreIn
<1>8. LinesAreJoined(filled)
  <2>1. \A s, u \in Texts : (s \o <<"newline">>) \o u \in filled
    <3>1. <<"newline">> \in filled
      BY <1>3 DEF Spaces
    <3>2. \A s \in Texts : s \o <<"newline">> \in filled
      BY <1>b, <3>1
    <3> QED
      BY <1>b, <3>2
  <2> QED
    BY <2>1 DEF LinesAreJoined
<1>9. AreJson(filled, filled, filled)
  BY <1>1, <1>4, <1>5, <1>7 DEF AreJson
<1>10. filled \in SUBSET Texts
  BY <1>c
<1>11. t \in filled
  BY <1>8, <1>9, <1>10 DEF IsJson
<1> QED
  BY <1>11, <1>a

(* The parser accepts nothing but JSON, once the lines are joined: a text  *)
(* of any length over any alphabet, nested as deeply as it may be.         *)
THEOREM AcceptedIsJson == Spec => [](verdict = "accepted" => IsJson(text))
<1>1. ReadingInv => (verdict = "accepted" => IsJson(text))
  BY AcceptedTextIsJson DEF ReadingInv
<1>2. ReadingInv /\ [Next]_vars => ReadingInv'
  BY NextKeepsReading
<1> QED
  BY <1>1, <1>2, InitReading, PTL DEF Spec
=============================================================================
