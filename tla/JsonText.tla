------------------------------ MODULE JsonText ------------------------------
(***************************************************************************)
(* How a configuration file becomes a document: c_ifile's lines, which     *)
(* lose their ends, and nlohmann::json::parse: its lexer, its parser with  *)
(* the stack of open containers, and the handler that builds the document. *)
(* Requests are parsed the same way, without the lines.                    *)
(*                                                                         *)
(* The text is made up while it is read. A string or a word is one symbol, *)
(* and so is an error in one of them: junk.                                *)
(***************************************************************************)
EXTENDS JsonSyntax

CONSTANT
  Bounds   \* alphabets of texts, each with the length of the longest text

(* The end of the input, or a NUL byte, which the lexer takes for it and   *)
(* behind which a file is not even handed to it (c_str()).                 *)
End == "end"

ASSUME TextAssumption ==
  /\ End \notin Symbols
  /\ \A b \in Bounds : b.alphabet \subseteq Symbols /\ b.length \in Nat

VARIABLES
  bound,     \* the one of Bounds that the text keeps to
  text,      \* the file as far as it has been read
  current,   \* the lexer's current symbol
  ungot,     \* next_unget: current is to be read again
  scanner,   \* the state of the lexer; "token" when it has returned one
  buffer,    \* token_buffer: the number that is being read
  kind,      \* number_type
  token,     \* last_token, with its value
  at,        \* what the parser expects: the place of its get_token
  states,    \* the kinds of the open containers
  refs,      \* ref_stack: their paths
  element,   \* object_element: the path of the member to be assigned
  document,  \* the document so far
  verdict    \* "reading", "accepted" or "refused"

lexerVars == <<bound, text, current, ungot, scanner, buffer, kind, token>>

parserVars == <<at, states, refs, element, document, verdict>>

vars == <<lexerVars, parserVars>>
-----------------------------------------------------------------------------
(* The lexer.                                                              *)

(* A line end is not passed on: c_ifile::read joins the lines.             *)
LineEnd ==
  /\ verdict = "reading" /\ scanner # "token"
  /\ "newline" \in bound.alphabet
  /\ ~ungot /\ current # End /\ Len(text) < bound.length
  /\ text' = Append(text, "newline")
  /\ UNCHANGED <<bound, current, ungot, scanner, buffer, kind, token, parserVars>>

(* get: the symbol that was put back, or the next one.                     *)
Coming ==
  IF ungot THEN {current}
  ELSE IF current = End \/ Len(text) = bound.length THEN {End}
  ELSE {End} \cup (bound.alphabet \ {"newline"})

Get(c) ==
  /\ text' = IF ungot \/ c = End THEN text ELSE Append(text, c)
  /\ current' = c
  /\ UNCHANGED bound

Return(type, datum) ==
  /\ token' = [type |-> type, datum |-> datum]
  /\ scanner' = "token"

(* scan: white space is skipped, and the first symbol of a token tells     *)
(* what it is.                                                             *)
Scan ==
  /\ verdict = "reading" /\ scanner = "start"
  /\ \E c \in Coming :
       /\ Get(c)
       /\ \/ /\ c = "space"
             /\ UNCHANGED <<scanner, buffer, kind, token>>
          \/ /\ c \in Marks \cup {End}
             /\ Return(c, 0)
             /\ UNCHANGED <<buffer, kind>>
          \/ /\ c \in Names
             /\ Return("string", c)
             /\ UNCHANGED <<buffer, kind>>
          \/ /\ c \in Words
             /\ Return("word", c)
             /\ UNCHANGED <<buffer, kind>>
          \/ /\ c \in Digits \cup {"-"}
             /\ scanner' = IF c = "-" THEN "minus"
                           ELSE IF DigitValue[c] = 0 THEN "zero" ELSE "any1"
             /\ kind' = IF c = "-" THEN "integer" ELSE "unsigned"
             /\ buffer' = <<c>>
             /\ UNCHANGED token
          \/ /\ c \in {"junk", "+", ".", "e"}
             /\ Return("error", 0)
             /\ UNCHANGED <<buffer, kind>>
  /\ ungot' = FALSE
  /\ UNCHANGED parserVars

(* The state of scan_number after the symbol c; "done" if c is no part of  *)
(* the number.                                                             *)
NumberStep(state, c) ==
  LET number(to, other) == IF c \in Digits THEN to ELSE other
      point(other) == IF c = "." THEN "decimal1" ELSE other
      exponent(other) == IF c = "e" THEN "exponent" ELSE other
  IN  CASE state = "minus" -> IF c \in Digits /\ DigitValue[c] = 0 THEN "zero"
                              ELSE number("any1", "error")
        [] state = "zero" -> point(exponent("done"))
        [] state = "any1" -> number("any1", point(exponent("done")))
        [] state = "decimal1" -> number("decimal2", "error")
        [] state = "decimal2" -> number("decimal2", exponent("done"))
        [] state = "exponent" ->
             IF c \in {"+", "-"} THEN "sign" ELSE number("any2", "error")
        [] state = "sign" -> number("any2", "error")
        [] state = "any2" -> number("any2", "done")

(* Mutant: errno is not looked at, and a large number wraps.               *)
WrappedToken(type, digits) ==
  IF type = "float" THEN [type |-> "float", datum |-> digits]
  ELSE [type |-> type, datum |-> IntegerValue(digits) % (MaxUnsigned + 1)]

(* scan_number_done: integers that do not fit fall back to a double.       *)
NumberToken(type, digits) ==
  IF \/ type = "unsigned" /\ DecimalValue(digits) <= MaxUnsigned
     \/ type = "integer" /\ IntegerValue(digits) >= MinInteger
  THEN [type |-> type, datum |-> IntegerValue(digits)]
  ELSE [type |-> "float", datum |-> digits]

(* One symbol in scan_number. The symbol after the number is put back.     *)
ScanNumber ==
  /\ verdict = "reading" /\ scanner \notin {"start", "token"}
  /\ \E c \in Coming :
       /\ Get(c)
       /\ LET next == NumberStep(scanner, c) IN
          \/ /\ next = "error"
             /\ Return("error", 0)
             /\ UNCHANGED <<ungot, buffer, kind>>
          \/ /\ next = "done"
             /\ ungot' = TRUE
             /\ token' = NumberToken(kind, buffer)
             /\ scanner' = "token"
             /\ UNCHANGED <<buffer, kind>>
          \/ /\ next \notin {"error", "done"}
             /\ scanner' = next
             /\ kind' = IF next \in {"decimal1", "exponent"} THEN "float" ELSE kind
             /\ buffer' = Append(buffer, c)
             /\ UNCHANGED <<ungot, token>>
  /\ UNCHANGED parserVars
-----------------------------------------------------------------------------
(* The handler that builds the document.                                   *)

(* handle_value: where the next value goes.                                *)
Place ==
  IF refs = <<>> THEN <<>>
  ELSE IF document[Last(refs)].type = "array"
  THEN Append(Last(refs),
              ToString(Cardinality({p \in DOMAIN document :
                                      p # <<>> /\ Front(p) = Last(refs)})))
  ELSE element

(* Mutant: what was below the path stays.                                  *)
PutOver(d, path, leaf) ==
  [p \in DOMAIN d \cup {path} |-> IF p = path THEN leaf ELSE d[p]]

(* The document d with the leaf at path and nothing below it.              *)
Put(d, path, leaf) ==
  LET others == {p \in DOMAIN d : ~IsPrefix(path, p)} IN
  [p \in others \cup {path} |-> IF p = path THEN leaf ELSE d[p]]

Null == [type |-> "word", datum |-> "null"]

(* key: the member is there, as null, before its value is.                 *)
Key(name) ==
  LET path == Append(Last(refs), name) IN
  /\ element' = path
  /\ document' = IF path \in DOMAIN document THEN document
                 ELSE Put(document, path, Null)

-----------------------------------------------------------------------------
(* The parser: one action per token it takes.                              *)

Take ==
  /\ verdict = "reading" /\ scanner = "token"
  /\ scanner' = "start"
  /\ UNCHANGED <<bound, text, current, ungot, buffer, kind, token>>

Refuse ==
  /\ verdict' = "refused"
  /\ UNCHANGED <<at, states, refs, element, document>>

(* A token that no case of the switch and no condition accepts.            *)
Unexpected(types) == token.type \notin types /\ Refuse

(* What the parser looks for after a value.                                *)
AfterValue(stack) ==
  IF stack = <<>> THEN "end"
  ELSE IF Last(stack) = "array" THEN "after_element" ELSE "after_member"

Scalars == {"string", "word", "unsigned", "integer", "float"}

(* A value that is no container.                                           *)
ParseScalar ==
  /\ Take /\ at = "value" /\ token.type \in Scalars
  /\ \/ /\ token.type = "float" /\ ~IsFinite(token.datum)
        /\ Refuse
     \/ /\ token.type = "float" => IsFinite(token.datum)
        /\ document' = Put(document, Place, token)
        /\ at' = AfterValue(states)
        /\ UNCHANGED <<states, refs, element, verdict>>

(* start_object and start_array.                                           *)
ParseStart ==
  /\ Take /\ at = "value" /\ token.type \in {"{", "["}
  /\ document' = Put(document, Place,
                     [type |-> IF token.type = "[" THEN "array" ELSE "object",
                      datum |-> 0])
  /\ refs' = Append(refs, Place)
  /\ at' = IF token.type = "[" THEN "array_start" ELSE "object_start"
  /\ UNCHANGED <<states, element, verdict>>

RefuseValue ==
  /\ Take /\ at = "value" /\ Unexpected(Scalars \cup {"{", "["})

(* After "{": the end of an empty object, or the first name.               *)
ParseObjectStart ==
  /\ Take /\ at = "object_start"
  /\ \/ /\ token.type = "}"
        /\ refs' = Front(refs)
        /\ at' = AfterValue(states)
        /\ UNCHANGED <<states, element, document, verdict>>
     \/ /\ token.type = "string"
        /\ Key(token.datum)
        /\ at' = "first_colon"
        /\ UNCHANGED <<states, refs, verdict>>
     \/ Unexpected({"}", "string"})

ParseFirstColon ==
  /\ Take /\ at = "first_colon"
  /\ \/ /\ token.type = ":"
        /\ states' = Append(states, "object")
        /\ at' = "value"
        /\ UNCHANGED <<refs, element, document, verdict>>
     \/ Unexpected({":"})

(* After "[": the end of an empty array, or the array is open and the      *)
(* token is looked at again.                                               *)
ParseArrayStart ==
  /\ verdict = "reading" /\ scanner = "token" /\ at = "array_start"
  /\ \/ /\ token.type = "]"
        /\ refs' = Front(refs)
        /\ at' = AfterValue(states)
        /\ scanner' = "start"
        /\ UNCHANGED states
     \/ /\ token.type # "]"
        /\ states' = Append(states, "array")
        /\ at' = "value"
        /\ UNCHANGED <<refs, scanner>>
  /\ UNCHANGED <<bound, text, current, ungot, buffer, kind, token, element, document, verdict>>

(* Mutant: the parser forgets to take an object that ends off its stack.   *)
ParseEndOfOne ==
  /\ states' = IF Last(states) = "object" /\ Len(states) > 1 THEN states
               ELSE Front(states)
  /\ refs' = Front(refs)
  /\ at' = AfterValue(states')
  /\ UNCHANGED <<element, document, verdict>>

(* end_object or end_array: both stacks lose their last element.           *)
ParseEnd ==
  /\ states' = Front(states)
  /\ refs' = Front(refs)
  /\ at' = AfterValue(Front(states))
  /\ UNCHANGED <<element, document, verdict>>

ParseAfterElement ==
  /\ Take /\ at = "after_element"
  /\ \/ /\ token.type = ","
        /\ at' = "value"
        /\ UNCHANGED <<states, refs, element, document, verdict>>
     \/ /\ token.type = "]"
        /\ ParseEnd
     \/ Unexpected({",", "]"})

ParseAfterMember ==
  /\ Take /\ at = "after_member"
  /\ \/ /\ token.type = ","
        /\ at' = "key"
        /\ UNCHANGED <<states, refs, element, document, verdict>>
     \/ /\ token.type = "}"
        /\ ParseEnd
     \/ Unexpected({",", "}"})

ParseKey ==
  /\ Take /\ at = "key"
  /\ \/ /\ token.type = "string"
        /\ Key(token.datum)
        /\ at' = "colon"
        /\ UNCHANGED <<states, refs, verdict>>
     \/ Unexpected({"string"})

ParseColon ==
  /\ Take /\ at = "colon"
  /\ \/ /\ token.type = ":"
        /\ at' = "value"
        /\ UNCHANGED <<states, refs, element, document, verdict>>
     \/ Unexpected({":"})

(* parse is strict: nothing may follow the value.                          *)
ParseEndOfInput ==
  /\ Take /\ at = "end"
  /\ \/ /\ token.type = End
        /\ verdict' = "accepted"
        /\ UNCHANGED <<at, states, refs, element, document>>
     \/ Unexpected({End})
-----------------------------------------------------------------------------
Init ==
  /\ bound \in Bounds
  /\ text = <<>> /\ current = "space" /\ ungot = FALSE
  /\ scanner = "start" /\ buffer = <<>> /\ kind = "unsigned"
  /\ token = [type |-> "error", datum |-> 0]
  /\ at = "value" /\ states = <<>> /\ refs = <<>> /\ element = <<>>
  /\ document = [p \in {<<>>} |-> Null]
  /\ verdict = "reading"

Next ==
  \/ LineEnd \/ Scan \/ ScanNumber
  \/ ParseScalar \/ ParseStart \/ RefuseValue
  \/ ParseObjectStart \/ ParseFirstColon \/ ParseArrayStart
  \/ ParseAfterElement \/ ParseAfterMember \/ ParseKey \/ ParseColon
  \/ ParseEndOfInput

Spec == Init /\ [][Next]_vars
-----------------------------------------------------------------------------
(* The parser's stack of open containers and the handler's stack of places *)
(* agree, so that none of the library's assertions can fail: a container   *)
(* is known to the handler first, and the member to be assigned is one of  *)
(* the object that is open.                                                *)
StacksAgree ==
  verdict = "reading" =>
    /\ Len(refs) = Len(states) +
         (IF at \in {"object_start", "array_start", "first_colon"} THEN 1 ELSE 0)
    /\ \A i \in DOMAIN refs :
         /\ refs[i] \in DOMAIN document
         /\ document[refs[i]].type =
              (IF i \in DOMAIN states THEN states[i]
               ELSE IF at = "array_start" THEN "array" ELSE "object")
         /\ i > 1 => Front(refs[i]) = refs[i - 1]
    /\ \/ at \in {"colon", "first_colon"}
       \/ at = "value" /\ states # <<>> /\ Last(states) = "object"
       => element \in DOMAIN document /\ Front(element) = Last(refs)
=============================================================================
