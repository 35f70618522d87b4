----------------------------- MODULE JsonGrammar -----------------------------
(***************************************************************************)
(* What a JSON text says, to compare the parser in JsonText with. A text   *)
(* says a document: a function from paths to leaves, the root at the empty *)
(* path. A container is a leaf of its own; an element of an array is named *)
(* by its index, as in a JSON pointer.                                     *)
(***************************************************************************)
EXTENDS JsonSyntax

(* Tokens: longest runs of the symbols of numbers, and all other symbols   *)
(* but white space by themselves.                                          *)

TokensOf(text) ==
  FoldLeft(
    LAMBDA so_far, i :
      IF text[i] \in Spaces THEN so_far
      ELSE IF i > 1 /\ {text[i - 1], text[i]} \subseteq NumberSymbols
           THEN Append(Front(so_far), Append(Last(so_far), text[i]))
      ELSE Append(so_far, <<text[i]>>),
    <<>>, [i \in 1..Len(text) |-> i])

IsName(token) == Len(token) = 1 /\ token[1] \in Names

IsWord(token) == Len(token) = 1 /\ token[1] \in Words

Scalar(leaf) == [p \in {<<>>} |-> leaf]

(* The document a token is by itself: one, or none.                        *)
ScalarOf(token) ==
  IF IsName(token) THEN {Scalar([type |-> "string", datum |-> token[1]])}
  ELSE IF IsWord(token) THEN {Scalar([type |-> "word", datum |-> token[1]])}
  ELSE IF token[1] \in NumberSymbols /\ IsNumber(token) /\ CanBeHeld(token)
       THEN {Scalar(NumberLeaf(token))}
  ELSE {}

(* A container of parts, which are pairs of a name or an index and a       *)
(* document. Of those with one name the last counts.                       *)
Container(type, parts) ==
  LET keys == {parts[i][1] : i \in DOMAIN parts}
      of(key) == parts[CHOOSE i \in DOMAIN parts :
                         /\ parts[i][1] = key
                         /\ \A j \in DOMAIN parts : parts[j][1] = key => j <= i][2]
      paths == UNION {{<<key>> \o p : p \in DOMAIN of(key)} : key \in keys}
  IN  [p \in {<<>>} \cup paths |->
         IF p = <<>> THEN [type |-> type, datum |-> 0] ELSE of(Head(p))[Tail(p)]]
-----------------------------------------------------------------------------
(* What the tokens t[i..j] say as a value, as a list of values and as a    *)
(* list of members: a set of one element, or the empty set.                *)

RECURSIVE Value(_, _, _), Elements(_, _, _), Members(_, _, _)

Value(t, i, j) ==
  IF i > j THEN {}
  ELSE IF i = j THEN ScalarOf(t[i])
  ELSE IF t[i] = <<"[">> /\ t[j] = <<"]">>
       THEN {Container("array", [k \in DOMAIN e |-> <<ToString(k - 1), e[k]>>]) :
               e \in IF j = i + 1 THEN {<<>>} ELSE Elements(t, i + 1, j - 1)}
  ELSE IF t[i] = <<"{">> /\ t[j] = <<"}">>
       THEN {Container("object", m) :
               m \in IF j = i + 1 THEN {<<>>} ELSE Members(t, i + 1, j - 1)}
  ELSE {}

Commas(t, i, j) == {k \in i..j : t[k] = <<",">>}

Elements(t, i, j) ==
  {<<v>> : v \in Value(t, i, j)}
  \cup UNION {{<<v>> \o e : v \in Value(t, i, k - 1), e \in Elements(t, k + 1, j)} :
                k \in Commas(t, i, j)}

Members(t, i, j) ==
  IF i + 2 <= j /\ IsName(t[i]) /\ t[i + 1] = <<":">>
  THEN {<<<<t[i][1], v>>>> : v \in Value(t, i + 2, j)}
       \cup UNION {{<<<<t[i][1], v>>>> \o m :
                      v \in Value(t, i + 2, k - 1), m \in Members(t, k + 1, j)} :
                     k \in Commas(t, i + 2, j)}
  ELSE {}

(* Whether t, from i on, is how a value, a list of values or a list of     *)
(* members begins; open: whether the last token may be one that goes on.   *)
RECURSIVE BeginsValue(_, _, _), BeginsElements(_, _, _), BeginsMembers(_, _, _)

BeginsValue(t, i, open) ==
  \/ i > Len(t)
  \/ Value(t, i, Len(t)) # {}
  \/ i = Len(t) /\ open /\ t[i][1] \in NumberSymbols /\ BeginsNumber(t[i])
  \/ t[i] = <<"[">> /\ BeginsElements(t, i + 1, open)
  \/ t[i] = <<"{">> /\ BeginsMembers(t, i + 1, open)

BeginsElements(t, i, open) ==
  \/ BeginsValue(t, i, open)
  \/ \E k \in Commas(t, i, Len(t)) :
       Value(t, i, k - 1) # {} /\ BeginsElements(t, k + 1, open)

BeginsMembers(t, i, open) ==
  \/ i > Len(t)
  \/ /\ IsName(t[i])
     /\ \/ i = Len(t)
        \/ /\ t[i + 1] = <<":">>
           /\ \/ BeginsValue(t, i + 2, open)
              \/ \E k \in Commas(t, i + 2, Len(t)) :
                   /\ Value(t, i + 2, k - 1) # {}
                   /\ BeginsMembers(t, k + 1, open)

(* What a text says, if it is a JSON text; whether it is how one begins.   *)
Denotations(text) == Value(TokensOf(text), 1, Len(TokensOf(text)))

IsBeginning(text) ==
  BeginsValue(TokensOf(text), 1, text = <<>> \/ Last(text) \notin Spaces)

SameDocument(d, e) ==
  /\ DOMAIN d = DOMAIN e
  /\ \A p \in DOMAIN d : d[p].type = e[p].type /\ d[p].datum = e[p].datum
=============================================================================
