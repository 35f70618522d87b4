----------------------------- MODULE JsonSyntax ------------------------------
(***************************************************************************)
(* The syntax of RFC 8259, for texts that are sequences of symbols: a      *)
(* punctuation mark, a string or a word (true, false, null) as a whole, a  *)
(* digit or another character of a number, white space, or junk.           *)
(***************************************************************************)
EXTENDS Integers, SequencesExt

CONSTANTS
  Names,          \* strings
  Words,          \* true, false and null
  DigitValue,     \* digits -> their values
  MaxUnsigned,    \* 2^64 - 1
  MinInteger,     \* -2^63
  MaxExponent     \* the largest power of ten that a double can hold

Digits == DOMAIN DigitValue

ASSUME GrammarAssumption ==
  /\ DigitValue \in [Digits -> 0..9]
  /\ Digits \cap {"-", "+", ".", "e"} = {}
  /\ \E d \in Digits : DigitValue[d] = 0
  /\ MaxUnsigned \in Nat /\ MinInteger \in Int /\ MaxExponent \in Nat
-----------------------------------------------------------------------------
(* Numbers.                                                                *)

NumberSymbols == Digits \cup {"-", "+", ".", "e"}

IsNatural(s) == s # <<>> /\ \A i \in DOMAIN s : s[i] \in Digits

IsWhole(s) == IsNatural(s) /\ (Len(s) > 1 => DigitValue[Head(s)] # 0)

Without(signs, s) == IF s # <<>> /\ Head(s) \in signs THEN Tail(s) ELSE s

PositionOf(mark, s) ==
  IF \E i \in DOMAIN s : s[i] = mark
  THEN CHOOSE i \in DOMAIN s : s[i] = mark /\ \A j \in 1..(i - 1) : s[j] # mark
  ELSE Len(s) + 1

UpTo(mark, s) == SubSeq(s, 1, PositionOf(mark, s) - 1)
From(mark, s) == SubSeq(s, PositionOf(mark, s), Len(s))

(* -? whole (. digits)? (e (+|-)? digits)?                                 *)
IsNumber(s) ==
  LET mantissa == Without({"-"}, UpTo("e", s))
      exponent == From("e", s)
  IN  /\ IsWhole(UpTo(".", mantissa))
      /\ From(".", mantissa) # <<>> => IsNatural(Tail(From(".", mantissa)))
      /\ exponent # <<>> => IsNatural(Without({"+", "-"}, Tail(exponent)))

BeginsNumber(s) == IsNumber(s) \/ \E d \in Digits : IsNumber(Append(s, d))

DecimalValue(digits) ==
  FoldLeft(LAMBDA sum, d : 10 * sum + DigitValue[d], 0, digits)

IntegerValue(s) ==
  IF Head(s) = "-" THEN -DecimalValue(Tail(s)) ELSE DecimalValue(s)

(* A number without fraction and exponent is an integer, if it fits.       *)
NumberLeaf(s) ==
  IF \A i \in DOMAIN s : s[i] \notin {".", "e"}
  THEN IF Head(s) # "-" /\ IntegerValue(s) <= MaxUnsigned
       THEN [type |-> "unsigned", datum |-> IntegerValue(s)]
       ELSE IF Head(s) = "-" /\ IntegerValue(s) >= MinInteger
       THEN [type |-> "integer", datum |-> IntegerValue(s)]
       ELSE [type |-> "float", datum |-> s]
  ELSE [type |-> "float", datum |-> s]

(* Not too large for a double: no digit but 0 stands for a power of ten    *)
(* beyond the largest, wherever the point and whatever the exponent is.    *)
IsFinite(s) ==
  LET mantissa == Without({"-"}, UpTo("e", s))
      digits == SelectSeq(mantissa, LAMBDA c : c # ".")
      exponent == Without({"+"}, Tail(From("e", s)))
      power == IF From("e", s) = <<>> THEN 0 ELSE IntegerValue(exponent)
  IN  \A i \in DOMAIN digits :
        DigitValue[digits[i]] # 0 => Len(UpTo(".", mantissa)) - i + power <= MaxExponent

(* A number that becomes a value: an integer that fits, or a double.       *)
CanBeHeld(s) == NumberLeaf(s).type = "float" => IsFinite(s)
-----------------------------------------------------------------------------
(* Texts.                                                                  *)

Marks == {"{", "}", "[", "]", ":", ","}

Spaces == {"space", "newline"}

Symbols == Marks \cup Spaces \cup {"junk"} \cup Names \cup Words \cup NumberSymbols

Texts == Seq(Symbols)

Blanks == Seq(Spaces)

(* The productions: texts of values, of lists of values and of lists of    *)
(* members that are closed under them.                                     *)
ScalarsAreIn(values) ==
  /\ \A n \in Names \cup Words : <<n>> \in values
  /\ \A s \in Seq(NumberSymbols) : IsNumber(s) /\ CanBeHeld(s) => s \in values

ContainersAreIn(values, elements, members) ==
  /\ \A b \in Blanks : <<"[">> \o b \o <<"]">> \in values
  /\ \A b \in Blanks : <<"{">> \o b \o <<"}">> \in values
  /\ \A e \in elements : <<"[">> \o e \o <<"]">> \in values
  /\ \A m \in members : <<"{">> \o m \o <<"}">> \in values

Member(before, name, after, value) ==
  before \o <<name>> \o after \o <<":">> \o value

ListsAreIn(values, elements, members) ==
  /\ values \subseteq elements
  /\ \A e \in elements, v \in values : e \o <<",">> \o v \in elements
  /\ \A b, c \in Blanks, n \in Names, v \in values :
       /\ Member(b, n, c, v) \in members
       /\ \A m \in members : m \o <<",">> \o Member(b, n, c, v) \in members

BlanksAreIn(values) ==
  \A b \in Blanks, v \in values : b \o v \in values /\ v \o b \in values

AreJson(values, elements, members) ==
  /\ ScalarsAreIn(values) /\ BlanksAreIn(values)
  /\ ContainersAreIn(values, elements, members)
  /\ ListsAreIn(values, elements, members)

(* A line end may stand anywhere, once the lines are joined.               *)
LinesAreJoined(values) ==
  \A s, t \in Texts : s \o t \in values => s \o <<"newline">> \o t \in values

HasLineEnd(text) == \E i \in DOMAIN text : text[i] = "newline"

(* The text is in the least set of values there is.                        *)
IsJson(text) ==
  \A values, elements, members \in SUBSET Texts :
    /\ AreJson(values, elements, members)
    /\ HasLineEnd(text) => LinesAreJoined(values)
    => text \in values
=============================================================================
