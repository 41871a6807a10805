----------------------------- MODULE JsonValue -----------------------------
(***************************************************************************)
(* Json::Value and Json::FastWriter of the bundled JsonCpp, as far as the  *)
(* endpoint uses them.                                                     *)
(*                                                                         *)
(* A text is a sequence of bytes.  A value is a record with its ValueType: *)
(* an integer, a real (m times ten to the e), a text, a sequence of values *)
(* or a function from member names to values.  The widths of the integer   *)
(* types are parameters.                                                   *)
(***************************************************************************)
EXTENDS Integers, Sequences, SequencesExt

CONSTANTS
    maxInt,         \* Value::maxInt
    maxLargestInt   \* Value::maxLargestInt

ASSUME WidthAssumption == maxInt \in Nat /\ maxLargestInt \in Nat /\ maxInt < maxLargestInt

minInt         == -maxInt - 1
minLargestInt  == -maxLargestInt - 1
maxLargestUInt == 2 * maxLargestInt + 1

\* Value::Value(...)
NullValue       == [type |-> "nullValue"]
IntValue(n)     == [type |-> "intValue", n |-> n]
UIntValue(n)    == [type |-> "uintValue", n |-> n]
RealValue(m, e) == [type |-> "realValue", m |-> m, e |-> e]
BoolValue(b)    == [type |-> "booleanValue", b |-> b]
StringValue(s)  == [type |-> "stringValue", s |-> s]
ArrayValue(vs)  == [type |-> "arrayValue", elements |-> vs]
ObjectValue(f)  == [type |-> "objectValue", members |-> f]
EmptyObject     == ObjectValue([k \in {} |-> NullValue])

-----------------------------------------------------------------------------
(* Members                                                                 *)

\* CZString::operator<: the bytes compared, then the lengths.
CZLess(s, t) ==
    \/ /\ Len(s) < Len(t) /\ s = SubSeq(t, 1, Len(s))
    \/ \E i \in DOMAIN s \cap DOMAIN t :
          /\ SubSeq(s, 1, i - 1) = SubSeq(t, 1, i - 1)
          /\ s[i] < t[i]

\* The order of std::map, in which a map is iterated.
getMemberNames(object) == SetToSortSeq(DOMAIN object.members, CZLess)

\* root[key] = value, which makes an object of a null value.
SetMember(root, key, value) ==
    LET f == IF root.type = "nullValue" THEN EmptyObject.members ELSE root.members
    IN  ObjectValue([k \in DOMAIN f \cup {key} |-> IF k = key THEN value ELSE f[k]])

\* F of x, which is evaluated once.
Let(x, F(_)) == CHOOSE result \in {F(y) : y \in {x}} : TRUE

\* Reading a member or a number either succeeds or throws.
Throws     == [ok |-> FALSE]
Returns(x) == [ok |-> TRUE, v |-> x]

\* root[key] of a message: a value that is missing is null.
find(root, key) ==
    CASE root.type = "nullValue" -> Returns(NullValue)
      [] root.type = "objectValue" ->
            Returns(IF key \in DOMAIN root.members THEN root.members[key] ELSE NullValue)
      [] OTHER -> Throws

Pow10(n) == FoldLeft(LAMBDA x, i : 10 * x, 1, [i \in 1..n |-> i])

\* lo <= m * 10^e <= hi
InRange(real, lo, hi) ==
    IF real.e >= 0 THEN lo <= real.m * Pow10(real.e) /\ real.m * Pow10(real.e) <= hi
                   ELSE lo * Pow10(-real.e) <= real.m /\ real.m <= hi * Pow10(-real.e)

\* The conversion of a double to an int cuts off the fraction.
Truncate(real) ==
    IF real.e >= 0 THEN real.m * Pow10(real.e)
    ELSE IF real.m >= 0 THEN real.m \div Pow10(-real.e)
    ELSE -((-real.m) \div Pow10(-real.e))

isInt_Strict(value) == minInt < value.n /\ value.n < maxInt
isInt(value) == minInt <= value.n /\ value.n <= maxInt

asInt(value) ==
    CASE value.type \in {"intValue", "uintValue"} ->
            IF isInt(value) THEN Returns(value.n) ELSE Throws
      [] value.type = "realValue" ->
            IF InRange(value, minInt, maxInt) THEN Returns(Truncate(value)) ELSE Throws
      [] value.type = "nullValue" -> Returns(0)
      [] value.type = "booleanValue" -> Returns(IF value.b THEN 1 ELSE 0)
      [] OTHER -> Throws

\* root[key].asInt()
IntMember(root, key) ==
    LET m == find(root, key) IN IF m.ok THEN asInt(m.v) ELSE Throws

-----------------------------------------------------------------------------
(* Writing                                                                 *)

\* "text" as bytes, from the characters that occur in what is written here.
Ascii == [quote |-> 34, plus |-> 43, comma |-> 44, minus |-> 45, dot |-> 46, slash |-> 47,
          zero |-> 48, colon |-> 58, open |-> 91, backslash |-> 92, close |-> 93,
          begin |-> 123, end |-> 125, star |-> 42, newline |-> 10, return |-> 13]
True  == <<116, 114, 117, 101>>
False == <<102, 97, 108, 115, 101>>
Null  == <<110, 117, 108, 108>>

RECURSIVE uintToString(_)
uintToString(n) ==
    (IF n \div 10 = 0 THEN <<>> ELSE uintToString(n \div 10)) \o <<Ascii.zero + (n % 10)>>

\* The least integer has no counterpart that could be negated.
valueToString(n) ==
    CASE n = minLargestInt -> <<Ascii.minus>> \o uintToString(maxLargestInt + 1)
      [] n # minLargestInt /\ n < 0 -> <<Ascii.minus>> \o uintToString(-n)
      [] OTHER -> uintToString(n)

\* The decimals of a real without the zeros at the end, or ".0".  The code prints
\* 17 digits of the double next to the real: this is the text where those are the
\* digits of the real and no exponent is needed.
realToString(value) ==
    LET k        == IF value.e < 0 THEN -value.e ELSE 0
        n        == (IF value.m < 0 THEN -value.m ELSE value.m)
                        * Pow10(IF value.e > 0 THEN value.e ELSE 0)
        decimals == [i \in 1..k |-> Ascii.zero + ((n \div Pow10(k - i)) % 10)]
        used     == {i \in 1..k : decimals[i] # Ascii.zero}
    IN  (IF value.m < 0 THEN <<Ascii.minus>> ELSE <<>>)
            \o uintToString(n \div Pow10(k)) \o <<Ascii.dot>>
            \o (IF used = {} THEN <<Ascii.zero>> ELSE SubSeq(decimals, 1, Max(used)))

asString(value) ==
    CASE value.type = "nullValue" -> Returns(<<>>)
      [] value.type = "stringValue" -> Returns(value.s)
      [] value.type = "booleanValue" -> Returns(IF value.b THEN True ELSE False)
      [] value.type \in {"intValue", "uintValue"} -> Returns(valueToString(value.n))
      [] value.type = "realValue" -> Returns(realToString(value))
      [] OTHER -> Throws

\* root[key].asString()
StringMember(root, key) ==
    LET m == find(root, key) IN IF m.ok THEN asString(m.v) ELSE Throws

doesAnyCharRequireEscaping(s) ==
    \E c \in ToSet(s) : c \in {Ascii.backslash, Ascii.quote} \/ c < 32 \/ c > 127

REPLACEMENT_CHARACTER == 65533

\* The code point at position i and how many bytes it takes.  Continuation
\* bytes are not looked at; a code point that needs fewer bytes, a surrogate
\* or a truncated sequence is replaced.
utf8ToCodepoint(s, i) ==
    LET Low(k) == s[i + k] % 64
        Checked(n, least, cp) ==
            [len |-> n, cp |-> IF cp < least \/ cp \in 55296..57343 THEN REPLACEMENT_CHARACTER
                                                                  ELSE cp]
        Has(n) == Len(s) - i + 1 >= n
    IN
    CASE s[i] < 128 -> [len |-> 1, cp |-> s[i]]
      [] s[i] \in 128..223 /\ Has(2) -> Checked(2, 128, (s[i] % 32) * 64 + Low(1))
      [] s[i] \in 224..239 /\ Has(3) ->
            Checked(3, 2048, (s[i] % 16) * 4096 + Low(1) * 64 + Low(2))
      [] s[i] \in 240..247 /\ Has(4) ->
            Checked(4, 65536, (s[i] % 8) * 262144 + Low(1) * 4096 + Low(2) * 64 + Low(3))
      [] OTHER -> [len |-> 1, cp |-> REPLACEMENT_CHARACTER]

HexDigit(x) == IF x < 10 THEN Ascii.zero + x ELSE 87 + x
toHex16Bit(x) == [i \in 1..4 |-> HexDigit((x \div (16 ^ (4 - i))) % 16)]
appendHex(x) == <<Ascii.backslash, 117>> \o toHex16Bit(x)

\* The letters of the short escapes, by the character they stand for.
ShortEscape == [c \in {34, 92, 8, 12, 10, 13, 9} |->
                  CASE c = 34 -> 34 [] c = 92 -> 92 [] c = 8 -> 98 [] c = 12 -> 102
                    [] c = 10 -> 110 [] c = 13 -> 114 [] c = 9 -> 116]

EscapeCodepoint_OneEscape(cp) ==
    CASE cp < 32 -> appendHex(cp)
      [] cp \in 32..127 -> <<cp>>
      [] OTHER -> appendHex(cp % 65536)

\* Code points beyond the basic plane are two escapes.
EscapeCodepoint(cp) ==
    CASE cp < 32 -> appendHex(cp)
      [] cp \in 32..127 -> <<cp>>
      [] cp \in 128..65535 -> appendHex(cp)
      [] OTHER -> appendHex(55296 + (((cp - 65536) \div 1024) % 1024))
                    \o appendHex(56320 + ((cp - 65536) % 1024))

RECURSIVE EscapeFrom(_, _)
EscapeFrom(s, i) ==
    IF i > Len(s) THEN <<>>
    ELSE IF s[i] \in DOMAIN ShortEscape
    THEN <<Ascii.backslash, ShortEscape[s[i]]>> \o EscapeFrom(s, i + 1)
    ELSE LET u == utf8ToCodepoint(s, i) IN EscapeCodepoint(u.cp) \o EscapeFrom(s, i + u.len)

valueToQuotedString(s) ==
    <<Ascii.quote>> \o (IF doesAnyCharRequireEscaping(s) THEN EscapeFrom(s, 1) ELSE s)
        \o <<Ascii.quote>>

\* Texts with a byte between each and the next.
Join(texts, sep) ==
    FlattenSeq([i \in DOMAIN texts |-> IF i = 1 THEN texts[i] ELSE <<sep>> \o texts[i]])

RECURSIVE writeValue(_)
writeValue(value) ==
    CASE value.type = "nullValue" -> Null
      [] value.type \in {"intValue", "uintValue"} -> valueToString(value.n)
      [] value.type = "stringValue" -> valueToQuotedString(value.s)
      [] value.type = "booleanValue" -> IF value.b THEN True ELSE False
      [] value.type = "arrayValue" ->
            <<Ascii.open>>
                \o Join([i \in DOMAIN value.elements |-> writeValue(value.elements[i])], Ascii.comma)
                \o <<Ascii.close>>
      [] value.type = "objectValue" ->
            LET names == getMemberNames(value)
                Member(i) == valueToQuotedString(names[i]) \o <<Ascii.colon>>
                                \o writeValue(value.members[names[i]])
            IN  <<Ascii.begin>> \o Join([i \in DOMAIN names |-> Member(i)], Ascii.comma)
                    \o <<Ascii.end>>

\* FastWriter::write ends the document with a newline.
Write(root) == Append(writeValue(root), Ascii.newline)
=============================================================================
