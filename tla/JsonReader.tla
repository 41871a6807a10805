----------------------------- MODULE JsonReader -----------------------------
(***************************************************************************)
(* Json::Reader of the bundled JsonCpp, with the features of               *)
(* Features::all(), as the endpoint constructs it.                         *)
(*                                                                         *)
(* A document is a sequence of bytes; the position `current_' is an        *)
(* argument and a result.  After an error the reader only looks for a      *)
(* place to go on and answers false whatever it finds, so an error is all  *)
(* that is kept of it.                                                     *)
(***************************************************************************)
EXTENDS JsonValue

Digits == 48..57
Spaces == {32, 9, 13, 10}

\* getNextChar: 0 at the end, where the position stays.
CharAt(d, p)  == IF p > Len(d) THEN 0 ELSE d[p]
NextPos(d, p) == IF p > Len(d) THEN p ELSE p + 1

\* The first position from p on whose byte is not in S.
SkipAll(d, p, S) ==
    LET i == SelectInSubSeq(d, p, Len(d), LAMBDA c : c \notin S)
    IN  IF i = 0 THEN Len(d) + 1 ELSE i

skipSpaces(d, p) == SkipAll(d, p, Spaces)

-----------------------------------------------------------------------------
(* Tokens: type, start, the position after it and whether it is one.       *)

match(d, p, pattern) ==
    LET last == p + Len(pattern) - 1 IN last <= Len(d) /\ SubSeq(d, p, last) = pattern

\* From after the opening characters to the first star and slash; without them
\* the last byte of the document decides.
readCStyleComment(d, p) ==
    LET i == SelectInSubSeq([k \in 1..Len(d) - 1 |-> <<d[k], d[k + 1]>>], p, Len(d) - 1,
                            LAMBDA cc : cc = <<Ascii.star, Ascii.slash>>)
        last == IF p < Len(d) THEN Len(d) ELSE p
    IN  IF i # 0 THEN [ok |-> TRUE, next |-> i + 2]
        ELSE [ok |-> CharAt(d, last) = Ascii.slash, next |-> NextPos(d, last)]

\* To the end of the line.
readCppStyleComment(d, p) ==
    LET eol == SkipAll(d, p, (0..255) \ {Ascii.newline, Ascii.return})
        dos == CharAt(d, eol) = Ascii.return /\ CharAt(d, eol + 1) = Ascii.newline
    IN  [ok |-> TRUE, next |-> IF dos THEN eol + 2 ELSE NextPos(d, eol)]

readComment(d, p) ==
    CASE CharAt(d, p) = Ascii.star -> readCStyleComment(d, p + 1)
      [] CharAt(d, p) = Ascii.slash -> readCppStyleComment(d, p + 1)
      [] OTHER -> [ok |-> FALSE, next |-> NextPos(d, p)]

\* Digits, a fraction, an exponent; every part may be empty.
readNumber(d, p) ==
    LET int  == SkipAll(d, p, Digits)
        frac == IF CharAt(d, int) = Ascii.dot THEN SkipAll(d, int + 1, Digits) ELSE int
        sign == CharAt(d, frac + 1) \in {Ascii.plus, Ascii.minus}
    IN  IF CharAt(d, frac) \in {101, 69}
        THEN SkipAll(d, IF sign THEN frac + 2 ELSE frac + 1, Digits) ELSE frac

RECURSIVE readString(_, _)
readString(d, p) ==
    CASE CharAt(d, p) = Ascii.quote -> [ok |-> TRUE, next |-> p + 1]
      [] CharAt(d, p) = Ascii.backslash -> readString(d, NextPos(d, p + 1))
      [] p > Len(d) -> [ok |-> FALSE, next |-> p]
      [] OTHER -> readString(d, p + 1)

TokenOf == [c \in {123, 125, 91, 93, 44, 58, 0} |->
              CASE c = 123 -> "ObjectBegin" [] c = 125 -> "ObjectEnd" [] c = 91 -> "ArrayBegin"
                [] c = 93 -> "ArrayEnd" [] c = 44 -> "ArraySeparator"
                [] c = 58 -> "MemberSeparator" [] c = 0 -> "EndOfStream"]

\* The words, without their first letter.
WordOf == [c \in {116, 102, 110} |->
             CASE c = 116 -> [type |-> "True", rest |-> Tail(True)]
               [] c = 102 -> [type |-> "False", rest |-> Tail(False)]
               [] c = 110 -> [type |-> "Null", rest |-> Tail(Null)]]

\* The token whose first character is at start.
TokenAt(d, start) ==
    LET c == CharAt(d, start)
        n == NextPos(d, start)
        Token(type, r) == [type |-> IF r.ok THEN type ELSE "Error",
                           start |-> start, next |-> r.next]
        Good(next) == [ok |-> TRUE, next |-> next]
        Word(w) == IF match(d, n, w.rest) THEN Token(w.type, Good(n + Len(w.rest)))
                   ELSE Token("Error", Good(n))
    IN
    CASE c \in DOMAIN TokenOf -> Token(TokenOf[c], Good(n))
      [] c = Ascii.quote -> Let(readString(d, n), LAMBDA r : Token("String", r))
      [] c = Ascii.slash -> Let(readComment(d, n), LAMBDA r : Token("Comment", r))
      [] c \in Digits \cup {Ascii.minus} -> Token("Number", Good(readNumber(d, n)))
      [] c \in DOMAIN WordOf -> Word(WordOf[c])
      [] OTHER -> Token("Error", Good(n))

readToken(d, p) == Let(skipSpaces(d, p), LAMBDA start : TokenAt(d, start))

-----------------------------------------------------------------------------
(* Decoding                                                                *)

\* The value of a sequence of digits.
Decimal(digits) == FoldLeft(LAMBDA x, c : 10 * x + (c - 48), 0, digits)

\* A number the stream accepts has a digit in its mantissa, and in its exponent
\* if it has one.
decodeDouble(text) ==
    LET neg  == text[1] = Ascii.minus
        p    == IF neg THEN 2 ELSE 1
        int  == SkipAll(text, p, Digits)
        dot  == CharAt(text, int) = Ascii.dot
        frac == IF dot THEN SkipAll(text, int + 1, Digits) ELSE int
        mant == SubSeq(text, p, int - 1) \o SubSeq(text, int + 1, frac - 1)
        down == CharAt(text, frac + 1) = Ascii.minus
        from == IF down \/ CharAt(text, frac + 1) = Ascii.plus THEN frac + 2 ELSE frac + 1
        e    == IF frac > Len(text) THEN 0 ELSE Decimal(SubSeq(text, from, Len(text)))
        scale == IF dot THEN frac - int - 1 ELSE 0
    IN
    IF mant = <<>> \/ (frac <= Len(text) /\ from > Len(text)) THEN Throws
    ELSE Returns(RealValue(IF neg THEN -Decimal(mant) ELSE Decimal(mant),
                      (IF down THEN -e ELSE e) - scale))

\* The digits are added up as long as the result fits; a number that does not
\* fit, or is no integer, is a double.
decodeNumber_Wraps(text) ==
    LET neg == text[1] = Ascii.minus
        digits == IF neg THEN Tail(text) ELSE text
        maxIntegerValue == IF neg THEN maxLargestInt + 1 ELSE maxLargestUInt
        threshold == maxIntegerValue \div 10
        Add(x, i) ==
            IF ~x.ok \/ digits[i] \notin Digits
                \/ (x.v >= threshold /\ (x.v > threshold \/ i # Len(digits)))
            THEN Throws
            ELSE Returns((10 * x.v + (digits[i] - 48)) % (maxLargestUInt + 1))
        r == FoldLeft(Add, Returns(0), [i \in DOMAIN digits |-> i])
    IN
    IF ~r.ok THEN decodeDouble(text)
    ELSE IF neg THEN Returns(IntValue(-r.v))
    ELSE Returns(IF r.v <= maxInt THEN IntValue(r.v) ELSE UIntValue(r.v))

decodeNumber(text) ==
    LET neg == text[1] = Ascii.minus
        digits == IF neg THEN Tail(text) ELSE text
        maxIntegerValue == IF neg THEN maxLargestInt + 1 ELSE maxLargestUInt
        threshold == maxIntegerValue \div 10
        Add(x, i) ==
            IF ~x.ok \/ digits[i] \notin Digits
                \/ (x.v >= threshold
                      /\ (x.v > threshold \/ i # Len(digits)
                            \/ digits[i] - 48 > maxIntegerValue % 10))
            THEN Throws
            ELSE Returns(10 * x.v + (digits[i] - 48))
        r == FoldLeft(Add, Returns(0), [i \in DOMAIN digits |-> i])
    IN
    IF ~r.ok THEN decodeDouble(text)
    ELSE IF neg THEN Returns(IntValue(-r.v))
    ELSE Returns(IF r.v <= maxInt THEN IntValue(r.v) ELSE UIntValue(r.v))

HexValue(c) ==
    CASE c \in Digits -> c - 48
      [] c \in 97..102 -> c - 87
      [] c \in 65..70 -> c - 55
      [] OTHER -> -1

\* Four hexadecimal digits at p.
decodeUnicodeEscapeSequence(s, p) ==
    LET h == [i \in 1..4 |-> HexValue(CharAt(s, p + i - 1))]
    IN  IF -1 \in ToSet(h) THEN Throws
        ELSE Returns(FoldLeft(LAMBDA x, y : 16 * x + y, 0, h))

\* The escape at p, and the one after it for the first half of a surrogate pair;
\* what the second escape stands for is not looked at.
decodeUnicodeCodePoint(s, p) ==
    LET u == decodeUnicodeEscapeSequence(s, p)
        low == decodeUnicodeEscapeSequence(s, p + 6)
    IN
    CASE ~u.ok -> Throws
      [] u.ok /\ u.v \notin 55296..56319 -> [ok |-> TRUE, v |-> u.v, next |-> p + 4]
      [] OTHER ->
            IF match(s, p + 4, <<Ascii.backslash, 117>>) /\ low.ok
            THEN [ok |-> TRUE, next |-> p + 10,
                  v |-> 65536 + (u.v % 1024) * 1024 + (low.v % 1024)]
            ELSE Throws

codePointToUTF8(cp) ==
    LET Low(k) == 128 + ((cp \div (64 ^ k)) % 64) IN
    CASE cp <= 127 -> <<cp>>
      [] cp \in 128..2047 -> <<192 + (cp \div 64), Low(0)>>
      [] cp \in 2048..65535 -> <<224 + (cp \div 4096), Low(1), Low(0)>>
      [] cp \in 65536..1114111 -> <<240 + (cp \div 262144), Low(2), Low(1), Low(0)>>
      [] OTHER -> <<>>

\* What a short escape stands for.
Unescape == [c \in {34, 47, 92, 98, 102, 110, 114, 116} |->
               CASE c \in {34, 47, 92} -> c [] c = 98 -> 8 [] c = 102 -> 12
                 [] c = 110 -> 10 [] c = 114 -> 13 [] c = 116 -> 9]

\* The contents of a string token, without its quotes.
RECURSIVE decodeStringFrom(_, _, _)
decodeStringFrom(s, p, decoded) ==
    LET escape == CharAt(s, p + 1)
        u == decodeUnicodeCodePoint(s, p + 2)
    IN
    IF p > Len(s) THEN Returns(decoded)
    ELSE IF s[p] # Ascii.backslash THEN decodeStringFrom(s, p + 1, Append(decoded, s[p]))
    ELSE IF escape \in DOMAIN Unescape
    THEN decodeStringFrom(s, p + 2, Append(decoded, Unescape[escape]))
    ELSE IF escape = 117 /\ u.ok
    THEN decodeStringFrom(s, u.next, decoded \o codePointToUTF8(u.v))
    ELSE Throws

decodeString(d, token) == decodeStringFrom(SubSeq(d, token.start + 1, token.next - 2), 1, <<>>)

-----------------------------------------------------------------------------
(* Values.  The calls of readValue, readArray and readObject that have not *)
(* returned are `nodes', a sequence of [v, name]: what has been read of    *)
(* the array or object and the name of its last member.  A token is read   *)
(* where a `value' is expected, the `first' value of an array, a `name',   *)
(* its `colon', or what follows a value (`comma'); at the end it is `done' *)
(* or `failed'.                                                            *)

\* v with one more element or member.
With(v, name, e) ==
    IF v.type = "arrayValue" THEN ArrayValue(Append(v.elements, e)) ELSE SetMember(v, name, e)

Start == [p |-> 1, nodes |-> <<>>, expects |-> "value", v |-> NullValue]

Fails(s)         == [s EXCEPT !.expects = "failed"]
Goes(s, t, expects) == [s EXCEPT !.p = t.next, !.expects = expects]

\* The value v has been read, and nodes are the calls that go on after it.
Ends(s, t, nodes, v) ==
    IF nodes = <<>> THEN [Goes(s, t, "done") EXCEPT !.nodes = <<>>, !.v = v]
    ELSE [Goes(s, t, "comma") EXCEPT
            !.nodes = [nodes EXCEPT ![Len(nodes)].v = With(@, Last(nodes).name, v)]]

Decoded(s, t, r) == IF r.ok THEN Ends(s, t, s.nodes, r.v) ELSE Fails(s)
Closes(s, t)     == Ends(s, t, Front(s.nodes), Last(s.nodes).v)

Begins(s, t, v, expects) ==
    [Goes(s, t, expects) EXCEPT !.nodes = Append(@, [v |-> v, name |-> <<>>])]

readValue(d, s, t) ==
    CASE t.type = "ObjectBegin" -> Begins(s, t, EmptyObject, "name")
      [] t.type = "ArrayBegin" -> Begins(s, t, ArrayValue(<<>>), "first")
      [] t.type = "Number" -> Decoded(s, t, decodeNumber(SubSeq(d, t.start, t.next - 1)))
      [] t.type = "String" ->
            Let(decodeString(d, t),
                LAMBDA r : IF r.ok THEN Ends(s, t, s.nodes, StringValue(r.v)) ELSE Fails(s))
      [] t.type \in {"True", "False"} -> Ends(s, t, s.nodes, BoolValue(t.type = "True"))
      [] t.type = "Null" -> Ends(s, t, s.nodes, NullValue)
      [] OTHER -> Fails(s)

\* The end of an object is accepted where a name could stand as long as the
\* name read before is empty.
readName(d, s, t) ==
    CASE t.type = "ObjectEnd" /\ Last(s.nodes).name = <<>> -> Closes(s, t)
      [] t.type = "String" ->
            Let(decodeString(d, t),
                LAMBDA r : IF r.ok
                           THEN [Goes(s, t, "colon") EXCEPT !.nodes[Len(s.nodes)].name = r.v]
                           ELSE Fails(s))
      [] OTHER -> Fails(s)

\* After a value: a comma or the end of its array or object.
readComma_EndCloses(s, t) ==
    IF t.type = "ArraySeparator"
    THEN Goes(s, t, IF Last(s.nodes).v.type = "arrayValue" THEN "value" ELSE "name")
    ELSE Closes(s, t)

readComma(s, t) ==
    LET inArray == Last(s.nodes).v.type = "arrayValue" IN
    CASE t.type = "ArraySeparator" -> Goes(s, t, IF inArray THEN "value" ELSE "name")
      [] t.type = (IF inArray THEN "ArrayEnd" ELSE "ObjectEnd") -> Closes(s, t)
      [] OTHER -> Fails(s)

\* The token t is read.  Comments are skipped everywhere but before a colon; a
\* comment keeps the end of an array from standing where its first value could.
readNext(d, s, t) ==
    CASE t.type = "Comment" /\ s.expects # "colon" ->
            Goes(s, t, IF s.expects = "first" THEN "value" ELSE s.expects)
      [] t.type = "ArrayEnd" /\ s.expects = "first" -> Closes(s, t)
      [] t.type = "MemberSeparator" /\ s.expects = "colon" -> Goes(s, t, "value")
      [] OTHER ->
            CASE s.expects \in {"value", "first"} -> readValue(d, s, t)
              [] s.expects = "name" -> readName(d, s, t)
              [] s.expects = "colon" -> Fails(s)
              [] s.expects = "comma" -> readComma(s, t)

RECURSIVE readAll(_, _)
readAll(d, s) ==
    IF s.expects \in {"done", "failed"} THEN s
    ELSE Let(readToken(d, s.p),
             LAMBDA t : Let(readNext(d, s, t), LAMBDA after : readAll(d, after)))

\* Reader::parse: what follows the value is not looked at.
parse(document) ==
    Let(document, LAMBDA d : Let(Start, LAMBDA s :
        Let(readAll(d, s), LAMBDA r : [ok |-> r.expects = "done", v |-> r.v, next |-> r.p])))
=============================================================================
