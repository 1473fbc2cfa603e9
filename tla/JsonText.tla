------------------------------ MODULE JsonText ------------------------------
(***************************************************************************)
(* JsonValue as text: serialize(), which prints a value, and deserialize(),*)
(* a recursive descent over the characters with an index.                  *)
(*                                                                         *)
(* A text is a sequence of characters.  A value is a tuple that begins     *)
(* with its JsonType:                                                      *)
(*    <<"Null">>, <<"Bool", b>>, <<"String", text>>, <<"Array", values>>,  *)
(*    <<"Int", negative, digits>>           the digits without leading 0s  *)
(*    <<"Double", negative, digits, exp>>   0.digits * 10^exp, the digits  *)
(*                                          without 0s at either end       *)
(*    <<"Object", [keys -> values]>>                                       *)
(* so that an int of any width is exact.  Doubles are printed exactly:     *)
(* those of more than Precision digits, which operator<< rounds, are left  *)
(* out.                                                                    *)
(***************************************************************************)
EXTENDS Integers, Sequences, FiniteSets, SequencesExt

CONSTANTS
    Precision,    \* the digits operator<< prints of a double: 6
    MaxExponent,  \* the largest power of 10 that is a double: 308
    IntMax        \* the digits of INT_MAX

\* The characters, in the order of their codes.  BS is the backspace.
Characters ==
    << "BS", "\t", "\n", "\f", "\r", " ", "\"", "+", ",", "-", ".", "0", "1",
       "2", "3", "4", "5", "6", "7", "8", "9", ":", "E", "[", "\\", "]", "a",
       "b", "e", "f", "l", "n", "r", "s", "t", "u", "{", "}" >>

Code == [c \in Range(Characters) |->
            CHOOSE i \in 1 .. Len(Characters) : Characters[i] = c]

Blanks == {" ", "\t", "\n", "\r"}
Digits == {"0", "1", "2", "3", "4", "5", "6", "7", "8", "9"}

Word(w) == CASE w = "true"  -> <<"t", "r", "u", "e">>
             [] w = "false" -> <<"f", "a", "l", "s", "e">>
             [] w = "null"  -> <<"n", "u", "l", "l">>

\* The characters that have an escape, and its letter.
Escapes == [c \in {"\"", "\\", "BS", "\f", "\n", "\r", "\t"} |->
              CASE c = "\"" -> "\""
                [] c = "\\" -> "\\"
                [] c = "BS" -> "b"
                [] c = "\f" -> "f"
                [] c = "\n" -> "n"
                [] c = "\r" -> "r"
                [] c = "\t" -> "t"]

-----------------------------------------------------------------------------
(* Numbers.                                                                *)

Before(s, t) ==
    \E i \in 1 .. Len(t) :
        /\ Len(s) >= i - 1 /\ SubSeq(s, 1, i - 1) = SubSeq(t, 1, i - 1)
        /\ Len(s) = i - 1 \/ Code[s[i]] < Code[t[i]]

\* s without the 0s it begins with.
NoLeading(s) ==
    LET zeros == {k \in 0 .. Len(s) : \A i \in 1 .. k : s[i] = "0"}
    IN SubSeq(s, Cardinality(zeros), Len(s))

NoTrailing(s) == Reverse(NoLeading(Reverse(s)))

\* INT_MIN is one below -INT_MAX.
IntMinDigits == [IntMax EXCEPT ![Len(IntMax)] = Characters[Code[@] + 1]]

InIntRange(negative, digits) ==
    LET limit == IF negative THEN IntMinDigits ELSE IntMax
    IN Len(digits) < Len(limit) \/ (Len(digits) = Len(limit) /\ ~Before(limit, digits))

IntOf(negative, lexeme) ==
    LET digits == NoLeading(lexeme) IN <<"Int", negative /\ digits # <<>>, digits>>

\* The double written whole.fraction e exponent.
DoubleOf(negative, whole, fraction, exponent) ==
    LET all == NoLeading(whole \o fraction)
    IN <<"Double", negative, NoTrailing(all),
         IF all = <<>> THEN 0
         ELSE Len(all) - Len(fraction) + exponent>>

DigitValue(d) == Code[d] - Code["0"]

\* The number written by the digits; what is too long is out of range.
Natural(lexeme) ==
    LET digits == NoLeading(lexeme)
    IN IF Len(digits) > 4 THEN 10000
       ELSE FoldLeft(LAMBDA n, d : 10 * n + DigitValue(d), 0, digits)

\* The digits, the first twenty of them, from which on a number of the largest
\* exponent overflows, and below which one of the smallest is not normal any more:
\* half a unit above and below the limits of double.
Overflow == << "1", "7", "9", "7", "6", "9", "3", "1", "3", "4",
               "8", "6", "2", "3", "1", "5", "8", "0", "7", "9" >>
Underflow == << "2", "2", "2", "5", "0", "7", "3", "8", "5", "8",
                "5", "0", "7", "2", "0", "1", "2", "5", "9", "5" >>

\* std::stod throws when the double overflows or is not normal.
InDoubleRange(v) ==
    LET exponent == v[4] - 1
    IN \/ v[3] = <<>>
       \/ exponent \in -MaxExponent + 1 .. MaxExponent - 1
       \/ exponent = MaxExponent /\ Before(v[3], Overflow)
       \/ exponent = -MaxExponent /\ ~Before(v[3], Underflow)

Digit(n) == Characters[Code["0"] + n]

Decimal(n) == \* two digits at least, as %e prints an exponent
    (IF n < 100 THEN <<>> ELSE <<Digit(n \div 100)>>)
    \o <<Digit((n \div 10) % 10), Digit(n % 10)>>

Zeros(n) == [i \in 1 .. n |-> "0"]

\* std::ostream << double: %g.  The exponent of the first digit decides
\* whether the number is printed in full; nothing shows that it is a double
\* when it has no fraction.
PrintDouble(negative, digits, exp) ==
    LET first == exp - 1
        scientific == first < -4 \/ first >= Precision
        point == IF scientific THEN 1 ELSE exp
        padded == IF point <= 0 THEN Zeros(1 - point) \o digits
                  ELSE digits \o Zeros(point - Len(digits))
        whole == SubSeq(padded, 1, IF point <= 0 THEN 1 ELSE point)
        fraction == SubSeq(padded, Len(whole) + 1, Len(padded))
        power == IF ~scientific THEN <<>>
                 ELSE IF first < 0 THEN <<"e", "-">> \o Decimal(-first)
                 ELSE <<"e", "+">> \o Decimal(first)
    IN (IF negative THEN <<"-">> ELSE <<>>)
       \o (IF digits = <<>> THEN <<"0">>
           ELSE whole \o (IF fraction = <<>> THEN <<>> ELSE <<".">> \o fraction) \o power)

PrintInt(negative, digits) ==
    (IF negative THEN <<"-">> ELSE <<>>) \o (IF digits = <<>> THEN <<"0">> ELSE digits)

-----------------------------------------------------------------------------
(* serialize().                                                            *)

\* MUTANT of EscapeString: only what cannot be seen is escaped.
EscapeString_Plain(str) ==
    FlattenSeq([i \in 1 .. Len(str) |->
        IF str[i] \in DOMAIN Escapes \ {"\"", "\\"} THEN <<"\\", Escapes[str[i]]>>
        ELSE <<str[i]>>])

EscapeString(str) ==
    FlattenSeq([i \in 1 .. Len(str) |->
        IF str[i] \in DOMAIN Escapes THEN <<"\\", Escapes[str[i]]>> ELSE <<str[i]>>])

Quoted(str) == <<"\"">> \o EscapeString(str) \o <<"\"">>

Commas(texts) ==
    FlattenSeq([i \in 1 .. Len(texts) |->
        IF i > 1 THEN <<",">> \o texts[i] ELSE texts[i]])

RECURSIVE Serialize(_)
Serialize(v) ==
    CASE v[1] = "Null"   -> Word("null")
      [] v[1] = "Bool"   -> Word(IF v[2] THEN "true" ELSE "false")
      [] v[1] = "Int"    -> PrintInt(v[2], v[3])
      [] v[1] = "Double" -> PrintDouble(v[2], v[3], v[4])
      [] v[1] = "String" -> Quoted(v[2])
      [] v[1] = "Array"  ->
            <<"[">> \o Commas([i \in 1 .. Len(v[2]) |-> Serialize(v[2][i])]) \o <<"]">>
      [] v[1] = "Object" ->
            LET keys == SetToSortSeq(DOMAIN v[2], Before)
                member(k) == Quoted(k) \o <<":">> \o Serialize(v[2][k])
            IN <<"{">> \o Commas([i \in 1 .. Len(keys) |-> member(keys[i])]) \o <<"}">>

-----------------------------------------------------------------------------
(* deserialize().  What a function returns is the value and the index it   *)
(* has left behind; an exception is Failed.                                *)

Failed == [ok |-> FALSE, val |-> <<"Null">>, at |-> 0]
Parsed(v, i) == [ok |-> TRUE, val |-> v, at |-> i]

\* json[index], with the index in range.
Is(s, i, C) == i <= Len(s) /\ s[i] \in C

\* The first index from i on with a character outside C.
After(s, i, C) ==
    CHOOSE j \in i .. Len(s) + 1 : ~Is(s, j, C) /\ \A k \in i .. j - 1 : Is(s, k, C)

SkipWhitespace(s, i) == After(s, i, Blanks)

\* From i inside of the quotes, with what was read before.  An escape at the
\* end of the text meets the terminating NUL of std::string.
RECURSIVE StringRest(_, _, _)

\* MUTANT of StringRest: the closing quote is not looked for.
StringRest_Open(s, i, result) ==
    LET letters == {c \in DOMAIN Escapes : Is(s, i + 1, {Escapes[c]})}
    IN IF Is(s, i, {"\""}) THEN Parsed(<<"String", result>>, i + 1)
       ELSE IF i > Len(s) THEN Parsed(<<"String", result>>, i)
       ELSE IF s[i] # "\\" THEN StringRest(s, i + 1, Append(result, s[i]))
       ELSE IF letters = {} THEN Failed
       ELSE StringRest(s, i + 2, Append(result, CHOOSE c \in letters : TRUE))

StringRest(s, i, result) ==
    LET letters == {c \in DOMAIN Escapes : Is(s, i + 1, {Escapes[c]})}
    IN IF Is(s, i, {"\""}) THEN Parsed(<<"String", result>>, i + 1)
       ELSE IF i > Len(s) THEN Failed
       ELSE IF s[i] # "\\" THEN StringRest(s, i + 1, Append(result, s[i]))
       ELSE IF letters = {} THEN Failed
       ELSE StringRest(s, i + 2, Append(result, CHOOSE c \in letters : TRUE))

ParseString(s, i) == IF Is(s, i, {"\""}) THEN StringRest(s, i + 1, <<>>) ELSE Failed

ParseNumber(s, i) ==
    LET negative == s[i] = "-"
        w == IF negative THEN i + 1 ELSE i
        wEnd == After(s, w, Digits)
        point == Is(s, wEnd, {"."})
        f == IF point THEN wEnd + 1 ELSE wEnd
        fEnd == IF point THEN After(s, f, Digits) ELSE f
        power == Is(s, fEnd, {"e", "E"})
        x == IF ~power THEN fEnd
             ELSE IF Is(s, fEnd + 1, {"+", "-"}) THEN fEnd + 2 ELSE fEnd + 1
        xEnd == IF power THEN After(s, x, Digits) ELSE x
        exponent == Natural(SubSeq(s, x, xEnd - 1))
    IN IF \/ negative /\ ~Is(s, w, Digits)
          \/ point /\ ~Is(s, f, Digits)
          \/ power /\ ~Is(s, x, Digits)
       THEN Failed
       ELSE IF point \/ power
       THEN LET v == DoubleOf(negative, SubSeq(s, w, wEnd - 1), SubSeq(s, f, fEnd - 1),
                              IF power /\ s[x - 1] = "-" THEN -exponent ELSE exponent)
            IN IF InDoubleRange(v) THEN Parsed(v, xEnd) ELSE Failed
       ELSE LET v == IntOf(negative, SubSeq(s, w, wEnd - 1))
            IN IF InIntRange(negative, v[3]) THEN Parsed(v, wEnd) ELSE Failed

\* MUTANT of AfterElement: nothing is asked of what follows the comma.
AfterElement_Comma(s, i, close) ==
    LET e == SkipWhitespace(s, i)
        next == SkipWhitespace(s, e + 1)
    IN IF Is(s, e, {","}) THEN next ELSE IF Is(s, e, {close}) THEN e ELSE 0

\* After an element that ends at i: where the next one begins, the index of
\* the closing bracket, or 0, an error.
AfterElement(s, i, close) ==
    LET e == SkipWhitespace(s, i)
        next == SkipWhitespace(s, e + 1)
    IN IF Is(s, e, {","})
       THEN IF next > Len(s) \/ s[next] = close THEN 0 ELSE next
       ELSE IF Is(s, e, {close}) THEN e ELSE 0

RECURSIVE ParseValue(_, _), ArrayRest(_, _, _), ObjectRest(_, _, _)

ArrayRest(s, i, values) ==
    LET element == ParseValue(s, i)
        next == AfterElement(s, element.at, "]")
    IN IF Is(s, i, {"]"}) THEN Parsed(<<"Array", values>>, i + 1)
       ELSE IF i > Len(s) \/ ~element.ok THEN Failed
       ELSE IF next = 0 THEN Failed
       ELSE ArrayRest(s, next, Append(values, element.val))

ParseArray(s, i) == ArrayRest(s, SkipWhitespace(s, i + 1), <<>>)

ObjectRest(s, i, members) ==
    LET key == ParseString(s, i)
        colon == SkipWhitespace(s, key.at)
        member == ParseValue(s, SkipWhitespace(s, colon + 1))
        next == AfterElement(s, member.at, "}")
        k == key.val[2]
    IN IF Is(s, i, {"}"}) THEN Parsed(<<"Object", members>>, i + 1)
       ELSE IF i > Len(s) \/ ~key.ok THEN Failed
       ELSE IF ~Is(s, colon, {":"}) THEN Failed
       ELSE IF ~member.ok THEN Failed
       ELSE IF next = 0 THEN Failed
       ELSE ObjectRest(s, next,
                [n \in DOMAIN members \cup {k} |-> IF n = k THEN member.val ELSE members[n]])

ParseObject(s, i) == ObjectRest(s, SkipWhitespace(s, i + 1), <<>>)

\* The index of json is never past its end here but for a text that is blank
\* to the end.
ParseValue(s, i) ==
    LET v == SkipWhitespace(s, i)
        \* the word begins at v
        Begins(w) == v + Len(w) - 1 <= Len(s) /\ SubSeq(s, v, v + Len(w) - 1) = w
        Literal(w, value) == IF Begins(Word(w)) THEN Parsed(value, v + Len(Word(w))) ELSE Failed
    IN CASE v > Len(s) -> Failed
         [] Is(s, v, {"{"}) -> ParseObject(s, v)
         [] Is(s, v, {"["}) -> ParseArray(s, v)
         [] Is(s, v, {"\""}) -> ParseString(s, v)
         [] Is(s, v, {"t"}) -> Literal("true", <<"Bool", TRUE>>)
         [] Is(s, v, {"f"}) -> Literal("false", <<"Bool", FALSE>>)
         [] Is(s, v, {"n"}) -> Literal("null", <<"Null">>)
         [] Is(s, v, Digits \cup {"-"}) -> ParseNumber(s, v)
         [] OTHER -> Failed

\* The root, and nothing but blanks behind it.
Deserialize(s) ==
    LET root == ParseValue(s, 1)
    IN IF root.ok /\ SkipWhitespace(s, root.at) > Len(s) THEN root ELSE Failed

=============================================================================
