----------------------------- MODULE MCMessages -----------------------------
(***************************************************************************)
(* Messages for TLC: what is published, and the bytes of other types.      *)
(***************************************************************************)
EXTENDS Messages

\* INT_MAX.
Int32 == <<"2", "1", "4", "7", "4", "8", "3", "6", "4", "7">>

One == <<"Int", FALSE, <<"1">>>>
Half == <<"Double", TRUE, <<"5">>, 0>>
Whole == <<"Double", FALSE, <<"1">>, 2>>
Quote == <<"String", <<"\"">>>>
Member(key, v) == <<"Object", [k \in {key} |-> v]>>

\* An object, arrays and a string of 4, 6 and 7 bytes, two of them of each of
\* the longer lengths.
Structured ==
    { Member(<<"a">>, One), <<"String", <<"n", "u", "l", "\n">>>>,
      <<"Array", <<Half>>>>, <<"Array", <<Quote>>>>, <<"Array", <<Whole>>>> }

\* Numbers at the root: the beginning of one is another one.
Numbers == { <<"Int", FALSE, <<"1", "2", "0", "5">>>>, <<"Int", FALSE, <<"1", "2", "0", "5", "4">>>> }

\* Every four bytes of these.
Alphabet == {"{", "}", "[", "]", ",", ":", "\"", "\\", "1", "-", " "}
AllTexts == [1 .. 4 -> Alphabet]

\* Texts that are one byte away from being JSON, or from meaning something
\* else: one dropped, replaced or put in.
NearMisses(texts, chars) ==
    UNION {{RemoveAt(t, i) : i \in 1 .. Len(t)}
           \cup {ReplaceAt(t, i, c) : i \in 1 .. Len(t), c \in chars}
           \cup {InsertAt(t, i, c) : i \in 1 .. Len(t) + 1, c \in chars} : t \in texts}

\* Texts with every construct of the grammar, and the limits of an int.
Samples ==
    {Serialize(v) : v \in Structured \cup {Member(<<"\\">>, Half), <<"Array", <<Whole, One>>>>}}
    \cup {Serialize(<<"Array", <<<<"Bool", TRUE>>, <<"Null">>>>>>),
          Serialize(<<"Object", [k \in {<<"a">>, <<"b">>} |-> One]>>),
          Int32, <<"-">> \o IntMinDigits,
          <<"[", "-", "1", ".", "0", "e", "-", "1", "]">>,
          <<"0", "E", "+", "1", "2">>, <<" ", "f", "a", "l", "s", "e">>}

AllForeign ==
    {t \in AllTexts \cup Samples \cup NearMisses(Samples, {"}", "]", ",", ":", "\"", "\\", "1", ".", "e", " ", "n"}) :
        t # <<>>}

FewForeign == {Word("true")}

=============================================================================
