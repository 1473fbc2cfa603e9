---------------------------- MODULE JsonGrammar ----------------------------
(***************************************************************************)
(* What a text means: the grammar that deserialize() is to accept, stated  *)
(* without an index, by the ways in which a text can be cut up.  It is     *)
(* JSON but for what the parser does on purpose or for ease: digits may    *)
(* begin with 0, a string may hold any character but a quote and a         *)
(* backslash, the escapes are those of escapeString(), a number out of     *)
(* range is an error, and of equal keys the last one counts.               *)
(***************************************************************************)
EXTENDS JsonText

Cut(t, i, j) == SubSeq(t, i, j)

Trim(t) ==
    LET solid == {i \in 1 .. Len(t) : t[i] \notin Blanks}
    IN IF solid = {} THEN <<>>
       ELSE LET first == CHOOSE i \in solid : \A j \in solid : i <= j
                last == CHOOSE i \in solid : \A j \in solid : i >= j
            IN Cut(t, first, last)

Wrapped(t, open, close) == Len(t) >= 2 /\ t[1] = open /\ t[Len(t)] = close
Inside(t) == Cut(t, 2, Len(t) - 1)

Marks(t, C) == {i \in 1 .. Len(t) : t[i] \in C}
IsDigits(t) == t # <<>> /\ Range(t) \subseteq Digits

\* The strings t can stand for between its quotes.
RECURSIVE Spelled(_)
Spelled(t) ==
    IF t = <<>> THEN {<<>>}
    ELSE IF t[1] \notin {"\"", "\\"}
    THEN {<<t[1]>> \o rest : rest \in Spelled(Tail(t))}
    ELSE {<<c>> \o rest : c \in {e \in DOMAIN Escapes : IsPrefix(<<"\\", Escapes[e]>>, t)},
                          rest \in Spelled(Cut(t, 3, Len(t)))}

StringsOf(t) ==
    IF Wrapped(t, "\"", "\"") THEN {<<"String", str>> : str \in Spelled(Inside(t))} ELSE {}

\* The exponents of what follows the e.
ExponentsOf(t) ==
    LET digits == IF t # <<>> /\ t[1] \in {"+", "-"} THEN Tail(t) ELSE t
    IN IF ~IsDigits(digits) THEN {}
       ELSE {IF t[1] = "-" THEN -Natural(digits) ELSE Natural(digits)}

\* The doubles m e x, where m may have a point.
Scaled(negative, m, x) ==
    {DoubleOf(negative, Cut(m, 1, p - 1), Cut(m, p + 1, Len(m)), x) :
        p \in {q \in Marks(m, {"."}) : IsDigits(Cut(m, 1, q - 1))
                                       /\ IsDigits(Cut(m, q + 1, Len(m)))}}
    \cup {DoubleOf(negative, m, <<>>, x) : whole \in {TRUE} \cap {IsDigits(m)}}

NumbersOf(t) ==
    LET negative == t # <<>> /\ t[1] = "-"
        u == IF negative THEN Tail(t) ELSE t
        es == Marks(u, {"e", "E"})
        powers == UNION {UNION {Scaled(negative, Cut(u, 1, i - 1), x) :
                                x \in ExponentsOf(Cut(u, i + 1, Len(u)))} : i \in es}
    IN IF IsDigits(u)
       THEN {v \in {IntOf(negative, u)} : InIntRange(negative, v[3])}
       ELSE {v \in powers \cup (IF es = {} THEN Scaled(negative, u, 0) ELSE {}) :
                InDoubleRange(v)}

WordsOf(t) ==
    {v \in {<<"Null">>, <<"Bool", TRUE>>, <<"Bool", FALSE>>} : Serialize(v) = t}

RECURSIVE ValuesOf(_), ListsOf(_), MemberOf(_), MembersOf(_)

\* The lists of values, or of members, that t is, with commas in between.
ListsOf(t) ==
    {<<v>> : v \in ValuesOf(t)}
    \cup UNION {{<<v>> \o rest : v \in ValuesOf(Cut(t, 1, i - 1)),
                                 rest \in ListsOf(Cut(t, i + 1, Len(t)))} :
                i \in Marks(t, {","})}

MemberOf(t) ==
    UNION {{<<key[2], v>> : key \in StringsOf(Trim(Cut(t, 1, i - 1))),
                            v \in ValuesOf(Cut(t, i + 1, Len(t)))} :
           i \in Marks(t, {":"})}

MembersOf(t) ==
    {<<mem>> : mem \in MemberOf(t)}
    \cup UNION {{<<mem>> \o rest : mem \in MemberOf(Cut(t, 1, i - 1)),
                                   rest \in MembersOf(Cut(t, i + 1, Len(t)))} :
                i \in Marks(t, {","})}

LastOf(list, key) == list[CHOOSE i \in 1 .. Len(list) :
    list[i][1] = key /\ \A j \in i + 1 .. Len(list) : list[j][1] # key][2]

ObjectOf(list) ==
    <<"Object", [key \in {list[i][1] : i \in 1 .. Len(list)} |-> LastOf(list, key)]>>

\* The values t stands for: none when it is not JSON, and one when it is.
ValuesOf(t) ==
    LET u == Trim(t)
        empty == Trim(Inside(u)) = <<>>
    IN WordsOf(u) \cup StringsOf(u) \cup NumbersOf(u)
       \cup (IF ~Wrapped(u, "[", "]") THEN {}
             ELSE {<<"Array", list>> : list \in IF empty THEN {<<>>} ELSE ListsOf(Inside(u))})
       \cup (IF ~Wrapped(u, "{", "}") THEN {}
             ELSE {ObjectOf(list) : list \in IF empty THEN {<<>>} ELSE MembersOf(Inside(u))})

=============================================================================
