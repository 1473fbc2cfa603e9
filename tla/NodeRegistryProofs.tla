------------------------ MODULE NodeRegistryProofs ------------------------
(***************************************************************************)
(* Theorems about NodeRegistry, for any number of processes and slots and  *)
(* any lengths of entries.                                                 *)
(***************************************************************************)
EXTENDS NodeRegistry, FiniteSetTheorems, SequenceTheorems, WellFoundedInduction, TLAPS

Table == area.table

\* What is in the area is not longer than what has been written there.
TypeInv ==
    /\ TypeOK /\ Len(Table) <= MaxNodes
    /\ Table = <<>> \/ Length(Table) <= area.extent

\* What holds while everybody keeps the rules and the text fits.  It can be read;
\* its entries are those of nodes that run, each at the index that is its id.
TextInv == Readings(area) = {Table} /\ area.extent <= Length(Table)
EntryInv ==
    /\ \A i \in 1 .. Len(Table) :
           /\ Table[i].alive /\ Table[i].name \in Procs
           /\ Running(Table[i].name) /\ slot[Table[i].name] = i - 1
    /\ \A p \in Procs : slot[p] # NoSlot =>
           \/ pc[p] = "thrown"
           \/ Running(p) /\ slot[p] + 1 \in 1 .. Len(Table) /\ Table[slot[p] + 1].name = p

\* The copy of every process is the beginning of it, with nothing behind; entries
\* can have become longer since.
Older(e, f) == e.name = f.name /\ e.alive = f.alive /\ e.size <= f.size
OldCopy(p) ==
    /\ count[p] \in 0 .. Len(Table)
    /\ \A i \in Slots : /\ i < count[p] => Older(nodes[p][i], Table[i + 1])
                        /\ i >= count[p] => nodes[p][i] = Empty
CopyInv == \A p \in Procs : pc[p] # "thrown" => OldCopy(p)

\* A node without a slot found the table full, one whose constructor has thrown
\* the text too long, and nobody has left since.
FullInv ==
    /\ \A p \in Procs : Running(p) /\ slot[p] = NoSlot => Len(Table) = MaxNodes
    /\ \A p \in Procs : pc[p] = "thrown" => \E n \in Sizes : Length(Table) + n > WriteSize
    /\ \A p \in Procs : pc[p] \notin {"gone", "aborted"}
    /\ news = FALSE /\ clearing = {}

Rules == TextInv /\ EntryInv /\ CopyInv /\ FullInv
IInv == TypeInv /\ (orderly /\ Fits => Rules)

-----------------------------------------------------------------------------
(* Entries and their lengths.                                              *)

LEMMA Least ==
  ASSUME NEW S, S \subseteq Nat, S # {}, NEW m, m = CHOOSE i \in S : \A j \in S : i <= j
  PROVE  m \in S /\ \A j \in S : m <= j
  <1>1. PICK i \in S : \A j \in S : ~(<<j, i>> \in OpToRel(<, Nat))
    BY NatLessThanWellFounded, WFMin
  <1>2. \A j \in S : i <= j
    <2>1. \A j \in S : i \in Nat /\ j \in Nat /\ ~(j < i)
      BY <1>1 DEF OpToRel
    <2> QED BY <2>1
  <1> QED BY <1>2

LEMMA LeastFree ==
  ASSUME NEW p \in Procs, Free(p) # {}
  PROVE  NextSlot(p) \in Free(p) /\ \A j \in Free(p) : NextSlot(p) <= j
  <1>1. Free(p) \subseteq Nat
    BY NodesAssumption DEF Free, Slots
  <1>2. NextSlot(p) = CHOOSE i \in Free(p) : \A j \in Free(p) : i <= j
    BY DEF NextSlot
  <1> HIDE DEF NextSlot, Free
  <1> QED BY <1>1, <1>2, Least

LEMMA SizeTypes ==
  /\ Sizes \subseteq Nat /\ \A n \in Sizes : 2 <= n /\ n <= WriteSize
  /\ LeastSize \in Sizes /\ \A n \in Sizes : LeastSize <= n
  /\ HeadSize \in Nat /\ ReadSize \in Nat /\ WriteSize \in Nat
  /\ HeadSize < ReadSize /\ ReadSize <= WriteSize
  <1>1. Sizes \subseteq Nat /\ Sizes # {}
    BY SizesAssumption
  <1>2. LeastSize = CHOOSE n \in Sizes : \A m \in Sizes : n <= m
    BY DEF LeastSize
  <1>3. LeastSize \in Sizes /\ \A n \in Sizes : LeastSize <= n
    BY <1>1, <1>2, Least
  <1> QED BY <1>1, <1>3, SizesAssumption

LEMMA Entries ==
  /\ Empty \in Entry
  /\ \A p \in Procs, n \in Sizes : [name |-> p, alive |-> TRUE, size |-> n] \in Entry
  /\ \A e \in Entry : [e EXCEPT !.alive = FALSE] \in Entry
  /\ \A e \in Entry, n \in Sizes : [e EXCEPT !.size = n] \in Entry
  /\ \A e \in Entry : Chars(e) \in Nat /\ 2 <= Chars(e) /\ Chars(e) <= WriteSize + 1
  <1>1. \A e \in Entry : Chars(e) = e.size \/ Chars(e) = e.size + 1
    BY DEF Chars
  <1>2. \A e \in Entry : e.size \in Nat /\ 2 <= e.size /\ e.size <= WriteSize
    BY SizeTypes DEF Entry
  <1>3. \A e \in Entry : Chars(e) \in Nat /\ 2 <= Chars(e) /\ Chars(e) <= WriteSize + 1
    BY <1>1, <1>2, SizesAssumption
  <1>4. Empty \in Entry
    BY SizeTypes DEF Empty, Entry
  <1> QED BY <1>3, <1>4 DEF Entry

\* Entries of an array, from the first on, are a table.
LEMMA Prefix ==
  ASSUME NEW n \in 0 .. MaxNodes, NEW a \in [Slots -> Entry]
  PROVE  /\ [i \in 1 .. n |-> a[i - 1]] \in Seq(Entry)
         /\ Len([i \in 1 .. n |-> a[i - 1]]) = n
  <1> DEFINE t == [i \in 1 .. n |-> a[i - 1]]
  <1>1. n \in Nat /\ \A i \in 1 .. n : i - 1 \in Slots
    BY NodesAssumption DEF Slots
  <1>2. t \in [1 .. n -> Entry]
    BY <1>1
  <1>3. t \in Seq(Entry)
    BY <1>1, <1>2, IsASeq
  <1>4. Len(t) \in Nat /\ DOMAIN t = 1 .. Len(t)
    BY <1>3, LenProperties
  <1> HIDE DEF t
  <1>5. 1 .. Len(t) = 1 .. n
    BY <1>2, <1>4
  <1> QED BY <1>1, <1>3, <1>4, <1>5 DEF t

\* The text of a table has a length, and every entry adds to it.
LEMMA LengthType ==
  ASSUME NEW t \in Seq(Entry)
  PROVE  /\ IsFiniteSet(Letters(t)) /\ Cardinality(Letters(t)) \in Nat
         /\ Length(t) \in Nat /\ Length(t) = HeadSize + Cardinality(Letters(t))
         /\ DOMAIN t = 1 .. Len(t) /\ Len(t) \in Nat /\ \A i \in 1 .. Len(t) : t[i] \in Entry
  <1>1. DOMAIN t = 1 .. Len(t) /\ Len(t) \in Nat /\ \A i \in 1 .. Len(t) : t[i] \in Entry
    BY LenProperties, ElementOfSeq
  <1>2. IsFiniteSet(DOMAIN t) /\ IsFiniteSet(1 .. WriteSize + 1)
    <2>1. 1 \in Int /\ WriteSize + 1 \in Int /\ Len(t) \in Int
      BY <1>1, SizeTypes
    <2> QED BY <1>1, <2>1, FS_Interval
  <1>3. IsFiniteSet((DOMAIN t) \X (1 .. WriteSize + 1))
    BY <1>2, FS_Product
  <1>4. Letters(t) \subseteq (DOMAIN t) \X (1 .. WriteSize + 1)
    BY DEF Letters
  <1>5. IsFiniteSet(Letters(t)) /\ Cardinality(Letters(t)) \in Nat
    BY <1>3, <1>4, FS_Subset, FS_CardinalityType
  <1> QED BY <1>1, <1>5, SizeTypes DEF Length

\* The text of an empty table.
LEMMA LengthOfEmpty == <<>> \in Seq(Entry) /\ Length(<<>>) = HeadSize
  <1>1. <<>> \in Seq(Entry) /\ Len(<<>>) = 0
    BY EmptySeq
  <1>2. Letters(<<>>) = {}
    <2>1. DOMAIN <<>> = {}
      BY EmptySeq
    <2> QED BY <2>1 DEF Letters
  <1> QED BY <1>1, <1>2, FS_EmptySet, SizeTypes DEF Length

\* The entries of u are not longer than those of t, but for the entry k, whose
\* characters behind the first a are at most d.
Within(u, t, k, a, d) ==
    /\ \A j \in 1 .. Len(u) : j # k => j <= Len(t) /\ Chars(u[j]) <= Chars(t[j])
    /\ k \in 1 .. Len(u) => /\ Chars(u[k]) <= a + d
                            /\ a > 0 => k <= Len(t) /\ a <= Chars(t[k])

\* Then its text is at most d longer.
LEMMA Extra ==
  ASSUME NEW t \in Seq(Entry), NEW u \in Seq(Entry), NEW k \in Nat, NEW a \in Nat, NEW d \in Nat,
         Within(u, t, k, a, d)
  PROVE  Length(u) <= Length(t) + d
  <1> DEFINE E == {k} \X (a + 1 .. a + d)
  <1>1. /\ IsFiniteSet(Letters(t)) /\ Cardinality(Letters(t)) \in Nat
        /\ DOMAIN t = 1 .. Len(t) /\ Len(t) \in Nat /\ \A i \in 1 .. Len(t) : t[i] \in Entry
    BY LengthType
  <1>2. /\ IsFiniteSet(Letters(u)) /\ Cardinality(Letters(u)) \in Nat
        /\ DOMAIN u = 1 .. Len(u) /\ Len(u) \in Nat /\ \A i \in 1 .. Len(u) : u[i] \in Entry
    BY LengthType
  <1>3. IsFiniteSet(E) /\ Cardinality(E) = d
    <2>1. IsFiniteSet({k}) /\ Cardinality({k}) = 1
      BY FS_Singleton
    <2>2. IsFiniteSet(a + 1 .. a + d) /\ Cardinality(a + 1 .. a + d) = d
      <3>1. a + 1 \in Int /\ a + d \in Int /\ (a + 1 > a + d => d = 0)
            /\ (a + d) - (a + 1) + 1 = d
        OBVIOUS
      <3> QED BY <3>1, FS_Interval
    <2>3. IsFiniteSet(E) /\ Cardinality(E) = Cardinality({k}) * Cardinality(a + 1 .. a + d)
      BY <2>1, <2>2, FS_Product
    <2> QED BY <2>1, <2>2, <2>3
  <1>4. Letters(u) \subseteq Letters(t) \cup E
    <2> SUFFICES ASSUME NEW c \in Letters(u) PROVE c \in Letters(t) \cup E
      OBVIOUS
    <2>1. PICK j \in 1 .. Len(u), x \in 1 .. WriteSize + 1 : c = <<j, x>> /\ x <= Chars(u[j])
      BY <1>2 DEF Letters
    <2>2. j \in Nat /\ x \in Nat /\ x >= 1 /\ Chars(u[j]) \in Nat
      <3>1. j \in Nat /\ x \in Nat /\ x >= 1
        BY <1>2, <2>1, SizeTypes
      <3>2. u[j] \in Entry
        BY <1>2, <2>1
      <3> QED BY <3>1, <3>2, Entries
    <2>3. ASSUME j \in 1 .. Len(t), x <= Chars(t[j]) PROVE c \in Letters(t)
      BY <1>1, <2>1, <2>3 DEF Letters
    <2>4. CASE j # k
      <3>1. j \in 1 .. Len(t) /\ Chars(u[j]) <= Chars(t[j])
        BY <1>1, <2>1, <2>2, <2>4 DEF Within
      <3>2. Chars(t[j]) \in Nat
        BY <1>1, <3>1, Entries
      <3> QED BY <2>1, <2>2, <2>3, <3>1, <3>2
    <2>5. CASE j = k /\ x <= a
      <3>1. j \in 1 .. Len(t) /\ a <= Chars(t[j])
        BY <1>1, <2>1, <2>2, <2>5 DEF Within
      <3>2. Chars(t[j]) \in Nat
        BY <1>1, <3>1, Entries
      <3> QED BY <2>2, <2>3, <2>5, <3>1, <3>2
    <2>6. CASE j = k /\ x > a
      BY <2>1, <2>2, <2>6 DEF Within
    <2> QED BY <2>2, <2>4, <2>5, <2>6
  <1> HIDE DEF E
  <1>5. IsFiniteSet(Letters(t) \cup E) /\
        Cardinality(Letters(t) \cup E) = Cardinality(Letters(t)) + Cardinality(E) - Cardinality(Letters(t) \cap E)
    BY <1>1, <1>3, FS_Union
  <1>6. Cardinality(Letters(t) \cap E) \in Nat
    <2>1. Letters(t) \cap E \subseteq E
      OBVIOUS
    <2> QED BY <1>3, <2>1, FS_Subset, FS_CardinalityType
  <1>7. Cardinality(Letters(u)) <= Cardinality(Letters(t) \cup E)
    BY <1>4, <1>5, FS_Subset
  <1>8. Cardinality(Letters(u)) <= Cardinality(Letters(t)) + d
    BY <1>1, <1>2, <1>3, <1>5, <1>6, <1>7
  <1>9. Length(t) = HeadSize + Cardinality(Letters(t)) /\ Length(u) = HeadSize + Cardinality(Letters(u))
    BY LengthType
  <1> QED BY <1>1, <1>2, <1>8, <1>9, SizeTypes

\* A table with entries behind those of another has a longer text, by no less than
\* two characters.
LEMMA Longer ==
  ASSUME NEW t \in Seq(Entry), NEW u \in Seq(Entry), Len(t) < Len(u),
         \A j \in 1 .. Len(t) : Chars(t[j]) <= Chars(u[j])
  PROVE  Length(t) + 2 <= Length(u)
  <1> DEFINE n == Len(u)
             c == <<n, 1>>
             d == <<n, 2>>
  <1>1. /\ IsFiniteSet(Letters(t)) /\ Cardinality(Letters(t)) \in Nat
        /\ DOMAIN t = 1 .. Len(t) /\ Len(t) \in Nat /\ \A i \in 1 .. Len(t) : t[i] \in Entry
    BY LengthType
  <1>2. /\ IsFiniteSet(Letters(u)) /\ Cardinality(Letters(u)) \in Nat
        /\ DOMAIN u = 1 .. n /\ n \in Nat /\ \A i \in 1 .. n : u[i] \in Entry
    BY LengthType
  <1>3. n \in 1 .. n /\ ~(n \in 1 .. Len(t)) /\ \A j \in 1 .. Len(t) : j \in 1 .. n
    BY <1>1, <1>2
  <1>4. c \in Letters(u) /\ d \in Letters(u)
    <2>1. Chars(u[n]) \in Nat /\ 2 <= Chars(u[n])
      BY <1>2, <1>3, Entries
    <2>2. 1 \in 1 .. WriteSize + 1 /\ 2 \in 1 .. WriteSize + 1 /\ 1 <= Chars(u[n])
      <3>1. WriteSize >= 1
        BY SizeTypes
      <3> QED BY <2>1, <3>1, SizeTypes
    <2> HIDE DEF n
    <2> QED BY <1>2, <1>3, <2>1, <2>2 DEF Letters
  <1>5. c \notin Letters(t) /\ d \notin Letters(t) /\ c # d
    <2>1. n \notin DOMAIN t
      BY <1>1, <1>3
    <2> HIDE DEF n
    <2> QED BY <2>1 DEF Letters
  <1>6. Letters(t) \subseteq Letters(u)
    <2> SUFFICES ASSUME NEW e \in Letters(t) PROVE e \in Letters(u)
      OBVIOUS
    <2>1. PICK j \in 1 .. Len(t), x \in 1 .. WriteSize + 1 : e = <<j, x>> /\ x <= Chars(t[j])
      BY <1>1 DEF Letters
    <2>2. j \in 1 .. n /\ Chars(t[j]) \in Nat /\ Chars(u[j]) \in Nat /\ Chars(t[j]) <= Chars(u[j]) /\ x \in Nat
      BY <1>1, <1>2, <1>3, <2>1, Entries, SizeTypes
    <2>3. x <= Chars(u[j])
      BY <2>1, <2>2
    <2> QED BY <1>2, <2>1, <2>2, <2>3 DEF Letters
  <1> HIDE DEF c, d, n
  <1>7. /\ IsFiniteSet(Letters(u) \ {c}) /\ Cardinality(Letters(u) \ {c}) = Cardinality(Letters(u)) - 1
        /\ d \in Letters(u) \ {c}
    BY <1>2, <1>4, <1>5, FS_RemoveElement
  <1>8. /\ IsFiniteSet((Letters(u) \ {c}) \ {d})
        /\ Cardinality((Letters(u) \ {c}) \ {d}) = Cardinality(Letters(u)) - 1 - 1
    BY <1>7, FS_RemoveElement
  <1>9. Cardinality(Letters(t)) <= Cardinality((Letters(u) \ {c}) \ {d})
    <2>1. Letters(t) \subseteq (Letters(u) \ {c}) \ {d}
      BY <1>5, <1>6
    <2> QED BY <1>8, <2>1, FS_Subset
  <1>10. Length(t) = HeadSize + Cardinality(Letters(t)) /\ Length(u) = HeadSize + Cardinality(Letters(u))
    BY LengthType
  <1> QED BY <1>1, <1>2, <1>8, <1>9, <1>10, SizeTypes

-----------------------------------------------------------------------------
(* Typing.                                                                 *)

\* What the invariants are about, in one list of facts.
LEMMA Facts ==
  ASSUME TypeInv
  PROVE  /\ Table \in Seq(Entry) /\ Len(Table) \in 0 .. MaxNodes
         /\ DOMAIN Table = 1 .. Len(Table)
         /\ \A i \in 1 .. Len(Table) : Table[i] \in Entry
         /\ area.extent \in Nat /\ Length(Table) \in Nat
  <1>1. Table \in Seq(Entry) /\ Len(Table) <= MaxNodes /\ area.extent \in Nat
    BY DEF TypeInv, TypeOK, Table
  <1>2. /\ Len(Table) \in Nat /\ DOMAIN Table = 1 .. Len(Table) /\ Length(Table) \in Nat
        /\ \A i \in 1 .. Len(Table) : Table[i] \in Entry
    BY <1>1, LengthType
  <1> QED BY <1>1, <1>2, NodesAssumption

LEMMA InitTypeInv == Init => TypeInv
  <1> SUFFICES ASSUME Init PROVE TypeInv
    OBVIOUS
  <1>1. <<>> \in Seq(Entry) /\ Len(<<>>) = 0
    BY EmptySeq
  <1>2. Len(Table) <= MaxNodes /\ Table = <<>> /\ area.table \in Seq(Entry) /\ area.extent \in Nat
    BY <1>1, NodesAssumption DEF Init, Blank, Table
  <1>3. count \in [Procs -> -1 .. MaxNodes] /\ \A p \in Procs : count[p] # -1
    BY NodesAssumption DEF Init
  <1>4. nodes \in [Procs -> [Slots -> Entry]] /\ slot \in [Procs -> Slots \cup {NoSlot}]
    BY Entries DEF Init
  <1> QED BY <1>2, <1>3, <1>4 DEF Init, TypeInv, TypeOK

\* What is read is the table, which then is as long as what has been written, or
\* nothing.
LEMMA ReadIsTable ==
  ASSUME TypeInv, NEW t \in Readings(area)
  PROVE  /\ t = <<>> \/ t = Table
         /\ t \in Seq(Entry) /\ Len(t) \in 0 .. MaxNodes
         /\ Len(t) > 0 => Length(t) <= area.extent
  <1>1. <<>> \in Seq(Entry) /\ Len(<<>>) = 0 /\ 0 \in 0 .. MaxNodes
    BY EmptySeq, NodesAssumption
  <1>2. t = <<>> \/ t = Table
    BY DEF Readings, Table
  <1>3. Table # <<>> => Length(Table) <= area.extent
    BY DEF TypeInv
  <1>4. Table \in Seq(Entry) /\ Len(Table) \in 0 .. MaxNodes
    BY Facts
  <1>5. CASE t = <<>>
    BY <1>1, <1>5
  <1>6. CASE t = Table
    <2>1. Len(Table) > 0 => Table # <<>>
      BY <1>1
    <2> QED BY <1>3, <1>4, <1>6, <2>1
  <1> QED BY <1>2, <1>5, <1>6

\* A copy that is made of it, and what is left behind it.
LEMMA ReloadTypes ==
  ASSUME TypeInv, NEW p \in Procs, Reload(p)
  PROVE  /\ count' \in [Procs -> -1 .. MaxNodes] /\ nodes' \in [Procs -> [Slots -> Entry]]
         /\ \A q \in Procs \ {p} : count'[q] = count[q] /\ nodes'[q] = nodes[q]
         /\ \E t \in Readings(area) :
               /\ count'[p] = Len(t) /\ Len(t) \in 0 .. MaxNodes
               /\ \A i \in Slots : /\ i < Len(t) => nodes'[p][i] = t[i + 1] /\ i + 1 \in 1 .. Len(t)
                                   /\ i >= Len(t) => nodes'[p][i] = nodes[p][i]
  <1>1. PICK t \in Readings(area) :
           /\ count' = [count EXCEPT ![p] = Len(t)]
           /\ nodes' = [nodes EXCEPT ![p] = [i \in Slots |-> IF i < Len(t) THEN t[i + 1] ELSE @[i]]]
    BY DEF Reload
  <1>2. t \in Seq(Entry) /\ Len(t) \in 0 .. MaxNodes
    BY ReadIsTable
  <1>3. \A i \in Slots : i \in Nat /\ i + 1 \in Nat /\ i + 1 >= 1
    BY NodesAssumption DEF Slots
  <1>4. \A i \in Slots : i < Len(t) => i + 1 \in 1 .. Len(t) /\ t[i + 1] \in Entry
    BY <1>2, <1>3, LengthType, NodesAssumption
  <1>5. [i \in Slots |-> IF i < Len(t) THEN t[i + 1] ELSE nodes[p][i]] \in [Slots -> Entry]
    BY <1>4 DEF TypeInv, TypeOK
  <1>6. nodes' \in [Procs -> [Slots -> Entry]] /\ \A q \in Procs \ {p} : nodes'[q] = nodes[q]
    BY <1>1, <1>5 DEF TypeInv, TypeOK
  <1>7. \A i \in Slots : nodes'[p][i] = IF i < Len(t) THEN t[i + 1] ELSE nodes[p][i]
    BY <1>1 DEF TypeInv, TypeOK
  <1>8. /\ count' \in [Procs -> -1 .. MaxNodes] /\ count'[p] = Len(t)
        /\ \A q \in Procs \ {p} : count'[q] = count[q]
    BY <1>1, <1>2 DEF TypeInv, TypeOK
  <1>9. \A i \in Slots : i >= Len(t) => ~(i < Len(t))
    BY <1>2, <1>3, NodesAssumption
  <1> QED BY <1>2, <1>4, <1>6, <1>7, <1>8, <1>9

\* The area after a table has been written, or could not be.
LEMMA RewriteTypes ==
  ASSUME TypeInv, NEW p \in Procs, count'[p] \in 0 .. MaxNodes, nodes'[p] \in [Slots -> Entry],
         NEW place, NEW places, Rewrite(p, place, places)
  PROVE  /\ Copy(p)' \in Seq(Entry) /\ Len(Copy(p)') = count'[p] /\ Length(Copy(p)') \in Nat
         /\ area'.table \in Seq(Entry) /\ area'.extent \in Nat /\ Len(area'.table) <= MaxNodes
         /\ area'.table = <<>> \/ Length(area'.table) <= area'.extent
         /\ area'.extent >= area.extent
         /\ \/ /\ area' = Write(area, Copy(p)') /\ pc' = [pc EXCEPT ![p] = place]
               /\ area'.table = Copy(p)' /\ Length(Copy(p)') <= area'.extent
               /\ area'.extent = Length(Copy(p)') \/ area'.extent = area.extent
            \/ /\ area' = area /\ Length(Copy(p)') > WriteSize
               /\ \E other \in places : pc' = [pc EXCEPT ![p] = other]
  <1>1. Copy(p)' = [i \in 1 .. count'[p] |-> nodes'[p][i - 1]]
    BY DEF Copy
  <1>2. Copy(p)' \in Seq(Entry) /\ Len(Copy(p)') = count'[p]
    BY <1>1, Prefix
  <1> HIDE DEF Copy
  <1>3. Length(Copy(p)') \in Nat
    BY <1>2, LengthType
  <1>4. Table \in Seq(Entry) /\ area.extent \in Nat /\ Len(Table) \in 0 .. MaxNodes
    BY Facts
  <1>5. CASE Length(Copy(p)') <= WriteSize
    <2>1. area' = Write(area, Copy(p)') /\ pc' = [pc EXCEPT ![p] = place]
      BY <1>5 DEF Rewrite
    <2>2. /\ area'.table = Copy(p)'
          /\ area'.extent = IF Length(Copy(p)') > area.extent THEN Length(Copy(p)') ELSE area.extent
      BY <2>1 DEF Write
    <2>3. Length(area'.table) <= area'.extent /\ area'.extent \in Nat /\ area'.extent >= area.extent
      BY <1>3, <1>4, <2>2
    <2> QED BY <1>2, <1>3, <2>1, <2>2, <2>3, NodesAssumption
  <1>6. CASE ~(Length(Copy(p)') <= WriteSize)
    <2>1. area' = area /\ \E other \in places : pc' = [pc EXCEPT ![p] = other]
      BY <1>6 DEF Rewrite
    <2>2. Length(Copy(p)') > WriteSize
      BY <1>3, <1>6, SizeTypes
    <2>3. /\ area'.table = Table /\ area'.extent = area.extent
          /\ Table = <<>> \/ Length(Table) <= area.extent
      BY <2>1 DEF TypeInv, Table
    <2>4. area'.table = <<>> \/ Length(area'.table) <= area'.extent
      BY <2>3
    <2>5. /\ area'.table \in Seq(Entry) /\ area'.extent \in Nat /\ Len(area'.table) <= MaxNodes
          /\ area'.extent >= area.extent
      BY <1>4, <2>3, NodesAssumption
    <2> QED BY <1>2, <1>3, <2>1, <2>2, <2>4, <2>5
  <1> QED BY <1>5, <1>6

\* What an action leaves as it is for the others.
LEMMA Others ==
  ASSUME TypeInv, NEW p \in Procs, Move(p)
  PROVE  \A q \in Procs \ {p} : /\ count'[q] = count[q] /\ nodes'[q] = nodes[q]
                                /\ slot'[q] = slot[q] /\ pc'[q] = pc[q]
  <1> SUFFICES ASSUME NEW q \in Procs \ {p}
               PROVE  /\ count'[q] = count[q] /\ nodes'[q] = nodes[q]
                      /\ slot'[q] = slot[q] /\ pc'[q] = pc[q]
    OBVIOUS
  <1>1. slot'[q] = slot[q]
    BY DEF Move, Start, Register, Recount, Sync, ClearNews, Remove, RemoveFails, OutOfBounds,
           TypeInv, TypeOK
  <1>2. count'[q] = count[q]
    BY DEF Move, Start, Register, Recount, Sync, ClearNews, Remove, RemoveFails, OutOfBounds,
           Reload, Added, TypeInv, TypeOK
  <1>3. nodes'[q] = nodes[q]
    BY DEF Move, Start, Register, Recount, Sync, ClearNews, Remove, RemoveFails, OutOfBounds,
           Reload, Added, TypeInv, TypeOK
  <1>4. pc'[q] = pc[q]
    BY DEF Move, Start, Register, Recount, Sync, ClearNews, Remove, RemoveFails, OutOfBounds,
           Rewrite, TypeInv, TypeOK
  <1> QED BY <1>1, <1>2, <1>3, <1>4

\* A node that finds a slot, and the entry it puts there.
LEMMA AddedTypes ==
  ASSUME TypeInv, NEW p \in Procs, Register(p), ~Refused(p)
  PROVE  \E n \in Sizes :
           LET e == [name |-> p, alive |-> TRUE, size |-> n] IN
           /\ count[p] \in 0 .. MaxNodes - 1 /\ NextSlot(p) \in Slots /\ e \in Entry
           /\ count' = [count EXCEPT ![p] = count[p] + 1] /\ count'[p] = count[p] + 1
           /\ nodes' = [nodes EXCEPT ![p][NextSlot(p)] = e]
           /\ nodes'[p][NextSlot(p)] = e
           /\ \A i \in Slots \ {NextSlot(p)} : nodes'[p][i] = nodes[p][i]
           /\ nodes'[p] \in [Slots -> Entry] /\ nodes' \in [Procs -> [Slots -> Entry]]
  <1>1. PICK n \in Sizes : Added(p, n)
    BY DEF Register
  <1> DEFINE e == [name |-> p, alive |-> TRUE, size |-> n]
             i == NextSlot(p)
  <1>2. i \in Slots /\ e \in Entry
    BY LeastFree, Entries DEF Refused, Free
  <1>3. count[p] \in 0 .. MaxNodes - 1
    <2>1. pc[p] # "aborted"
      BY DEF Register
    <2>2. count[p] # -1 /\ count[p] \in -1 .. MaxNodes
      BY <2>1 DEF TypeInv, TypeOK
    <2> QED BY <2>2, NodesAssumption DEF Refused
  <1>4. nodes' = [nodes EXCEPT ![p][i] = e] /\ count' = [count EXCEPT ![p] = count[p] + 1]
    BY <1>1 DEF Added
  <1> HIDE DEF e, i
  <1>5. count'[p] = count[p] + 1
    BY <1>4 DEF TypeInv, TypeOK
  <1>6. /\ nodes'[p][i] = e /\ \A j \in Slots \ {i} : nodes'[p][j] = nodes[p][j]
        /\ nodes'[p] \in [Slots -> Entry] /\ nodes' \in [Procs -> [Slots -> Entry]]
    BY <1>2, <1>4 DEF TypeInv, TypeOK
  <1> QED BY <1>2, <1>3, <1>4, <1>5, <1>6 DEF e, i

\* The entry of a node that counts a topic.
LEMMA RecountTypes ==
  ASSUME TypeInv, NEW p \in Procs, Recount(p)
  PROVE  \E n \in Sizes :
           LET e == [nodes[p][slot[p]] EXCEPT !.size = n] IN
           /\ count[p] \in 0 .. MaxNodes /\ slot[p] \in Slots /\ e \in Entry
           /\ ReadSize + n <= WriteSize + nodes[p][slot[p]].size
           /\ nodes' = [nodes EXCEPT ![p][slot[p]] = e]
           /\ nodes'[p][slot[p]] = e
           /\ \A i \in Slots \ {slot[p]} : nodes'[p][i] = nodes[p][i]
           /\ nodes'[p] \in [Slots -> Entry] /\ nodes' \in [Procs -> [Slots -> Entry]]
  <1>1. PICK n \in Sizes : /\ ReadSize + n <= WriteSize + nodes[p][slot[p]].size
                           /\ nodes' = [nodes EXCEPT ![p][slot[p]].size = n]
    BY DEF Recount
  <1> DEFINE e == [nodes[p][slot[p]] EXCEPT !.size = n]
             i == slot[p]
  <1>2. i \in Slots /\ nodes[p][i] \in Entry
    BY DEF Recount, TypeInv, TypeOK
  <1>3. e \in Entry
    BY <1>2, Entries
  <1>4. count[p] \in 0 .. MaxNodes
    <2>1. count[p] # -1 /\ count[p] \in -1 .. MaxNodes
      BY DEF Recount, Running, TypeInv, TypeOK
    <2> QED BY <2>1, NodesAssumption
  <1>5. nodes' = [nodes EXCEPT ![p][i] = e]
    BY <1>1, <1>2 DEF TypeInv, TypeOK
  <1> HIDE DEF e, i
  <1>6. /\ nodes'[p][i] = e /\ \A j \in Slots \ {i} : nodes'[p][j] = nodes[p][j]
        /\ nodes'[p] \in [Slots -> Entry] /\ nodes' \in [Procs -> [Slots -> Entry]]
    BY <1>2, <1>3, <1>5 DEF TypeInv, TypeOK
  <1> QED BY <1>1, <1>2, <1>3, <1>4, <1>5, <1>6 DEF e, i

\* The entry of a node that leaves, dead in its own table.
LEMMA RemoveTypes ==
  ASSUME TypeInv, NEW p \in Procs, Remove(p) \/ RemoveFails(p)
  PROVE  LET e == [nodes[p][slot[p]] EXCEPT !.alive = FALSE] IN
         /\ slot[p] \in Slots /\ e \in Entry
         /\ nodes'[p][slot[p]] = e
         /\ \A i \in Slots \ {slot[p]} : nodes'[p][i] = nodes[p][i]
         /\ nodes'[p] \in [Slots -> Entry] /\ nodes' \in [Procs -> [Slots -> Entry]]
         /\ count' \in [Procs -> -1 .. MaxNodes] /\ count'[p] = count[p] - 1
         /\ Remove(p) => count[p] \in 1 .. MaxNodes /\ count'[p] \in 0 .. MaxNodes
  <1> DEFINE e == [nodes[p][slot[p]] EXCEPT !.alive = FALSE]
             i == slot[p]
  <1>1. i \in Slots /\ nodes[p][i] \in Entry
    BY DEF Remove, RemoveFails, TypeInv, TypeOK
  <1>2. e \in Entry
    BY <1>1, Entries
  <1>3. nodes' = [nodes EXCEPT ![p][i] = e]
    BY <1>1 DEF Remove, RemoveFails, TypeInv, TypeOK
  <1> HIDE DEF e, i
  <1>4. /\ nodes'[p][i] = e /\ \A j \in Slots \ {i} : nodes'[p][j] = nodes[p][j]
        /\ nodes'[p] \in [Slots -> Entry] /\ nodes' \in [Procs -> [Slots -> Entry]]
    BY <1>1, <1>2, <1>3 DEF TypeInv, TypeOK
  <1>5. count[p] \in -1 .. MaxNodes
    BY DEF TypeInv, TypeOK
  <1>6. CASE Remove(p)
    <2>1. count' = [count EXCEPT ![p] = count[p] - 1] /\ count[p] > 0
      BY <1>6 DEF Remove
    <2>2. count[p] \in 1 .. MaxNodes /\ count[p] - 1 \in 0 .. MaxNodes /\ count[p] - 1 \in -1 .. MaxNodes
      BY <1>5, <2>1, NodesAssumption
    <2>3. count' \in [Procs -> -1 .. MaxNodes] /\ count'[p] = count[p] - 1
      BY <2>1, <2>2 DEF TypeInv, TypeOK
    <2> QED BY <1>1, <1>2, <1>4, <2>2, <2>3 DEF e, i
  <1>7. CASE RemoveFails(p)
    <2>1. count' = [count EXCEPT ![p] = -1] /\ count[p] = 0 /\ -1 \in -1 .. MaxNodes
      BY <1>7, NodesAssumption DEF RemoveFails
    <2>2. count' \in [Procs -> -1 .. MaxNodes] /\ count'[p] = count[p] - 1
      BY <2>1 DEF TypeInv, TypeOK
    <2>3. ~Remove(p)
      BY <2>1 DEF Remove
    <2> QED BY <1>1, <1>2, <1>4, <2>2, <2>3 DEF e, i
  <1> QED BY <1>6, <1>7

LEMMA TypeOfMove ==
  ASSUME TypeInv, NEW p \in Procs, Move(p), orderly' \in BOOLEAN
  PROVE  TypeInv' /\ area'.extent >= area.extent
  <1>1. /\ area.extent \in Nat /\ count[p] \in -1 .. MaxNodes /\ nodes[p] \in [Slots -> Entry]
        /\ \A q \in Procs \ {p} : count'[q] = count[q] /\ pc'[q] = pc[q]
    BY Others DEF TypeInv, TypeOK
  <1>2. area' = area => /\ area'.table \in Seq(Entry) /\ area'.extent \in Nat
                        /\ Len(area'.table) <= MaxNodes /\ area'.extent >= area.extent
                        /\ area'.table = <<>> \/ Length(area'.table) <= area'.extent
    <2> SUFFICES ASSUME area' = area
                 PROVE  /\ area'.table \in Seq(Entry) /\ area'.extent \in Nat
                        /\ Len(area'.table) <= MaxNodes /\ area'.extent >= area.extent
                        /\ area'.table = <<>> \/ Length(area'.table) <= area'.extent
      OBVIOUS
    <2> QED BY <1>1 DEF TypeInv, TypeOK, Table
  <1> DEFINE Copied == /\ count' \in [Procs -> -1 .. MaxNodes] /\ nodes' \in [Procs -> [Slots -> Entry]]
                       /\ count'[p] = -1 => pc'[p] = "aborted"
             Written == /\ area'.table \in Seq(Entry) /\ area'.extent \in Nat
                        /\ Len(area'.table) <= MaxNodes /\ area'.extent >= area.extent
                        /\ area'.table = <<>> \/ Length(area'.table) <= area'.extent
             Places == /\ pc' \in [Procs -> {"off", "register", "run"} \cup Ended]
                       /\ slot' \in [Procs -> Slots \cup {NoSlot}]
                       /\ first' \in Procs \cup {NoName} /\ news' \in BOOLEAN /\ clearing' \subseteq Procs
  <1> SUFFICES Copied /\ Written /\ Places
    <2>1. ASSUME Copied, Written, Places PROVE TypeInv'
      <3>1. \A q \in Procs : count'[q] = -1 => pc'[q] = "aborted"
        BY <1>1, <2>1 DEF TypeInv, TypeOK
      <3> QED BY <2>1, <3>1 DEF TypeInv, TypeOK, Table
    <2> QED BY <2>1
  <1>3. CASE Start(p) \/ Sync(p)
    <2>1. Reload(p) /\ area' = area
      BY <1>3 DEF Start, Sync
    <2>2. Copied
      <3>1. count'[p] # -1
        BY <2>1, ReloadTypes, NodesAssumption
      <3> QED BY <2>1, <3>1, ReloadTypes
    <2>3. Places
      BY <1>3 DEF Start, Sync, TypeInv, TypeOK, Ended
    <2> QED BY <1>2, <2>1, <2>2, <2>3
  <1>4. CASE Register(p)
    <2>1. first' \in Procs \cup {NoName} /\ news' \in BOOLEAN /\ clearing' \subseteq Procs
      BY <1>4 DEF Register, TypeInv, TypeOK
    <2>2. CASE Refused(p)
      <3>1. UNCHANGED <<count, nodes, slot, area>> /\ pc' = [pc EXCEPT ![p] = "run"] /\ pc[p] = "register"
        BY <1>4, <2>2 DEF Register
      <3>2. Places
        BY <2>1, <3>1 DEF TypeInv, TypeOK
      <3>3. Copied
        BY <3>1 DEF TypeInv, TypeOK
      <3> QED BY <1>2, <3>1, <3>2, <3>3
    <2>3. CASE ~Refused(p)
      <3>1. /\ count[p] \in 0 .. MaxNodes - 1 /\ NextSlot(p) \in Slots
            /\ count' = [count EXCEPT ![p] = count[p] + 1] /\ count'[p] = count[p] + 1
            /\ nodes'[p] \in [Slots -> Entry] /\ nodes' \in [Procs -> [Slots -> Entry]]
        BY <1>4, <2>3, AddedTypes
      <3>2. count'[p] \in 0 .. MaxNodes /\ count'[p] # -1 /\ count[p] + 1 \in -1 .. MaxNodes
        BY <3>1, NodesAssumption
      <3>3. Copied
        BY <3>1, <3>2 DEF TypeInv, TypeOK
      <3>4. Rewrite(p, "run", {"thrown"}) /\ slot' = [slot EXCEPT ![p] = NextSlot(p)]
        BY <1>4, <2>3 DEF Register
      <3>5. Written /\ (pc' = [pc EXCEPT ![p] = "run"] \/ pc' = [pc EXCEPT ![p] = "thrown"])
        BY <3>1, <3>2, <3>4, RewriteTypes
      <3>6. Places
        BY <2>1, <3>1, <3>4, <3>5 DEF TypeInv, TypeOK, Ended
      <3> QED BY <3>3, <3>5, <3>6
    <2> QED BY <2>2, <2>3
  <1>5. CASE Recount(p)
    <2>1. /\ count[p] \in 0 .. MaxNodes /\ count' = count /\ count[p] # -1
          /\ nodes'[p] \in [Slots -> Entry] /\ nodes' \in [Procs -> [Slots -> Entry]]
      <3>1. /\ count[p] \in 0 .. MaxNodes
            /\ nodes'[p] \in [Slots -> Entry] /\ nodes' \in [Procs -> [Slots -> Entry]]
        BY <1>5, RecountTypes
      <3>2. count' = count /\ count[p] # -1
        BY <1>5, <3>1, NodesAssumption DEF Recount
      <3> QED BY <3>1, <3>2
    <2>2. Rewrite(p, "run", {"run", "thrown"})
      BY <1>5 DEF Recount
    <2>3. Written /\ (pc' = [pc EXCEPT ![p] = "run"] \/ pc' = [pc EXCEPT ![p] = "thrown"])
      BY <2>1, <2>2, RewriteTypes
    <2>4. Places
      BY <1>5, <2>3 DEF Recount, TypeInv, TypeOK, Ended
    <2>5. Copied
      BY <2>1 DEF TypeInv, TypeOK
    <2> QED BY <2>3, <2>4, <2>5
  <1>6. CASE ClearNews(p)
    <2>1. UNCHANGED <<count, nodes, area, pc>> /\ Places
      BY <1>6 DEF ClearNews, TypeInv, TypeOK
    <2>2. Copied
      BY <2>1 DEF TypeInv, TypeOK
    <2> QED BY <1>2, <2>1, <2>2
  <1>7. CASE Remove(p)
    <2>1. /\ count' \in [Procs -> -1 .. MaxNodes] /\ count'[p] \in 0 .. MaxNodes
          /\ nodes'[p] \in [Slots -> Entry] /\ nodes' \in [Procs -> [Slots -> Entry]]
      BY <1>7, RemoveTypes
    <2>2. Rewrite(p, "gone", {"aborted"})
      BY <1>7 DEF Remove
    <2>3. Written /\ (pc' = [pc EXCEPT ![p] = "gone"] \/ pc' = [pc EXCEPT ![p] = "aborted"])
      BY <2>1, <2>2, RewriteTypes
    <2>4. Places
      BY <1>7, <2>3 DEF Remove, TypeInv, TypeOK, Ended
    <2>5. Copied
      BY <2>1, NodesAssumption
    <2> QED BY <2>3, <2>4, <2>5
  <1>8. CASE RemoveFails(p)
    <2>1. /\ count' \in [Procs -> -1 .. MaxNodes] /\ nodes' \in [Procs -> [Slots -> Entry]]
          /\ area' = area
      BY <1>8, RemoveTypes DEF RemoveFails
    <2>2. Places /\ pc'[p] = "aborted"
      BY <1>8 DEF RemoveFails, TypeInv, TypeOK, Ended
    <2> QED BY <1>2, <2>1, <2>2
  <1>9. CASE OutOfBounds(p)
    <2>1. /\ count[p] \in 0 .. MaxNodes /\ count[p] # -1 /\ nodes' = nodes /\ slot' = slot /\ first' = first
          /\ nodes'[p] \in [Slots -> Entry] /\ nodes' \in [Procs -> [Slots -> Entry]]
      <3>1. count[p] # -1 /\ UNCHANGED <<nodes, slot, first>>
        BY <1>9 DEF OutOfBounds, Running, TypeInv, TypeOK
      <3>2. count[p] \in 0 .. MaxNodes
        BY <1>1, <3>1, NodesAssumption
      <3> QED BY <1>1, <3>1, <3>2 DEF TypeInv, TypeOK
    <2>2. CASE /\ pc' = [pc EXCEPT ![p] = "aborted"]
               /\ clearing' = clearing \ {p} /\ UNCHANGED <<count, area, news>>
      BY <1>2, <2>1, <2>2 DEF TypeInv, TypeOK, Ended
    <2>3. CASE Rewrite(p, "run", {"run", "thrown"}) /\ UNCHANGED <<count, news, clearing>>
      <3>1. Written /\ (pc' = [pc EXCEPT ![p] = "run"] \/ pc' = [pc EXCEPT ![p] = "thrown"])
        BY <2>1, <2>3, RewriteTypes
      <3> QED BY <2>1, <2>3, <3>1 DEF TypeInv, TypeOK, Ended
    <2>4. CASE /\ count[p] > 0 /\ count' = [count EXCEPT ![p] = count[p] - 1]
               /\ Rewrite(p, "gone", {"aborted"}) /\ news' = (news \/ pc'[p] = "gone")
               /\ clearing' = clearing \ {p}
      <3>1. count[p] - 1 \in 0 .. MaxNodes /\ count[p] - 1 # -1 /\ count[p] - 1 \in -1 .. MaxNodes
        BY <2>1, <2>4, NodesAssumption
      <3>2. count'[p] = count[p] - 1 /\ count' \in [Procs -> -1 .. MaxNodes]
        BY <2>4, <3>1 DEF TypeInv, TypeOK
      <3>3. count'[p] \in 0 .. MaxNodes
        BY <3>1, <3>2
      <3>4. Written /\ (pc' = [pc EXCEPT ![p] = "gone"] \/ pc' = [pc EXCEPT ![p] = "aborted"])
        BY <2>1, <2>4, <3>3, RewriteTypes
      <3>5. Places
        BY <2>1, <2>4, <3>4 DEF TypeInv, TypeOK, Ended
      <3> QED BY <2>1, <3>1, <3>2, <3>4, <3>5
    <2> QED BY <1>9, <2>2, <2>3, <2>4 DEF OutOfBounds
  <1> QED BY <1>3, <1>4, <1>5, <1>6, <1>7, <1>8, <1>9 DEF Move

LEMMA TypeStep == TypeInv /\ [Next]_vars => TypeInv' /\ (Fits' => Fits)
  <1> SUFFICES ASSUME TypeInv, [Next]_vars PROVE TypeInv' /\ (Fits' => Fits)
    OBVIOUS
  <1>1. CASE Next
    <2>1. PICK p \in Procs : Move(p) /\ orderly' = (orderly /\ Orderly(p))
      BY <1>1 DEF Next
    <2>2. TypeInv' /\ area'.extent >= area.extent
      BY <2>1, TypeOfMove
    <2>3. area.extent \in Nat /\ area'.extent \in Nat
      BY <2>2 DEF TypeInv, TypeOK
    <2> QED BY <2>2, <2>3, SizeTypes DEF Fits
  <1>2. CASE UNCHANGED vars
    BY <1>2 DEF vars, TypeInv, TypeOK, Table, Fits
  <1> QED BY <1>1, <1>2

-----------------------------------------------------------------------------
(* The rules.                                                              *)

LEMMA InitRules == Init => Rules
  <1> SUFFICES ASSUME Init PROVE Rules
    OBVIOUS
  <1>1. Table = <<>> /\ Len(Table) = 0 /\ area.extent = 0 /\ area.table = <<>>
    BY EmptySeq DEF Init, Blank, Table
  <1>2. Table \in Seq(Entry) /\ 1 .. Len(Table) = {}
    BY <1>1, EmptySeq
  <1>3. Length(Table) \in Nat /\ Readings(area) = {Table}
    <2>1. Letters(Table) = {}
      BY <1>2, LengthType DEF Letters
    <2>2. Cardinality({}) = 0
      BY FS_EmptySet
    <2>3. Length(Table) = HeadSize
      BY <2>1, <2>2, SizeTypes DEF Length
    <2>4. Length(area.table) # ReadSize
      BY <1>1, <2>3, SizeTypes
    <2> QED BY <1>1, <2>3, <2>4, SizeTypes DEF Readings
  <1>4. TextInv
    BY <1>1, <1>3 DEF TextInv
  <1>5. EntryInv
    BY <1>2 DEF Init, EntryInv
  <1>6. CopyInv
    <2>1. \A p \in Procs : count[p] = 0 /\ \A i \in Slots : nodes[p][i] = Empty /\ ~(i < 0)
      BY NodesAssumption DEF Init, Slots
    <2> QED BY <1>1, <2>1 DEF CopyInv, OldCopy
  <1>7. FullInv
    BY DEF Init, FullInv, Running
  <1> QED BY <1>4, <1>5, <1>6, <1>7 DEF Rules

\* A process that starts copies the table, behind which its entries are empty.
LEMMA StartKeepsRules ==
  ASSUME TypeInv, Rules, NEW p \in Procs, Start(p)
  PROVE  Rules'
  <1>1. UNCHANGED <<area, slot, news, clearing>> /\ Table' = Table
    BY DEF Start, Table
  <1>2. pc[p] = "off" /\ pc'[p] = "register"
    BY DEF Start, TypeInv, TypeOK
  <1>3. \A q \in Procs \ {p} : pc'[q] = pc[q] /\ count'[q] = count[q] /\ nodes'[q] = nodes[q]
    BY Others DEF Move
  <1>4. TextInv'
    BY <1>1 DEF Rules, TextInv
  <1>5. EntryInv'
    <2>1. \A i \in 1 .. Len(Table) : Table[i].name # p
      BY <1>2 DEF Rules, EntryInv, Running
    <2>2. slot[p] = NoSlot
      BY <1>2 DEF Rules, EntryInv, Running
    <2> QED BY <1>1, <1>3, <2>1, <2>2 DEF Rules, EntryInv, Running
  <1>6. CopyInv'
    <2>1. Len(Table) \in 0 .. MaxNodes /\ Len(Table) \in 0 .. Len(Table)
          /\ \A i \in 1 .. Len(Table) : Table[i] \in Entry
      BY Facts, NodesAssumption
    <2>2. /\ count'[p] = Len(Table)
          /\ \A i \in Slots : /\ i < Len(Table) => nodes'[p][i] = Table[i + 1] /\ i + 1 \in 1 .. Len(Table)
                              /\ i >= Len(Table) => nodes'[p][i] = nodes[p][i]
      BY ReloadTypes DEF Start, Rules, TextInv
    <2>3. \A i \in Slots : i < Len(Table) => Older(Table[i + 1], Table[i + 1])
      <3>1. \A f \in Entry : f.size \in Nat
        BY SizeTypes DEF Entry
      <3>2. \A f \in Entry : Older(f, f)
        BY <3>1 DEF Older
      <3> QED BY <2>1, <2>2, <3>2
    <2>4. \A i \in Slots : i >= Len(Table) => nodes[p][i] = Empty
      <3>1. \A i \in Slots : i \in Int
        BY NodesAssumption DEF Slots
      <3>2. OldCopy(p)
        BY <1>2 DEF Rules, CopyInv
      <3>3. \A i \in Slots : i >= Len(Table) => i >= count[p]
        BY <2>1, <3>1, <3>2, NodesAssumption DEF OldCopy
      <3> QED BY <3>2, <3>3 DEF OldCopy
    <2>5. OldCopy(p)'
      BY <1>1, <2>1, <2>2, <2>3, <2>4 DEF OldCopy
    <2>6. \A q \in Procs \ {p} : pc'[q] # "thrown" => OldCopy(q)'
      BY <1>1, <1>3 DEF Rules, CopyInv, OldCopy
    <2> QED BY <2>5, <2>6 DEF CopyInv
  <1>7. FullInv'
    BY <1>1, <1>2, <1>3 DEF Rules, FullInv, Running
  <1> QED BY <1>4, <1>5, <1>6, <1>7 DEF Rules

\* The slots that are free in a copy are those behind its count.
LEMMA FreeSlots ==
  ASSUME TypeInv, Rules, NEW p \in Procs, OldCopy(p)
  PROVE  \A i \in Slots : i \in Free(p) <=> i >= count[p]
  <1>1. count[p] \in 0 .. Len(Table) /\ Len(Table) \in 0 .. MaxNodes
    BY Facts DEF OldCopy
  <1>2. ASSUME NEW i \in Slots PROVE i \in Free(p) <=> i >= count[p]
    <2>1. i \in Nat
      BY NodesAssumption DEF Slots
    <2>2. CASE i < count[p]
      <3>1. Older(nodes[p][i], Table[i + 1]) /\ i + 1 \in 1 .. Len(Table)
        BY <1>1, <2>1, <2>2, NodesAssumption DEF OldCopy
      <3>2. nodes[p][i].alive
        BY <3>1 DEF Rules, EntryInv, Older
      <3> QED BY <1>1, <2>1, <2>2, <3>2, NodesAssumption DEF Free
    <2>3. CASE ~(i < count[p])
      <3>1. nodes[p][i] = Empty
        BY <1>1, <2>1, <2>3, NodesAssumption DEF OldCopy
      <3>2. ~nodes[p][i].alive
        BY <3>1 DEF Empty
      <3> QED BY <1>1, <2>1, <2>3, <3>2, NodesAssumption DEF Free
    <2> QED BY <2>2, <2>3
  <1> QED BY <1>2

LEMMA RefusedMeansFull ==
  ASSUME TypeInv, Rules, NEW p \in Procs, pc[p] = "register"
  PROVE  /\ OldCopy(p)
         /\ Refused(p) => Len(Table) = MaxNodes
         /\ ~Refused(p) => count[p] \in Slots /\ NextSlot(p) = count[p]
  <1> OldCopy(p)
    BY DEF Rules, CopyInv
  <1>1. count[p] \in 0 .. Len(Table) /\ Len(Table) \in 0 .. MaxNodes
    BY Facts DEF OldCopy
  <1>2. Slots = 0 .. MaxNodes - 1 /\ Free(p) \subseteq Slots
    BY DEF Slots, Free
  <1>3. count[p] < MaxNodes => count[p] \in Free(p)
    BY <1>1, <1>2, FreeSlots, NodesAssumption
  <1>4. ASSUME Refused(p) PROVE Len(Table) = MaxNodes
    BY <1>1, <1>3, <1>4, NodesAssumption DEF Refused
  <1>5. ASSUME ~Refused(p) PROVE count[p] \in Slots /\ NextSlot(p) = count[p]
    <2>1. count[p] < MaxNodes /\ Free(p) # {}
      BY <1>1, <1>5, NodesAssumption DEF Refused
    <2>2. NextSlot(p) \in Slots /\ NextSlot(p) >= count[p] /\ NextSlot(p) <= count[p]
      BY <1>2, <1>3, <2>1, LeastFree, FreeSlots
    <2> QED BY <1>1, <1>2, <1>3, <2>1, <2>2, NodesAssumption
  <1> QED BY <1>4, <1>5

\* A node that is refused changes no table, and the table is full.
LEMMA RefusalKeepsRules ==
  ASSUME TypeInv, Rules, NEW p \in Procs, Register(p), Refused(p)
  PROVE  Rules'
  <1>1. UNCHANGED <<count, nodes, slot, area, news, clearing>> /\ Table' = Table
    BY DEF Register, Table
  <1>2. pc[p] = "register" /\ pc'[p] = "run" /\ \A q \in Procs \ {p} : pc'[q] = pc[q]
    BY DEF Register, TypeInv, TypeOK
  <1>3. TextInv'
    BY <1>1 DEF Rules, TextInv
  <1>4. CopyInv'
    BY <1>1, <1>2 DEF Rules, CopyInv, OldCopy
  <1>5. EntryInv'
    BY <1>1, <1>2 DEF Rules, EntryInv, Running
  <1>6. FullInv'
    BY <1>1, <1>2, RefusedMeansFull DEF Rules, FullInv, Running
  <1> QED BY <1>3, <1>4, <1>5, <1>6 DEF Rules

\* The copy of a node that registers, with its entry appended, has a text that is
\* longer than that of the table by the entry at most.
LEMMA Appending ==
  ASSUME TypeInv, TypeInv', Rules, NEW p \in Procs, Register(p), ~Refused(p)
  PROVE  \E n \in Sizes :
           LET e == [name |-> p, alive |-> TRUE, size |-> n] IN
           /\ count[p] \in Slots /\ count[p] \in 0 .. Len(Table)
           /\ Len(Copy(p)') = count[p] + 1 /\ Copy(p)'[count[p] + 1] = e
           /\ \A i \in 1 .. count[p] : Older(Copy(p)'[i], Table[i]) /\ Copy(p)'[i] = Copy(p)[i]
           /\ Length(Copy(p)') <= Length(Table) + n
           /\ count'[p] = count[p] + 1 /\ nodes'[p][count[p]] = e
           /\ \A i \in Slots \ {count[p]} : nodes'[p][i] = nodes[p][i]
  <1> DEFINE k == count[p]
  <1>1. /\ k \in Slots /\ NextSlot(p) = k /\ k \in 0 .. Len(Table) /\ k \in Nat /\ k < MaxNodes
        /\ OldCopy(p) /\ Len(Table) \in 0 .. MaxNodes
    <2>1. OldCopy(p) /\ k \in Slots /\ NextSlot(p) = k
      BY RefusedMeansFull DEF Register
    <2> QED BY <2>1, Facts, NodesAssumption DEF OldCopy, Slots
  <1>2. PICK n \in Sizes :
           LET e == [name |-> p, alive |-> TRUE, size |-> n] IN
           /\ count'[p] = k + 1 /\ nodes'[p][k] = e /\ e \in Entry
           /\ \A i \in Slots \ {k} : nodes'[p][i] = nodes[p][i]
           /\ nodes'[p] \in [Slots -> Entry]
    BY <1>1, AddedTypes
  <1> DEFINE e == [name |-> p, alive |-> TRUE, size |-> n]
             u == Copy(p)'
  <1>3. u = [i \in 1 .. k + 1 |-> nodes'[p][i - 1]]
    BY <1>2 DEF Copy
  <1>4. u \in Seq(Entry) /\ Len(u) = k + 1
    <2>1. k + 1 \in 0 .. MaxNodes
      BY <1>1, NodesAssumption
    <2> HIDE DEF k, u
    <2> QED BY <1>2, <1>3, <2>1, Prefix
  <1>5. u[k + 1] = e
    <2> HIDE DEF k, u
    <2> QED BY <1>1, <1>2, <1>3 DEF e
  <1>6. \A i \in 1 .. k : u[i] = Copy(p)[i] /\ Older(u[i], Table[i])
    <2> SUFFICES ASSUME NEW i \in 1 .. k PROVE u[i] = Copy(p)[i] /\ Older(u[i], Table[i])
      OBVIOUS
    <2>1. i - 1 \in Slots /\ i - 1 < k /\ i - 1 # k /\ i - 1 + 1 = i /\ i \in 1 .. k + 1
      BY <1>1, NodesAssumption DEF Slots
    <2>2. Older(nodes[p][i - 1], Table[i])
      BY <1>1, <2>1 DEF OldCopy
    <2>3. nodes'[p][i - 1] = nodes[p][i - 1]
      BY <1>2, <2>1
    <2>4. Copy(p)[i] = nodes[p][i - 1]
      BY DEF Copy
    <2>5. u[i] = nodes'[p][i - 1]
      BY <1>3, <2>1
    <2> QED BY <2>2, <2>3, <2>4, <2>5
  <1>7. Length(u) <= Length(Table) + n
    <2>1. e.alive /\ e.size = n /\ Chars(e) = n /\ n \in Nat
      BY SizeTypes DEF Chars
    <2>2. \A i \in 1 .. k : Chars(u[i]) <= Chars(Table[i]) /\ i <= Len(Table)
      <3> SUFFICES ASSUME NEW i \in 1 .. k PROVE Chars(u[i]) <= Chars(Table[i]) /\ i <= Len(Table)
        OBVIOUS
      <3>1. i \in 1 .. Len(Table) /\ i \in 1 .. Len(u)
        BY <1>1, <1>4
      <3>2. u[i] \in Entry /\ Table[i] \in Entry
        BY <1>4, <3>1, Facts, ElementOfSeq
      <3>3. u[i].size \in Nat /\ Table[i].size \in Nat
        BY <3>2, SizeTypes DEF Entry
      <3> HIDE DEF u, k
      <3> QED BY <1>6, <3>1, <3>3 DEF Older, Chars
    <2>3. Table \in Seq(Entry) /\ k + 1 \in Nat /\ 0 \in Nat
      BY <1>1, Facts
    <2>4. \A i \in 1 .. Len(u) : i # k + 1 => i \in 1 .. k
      BY <1>1, <1>4
    <2> HIDE DEF u, k, e
    <2>5. \A i \in 1 .. Len(u) : i # k + 1 => i <= Len(Table) /\ Chars(u[i]) <= Chars(Table[i])
      BY <2>2, <2>4
    <2>6. Within(u, Table, k + 1, 0, n)
      BY <1>5, <2>1, <2>5 DEF Within
    <2>7. u \in Seq(Entry) /\ n \in Nat
      BY <1>4, <2>1
    <2> QED BY <2>3, <2>6, <2>7, Extra
  <1> HIDE DEF u, k, e
  <1>8. count'[p] = k + 1 /\ nodes'[p][k] = e /\ \A i \in Slots \ {k} : nodes'[p][i] = nodes[p][i]
    BY <1>2 DEF e
  <1> QED BY <1>1, <1>4, <1>5, <1>6, <1>7, <1>8 DEF u, k, e

\* A node whose constructor throws changes no text, and its entry was too long.
LEMMA ThrowKeepsRules ==
  ASSUME TypeInv, TypeInv', Rules, NEW p \in Procs, Register(p), ~Refused(p), pc'[p] = "thrown"
  PROVE  Rules'
  <1>1. /\ pc[p] = "register" /\ UNCHANGED <<news, clearing>> /\ Rewrite(p, "run", {"thrown"})
        /\ slot' = [slot EXCEPT ![p] = NextSlot(p)]
    BY DEF Register
  <1>2. \A q \in Procs \ {p} : /\ pc'[q] = pc[q] /\ count'[q] = count[q]
                               /\ nodes'[q] = nodes[q] /\ slot'[q] = slot[q]
    BY Others DEF Move
  <1>3. area' = area /\ Length(Copy(p)') > WriteSize /\ Length(Copy(p)') \in Nat
    <2>1. count'[p] \in 0 .. MaxNodes /\ nodes'[p] \in [Slots -> Entry]
      <3>1. count'[p] # -1
        BY DEF TypeInv, TypeOK
      <3> QED BY <3>1, NodesAssumption DEF TypeInv, TypeOK
    <2>2. pc' # [pc EXCEPT ![p] = "run"]
      BY DEF TypeInv, TypeOK
    <2> QED BY <1>1, <2>1, <2>2, RewriteTypes
  <1>4. Table' = Table
    BY <1>3 DEF Table
  <1>5. TextInv'
    BY <1>3, <1>4 DEF Rules, TextInv
  <1>6. EntryInv'
    <2>1. \A i \in 1 .. Len(Table) : Table[i].name # p
      BY <1>1 DEF Rules, EntryInv, Running
    <2> QED BY <1>2, <1>4, <2>1 DEF Rules, EntryInv, Running
  <1>7. CopyInv'
    BY <1>2, <1>4 DEF Rules, CopyInv, OldCopy
  <1>8. FullInv'
    <2>1. \E n \in Sizes : Length(Copy(p)') <= Length(Table) + n
      BY Appending
    <2>2. \E n \in Sizes : Length(Table) + n > WriteSize
      BY <1>3, <2>1, Facts, SizeTypes
    <2> QED BY <1>1, <1>2, <1>4, <2>2 DEF Rules, FullInv, Running
  <1> QED BY <1>5, <1>6, <1>7, <1>8 DEF Rules

\* A table that is written over one that is shorter is read as it is.
LEMMA LongerIsRead ==
  ASSUME TypeInv, TypeInv', TextInv, NEW p \in Procs, area' = Write(area, Copy(p)'), area'.table = Copy(p)',
         Length(Table) <= Length(Table'), Fits'
  PROVE  TextInv'
  <1>1. Length(Table') \in Nat /\ area.extent \in Nat /\ area'.extent \in Nat /\ Length(Table) \in Nat
    <2>1. Table' \in Seq(Entry) /\ area'.extent \in Nat
      BY DEF TypeInv, TypeOK, Table
    <2> QED BY <2>1, Facts, LengthType
  <1>2. area'.extent = Length(Table')
    <2>1. area'.extent = IF Length(Table') > area.extent THEN Length(Table') ELSE area.extent
      BY DEF Write, Table
    <2>2. area.extent <= Length(Table)
      BY DEF TextInv
    <2> QED BY <1>1, <2>1, <2>2
  <1>3. Length(Table') < ReadSize /\ Length(Table') # ReadSize
    BY <1>1, <1>2, SizeTypes DEF Fits
  <1>4. Readings(area') = {Table'}
    BY <1>2, <1>3 DEF Readings, Table
  <1> QED BY <1>1, <1>2, <1>4 DEF TextInv

\* A node that is accepted, and had the table as it was, appends its entry.
LEMMA Appended ==
  ASSUME TypeInv, TypeInv', Rules, NEW p \in Procs, Register(p), ~Refused(p), Orderly(p), pc'[p] = "run"
  PROVE  \E n \in Sizes :
           LET e == [name |-> p, alive |-> TRUE, size |-> n] IN
           /\ count[p] \in Slots /\ Len(Table) = count[p] /\ Len(Table') = count[p] + 1
           /\ \A i \in 1 .. count[p] : Table'[i] = Table[i]
           /\ Table'[count[p] + 1] = e
           /\ count'[p] = count[p] + 1 /\ nodes'[p][count[p]] = e
           /\ \A i \in Slots \ {count[p]} : nodes'[p][i] = nodes[p][i]
           /\ area' = Write(area, Copy(p)') /\ area'.table = Copy(p)'
  <1> DEFINE k == count[p]
  <1>1. PICK n \in Sizes :
           LET e == [name |-> p, alive |-> TRUE, size |-> n] IN
           /\ k \in Slots /\ k \in 0 .. Len(Table)
           /\ Len(Copy(p)') = k + 1 /\ Copy(p)'[k + 1] = e
           /\ \A i \in 1 .. k : Copy(p)'[i] = Copy(p)[i]
           /\ count'[p] = k + 1 /\ nodes'[p][k] = e
           /\ \A i \in Slots \ {k} : nodes'[p][i] = nodes[p][i]
    BY Appending
  <1> DEFINE e == [name |-> p, alive |-> TRUE, size |-> n]
  <1>2. area' = Write(area, Copy(p)') /\ area'.table = Copy(p)'
    <2>1. count'[p] \in 0 .. MaxNodes /\ nodes'[p] \in [Slots -> Entry]
      <3>1. count'[p] # -1
        BY DEF TypeInv, TypeOK
      <3> QED BY <3>1, NodesAssumption DEF TypeInv, TypeOK
    <2>2. Rewrite(p, "run", {"thrown"}) /\ pc' # [pc EXCEPT ![p] = "thrown"]
      BY DEF Register, TypeInv, TypeOK
    <2> QED BY <2>1, <2>2, RewriteTypes
  <1>3. Table' = Copy(p)'
    BY <1>2 DEF Table
  <1>4. e.name = p
    OBVIOUS
  <1>5. Table'[k + 1] = e /\ Len(Table') = k + 1 /\ k \in Nat
    <2>1. k \in Nat
      BY <1>1, NodesAssumption DEF Slots
    <2> QED BY <1>1, <1>3, <2>1
  <1> HIDE DEF e, k
  <1>6. area' # area
    <2> SUFFICES ASSUME area' = area PROVE FALSE
      OBVIOUS
    <2>1. Table' = Table
      BY DEF Table
    <2>2. k + 1 \in 1 .. Len(Table) /\ Table[k + 1].name = p
      BY <1>4, <1>5, <2>1
    <2>3. Running(p)
      BY <2>2 DEF Rules, EntryInv
    <2> QED BY <2>3 DEF Register, Running
  <1>7. Table = Copy(p)
    BY <1>6 DEF Orderly, Rules, TextInv
  <1>8. Len(Table) = k
    <2>1. nodes[p] \in [Slots -> Entry] /\ k \in 0 .. MaxNodes
      BY <1>1, NodesAssumption DEF TypeInv, TypeOK, Slots
    <2>2. Table = [i \in 1 .. k |-> nodes[p][i - 1]]
      BY <1>7 DEF Copy, k
    <2> QED BY <2>1, <2>2, Prefix
  <1>9. \A i \in 1 .. k : Table'[i] = Table[i]
    BY <1>1, <1>3, <1>7
  <1> QED BY <1>1, <1>2, <1>5, <1>8, <1>9 DEF e, k

LEMMA AcceptanceKeepsRules ==
  ASSUME TypeInv, TypeInv', Rules, NEW p \in Procs, Register(p), ~Refused(p), Orderly(p), pc'[p] = "run",
         Fits'
  PROVE  Rules'
  <1> DEFINE n == count[p]
  <1>1. PICK s \in Sizes :
           LET e == [name |-> p, alive |-> TRUE, size |-> s] IN
           /\ n \in Slots /\ Len(Table) = n /\ Len(Table') = n + 1
           /\ \A i \in 1 .. n : Table'[i] = Table[i]
           /\ Table'[n + 1] = e
           /\ count'[p] = n + 1 /\ nodes'[p][n] = e
           /\ \A i \in Slots \ {n} : nodes'[p][i] = nodes[p][i]
           /\ area' = Write(area, Copy(p)') /\ area'.table = Copy(p)'
    BY Appended
  <1> DEFINE e == [name |-> p, alive |-> TRUE, size |-> s]
  <1>2. n \in Nat /\ n < MaxNodes /\ n \in Int
    BY <1>1, NodesAssumption DEF Slots
  <1>3. /\ pc[p] = "register" /\ UNCHANGED <<news, clearing>>
        /\ \A q \in Procs \ {p} : /\ pc'[q] = pc[q] /\ slot'[q] = slot[q]
                                  /\ count'[q] = count[q] /\ nodes'[q] = nodes[q]
    BY Others DEF Move, Register
  <1>4. slot'[p] = n
    <2>1. slot' = [slot EXCEPT ![p] = NextSlot(p)] /\ NextSlot(p) = count[p]
      BY RefusedMeansFull DEF Register
    <2> QED BY <2>1 DEF TypeInv, TypeOK
  <1>5. e.name = p /\ e.alive /\ e \in Entry /\ Older(e, e)
    BY Entries, SizeTypes DEF Older
  <1>6. \A i \in 1 .. n : Table[i].name # p
    BY <1>1, <1>3 DEF Rules, EntryInv, Running
  <1>7. \A i \in Slots : i \in Nat
    BY NodesAssumption DEF Slots
  <1>8. nodes'[p][n] = e /\ Table'[n + 1] = e
    BY <1>1
  <1> HIDE DEF n, e
  <1>9. Length(Table) <= Length(Table') /\ Length(Table) \in Nat /\ Length(Table') \in Nat
    <2>1. Table \in Seq(Entry) /\ Table' \in Seq(Entry)
      BY DEF TypeInv, TypeOK, Table
    <2>2. \A i \in 1 .. Len(Table) : Table[i] \in Entry
      BY Facts
    <2>3. \A i \in 1 .. Len(Table) : Chars(Table[i]) <= Chars(Table'[i])
      <3>1. \A f \in Entry : Chars(f) <= Chars(f)
        BY Entries
      <3> QED BY <1>1, <2>2, <3>1
    <2>4. Length(Table) + 2 <= Length(Table')
      BY <1>1, <1>2, <2>1, <2>3, Longer
    <2> QED BY <2>1, <2>4, LengthType
  <1>10. TextInv'
    BY <1>1, <1>9, LongerIsRead DEF Rules
  <1>11. EntryInv'
    <2>1. ASSUME NEW i \in 1 .. n + 1
          PROVE  /\ Table'[i].alive /\ Table'[i].name \in Procs
                 /\ pc'[Table'[i].name] = "run" /\ slot'[Table'[i].name] = i - 1
      <3>1. CASE i = n + 1
        BY <1>2, <1>4, <1>5, <1>8, <3>1
      <3>2. CASE i \in 1 .. n
        BY <1>1, <1>3, <1>6, <3>2 DEF Rules, EntryInv, Running
      <3> QED BY <1>2, <3>1, <3>2
    <2>2. ASSUME NEW q \in Procs, slot'[q] # NoSlot, pc'[q] # "thrown"
          PROVE  pc'[q] = "run" /\ slot'[q] + 1 \in 1 .. n + 1 /\ Table'[slot'[q] + 1].name = q
      <3>1. CASE q = p
        BY <1>2, <1>4, <1>5, <1>8, <3>1
      <3>2. CASE q # p
        <4>1. /\ slot'[q] = slot[q] /\ slot[q] + 1 \in 1 .. n /\ Table[slot[q] + 1].name = q
              /\ pc[q] = "run" /\ pc'[q] = pc[q]
          BY <1>1, <1>3, <2>2, <3>2 DEF Rules, EntryInv, Running
        <4> QED BY <1>1, <1>2, <4>1
      <3> QED BY <3>1, <3>2
    <2> QED BY <1>1, <2>1, <2>2 DEF EntryInv, Running
  <1>12. CopyInv'
    <2>1. ASSUME NEW q \in Procs, pc'[q] # "thrown" PROVE OldCopy(q)'
      <3>1. pc[q] # "thrown"
        BY <1>3, <2>1
      <3>2. count[q] \in 0 .. n /\ \A i \in Slots : /\ i < count[q] => Older(nodes[q][i], Table[i + 1])
                                                    /\ i >= count[q] => nodes[q][i] = Empty
        BY <1>1, <3>1 DEF Rules, CopyInv, OldCopy
      <3>3. \A i \in Slots : i < n => Table'[i + 1] = Table[i + 1]
        BY <1>1, <1>2, <1>7
      <3>4. CASE q = p
        <4>1. \A i \in Slots \ {n} : nodes'[q][i] = nodes[q][i]
          BY <1>1, <3>4
        <4>2. /\ \A i \in Slots \ {n} : i < n + 1 <=> i < n
              /\ \A i \in Slots \ {n} : i >= n + 1 <=> i >= n
              /\ n < n + 1 /\ ~(n >= n + 1) /\ n + 1 \in 0 .. n + 1
          BY <1>2, <1>7
        <4>3. count[q] = n /\ count'[q] = n + 1 /\ Len(Table') = n + 1
          BY <1>1, <3>4 DEF n
        <4>4. \A i \in Slots : /\ i < n + 1 => Older(nodes'[q][i], Table'[i + 1])
                               /\ i >= n + 1 => nodes'[q][i] = Empty
          <5>1. Older(nodes'[q][n], Table'[n + 1])
            BY <1>5, <1>8, <3>4
          <5> QED BY <3>2, <3>3, <4>1, <4>2, <4>3, <5>1
        <4> QED BY <4>2, <4>3, <4>4 DEF OldCopy
      <3>5. CASE q # p
        <4>1. count'[q] = count[q] /\ nodes'[q] = nodes[q] /\ Len(Table') = n + 1
          BY <1>1, <1>3, <3>5
        <4>2. \A i \in Slots : i < count[q] => i < n
          BY <1>2, <1>7, <3>2
        <4>3. count[q] \in 0 .. n + 1
          BY <1>2, <3>2
        <4> QED BY <3>2, <3>3, <4>1, <4>2, <4>3 DEF OldCopy
      <3> QED BY <3>4, <3>5
    <2> QED BY <2>1 DEF CopyInv
  <1>13. FullInv'
    <2>1. \A q \in Procs : Running(q)' => slot'[q] # NoSlot
      <3>1. \A q \in Procs : Running(q) => slot[q] # NoSlot
        BY <1>1, <1>2, NodesAssumption DEF Rules, FullInv
      <3> QED BY <1>2, <1>3, <1>4, <3>1 DEF Running, NoSlot
    <2>2. \A q \in Procs : pc'[q] = "thrown" => \E m \in Sizes : Length(Table') + m > WriteSize
      <3>1. ASSUME NEW q \in Procs, pc'[q] = "thrown"
            PROVE  \E m \in Sizes : Length(Table') + m > WriteSize
        <4>1. pc[q] = "thrown"
          BY <1>3, <3>1
        <4>2. PICK m \in Sizes : Length(Table) + m > WriteSize
          BY <4>1 DEF Rules, FullInv
        <4> QED BY <1>9, <4>2, SizeTypes
      <3> QED BY <3>1
    <2> QED BY <1>3, <2>1, <2>2 DEF Rules, FullInv
  <1> QED BY <1>10, <1>11, <1>12, <1>13 DEF Rules

\* A table is written whose entries may have become longer.
LEMMA GrowthKeepsRules ==
  ASSUME TypeInv, TypeInv', Rules, Fits', NEW p \in Procs, UNCHANGED <<count, slot, pc, news, clearing>>,
         area' = Write(area, Copy(p)'), area'.table = Copy(p)',
         Len(Table') = Len(Table), \A i \in 1 .. Len(Table) : Older(Table[i], Table'[i]),
         pc[p] # "thrown" => OldCopy(p)', \A q \in Procs \ {p} : nodes'[q] = nodes[q]
  PROVE  Rules'
  <1>1. /\ Table \in Seq(Entry) /\ Table' \in Seq(Entry) /\ Len(Table) \in Nat
        /\ Length(Table) \in Nat /\ Length(Table') \in Nat
        /\ \A i \in 1 .. Len(Table) : Table[i] \in Entry /\ Table'[i] \in Entry
    <2>1. Table' \in Seq(Entry)
      BY DEF TypeInv, TypeOK, Table
    <2> QED BY <2>1, Facts, LengthType
  <1>2. Length(Table) <= Length(Table')
    <2>1. \A e, f \in Entry : Older(e, f) => Chars(e) <= Chars(f)
      <3>1. \A e \in Entry : e.size \in Nat
        BY SizeTypes DEF Entry
      <3> QED BY <3>1 DEF Older, Chars
    <2>2. Within(Table, Table', 0, 0, 0)
      BY <1>1, <2>1 DEF Within
    <2> QED BY <1>1, <2>2, Extra
  <1>3. TextInv'
    BY <1>2, LongerIsRead DEF Rules
  <1>4. EntryInv'
    <2>1. \A i \in 1 .. Len(Table) : Table'[i].name = Table[i].name /\ Table'[i].alive = Table[i].alive
      BY DEF Older
    <2> QED BY <2>1 DEF Rules, EntryInv, Running
  <1>5. CopyInv'
    <2> SUFFICES ASSUME NEW q \in Procs \ {p}, pc[q] # "thrown" PROVE OldCopy(q)'
      BY DEF CopyInv
    <2>1. OldCopy(q) /\ count'[q] = count[q] /\ nodes'[q] = nodes[q] /\ nodes[q] \in [Slots -> Entry]
      BY DEF Rules, CopyInv, TypeInv, TypeOK
    <2>2. \A i \in Slots : i < count[q] => i + 1 \in 1 .. Len(Table)
      BY <1>1, <2>1, NodesAssumption DEF OldCopy, Slots
    <2>3. \A e, f, g \in Entry : Older(e, f) /\ Older(f, g) => Older(e, g)
      <3>1. \A e \in Entry : e.size \in Nat
        BY SizeTypes DEF Entry
      <3> QED BY <3>1 DEF Older
    <2>4. \A i \in Slots : i < count[q] => Older(nodes[q][i], Table'[i + 1])
      <3> SUFFICES ASSUME NEW i \in Slots, i < count[q] PROVE Older(nodes[q][i], Table'[i + 1])
        OBVIOUS
      <3>1. Older(nodes[q][i], Table[i + 1]) /\ Older(Table[i + 1], Table'[i + 1])
        BY <2>1, <2>2 DEF OldCopy
      <3>2. nodes[q][i] \in Entry /\ Table[i + 1] \in Entry /\ Table'[i + 1] \in Entry
        BY <1>1, <2>1, <2>2
      <3> QED BY <2>3, <3>1, <3>2
    <2> QED BY <2>1, <2>4 DEF OldCopy
  <1>6. FullInv'
    <2>1. \A m \in Sizes : Length(Table) + m > WriteSize => Length(Table') + m > WriteSize
      BY <1>1, <1>2, SizeTypes
    <2> QED BY <2>1 DEF Rules, FullInv, Running
  <1> QED BY <1>3, <1>4, <1>5, <1>6 DEF Rules

\* The text of a copy, as long as the text in the segment fits, would fit too.
LEMMA CopyFits ==
  ASSUME TypeInv, Rules, Fits, NEW p \in Procs, pc[p] = "run"
  PROVE  /\ Length(Copy(p)) < ReadSize
         /\ \A i \in Slots : i < count[p] => nodes[p][i].alive
  <1> DEFINE t == Copy(p)
             k == count[p]
  <1>1. k \in 0 .. MaxNodes /\ OldCopy(p) /\ nodes[p] \in [Slots -> Entry]
    <2>1. OldCopy(p) /\ nodes[p] \in [Slots -> Entry] /\ count[p] # -1 /\ count[p] \in -1 .. MaxNodes
      BY DEF Rules, CopyInv, TypeInv, TypeOK
    <2> QED BY <2>1, NodesAssumption
  <1>2. t = [j \in 1 .. k |-> nodes[p][j - 1]]
    BY DEF Copy
  <1>3. t \in Seq(Entry) /\ Len(t) = k
    <2> HIDE DEF k, t
    <2> QED BY <1>1, <1>2, Prefix
  <1>4. \A j \in 1 .. k : /\ j - 1 \in Slots /\ t[j] = nodes[p][j - 1]
                          /\ j - 1 < k /\ j - 1 + 1 = j /\ j \in 1 .. Len(Table)
    <2>1. \A j \in 1 .. k : j - 1 \in Slots /\ j - 1 < k /\ j - 1 + 1 = j /\ j \in 1 .. Len(Table)
      BY <1>1, Facts, NodesAssumption DEF Slots, OldCopy
    <2> HIDE DEF t, k
    <2> QED BY <1>2, <2>1
  <1>5. Length(t) \in Nat /\ Length(Table) \in Nat /\ Table \in Seq(Entry)
    BY <1>3, LengthType, Facts
  <1>6. Length(t) <= Length(Table)
    <2>1. \A j \in 1 .. k : t[j] \in Entry /\ Table[j] \in Entry /\ Older(t[j], Table[j]) /\ j <= Len(Table)
      <3> SUFFICES ASSUME NEW j \in 1 .. k
                   PROVE t[j] \in Entry /\ Table[j] \in Entry /\ Older(t[j], Table[j]) /\ j <= Len(Table)
        OBVIOUS
      <3>1. Older(nodes[p][j - 1], Table[j])
        BY <1>1, <1>4 DEF OldCopy
      <3>2. j <= Len(Table)
        BY <1>1, <1>4, Facts
      <3> HIDE DEF k, t
      <3> QED BY <1>1, <1>4, <3>1, <3>2, Facts
    <2>2. \A e, f \in Entry : Older(e, f) => Chars(e) <= Chars(f)
      <3>1. \A e \in Entry : e.size \in Nat
        BY SizeTypes DEF Entry
      <3> QED BY <3>1 DEF Older, Chars
    <2> HIDE DEF t, k
    <2>3. Within(t, Table, 0, 0, 0)
      BY <1>1, <1>3, <2>1, <2>2 DEF Within
    <2> QED BY <1>3, <1>5, <2>3, Extra
  <1>7. Length(Table) < ReadSize
    <2>1. CASE Table = <<>>
      BY <2>1, LengthOfEmpty, SizeTypes
    <2>2. CASE Table # <<>>
      BY <1>5, <2>2, Facts, SizeTypes DEF TypeInv, Fits
    <2> QED BY <2>1, <2>2
  <1>8. ASSUME NEW i \in Slots, i < k PROVE nodes[p][i].alive
    <2>1. i + 1 \in 1 .. Len(Table)
      BY <1>1, <1>8, Facts, NodesAssumption DEF Slots, OldCopy
    <2>2. Older(nodes[p][i], Table[i + 1]) /\ Table[i + 1].alive
      BY <1>1, <1>8, <2>1 DEF OldCopy, Rules, EntryInv
    <2> QED BY <2>2 DEF Older
  <1>9. Length(t) < ReadSize
    BY <1>5, <1>6, <1>7, SizeTypes
  <1> QED BY <1>8, <1>9

\* The table of a node that counts a topic, if its text fits, is
\* written, and what it gets longer does not matter.
LEMMA Recounted ==
  ASSUME TypeInv, NEW p \in Procs, Recount(p), Length(Copy(p)) < ReadSize,
         \A i \in Slots : i < count[p] => nodes[p][i].alive
  PROVE  /\ count[p] \in 0 .. MaxNodes /\ Len(Copy(p)') = count[p]
         /\ slot[p] \in Slots /\ nodes[p][slot[p]] \in Entry
         /\ nodes'[p] \in [Slots -> Entry] /\ count' = count
         /\ \A i \in Slots : i # slot[p] => nodes'[p][i] = nodes[p][i]
         /\ nodes'[p][slot[p]].name = nodes[p][slot[p]].name
         /\ nodes'[p][slot[p]].alive = nodes[p][slot[p]].alive
         /\ area' = Write(area, Copy(p)') /\ area'.table = Copy(p)' /\ pc' = pc
  <1> DEFINE i == slot[p]
             u == Copy(p)'
             t == Copy(p)
             k == count[p]
  <1>1. PICK n \in Sizes :
           LET e == [nodes[p][i] EXCEPT !.size = n] IN
           /\ k \in 0 .. MaxNodes /\ i \in Slots /\ e \in Entry
           /\ ReadSize + n <= WriteSize + nodes[p][i].size
           /\ nodes'[p][i] = e
           /\ \A j \in Slots \ {i} : nodes'[p][j] = nodes[p][j]
           /\ nodes'[p] \in [Slots -> Entry]
    BY RecountTypes
  <1> DEFINE s == nodes[p][i].size
             d == IF n > s THEN n - s ELSE 0
  <1>2. count' = count /\ pc[p] = "run" /\ nodes[p] \in [Slots -> Entry]
    BY DEF Recount, Running, TypeInv, TypeOK
  <1>3. u = [j \in 1 .. k |-> nodes'[p][j - 1]] /\ t = [j \in 1 .. k |-> nodes[p][j - 1]]
    BY <1>2 DEF Copy
  <1>4. u \in Seq(Entry) /\ Len(u) = k /\ t \in Seq(Entry) /\ Len(t) = k
    <2> HIDE DEF k, u, t
    <2> QED BY <1>1, <1>2, <1>3, Prefix
  <1>5. \A j \in 1 .. k : j - 1 \in Slots /\ u[j] = nodes'[p][j - 1] /\ t[j] = nodes[p][j - 1]
    <2>1. \A j \in 1 .. k : j - 1 \in Slots
      BY <1>1, NodesAssumption DEF Slots
    <2> HIDE DEF u, t, k
    <2> QED BY <1>3, <2>1
  <1>6. s \in Nat /\ n \in Nat /\ d \in Nat /\ n <= s + d /\ d <= WriteSize - ReadSize /\ i \in Nat
    <2>1. s \in Nat /\ n \in Nat /\ i \in Nat
      BY <1>1, <1>2, SizeTypes, NodesAssumption DEF Entry, Slots
    <2>2. ReadSize + n <= WriteSize + s
      BY <1>1
    <2> HIDE DEF s, i
    <2> QED BY <2>1, <2>2, SizeTypes
  <1>7. nodes'[p][i].name = nodes[p][i].name /\ nodes'[p][i].alive = nodes[p][i].alive /\ nodes[p][i] \in Entry
    BY <1>1, <1>2 DEF Entry
  <1>8. Length(u) <= WriteSize
    <2>1. Length(t) \in Nat /\ Length(u) \in Nat
      BY <1>4, LengthType
    <2>2. Length(t) < ReadSize
      OBVIOUS
    <2>3. Length(u) <= Length(t) + d
      <3>1. i + 1 \in 1 .. k => /\ u[i + 1] = [nodes[p][i] EXCEPT !.size = n]
                                /\ t[i + 1] = nodes[p][i] /\ i + 1 <= Len(t)
        <4> HIDE DEF u, t, k, i
        <4> QED BY <1>1, <1>4, <1>5, <1>6
      <3>2. i + 1 \in 1 .. k => t[i + 1].alive
        <4> SUFFICES ASSUME i + 1 \in 1 .. k PROVE t[i + 1].alive
          OBVIOUS
        <4>1. nodes[p][i].alive
          BY <1>1, <1>6
        <4> HIDE DEF u, t, k, i
        <4> QED BY <3>1, <4>1
      <3>3. i + 1 \in 1 .. k => Chars(u[i + 1]) = n /\ Chars(t[i + 1]) = s
        <4> SUFFICES ASSUME i + 1 \in 1 .. k PROVE Chars(u[i + 1]) = n /\ Chars(t[i + 1]) = s
          OBVIOUS
        <4>1. u[i + 1].alive = t[i + 1].alive /\ u[i + 1].size = n /\ t[i + 1].size = s
          BY <1>1, <1>7, <3>1 DEF Entry
        <4> QED BY <3>2, <4>1 DEF Chars
      <3>4. \A j \in 1 .. k : j # i + 1 => u[j] = t[j] /\ t[j] \in Entry
        <4> SUFFICES ASSUME NEW j \in 1 .. k, j # i + 1 PROVE u[j] = t[j] /\ t[j] \in Entry
          OBVIOUS
        <4>1. j - 1 \in Slots \ {i}
          BY <1>1, <1>5, <1>6
        <4> HIDE DEF u, t, k, i
        <4> QED BY <1>1, <1>2, <1>5, <4>1
      <3>5. \A e \in Entry : Chars(e) <= Chars(e)
        BY Entries
      <3> HIDE DEF u, t, k, i, s, d
      <3>6. \A j \in 1 .. k : j # i + 1 => j <= Len(t) /\ Chars(u[j]) <= Chars(t[j])
        BY <1>1, <1>4, <3>4, <3>5
      <3>7. i + 1 \in 1 .. k => Chars(u[i + 1]) <= s + d /\ i + 1 <= Len(t) /\ s <= Chars(t[i + 1])
        BY <1>6, <3>1, <3>3
      <3>8. Within(u, t, i + 1, s, d)
        BY <1>4, <3>6, <3>7 DEF Within
      <3>9. i + 1 \in Nat
        BY <1>6
      <3> QED BY <1>4, <1>6, <3>8, <3>9, Extra
    <2> HIDE DEF u, t, k, i, s, d
    <2> QED BY <1>6, <2>1, <2>2, <2>3, SizeTypes
  <1>9. area' = Write(area, u) /\ area'.table = u /\ pc' = pc
    <2>1. count'[p] \in 0 .. MaxNodes /\ nodes'[p] \in [Slots -> Entry] /\ Rewrite(p, "run", {"run", "thrown"})
      BY <1>1, <1>2 DEF Recount
    <2>2. Length(u) \in Nat /\ ~(Length(u) > WriteSize)
      BY <1>4, <1>8, LengthType, SizeTypes
    <2>3. area' = Write(area, u) /\ area'.table = u /\ pc' = [pc EXCEPT ![p] = "run"]
      BY <2>1, <2>2, RewriteTypes
    <2>4. pc' = pc
      BY <1>2, <2>3 DEF TypeInv, TypeOK
    <2> QED BY <2>3, <2>4
  <1> HIDE DEF u, t, s, d
  <1>10. \A j \in Slots : j # i => nodes'[p][j] = nodes[p][j]
    BY <1>1
  <1> QED BY <1>1, <1>2, <1>4, <1>7, <1>9, <1>10 DEF u

LEMMA RecountKeepsRules ==
  ASSUME TypeInv, TypeInv', Rules, Fits, Fits', NEW p \in Procs, Recount(p), Orderly(p)
  PROVE  Rules'
  <1>1. /\ count[p] \in 0 .. MaxNodes /\ Len(Copy(p)') = count[p]
        /\ slot[p] \in Slots /\ nodes[p][slot[p]] \in Entry
        /\ \A i \in Slots : i # slot[p] => nodes'[p][i] = nodes[p][i]
        /\ nodes'[p][slot[p]].name = nodes[p][slot[p]].name
        /\ nodes'[p][slot[p]].alive = nodes[p][slot[p]].alive
        /\ area' = Write(area, Copy(p)') /\ area'.table = Copy(p)' /\ pc' = pc
    <2>1. pc[p] = "run"
      BY DEF Recount, Running
    <2> QED BY <2>1, CopyFits, Recounted
  <1>2. /\ UNCHANGED <<count, slot, pc, news, clearing>> /\ pc[p] = "run" /\ slot[p] # NoSlot
        /\ \A q \in Procs \ {p} : nodes'[q] = nodes[q]
    BY <1>1, Others DEF Move, Recount, Running
  <1>3. Table' = Copy(p)' /\ \A i \in 1 .. count[p] : i - 1 \in Slots /\ Table'[i] = nodes'[p][i - 1]
    <2>1. Table' = Copy(p)'
      BY <1>1 DEF Table
    <2>2. Copy(p)' = [i \in 1 .. count[p] |-> nodes'[p][i - 1]]
      BY <1>2 DEF Copy
    <2>3. \A i \in 1 .. count[p] : i - 1 \in Slots
      BY <1>1, NodesAssumption DEF Slots
    <2> QED BY <2>1, <2>2, <2>3
  <1>4. nodes[p] \in [Slots -> Entry] /\ nodes'[p] \in [Slots -> Entry]
    BY DEF TypeInv, TypeOK
  <1>5. Len(Table) = count[p] /\ \A i \in 1 .. count[p] : Older(Table[i], Table'[i])
    <2>1. \A e \in Entry : e.size \in Nat /\ Older(e, e)
      <3>1. \A e \in Entry : e.size \in Nat
        BY SizeTypes DEF Entry
      <3> QED BY <3>1 DEF Older
    <2>2. CASE area' = area
      <3>1. Table' = Table
        BY <2>2 DEF Table
      <3>2. Len(Table) = count[p] /\ \A i \in 1 .. Len(Table) : Table[i] \in Entry
        BY <1>1, <1>3, <3>1, Facts
      <3> QED BY <2>1, <3>1, <3>2
    <2>3. CASE area' # area
      <3>1. Table = Copy(p) /\ nodes'[p][slot[p]].size >= nodes[p][slot[p]].size
        BY <1>2, <2>3 DEF Orderly, Rules, TextInv
      <3>2. Table = [i \in 1 .. count[p] |-> nodes[p][i - 1]]
        BY <3>1 DEF Copy
      <3>3. Len(Table) = count[p]
        BY <1>1, <1>4, <3>2, Prefix
      <3>4. \A i \in Slots : Older(nodes[p][i], nodes'[p][i])
        <4>1. ASSUME NEW i \in Slots, i # slot[p] PROVE Older(nodes[p][i], nodes'[p][i])
          BY <1>1, <1>4, <2>1, <4>1
        <4>2. Older(nodes[p][slot[p]], nodes'[p][slot[p]])
          <5>1. nodes'[p][slot[p]] \in Entry
            BY <1>1, <1>4
          <5>2. nodes[p][slot[p]].size \in Nat /\ nodes'[p][slot[p]].size \in Nat
            BY <1>1, <2>1, <5>1
          <5> QED BY <1>1, <3>1, <5>2 DEF Older
        <4> QED BY <4>1, <4>2
      <3>5. \A i \in 1 .. count[p] : Table[i] = nodes[p][i - 1]
        BY <3>2
      <3> QED BY <1>3, <3>3, <3>4, <3>5
    <2> QED BY <2>2, <2>3
  <1>6. OldCopy(p)'
    <2>1. OldCopy(p) /\ count'[p] = count[p] /\ Len(Table') = count[p]
      BY <1>1, <1>2, <1>3 DEF Rules, CopyInv
    <2>2. \A i \in Slots : i < count[p] => nodes'[p][i] = Table'[i + 1] /\ nodes'[p][i] \in Entry
      <3> SUFFICES ASSUME NEW i \in Slots, i < count[p]
                   PROVE nodes'[p][i] = Table'[i + 1] /\ nodes'[p][i] \in Entry
        OBVIOUS
      <3> DEFINE j == i + 1
      <3>1. j \in 1 .. count[p] /\ j - 1 = i
        BY <1>1, NodesAssumption DEF Slots
      <3> HIDE DEF j
      <3>2. Table'[j] = nodes'[p][j - 1]
        BY <1>3, <3>1
      <3> QED BY <1>4, <3>1, <3>2 DEF j
    <2>3. \A e \in Entry : Older(e, e)
      <3>1. \A e \in Entry : e.size \in Nat
        BY SizeTypes DEF Entry
      <3> QED BY <3>1 DEF Older
    <2>4. slot[p] + 1 \in 1 .. count[p]
      BY <1>2, <1>5 DEF Rules, EntryInv
    <2>5. \A i \in Slots : i >= count[p] => i # slot[p]
      BY <1>1, <2>4, NodesAssumption DEF Slots
    <2>6. \A i \in Slots : i >= count[p] => nodes'[p][i] = Empty
      BY <1>1, <2>1, <2>5 DEF OldCopy
    <2>7. count[p] \in 0 .. count[p]
      BY <1>1, NodesAssumption
    <2> QED BY <2>1, <2>2, <2>3, <2>6, <2>7 DEF OldCopy
  <1>7. Len(Table') = Len(Table)
    BY <1>1, <1>3, <1>5
  <1> QED BY <1>1, <1>2, <1>5, <1>6, <1>7, GrowthKeepsRules

\* A node without a slot writes the table as it is.
LEMMA OutOfBoundsKeepsRules ==
  ASSUME TypeInv, TypeInv', Rules, Fits', NEW p \in Procs, OutOfBounds(p), Orderly(p)
  PROVE  Rules'
  <1>1. /\ pc[p] = "run" /\ pc'[p] = "run" /\ count[p] \in 0 .. MaxNodes
        /\ nodes[p] \in [Slots -> Entry] /\ UNCHANGED <<nodes, slot>>
    <2>1. pc[p] = "run" /\ pc'[p] = "run" /\ UNCHANGED <<nodes, slot>>
      BY DEF OutOfBounds, Orderly, Running
    <2>2. count[p] # -1
      BY <2>1 DEF TypeInv, TypeOK
    <2> QED BY <2>1, <2>2, NodesAssumption DEF TypeInv, TypeOK
  <1>2. UNCHANGED <<count, news, clearing>> /\ Rewrite(p, "run", {"run", "thrown"})
    <2>1. \/ pc' = [pc EXCEPT ![p] = "aborted"]
          \/ UNCHANGED <<count, news, clearing>> /\ Rewrite(p, "run", {"run", "thrown"})
          \/ Rewrite(p, "gone", {"aborted"})
      BY DEF OutOfBounds
    <2>2. Rewrite(p, "gone", {"aborted"}) => pc'[p] = "gone" \/ pc'[p] = "aborted"
      BY DEF Rewrite, TypeInv, TypeOK
    <2>3. pc' = [pc EXCEPT ![p] = "aborted"] => pc'[p] = "aborted"
      BY DEF TypeInv, TypeOK
    <2> QED BY <1>1, <2>1, <2>2, <2>3
  <1>3. /\ pc' = pc
        /\ area' # area => area' = Write(area, Copy(p)') /\ area'.table = Copy(p)'
    <2>1. count'[p] \in 0 .. MaxNodes /\ nodes'[p] \in [Slots -> Entry]
      BY <1>1, <1>2
    <2>2. /\ \/ pc' = [pc EXCEPT ![p] = "run"] \/ pc' = [pc EXCEPT ![p] = "thrown"]
          /\ area' # area => area' = Write(area, Copy(p)') /\ area'.table = Copy(p)'
      BY <1>2, <2>1, RewriteTypes
    <2>3. pc' = pc
      BY <1>1, <2>2 DEF TypeInv, TypeOK
    <2> QED BY <2>2, <2>3
  <1>4. CASE area' = area
    <2>1. Table' = Table
      BY <1>4 DEF Table
    <2>2. TextInv'
      BY <1>4, <2>1 DEF Rules, TextInv
    <2>3. EntryInv' /\ FullInv'
      BY <1>1, <1>2, <1>3, <2>1 DEF Rules, EntryInv, FullInv, Running
    <2>4. CopyInv'
      BY <1>1, <1>2, <1>3, <2>1 DEF Rules, CopyInv, OldCopy
    <2> QED BY <2>2, <2>3, <2>4 DEF Rules
  <1>5. CASE area' # area
    <2>1. Table = Copy(p)
      BY <1>5 DEF Orderly, Rules, TextInv
    <2>2. Copy(p)' = Copy(p) /\ Table' = Copy(p)'
      BY <1>1, <1>2, <1>3, <1>5 DEF Copy, Table
    <2>3. \A i \in 1 .. Len(Table) : Older(Table[i], Table'[i])
      <3>1. \A e \in Entry : e.size \in Nat
        BY SizeTypes DEF Entry
      <3> QED BY <2>1, <2>2, <3>1, Facts DEF Older
    <2>4. OldCopy(p)'
      BY <1>1, <1>2, <2>1, <2>2 DEF Rules, CopyInv, OldCopy
    <2> QED BY <1>1, <1>2, <1>3, <1>5, <2>1, <2>2, <2>3, <2>4, GrowthKeepsRules
  <1> QED BY <1>4, <1>5

\* No other step of a process keeps the rules, unless it changes nothing.
LEMMA RulesOfMove ==
  ASSUME TypeInv, TypeInv', Rules, Fits, Fits', NEW p \in Procs, Move(p), Orderly(p)
  PROVE  Rules'
  <1>1. CASE Start(p)
    BY <1>1, StartKeepsRules
  <1>2. CASE Register(p)
    <2>1. CASE Refused(p)
      BY <1>2, <2>1, RefusalKeepsRules
    <2>2. CASE ~Refused(p)
      <3>1. pc'[p] = "run" \/ pc'[p] = "thrown"
        BY <1>2, <2>2 DEF Register, Rewrite, TypeInv, TypeOK
      <3> QED BY <1>2, <2>2, <3>1, ThrowKeepsRules, AcceptanceKeepsRules
    <2> QED BY <2>1, <2>2
  <1>3. CASE Sync(p) \/ ClearNews(p)
    BY <1>3 DEF Sync, ClearNews, Rules, FullInv
  <1>4. CASE Remove(p) \/ RemoveFails(p)
    <2>1. Running(p) /\ pc'[p] # "run"
      BY <1>4 DEF Remove, RemoveFails, Rewrite, TypeInv, TypeOK
    <2> QED BY <2>1 DEF Orderly
  <1>5. CASE Recount(p)
    BY <1>5, RecountKeepsRules
  <1>6. CASE OutOfBounds(p)
    BY <1>6, OutOfBoundsKeepsRules
  <1> QED BY <1>1, <1>2, <1>3, <1>4, <1>5, <1>6 DEF Move

LEMMA InductiveStep == IInv /\ [Next]_vars => IInv'
  <1> SUFFICES ASSUME IInv, [Next]_vars PROVE IInv'
    OBVIOUS
  <1>1. TypeInv /\ TypeInv' /\ (Fits' => Fits)
    BY TypeStep DEF IInv
  <1>2. CASE Next
    <2>1. PICK p \in Procs : Move(p) /\ orderly' = (orderly /\ Orderly(p))
      BY <1>2 DEF Next
    <2>2. orderly' /\ Fits' => Rules'
      BY <1>1, <2>1, RulesOfMove DEF IInv
    <2> QED BY <1>1, <2>2 DEF IInv
  <1>3. CASE UNCHANGED vars
    <2>1. orderly' = orderly /\ Table' = Table
      BY <1>3 DEF vars, Table
    <2>2. Rules => Rules'
      <3>1. TextInv => TextInv'
        BY <1>3, <2>1 DEF vars, TextInv
      <3>2. EntryInv /\ FullInv => (EntryInv /\ FullInv)'
        BY <1>3, <2>1 DEF vars, EntryInv, FullInv, Running
      <3>3. CopyInv => CopyInv'
        BY <1>3, <2>1 DEF vars, CopyInv, OldCopy
      <3> QED BY <3>1, <3>2, <3>3 DEF Rules
    <2> QED BY <1>1, <2>1, <2>2 DEF IInv
  <1> QED BY <1>2, <1>3

\* The inductive invariant holds in every state.
THEOREM Invariance == Spec => []IInv
  <1>1. Init => IInv
    BY InitTypeInv, InitRules DEF IInv
  <1> QED BY <1>1, InductiveStep, PTL DEF Spec

-----------------------------------------------------------------------------
\* Every variable keeps its type: no count passes MAX_NODE_COUNT, and one of -1
\* is left behind only by a process whose destructor has failed.
THEOREM TypeCorrect == Spec => []TypeOK
  <1>1. IInv => TypeOK
    BY DEF IInv, TypeInv
  <1> QED BY <1>1, Invariance, PTL

\* As long as everybody keeps the rules and the text fits, no two nodes that run
\* have the same id: the entry at an id has one name.
THEOREM SlotsAreUnique == Spec => []SlotsUnique
  <1>1. IInv => SlotsUnique
    BY DEF IInv, Rules, EntryInv, SlotsUnique, NextIdIsFree, Running
  <1> QED BY <1>1, Invariance, PTL

\* As long as everybody keeps the rules and the text fits, a process that reads
\* the registry finds an entry for every node that runs and has an id.
THEOREM RunningNodesAreListed == Spec => []RunningNodesListed
  <1>1. IInv => RunningNodesListed
    <2> SUFFICES ASSUME IInv, orderly, Fits, NEW p \in Procs, NEW t \in Readings(area),
                        Running(p), slot[p] # NoSlot
                 PROVE  ListedIn(t, p)
      BY DEF RunningNodesListed
    <2> DEFINE i == slot[p] + 1
    <2>1. t = Table
      BY DEF IInv, Rules, TextInv
    <2>2. i \in 1 .. Len(Table) /\ Table[i].name = p /\ Table[i].alive
      BY DEF IInv, Rules, EntryInv, Running
    <2>3. i \in DOMAIN Table
      BY <2>2, Facts DEF IInv
    <2> HIDE DEF i
    <2> QED BY <2>1, <2>2, <2>3 DEF ListedIn
  <1> QED BY <1>1, Invariance, PTL

\* As long as everybody keeps the rules and the text fits, a node has no id only
\* if as many others run as there are slots (the names in a full table are those of
\* that many nodes), and its constructor throws only if the text in the segment
\* cannot take one more entry.
THEOREM RefusedOnlyByFull == Spec => []RefusedOnlyWhenFull
  <1>1. ASSUME IInv, orderly, Fits, NEW p \in Procs, Running(p), slot[p] = NoSlot
        PROVE  Cardinality({q \in Procs \ {p} : Running(q)}) >= MaxNodes
    <2> DEFINE others == {q \in Procs \ {p} : Running(q)}
               name == [i \in 1 .. MaxNodes |-> Table[i].name]
    <2>1. Len(Table) = MaxNodes
      BY <1>1 DEF IInv, Rules, FullInv
    <2>2. \A i \in 1 .. MaxNodes : /\ Table[i].name \in Procs /\ Running(Table[i].name)
                                   /\ slot[Table[i].name] = i - 1
      BY <1>1, <2>1 DEF IInv, Rules, EntryInv
    <2>3. \A i \in 1 .. MaxNodes : Table[i].name # p
      BY <1>1, <2>2, NodesAssumption DEF NoSlot
    <2>4. name \in [1 .. MaxNodes -> others]
      BY <2>2, <2>3
    <2>5. \A i, j \in 1 .. MaxNodes : name[i] = name[j] => i = j
      BY <2>2, NodesAssumption
    <2>6. IsFiniteSet(others)
      BY NodesAssumption, FS_Subset
    <2>7. IsFiniteSet(1 .. MaxNodes) /\ Cardinality(1 .. MaxNodes) = MaxNodes
      BY NodesAssumption, FS_Interval
    <2> HIDE DEF others, name
    <2>8. name \in Injection(1 .. MaxNodes, others)
      BY <2>4, <2>5 DEF Injection, IsInjective
    <2>9. Cardinality(1 .. MaxNodes) <= Cardinality(others)
      BY <2>6, <2>8, FS_Injection
    <2>10. Cardinality(others) \in Nat
      BY <2>6, FS_CardinalityType
    <2> QED BY <2>7, <2>9, <2>10, NodesAssumption DEF others
  <1>2. ASSUME IInv, orderly, Fits, NEW p \in Procs, pc[p] = "thrown"
        PROVE  \E n \in Sizes : Length(area.table) + n > WriteSize
    BY <1>2 DEF IInv, Rules, FullInv, Table
  <1>3. IInv => RefusedOnlyWhenFull
    BY <1>1, <1>2 DEF RefusedOnlyWhenFull
  <1> QED BY <1>3, Invariance, PTL

-----------------------------------------------------------------------------
(* Without the rules: dead entries, which a node that leaves makes of its  *)
(* own, are never read.                                                    *)

\* Everything in the copy of a process is alive until it ends; a copy that has not
\* been written by its process is empty behind its count.  No copy has a longer text
\* than has been in the segment.
AliveCopy(p) ==
    /\ pc[p] \notin Ended => /\ \A i \in Slots : i < count[p] => nodes[p][i].alive
                             /\ count[p] > 0 => Length(Copy(p)) <= area.extent
    /\ pc[p] = "off" => count[p] = 0
    /\ pc[p] \in {"off", "register"} => \A i \in Slots : i >= count[p] => nodes[p][i] = Empty
AliveText == \A t \in Readings(area) : \A i \in DOMAIN t : t[i].alive
AliveInv == Fits => AliveText /\ \A p \in Procs : AliveCopy(p)

\* A table in which one entry is dead, and the last is left out, has a shorter text.
LEMMA Shorter ==
  ASSUME NEW n \in 1 .. MaxNodes, NEW a \in [Slots -> Entry], NEW b \in [Slots -> Entry],
         NEW k \in Slots, \A i \in Slots \ {k} : b[i] = a[i], Chars(b[k]) <= Chars(a[k]) + 1
  PROVE  Length([i \in 1 .. n - 1 |-> b[i - 1]]) < Length([i \in 1 .. n |-> a[i - 1]])
  <1> DEFINE m == n - 1
             t == [i \in 1 .. m |-> a[i - 1]]
             u == [i \in 1 .. n |-> a[i - 1]]
             v == [i \in 1 .. m |-> b[i - 1]]
  <1>1. m \in 0 .. MaxNodes /\ n \in 0 .. MaxNodes /\ m < n /\ n = m + 1 /\ k \in Nat
    BY NodesAssumption DEF Slots
  <1>2. \A i \in 1 .. m : i - 1 \in Slots /\ i \in 1 .. n /\ i \in Nat
    BY <1>1, NodesAssumption DEF Slots
  <1> HIDE DEF m
  <1>3. \A i \in 1 .. m : t[i] = a[i - 1] /\ u[i] = a[i - 1] /\ v[i] = b[i - 1]
    BY <1>2
  <1>4. /\ t \in Seq(Entry) /\ Len(t) = m /\ u \in Seq(Entry) /\ Len(u) = n
        /\ v \in Seq(Entry) /\ Len(v) = m
    BY <1>1, Prefix
  <1> HIDE DEF t, u, v
  <1>5. \A e \in Entry : Chars(e) \in Nat /\ Chars(e) <= Chars(e) /\ Chars(e) > 0
    BY Entries
  <1>6. Length(t) \in Nat /\ Length(u) \in Nat /\ Length(v) \in Nat
    BY <1>4, LengthType
  <1>7. Length(t) + 2 <= Length(u)
    <2>1. \A i \in 1 .. Len(t) : Chars(t[i]) <= Chars(u[i])
      BY <1>2, <1>3, <1>4, <1>5
    <2> QED BY <1>1, <1>4, <2>1, Longer
  <1>8. Length(v) <= Length(t) + 1
    <2> DEFINE c == Chars(a[k])
               j == k + 1
    <2>1. c \in Nat /\ j \in Nat /\ j - 1 = k
      BY <1>1, <1>5
    <2>2. \A i \in 1 .. m : i # j => i - 1 \in Slots \ {k}
      BY <1>1, <1>2
    <2> HIDE DEF c, j
    <2>3. ASSUME NEW i \in 1 .. m, i # j PROVE i <= m /\ Chars(v[i]) <= Chars(t[i])
      <3>1. v[i] = t[i] /\ t[i] \in Entry
        BY <1>2, <1>3, <2>2, <2>3
      <3>2. i <= m
        BY <1>1
      <3> QED BY <1>5, <3>1, <3>2
    <2>4. ASSUME j \in 1 .. m PROVE Chars(v[j]) <= c + 1 /\ j <= m /\ c <= Chars(t[j])
      <3>1. v[j] = b[k] /\ t[j] = a[k]
        BY <1>3, <2>1, <2>4
      <3>2. j <= m
        BY <1>1, <2>4
      <3> QED BY <1>5, <3>1, <3>2 DEF c
    <2>5. Within(v, t, j, c, 1)
      BY <1>4, <2>3, <2>4 DEF Within
    <2> QED BY <1>4, <2>1, <2>5, Extra
  <1>9. Length(v) < Length(u)
    BY <1>6, <1>7, <1>8
  <1> QED BY <1>9 DEF t, u, v, m

\* A table that is alive is read as it is, or not at all.
LEMMA RewriteAlive ==
  ASSUME TypeInv, AliveText, NEW p \in Procs, count'[p] \in 0 .. MaxNodes, nodes'[p] \in [Slots -> Entry],
         \A i \in Slots : i < count'[p] => nodes'[p][i].alive,
         NEW place, NEW places, Rewrite(p, place, places)
  PROVE  AliveText'
  <1>1. CASE area' = area
    BY <1>1 DEF AliveText, Readings
  <1>2. CASE area' # area
    <2>1. area'.table = Copy(p)'
      BY <1>2, RewriteTypes
    <2>2. Copy(p)' = [i \in 1 .. count'[p] |-> nodes'[p][i - 1]]
      BY DEF Copy
    <2>3. \A i \in 1 .. count'[p] : i - 1 \in Slots /\ i - 1 < count'[p]
      BY NodesAssumption DEF Slots
    <2>4. \A i \in DOMAIN Copy(p)' : Copy(p)'[i].alive
      BY <2>2, <2>3
    <2> HIDE DEF Copy
    <2>5. \A t \in Readings(area') : t = Copy(p)' \/ t = <<>>
      BY <2>1 DEF Readings
    <2>6. DOMAIN <<>> = {}
      BY EmptySeq
    <2>7. \A t \in Readings(area') : \A i \in DOMAIN t : t[i].alive
      BY <2>4, <2>5, <2>6
    <2> QED BY <2>7 DEF AliveText, Readings
  <1> QED BY <1>1, <1>2

\* A table that is shorter than one before it is not read.
LEMMA RewriteShorter ==
  ASSUME TypeInv, Fits, NEW p \in Procs, count'[p] \in 0 .. MaxNodes, nodes'[p] \in [Slots -> Entry],
         Length(Copy(p)') < area.extent, NEW place, NEW places, Rewrite(p, place, places)
  PROVE  AliveText'
  <1>1. Length(Copy(p)') \in Nat /\ area.extent \in Nat /\ area.extent < ReadSize
    BY RewriteTypes, Facts DEF Fits
  <1>2. area' = Write(area, Copy(p)')
    BY <1>1, SizeTypes DEF Rewrite
  <1>3. area'.table = Copy(p)' /\ area'.extent = area.extent
    BY <1>1, <1>2 DEF Write
  <1>4. Readings(area') = {<<>>}
    BY <1>1, <1>3, SizeTypes DEF Readings
  <1>5. DOMAIN <<>> = {}
    BY EmptySeq
  <1> QED BY <1>4, <1>5 DEF AliveText, Readings

\* The copy a process makes of the registry.
LEMMA ReloadAlive ==
  ASSUME TypeInv, AliveText, NEW p \in Procs, Reload(p), area' = area
  PROVE  /\ \A i \in Slots : i < count'[p] => nodes'[p][i].alive
         /\ \A i \in Slots : i >= count'[p] => nodes'[p][i] = nodes[p][i]
         /\ count'[p] > 0 => Length(Copy(p)') <= area'.extent
  <1>1. PICK t \in Readings(area) :
           /\ count'[p] = Len(t) /\ Len(t) \in 0 .. MaxNodes
           /\ \A i \in Slots : /\ i < Len(t) => nodes'[p][i] = t[i + 1] /\ i + 1 \in 1 .. Len(t)
                               /\ i >= Len(t) => nodes'[p][i] = nodes[p][i]
    BY ReloadTypes
  <1>2. t \in Seq(Entry) /\ (Len(t) > 0 => Length(t) <= area.extent)
    BY ReadIsTable
  <1>3. DOMAIN t = 1 .. Len(t) /\ Len(t) \in Nat
    BY <1>2, LengthType
  <1>4. \A i \in Slots : i < Len(t) => nodes'[p][i].alive
    BY <1>1, <1>3 DEF AliveText
  <1>5. Copy(p)' = t
    <2>1. Copy(p)' = [i \in 1 .. Len(t) |-> nodes'[p][i - 1]]
      BY <1>1 DEF Copy
    <2>2. ASSUME NEW i \in 1 .. Len(t) PROVE nodes'[p][i - 1] = t[i]
      <3> DEFINE j == i - 1
      <3>1. j \in Slots /\ j < Len(t) /\ j + 1 = i
        BY <1>1, NodesAssumption DEF Slots
      <3> HIDE DEF j
      <3>2. nodes'[p][j] = t[j + 1]
        BY <1>1, <3>1
      <3> QED BY <3>1, <3>2 DEF j
    <2>3. t = [i \in 1 .. Len(t) |-> t[i]]
      BY <1>2, <1>3
    <2> QED BY <2>1, <2>2, <2>3
  <1> QED BY <1>1, <1>2, <1>4, <1>5

\* Until a process has written its copy the slots that are free are those
\* behind its count.
LEMMA NextIsCount ==
  ASSUME TypeInv, NEW p \in Procs, AliveCopy(p), pc[p] = "register", ~Refused(p)
  PROVE  count[p] \in Slots /\ NextSlot(p) = count[p]
  <1>1. count[p] \in 0 .. MaxNodes /\ count[p] < MaxNodes /\ Free(p) # {}
    BY NodesAssumption DEF TypeInv, TypeOK, Refused
  <1>2. Slots = 0 .. MaxNodes - 1 /\ Free(p) \subseteq Slots
    BY DEF Slots, Free
  <1>3. count[p] \in Slots
    BY <1>1, <1>2, NodesAssumption
  <1>4. /\ \A i \in Slots : i < count[p] => nodes[p][i].alive
        /\ \A i \in Slots : i >= count[p] => nodes[p][i] = Empty
    BY DEF AliveCopy, Ended
  <1>5. count[p] \in Free(p)
    BY <1>1, <1>3, <1>4, NodesAssumption DEF Free, Empty
  <1>6. NextSlot(p) \in Free(p) /\ NextSlot(p) <= count[p]
    BY <1>1, <1>5, LeastFree
  <1>7. ~(NextSlot(p) < count[p])
    BY <1>2, <1>4, <1>6 DEF Free
  <1>8. NextSlot(p) \in 0 .. MaxNodes - 1
    BY <1>2, <1>6
  <1> QED BY <1>1, <1>3, <1>6, <1>7, <1>8, NodesAssumption

LEMMA InitAlive == Init => AliveInv
  <1> SUFFICES ASSUME Init PROVE AliveInv
    OBVIOUS
  <1>1. \A t \in Readings(area) : t = <<>>
    BY DEF Init, Blank, Readings
  <1>2. DOMAIN <<>> = {}
    BY EmptySeq
  <1>3. \A i \in Slots : ~(i < 0)
    BY NodesAssumption DEF Slots
  <1>4. \A p \in Procs : count[p] = 0 /\ pc[p] = "off" /\ \A i \in Slots : nodes[p][i] = Empty
    BY DEF Init
  <1>5. \A p \in Procs : AliveCopy(p)
    BY <1>3, <1>4 DEF AliveCopy
  <1> QED BY <1>1, <1>2, <1>5 DEF AliveInv, AliveText

\* A copy that is not touched stays alive.
LEMMA SameCopy ==
  ASSUME TypeInv, TypeInv', area'.extent >= area.extent, NEW q \in Procs, AliveCopy(q),
         count'[q] = count[q], nodes'[q] = nodes[q], pc'[q] = pc[q]
  PROVE  AliveCopy(q)'
  <1>1. Copy(q)' = Copy(q)
    BY DEF Copy
  <1>2. count[q] \in -1 .. MaxNodes /\ nodes[q] \in [Slots -> Entry]
        /\ area.extent \in Nat /\ area'.extent \in Nat
    BY DEF TypeInv, TypeOK
  <1>3. count[q] > 0 => Length(Copy(q)) \in Nat
    <2> SUFFICES ASSUME count[q] > 0 PROVE Length(Copy(q)) \in Nat
      OBVIOUS
    <2>1. count[q] \in 0 .. MaxNodes
      BY <1>2, NodesAssumption
    <2>2. Copy(q) \in Seq(Entry)
      BY <1>2, <2>1, Prefix DEF Copy
    <2> QED BY <2>2, LengthType
  <1> HIDE DEF Copy
  <1>4. count[q] > 0 /\ Length(Copy(q)) <= area.extent => Length(Copy(q)) <= area'.extent
    BY <1>2, <1>3
  <1> QED BY <1>1, <1>4 DEF AliveCopy

\* A node that puts itself into the table, or cannot.
LEMMA RegisterAlive ==
  ASSUME TypeInv, TypeInv', area'.extent >= area.extent, NEW p \in Procs, Register(p),
         AliveText, AliveCopy(p)
  PROVE  AliveText' /\ AliveCopy(p)'
  <1>1. pc[p] = "register"
    BY DEF Register
  <1>2. CASE Refused(p)
    <2>1. UNCHANGED <<count, nodes, area>> /\ pc'[p] = "run"
      BY <1>2 DEF Register, TypeInv, TypeOK
    <2>2. Copy(p)' = Copy(p)
      BY <2>1 DEF Copy
    <2>3. AliveCopy(p)'
      BY <1>1, <2>1, <2>2 DEF AliveCopy, Ended
    <2> QED BY <2>1, <2>3 DEF AliveText, Readings
  <1>3. CASE ~Refused(p)
    <2> DEFINE n == count[p]
    <2>1. n \in Slots /\ NextSlot(p) = n
      BY <1>1, <1>3, NextIsCount
    <2>2. /\ n \in 0 .. MaxNodes - 1 /\ count'[p] = n + 1 /\ nodes'[p][n].alive
          /\ \A i \in Slots \ {n} : nodes'[p][i] = nodes[p][i]
          /\ nodes'[p] \in [Slots -> Entry]
      <3>1. PICK s \in Sizes :
               LET e == [name |-> p, alive |-> TRUE, size |-> s] IN
               /\ n \in 0 .. MaxNodes - 1 /\ count'[p] = n + 1 /\ nodes'[p][NextSlot(p)] = e
               /\ \A i \in Slots \ {NextSlot(p)} : nodes'[p][i] = nodes[p][i]
               /\ nodes'[p] \in [Slots -> Entry]
        BY <1>3, AddedTypes
      <3> HIDE DEF n
      <3> QED BY <2>1, <3>1
    <2>3. \A i \in Slots : i < n => nodes[p][i].alive
      BY <1>1 DEF AliveCopy, Ended
    <2> HIDE DEF n
    <2>4. \A i \in Slots : i < count'[p] => nodes'[p][i].alive
      <3>1. \A i \in Slots \ {n} : i < n + 1 => i < n
        BY <2>2, NodesAssumption DEF Slots
      <3> QED BY <2>2, <2>3, <3>1
    <2>5. count'[p] \in 0 .. MaxNodes
      BY <2>2, NodesAssumption
    <2>6. Rewrite(p, "run", {"thrown"})
      BY <1>3 DEF Register
    <2>7. AliveText'
      BY <2>2, <2>4, <2>5, <2>6, RewriteAlive
    <2>8. \/ pc'[p] = "run" /\ Length(Copy(p)') <= area'.extent
          \/ pc'[p] = "thrown"
      <3>1. \/ pc' = [pc EXCEPT ![p] = "run"] /\ Length(Copy(p)') <= area'.extent
            \/ \E other \in {"thrown"} : pc' = [pc EXCEPT ![p] = other]
        BY <2>2, <2>5, <2>6, RewriteTypes
      <3> QED BY <3>1 DEF TypeInv, TypeOK
    <2>9. AliveCopy(p)'
      BY <2>4, <2>8 DEF AliveCopy, Ended
    <2> QED BY <2>7, <2>9
  <1> QED BY <1>2, <1>3

\* A node that leaves.
LEMMA RemoveAlive ==
  ASSUME TypeInv, TypeInv', Fits, NEW p \in Procs, AliveCopy(p), AliveText,
         \/ Remove(p)
         \/ /\ pc[p] = "run" /\ count[p] > 0 /\ count' = [count EXCEPT ![p] = @ - 1]
            /\ UNCHANGED nodes /\ Rewrite(p, "gone", {"aborted"})
  PROVE  AliveText' /\ AliveCopy(p)'
  <1>1. /\ pc[p] = "run" /\ count[p] \in 1 .. MaxNodes /\ count'[p] = count[p] - 1
        /\ nodes[p] \in [Slots -> Entry] /\ nodes'[p] \in [Slots -> Entry]
        /\ Rewrite(p, "gone", {"aborted"})
    <2>1. pc[p] = "run" /\ count[p] > 0 /\ count' = [count EXCEPT ![p] = @ - 1]
          /\ Rewrite(p, "gone", {"aborted"})
      BY DEF Remove, Running
    <2>2. count[p] \in -1 .. MaxNodes /\ count \in [Procs -> -1 .. MaxNodes]
          /\ nodes[p] \in [Slots -> Entry] /\ nodes'[p] \in [Slots -> Entry]
      BY DEF TypeInv, TypeOK
    <2>3. count[p] \in 1 .. MaxNodes
      BY <2>1, <2>2, NodesAssumption
    <2> QED BY <2>1, <2>2, <2>3
  <1>2. \E k \in Slots : /\ \A i \in Slots \ {k} : nodes'[p][i] = nodes[p][i]
                         /\ Chars(nodes'[p][k]) <= Chars(nodes[p][k]) + 1
    <2>1. CASE Remove(p)
      <3> DEFINE k == slot[p]
      <3>1. /\ k \in Slots /\ nodes'[p][k] = [nodes[p][k] EXCEPT !.alive = FALSE]
            /\ \A i \in Slots \ {k} : nodes'[p][i] = nodes[p][i]
        BY <2>1, RemoveTypes
      <3> HIDE DEF k
      <3>2. nodes'[p][k] \in Entry /\ nodes[p][k] \in Entry
        BY <1>1, <3>1
      <3>3. ~nodes'[p][k].alive /\ nodes'[p][k].size = nodes[p][k].size /\ nodes[p][k].size \in Nat
        BY <3>1, <3>2, SizeTypes DEF Entry
      <3>4. Chars(nodes'[p][k]) <= Chars(nodes[p][k]) + 1
        BY <3>3 DEF Chars
      <3> QED BY <3>1, <3>4
    <2>2. CASE nodes' = nodes
      <3>1. 0 \in Slots
        BY NodesAssumption DEF Slots
      <3>2. nodes[p][0] \in Entry
        BY <1>1, <3>1
      <3>3. Chars(nodes[p][0]) <= Chars(nodes[p][0]) + 1
        BY <3>2, Entries
      <3> QED BY <2>2, <3>1, <3>3
    <2> QED BY <2>1, <2>2
  <1>3. count'[p] \in 0 .. MaxNodes
    BY <1>1, NodesAssumption
  <1>4. Copy(p)' = [i \in 1 .. count[p] - 1 |-> nodes'[p][i - 1]]
        /\ Copy(p) = [i \in 1 .. count[p] |-> nodes[p][i - 1]]
    BY <1>1 DEF Copy
  <1> HIDE DEF Copy
  <1>5. Length(Copy(p)') < Length(Copy(p))
    BY <1>1, <1>2, <1>4, Shorter
  <1>6. Length(Copy(p)) <= area.extent
    BY <1>1 DEF AliveCopy, Ended
  <1>7. Length(Copy(p)') < area.extent
    <2>1. Copy(p) \in Seq(Entry) /\ area.extent \in Nat
      <3>1. count[p] \in 0 .. MaxNodes
        BY <1>1, NodesAssumption
      <3> QED BY <1>1, <1>4, <3>1, Prefix, Facts
    <2>2. Length(Copy(p)) \in Nat /\ Length(Copy(p)') \in Nat
      BY <1>1, <1>3, <2>1, LengthType, RewriteTypes
    <2> QED BY <1>5, <1>6, <2>1, <2>2
  <1>8. AliveText'
    BY <1>1, <1>3, <1>7, RewriteShorter
  <1>9. pc'[p] = "gone" \/ pc'[p] = "aborted"
    BY <1>1 DEF Rewrite, TypeInv, TypeOK
  <1>10. AliveCopy(p)'
    BY <1>9 DEF AliveCopy, Ended
  <1> QED BY <1>8, <1>10

\* A node that counts a topic.
LEMMA RecountAlive ==
  ASSUME TypeInv, TypeInv', Fits, NEW p \in Procs, AliveCopy(p), AliveText, Recount(p)
  PROVE  AliveText' /\ AliveCopy(p)'
  <1>1. /\ pc[p] = "run" /\ count[p] \in 0 .. MaxNodes /\ nodes[p] \in [Slots -> Entry]
        /\ area.extent \in Nat /\ area.extent < ReadSize
        /\ \A i \in Slots : i < count[p] => nodes[p][i].alive
        /\ count[p] > 0 => Length(Copy(p)) <= area.extent
    <2>1. pc[p] = "run" /\ count[p] # -1 /\ count[p] \in -1 .. MaxNodes
          /\ nodes[p] \in [Slots -> Entry] /\ area.extent \in Nat
      BY DEF Recount, Running, TypeInv, TypeOK
    <2>2. count[p] \in 0 .. MaxNodes
      BY <2>1, NodesAssumption
    <2> QED BY <2>1, <2>2 DEF AliveCopy, Ended, Fits
  <1>2. Copy(p) \in Seq(Entry) /\ Len(Copy(p)) = count[p]
    BY <1>1, Prefix DEF Copy
  <1>3. Length(Copy(p)) < ReadSize
    <2>1. Length(Copy(p)) \in Nat
      BY <1>2, LengthType
    <2>2. CASE count[p] > 0
      BY <1>1, <2>1, <2>2, SizeTypes
    <2>3. CASE count[p] = 0
      <3>1. Copy(p) = <<>>
        BY <1>2, <2>3, EmptySeq
      <3> QED BY <3>1, LengthOfEmpty, SizeTypes
    <2> HIDE DEF Copy
    <2> QED BY <1>1, <2>2, <2>3, NodesAssumption
  <1>4. /\ slot[p] \in Slots /\ nodes'[p] \in [Slots -> Entry] /\ count' = count
        /\ \A i \in Slots : i # slot[p] => nodes'[p][i] = nodes[p][i]
        /\ nodes'[p][slot[p]].alive = nodes[p][slot[p]].alive
        /\ area' = Write(area, Copy(p)') /\ area'.table = Copy(p)' /\ pc' = pc
    BY <1>1, <1>3, Recounted
  <1>5. \A i \in Slots : i < count'[p] => nodes'[p][i].alive
    BY <1>1, <1>4
  <1>6. Rewrite(p, "run", {"run", "thrown"})
    BY DEF Recount
  <1>7. AliveText'
    BY <1>1, <1>4, <1>5, <1>6, RewriteAlive
  <1>8. Length(Copy(p)') <= area'.extent
    <2>1. Length(Copy(p)') \in Nat /\ area'.extent \in Nat
      BY <1>1, <1>4, <1>6, RewriteTypes
    <2> QED BY <1>1, <1>4, <2>1 DEF Write
  <1>9. AliveCopy(p)'
    BY <1>1, <1>4, <1>5, <1>8 DEF AliveCopy
  <1> QED BY <1>7, <1>9

\* A node without a slot that counts one writes its table as it is.
LEMMA RepeatAlive ==
  ASSUME TypeInv, TypeInv', area'.extent >= area.extent, NEW p \in Procs, AliveCopy(p), AliveText,
         pc[p] = "run", UNCHANGED <<count, nodes>>, Rewrite(p, "run", {"run", "thrown"})
  PROVE  AliveText' /\ AliveCopy(p)'
  <1>1. /\ count[p] \in 0 .. MaxNodes /\ nodes[p] \in [Slots -> Entry] /\ area.extent \in Nat
        /\ \A i \in Slots : i < count[p] => nodes[p][i].alive
        /\ count[p] > 0 => Length(Copy(p)) <= area.extent
    <2>1. count[p] # -1 /\ count[p] \in -1 .. MaxNodes
          /\ nodes[p] \in [Slots -> Entry] /\ area.extent \in Nat
      BY DEF TypeInv, TypeOK
    <2>2. count[p] \in 0 .. MaxNodes
      BY <2>1, NodesAssumption
    <2> QED BY <2>1, <2>2 DEF AliveCopy, Ended
  <1>2. AliveText'
    BY <1>1, RewriteAlive
  <1>3. Copy(p)' = Copy(p)
    BY DEF Copy
  <1> HIDE DEF Copy
  <1>4. Length(Copy(p)') <= area'.extent \/ area' = area
    BY <1>1, RewriteTypes
  <1>5. pc'[p] = "run" \/ pc'[p] = "thrown"
    BY DEF Rewrite, TypeInv, TypeOK
  <1>6. AliveCopy(p)'
    BY <1>1, <1>3, <1>4, <1>5 DEF AliveCopy, Ended
  <1> QED BY <1>2, <1>6

LEMMA AliveMove ==
  ASSUME TypeInv, TypeInv', AliveInv, Fits, NEW p \in Procs, Move(p)
  PROVE  AliveText' /\ \A q \in Procs : AliveCopy(q)'
  <1>1. AliveText /\ AliveCopy(p) /\ area'.extent >= area.extent
    <2>1. orderly' \in BOOLEAN
      BY DEF TypeInv, TypeOK
    <2> QED BY <2>1, TypeOfMove DEF AliveInv
  <1>2. ASSUME NEW q \in Procs \ {p} PROVE AliveCopy(q)'
    BY <1>1, Others, SameCopy DEF AliveInv
  <1>3. area' = area => AliveText'
    BY <1>1 DEF AliveText, Readings
  <1> SUFFICES AliveText' /\ AliveCopy(p)'
    BY <1>2
  <1>4. CASE Start(p) \/ Sync(p)
    <2>1. Reload(p) /\ area' = area
      BY <1>4 DEF Start, Sync
    <2>2. /\ \A i \in Slots : i < count'[p] => nodes'[p][i].alive
          /\ \A i \in Slots : i >= count'[p] => nodes'[p][i] = nodes[p][i]
          /\ count'[p] > 0 => Length(Copy(p)') <= area'.extent
      BY <1>1, <2>1, ReloadAlive
    <2>3. \/ pc[p] = "off" /\ pc'[p] = "register"
          \/ pc'[p] = "run"
      BY <1>4 DEF Start, Sync, Running, TypeInv, TypeOK
    <2>4. pc[p] = "off" => \A i \in Slots : nodes[p][i] = Empty
      <3>1. \A i \in Slots : i >= 0
        BY NodesAssumption DEF Slots
      <3> QED BY <1>1, <3>1 DEF AliveCopy
    <2>5. AliveCopy(p)'
      BY <2>2, <2>3, <2>4 DEF AliveCopy
    <2> QED BY <1>3, <2>1, <2>5
  <1>5. CASE Register(p)
    BY <1>1, <1>5, RegisterAlive
  <1>6. CASE Recount(p)
    BY <1>1, <1>6, RecountAlive
  <1>7. CASE ClearNews(p)
    <2>1. UNCHANGED <<count, nodes, pc, area>>
      BY <1>7 DEF ClearNews
    <2> QED BY <1>1, <1>3, <2>1, SameCopy
  <1>8. CASE Remove(p)
    BY <1>1, <1>8, RemoveAlive
  <1>9. CASE RemoveFails(p)
    <2>1. area' = area /\ pc'[p] = "aborted"
      BY <1>9 DEF RemoveFails, TypeInv, TypeOK
    <2>2. AliveCopy(p)'
      BY <2>1 DEF AliveCopy, Ended
    <2> QED BY <1>3, <2>1, <2>2
  <1>10. CASE OutOfBounds(p)
    <2>1. pc[p] = "run" /\ UNCHANGED nodes
      BY <1>10 DEF OutOfBounds, Running
    <2>2. CASE area' = area /\ pc' = [pc EXCEPT ![p] = "aborted"]
      <3>1. pc'[p] = "aborted"
        BY <2>2 DEF TypeInv, TypeOK
      <3>2. AliveCopy(p)'
        BY <3>1 DEF AliveCopy, Ended
      <3> QED BY <1>3, <2>2, <3>2
    <2>3. CASE UNCHANGED count /\ Rewrite(p, "run", {"run", "thrown"})
      BY <1>1, <2>1, <2>3, RepeatAlive
    <2>4. CASE /\ count[p] > 0 /\ count' = [count EXCEPT ![p] = @ - 1]
               /\ Rewrite(p, "gone", {"aborted"})
      BY <1>1, <2>1, <2>4, RemoveAlive
    <2> QED BY <1>10, <2>2, <2>3, <2>4 DEF OutOfBounds
  <1> QED BY <1>4, <1>5, <1>6, <1>7, <1>8, <1>9, <1>10 DEF Move

LEMMA AliveStep == TypeInv /\ AliveInv /\ [Next]_vars => AliveInv'
  <1> SUFFICES ASSUME TypeInv, AliveInv, [Next]_vars, Fits' PROVE AliveText' /\ \A q \in Procs : AliveCopy(q)'
    BY DEF AliveInv
  <1>1. TypeInv' /\ Fits
    BY TypeStep
  <1>2. CASE Next
    <2>1. PICK p \in Procs : Move(p)
      BY <1>2 DEF Next
    <2> QED BY <1>1, <2>1, AliveMove
  <1>3. CASE UNCHANGED vars
    <2>1. AliveText'
      BY <1>1, <1>3 DEF vars, AliveInv, AliveText, Readings
    <2>2. \A q \in Procs : AliveCopy(q)'
      BY <1>1, <1>3 DEF vars, AliveInv, AliveCopy, Copy
    <2> QED BY <2>1, <2>2
  <1> QED BY <1>2, <1>3

\* As long as the text fits, what anybody reads of the registry has no dead entry,
\* in whatever order processes read, write, leave or are killed.
THEOREM TheDeadAreNeverRead == Spec => []DeadNeverRead
  <1>1. Init => TypeInv /\ AliveInv
    BY InitTypeInv, InitAlive
  <1>2. TypeInv /\ AliveInv /\ [Next]_vars => (TypeInv /\ AliveInv)'
    BY TypeStep, AliveStep
  <1>3. AliveInv => DeadNeverRead
    BY DEF AliveInv, AliveText, DeadNeverRead
  <1> QED BY <1>1, <1>2, <1>3, PTL DEF Spec

=============================================================================
