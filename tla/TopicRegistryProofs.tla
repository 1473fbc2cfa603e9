------------------------ MODULE TopicRegistryProofs ------------------------
(***************************************************************************)
(* Theorems about TopicRegistry, for any number of processes, threads and  *)
(* topics, of the systems of InTurnSpec: those that publish all topics     *)
(* before a second process starts, and subscribe to topics they know.      *)
(***************************************************************************)
EXTENDS TopicRegistry, FiniteSetTheorems, SequenceTheorems, WellFoundedInduction, TLAPS

Table == area.table
Holds(t) == \E i \in 1 .. Len(Table) : Table[i].name = t

\* The text can be read, and nothing longer has been written.
TextInv == Read(area) = Table /\ area.extent <= Length(Table)

\* The copy of every process is the beginning of the table, with nothing behind;
\* that of a process whose threads have started is all of it.
CopyInv ==
    \A p \in Procs :
        /\ count[p] \in 0 .. Len(Table)
        /\ \A i \in Index : topics[p][i] = IF i < count[p] THEN Table[i + 1] ELSE Empty
CurrentInv == \A th \in Threads : pc[th] # "off" => count[th[1]] = Len(Table)

\* The id of an entry is less than the length of the table, and not that of an
\* entry of another topic.
IdInv ==
    /\ \A i \in 1 .. Len(Table) : Table[i].name # NoName => Table[i].id < Len(Table)
    /\ \A i, j \in 1 .. Len(Table) :
           /\ Table[i].name # NoName /\ Table[j].name # NoName
           /\ Table[i].id = Table[j].id /\ Table[i].id # NoId
           => Table[i].name = Table[j].name

\* The topics that threads are busy with, and from when on they are listed.
PlaceInv ==
    \A th \in Threads :
        /\ pc[th] \in {"look", "add", "trigger", "addsub", "register"} => name[th] \in Names
        /\ pc[th] \in {"trigger", "addsub", "register"} => Holds(name[th])
SubsInv == \A p \in Procs : \A s \in subs[p] : Known(p, s[1]) /\ s[2] = Lookup(p, s[1])

\* A thread adds a topic at most once: not if it is listed when it looks.
Done == {x \in Threads \X Names : Holds(x[2]) /\ ~(pc[x[1]] = "add" /\ name[x[1]] = x[2])}
Listed == {t \in Names : Holds(t)}
SizeInv ==
    /\ Len(Table) <= MaxTopics + Cardinality(Done)
    /\ Len(Table) <= Cardinality(Done) + Cardinality(Listed)

IInv == TypeOK /\ TextInv /\ CopyInv /\ CurrentInv /\ IdInv /\ PlaceInv /\ SubsInv /\ SizeInv

-----------------------------------------------------------------------------
(* Sizes.                                                                  *)

LEMMA FiniteThreads ==
  /\ IsFiniteSet(Threads) /\ Cardinality(Threads) \in Nat /\ Cardinality(Names) \in Nat
  /\ IsFiniteSet(Threads \X Names)
  /\ Cardinality(Threads \X Names) = Cardinality(Threads) * Cardinality(Names)
  <1>1. \A p \in Procs : IsFiniteSet(ThreadsOf(p))
    <2> SUFFICES ASSUME NEW p \in Procs PROVE IsFiniteSet(ThreadsOf(p))
      OBVIOUS
    <2>1. PerProc[p] \in Int
      BY RegistryAssumption
    <2>2. IsFiniteSet(1 .. PerProc[p])
      BY <2>1, FS_Interval
    <2>3. IsFiniteSet({p})
      BY FS_Singleton
    <2> QED BY <2>2, <2>3, FS_Product DEF ThreadsOf
  <1> DEFINE S == {ThreadsOf(p) : p \in Procs}
             f == [p \in Procs |-> ThreadsOf(p)]
  <1>2. f \in Surjection(Procs, S)
    <2>1. f \in [Procs -> S] /\ \A T \in S : \E p \in Procs : f[p] = T
      OBVIOUS
    <2> HIDE DEF f, S
    <2> QED BY <2>1 DEF Surjection
  <1>3. IsFiniteSet(S)
    <2> HIDE DEF f, S
    <2> QED BY <1>2, RegistryAssumption, FS_Surjection
  <1>4. IsFiniteSet(UNION S)
    BY <1>1, <1>3, FS_UNION
  <1>5. IsFiniteSet(Threads)
    BY <1>4 DEF Threads
  <1>6. IsFiniteSet(Names)
    BY RegistryAssumption
  <1> QED BY <1>5, <1>6, FS_CardinalityType, FS_Product

LEMMA ThreadHasProc == \A th \in Threads : th[1] \in Procs
  BY DEF Threads, ThreadsOf

LEMMA ThreadIsOfProc == \A p \in Procs : ThreadsOf(p) = {th \in Threads : th[1] = p}
  BY DEF Threads, ThreadsOf

\* The number of entries that a table can have: the last index.
Top == MaxTopics + Cardinality(Threads \X Names)

LEMMA IndexIs ==
  /\ Index = 0 .. Top /\ Top \in Nat /\ MaxTopics <= Top /\ MaxTopics \in Nat
  /\ Index \subseteq Nat
  <1>1. Index = 0 .. Top
    BY FiniteThreads DEF Index, Top
  <1>2. Cardinality(Threads \X Names) \in Nat
    BY FiniteThreads, FS_CardinalityType
  <1> QED BY <1>1, <1>2, RegistryAssumption DEF Top

LEMMA DoneIsFinite ==
  /\ IsFiniteSet(Done) /\ Cardinality(Done) \in Nat
  /\ Cardinality(Done) <= Cardinality(Threads \X Names)
  /\ IsFiniteSet(Listed) /\ Cardinality(Listed) \in Nat
  <1>1. Done \subseteq Threads \X Names /\ Listed \subseteq Names
    BY DEF Done, Listed
  <1>2. IsFiniteSet(Names)
    BY RegistryAssumption
  <1> QED BY <1>1, <1>2, FiniteThreads, FS_Subset, FS_CardinalityType

LEMMA Sizes ==
  ASSUME TypeOK, SizeInv
  PROVE  /\ Table \in Seq(Entry) /\ Len(Table) \in Index /\ Len(Table) \in Nat
         /\ DOMAIN Table = 1 .. Len(Table)
         /\ \A i \in 1 .. Len(Table) : Table[i] \in Entry
  <1>1. Table \in Seq(Entry)
    BY DEF TypeOK, Table
  <1>2. Len(Table) \in Nat /\ DOMAIN Table = 1 .. Len(Table)
    BY <1>1, LenProperties
  <1>3. \A i \in 1 .. Len(Table) : Table[i] \in Entry
    BY <1>1, ElementOfSeq
  <1>4. Cardinality(Threads \X Names) \in Nat
    BY FiniteThreads, FS_CardinalityType
  <1>5. Len(Table) <= Top
    BY <1>2, <1>4, DoneIsFinite, RegistryAssumption DEF SizeInv, Top
  <1> QED BY <1>1, <1>2, <1>3, <1>5, IndexIs

\* Entries of an array, from the first on, are a table.
LEMMA Prefix ==
  ASSUME NEW n \in Nat, n - 1 <= Top, NEW a \in [Index -> Entry]
  PROVE  /\ [i \in 1 .. n |-> a[i - 1]] \in Seq(Entry)
         /\ Len([i \in 1 .. n |-> a[i - 1]]) = n
  <1> DEFINE t == [i \in 1 .. n |-> a[i - 1]]
  <1>1. \A i \in 1 .. n : i - 1 \in Index
    BY IndexIs
  <1>2. t \in [1 .. n -> Entry]
    BY <1>1
  <1>3. t \in Seq(Entry)
    BY <1>2, IsASeq
  <1>4. Len(t) \in Nat /\ DOMAIN t = 1 .. Len(t)
    BY <1>3, LenProperties
  <1> HIDE DEF t
  <1>5. 1 .. Len(t) = 1 .. n
    BY <1>2, <1>4
  <1> QED BY <1>3, <1>4, <1>5 DEF t

\* A table that continues another is longer as a text.
LEMMA Longer ==
  ASSUME NEW s \in Seq(Entry), NEW t \in Seq(Entry), Len(s) < Len(t),
         \A i \in 1 .. Len(s) : t[i] = s[i]
  PROVE  /\ Length(s) \in Nat /\ Length(t) \in Nat
         /\ Length(s) < Length(t)
  <1> DEFINE S == {i \in DOMAIN s : s[i].name # NoName}
             T == {i \in DOMAIN t : t[i].name # NoName}
  <1>1. /\ Len(s) \in Nat /\ DOMAIN s = 1 .. Len(s)
        /\ Len(t) \in Nat /\ DOMAIN t = 1 .. Len(t)
    BY LenProperties
  <1>2. S \subseteq T
    BY <1>1
  <1>3. IsFiniteSet(DOMAIN t) /\ T \subseteq DOMAIN t
    BY <1>1, FS_Interval
  <1>4. IsFiniteSet(T) /\ IsFiniteSet(S) /\ Cardinality(S) <= Cardinality(T)
    BY <1>2, <1>3, FS_Subset
  <1>5. Cardinality(S) \in Nat /\ Cardinality(T) \in Nat
    BY <1>4, FS_CardinalityType
  <1>6. Length(s) = 1 + Len(s) + Cardinality(S) /\ Length(t) = 1 + Len(t) + Cardinality(T)
    BY DEF Length
  <1> QED BY <1>1, <1>4, <1>5, <1>6

LEMMA LengthIsNat ==
  ASSUME NEW s \in Seq(Entry)
  PROVE  Length(s) \in Nat
  <1>1. Len(s) \in Nat /\ DOMAIN s = 1 .. Len(s)
    BY LenProperties
  <1>2. IsFiniteSet(DOMAIN s)
    BY <1>1, FS_Interval
  <1>3. Cardinality({i \in DOMAIN s : s[i].name # NoName}) \in Nat
    BY <1>2, FS_Subset, FS_CardinalityType
  <1> QED BY <1>1, <1>3 DEF Length

-----------------------------------------------------------------------------
(* Looking up.                                                             *)

LEMMA Least ==
  ASSUME NEW A \in SUBSET Nat, NEW i \in A, \A j \in A : i <= j
  PROVE  (CHOOSE k \in A : \A j \in A : k <= j) = i
  <1>1. \A k \in A : (\A j \in A : k <= j) => k = i
    OBVIOUS
  <1> QED BY <1>1

LEMMA LeastExists ==
  ASSUME NEW A \in SUBSET Nat, A # {}
  PROVE  \E i \in A : \A j \in A : i <= j
  <1>1. PICK i \in A : \A j \in A : ~(<<j, i>> \in OpToRel(<, Nat))
    BY NatLessThanWellFounded, WFMin
  <1>2. \A j \in A : i <= j
    <2>1. \A j \in A : i \in Nat /\ j \in Nat /\ ~(j < i)
      BY <1>1 DEF OpToRel
    <2> QED BY <2>1
  <1> QED BY <1>2

\* A topic that is known is looked up at its first entry.
LEMMA FirstEntry ==
  ASSUME TypeOK, NEW p \in Procs, NEW t, Known(p, t)
  PROVE  \E i \in At(p, t) : (\A j \in At(p, t) : i <= j) /\ Lookup(p, t) = topics[p][i].id
  <1>1. At(p, t) \subseteq Nat /\ At(p, t) # {}
    BY DEF At, Known
  <1>2. PICK i \in At(p, t) : \A j \in At(p, t) : i <= j
    BY <1>1, LeastExists
  <1>3. (CHOOSE k \in At(p, t) : \A j \in At(p, t) : k <= j) = i
    BY <1>1, <1>2, Least
  <1>4. Lookup(p, t) = topics[p][i].id
    BY <1>3 DEF Lookup
  <1> QED BY <1>2, <1>4

\* Entries stay, and none is put before another.
Grows(p) ==
    /\ count'[p] >= count[p]
    /\ \A i \in Index : i < count[p] => topics'[p][i] = topics[p][i]

LEMMA LookupStays ==
  ASSUME TypeOK, TypeOK', NEW p \in Procs, Grows(p), NEW t, Known(p, t)
  PROVE  Known(p, t)' /\ Lookup(p, t)' = Lookup(p, t)
  <1>1. PICK i \in At(p, t) : (\A j \in At(p, t) : i <= j) /\ Lookup(p, t) = topics[p][i].id
    BY FirstEntry
  <1>2. count[p] \in Nat /\ count'[p] \in Nat /\ count[p] <= Top
    BY IndexIs DEF TypeOK
  <1>3. \A j \in 0 .. count[p] - 1 : j \in Index /\ j \in 0 .. count'[p] - 1 /\ topics'[p][j] = topics[p][j]
    BY <1>2, IndexIs DEF Grows
  <1>4. i \in At(p, t)' /\ topics'[p][i] = topics[p][i]
    BY <1>1, <1>3 DEF At
  <1>5. At(p, t)' \subseteq Nat
    BY DEF At
  <1>6. \A j \in At(p, t)' : i <= j
    <2> SUFFICES ASSUME NEW j \in At(p, t)', j < i PROVE FALSE
      BY <1>4, <1>5
    <2>1. j \in 0 .. count[p] - 1
      BY <1>1, <1>2, <1>5 DEF At
    <2>2. j \in At(p, t)
      BY <1>3, <2>1 DEF At
    <2> QED BY <1>1, <1>4, <1>5, <2>2
  <1>7. (CHOOSE k \in At(p, t)' : \A j \in At(p, t)' : k <= j) = i
    BY <1>4, <1>5, <1>6, Least
  <1>8. Known(p, t)'
    BY <1>4 DEF Known
  <1>9. Lookup(p, t)' = topics'[p][i].id
    BY <1>7, <1>8 DEF Lookup
  <1> QED BY <1>1, <1>4, <1>8, <1>9

\* A copy is looked up in the table: at its first entry of the topic.
LEMMA EntryOfKnown ==
  ASSUME TypeOK, SizeInv, CopyInv, NEW p \in Procs, NEW t \in Names, Known(p, t)
  PROVE  \E i \in 1 .. Len(Table) :
            /\ i <= count[p] /\ Table[i].name = t /\ Lookup(p, t) = Table[i].id
            /\ \A j \in 1 .. i - 1 : Table[j].name # t
  <1>1. PICK i \in At(p, t) : (\A j \in At(p, t) : i <= j) /\ Lookup(p, t) = topics[p][i].id
    BY FirstEntry
  <1>2. Len(Table) \in Nat /\ Len(Table) <= Top /\ count[p] \in 0 .. Len(Table)
    BY Sizes, IndexIs DEF CopyInv
  <1>3. \A j \in 0 .. count[p] - 1 : j \in Index /\ topics[p][j] = Table[j + 1]
    <2>1. \A j \in 0 .. count[p] - 1 : j \in Index /\ j < count[p]
      BY <1>2, IndexIs
    <2> QED BY <2>1 DEF CopyInv
  <1>4. i \in 0 .. count[p] - 1 /\ topics[p][i].name = t
    BY <1>1 DEF At
  <1>5. ASSUME NEW j \in 1 .. i, Table[j].name = t PROVE FALSE
    <2>1. j - 1 \in 0 .. count[p] - 1 /\ j - 1 < i /\ j - 1 + 1 = j
      BY <1>2, <1>4
    <2>2. j - 1 \in At(p, t)
      BY <1>3, <1>5, <2>1 DEF At
    <2> QED BY <1>1, <1>4, <2>1, <2>2
  <1>6. i + 1 \in 1 .. Len(Table) /\ i + 1 <= count[p] /\ Table[i + 1] = topics[p][i]
    BY <1>2, <1>3, <1>4
  <1>7. \A j \in 1 .. i + 1 - 1 : Table[j].name # t
    BY <1>4, <1>5
  <1> QED BY <1>1, <1>4, <1>6, <1>7

\* A process with a copy that is all of the table knows what is listed.
LEMMA KnownIsHolds ==
  ASSUME TypeOK, SizeInv, CopyInv, NEW p \in Procs, count[p] = Len(Table), NEW t
  PROVE  Known(p, t) <=> Holds(t)
  <1>1. Len(Table) \in Nat /\ Len(Table) <= Top
    BY Sizes, IndexIs
  <1>2. \A j \in 0 .. count[p] - 1 : j \in Index /\ topics[p][j] = Table[j + 1]
    <2>1. \A j \in 0 .. count[p] - 1 : j \in Index /\ j < count[p]
      BY <1>1, IndexIs
    <2> QED BY <2>1 DEF CopyInv
  <1>3. ASSUME Known(p, t) PROVE Holds(t)
    <2>1. PICK j \in 0 .. count[p] - 1 : topics[p][j].name = t
      BY <1>3 DEF Known, At
    <2>2. j + 1 \in 1 .. Len(Table) /\ Table[j + 1].name = t
      BY <1>1, <1>2, <2>1
    <2> QED BY <2>2 DEF Holds
  <1>4. ASSUME Holds(t) PROVE Known(p, t)
    <2>1. PICK i \in 1 .. Len(Table) : Table[i].name = t
      BY <1>4 DEF Holds
    <2>2. i - 1 \in 0 .. count[p] - 1 /\ i - 1 + 1 = i
      BY <1>1
    <2>3. i - 1 \in At(p, t)
      BY <1>2, <2>1, <2>2 DEF At
    <2> QED BY <2>3 DEF Known
  <1> QED BY <1>3, <1>4

\* The id of a topic is that of an entry of its own, or none.
LEMMA LookupIsId ==
  ASSUME TypeOK, SizeInv, CopyInv, NEW p \in Procs, NEW t \in Names
  PROVE  Lookup(p, t) \in Ids \cup {NoId}
  <1>1. CASE Known(p, t)
    <2>1. PICK i \in 1 .. Len(Table) : Lookup(p, t) = Table[i].id
      BY <1>1, EntryOfKnown
    <2>2. Table[i] \in Entry
      BY Sizes
    <2> QED BY <2>1, <2>2 DEF Entry
  <1>2. CASE ~Known(p, t)
    BY <1>2 DEF Lookup
  <1> QED BY <1>1, <1>2

-----------------------------------------------------------------------------
(* The initial states.                                                     *)

LEMMA InitIInv == Init => IInv
  <1> SUFFICES ASSUME Init PROVE IInv
    OBVIOUS
  <1>1. Table = <<>> /\ area.table = <<>> /\ area.extent = 0
    BY DEF Init, Blank, Table
  <1>2. <<>> \in Seq(Entry) /\ Len(<<>>) = 0 /\ 1 .. 0 = {}
    BY EmptySeq
  <1>3. Len(Table) = 0 /\ 1 .. Len(Table) = {}
    BY <1>1, <1>2
  <1>4. \A i \in Index : Empty \in Entry /\ ~(i < 0)
    <2>1. \A i \in Index : i \in Nat
      BY IndexIs
    <2>2. Empty \in Entry
      BY RegistryAssumption DEF Empty, Entry, Ids
    <2> QED BY <2>1, <2>2
  <1>5. TypeOK
    <2>1. count \in [Procs -> Index] /\ departed \in 0 .. MaxDepartures
      BY IndexIs, RegistryAssumption DEF Init
    <2>2. topics \in [Procs -> [Index -> Entry]]
      BY <1>4 DEF Init
    <2>3. area.table \in Seq(Entry) /\ area.extent \in Nat
      BY <1>1, <1>2
    <2>4. /\ creator \in [Names -> Procs \cup {NoName}]
          /\ pc \in [Threads -> {"off", "idle", "look", "add", "trigger", "addsub", "register"}]
          /\ name \in [Threads -> Names \cup {NoName}]
          /\ subs \in [Procs -> SUBSET (Names \X (Ids \cup {NoId}))]
          /\ news \in BOOLEAN /\ clearing \subseteq Procs
      BY DEF Init
    <2> QED BY <2>1, <2>2, <2>3, <2>4 DEF TypeOK
  <1>6. TextInv
    <2>1. Length(<<>>) \in Nat
      BY <1>2, LengthIsNat
    <2>2. Read(area) = <<>>
      BY <1>1 DEF Read
    <2> QED BY <1>1, <2>1, <2>2 DEF TextInv
  <1>7. CopyInv
    <2>1. \A p \in Procs : count[p] = 0 /\ \A i \in Index : topics[p][i] = Empty
      BY DEF Init
    <2> QED BY <1>3, <1>4, <2>1 DEF CopyInv
  <1>8. CurrentInv /\ PlaceInv /\ SubsInv
    BY DEF Init, CurrentInv, PlaceInv, SubsInv
  <1>9. IdInv
    BY <1>3 DEF IdInv
  <1>10. SizeInv
    BY <1>3, DoneIsFinite, RegistryAssumption DEF SizeInv
  <1> QED BY <1>5, <1>6, <1>7, <1>8, <1>9, <1>10 DEF IInv

-----------------------------------------------------------------------------
(* Steps that leave the table and all copies as they are.                  *)

LEMMA SubsKept ==
  ASSUME TypeOK, TypeOK', SubsInv, \A p \in Procs : Grows(p),
         \A p \in Procs : \A s \in subs'[p] :
             s \in subs[p] \/ (Known(p, s[1]) /\ s[2] = Lookup(p, s[1]))
  PROVE  SubsInv'
  <1> SUFFICES ASSUME NEW p \in Procs, NEW s \in subs'[p]
               PROVE  Known(p, s[1])' /\ s[2] = Lookup(p, s[1])'
    BY DEF SubsInv
  <1>1. Known(p, s[1]) /\ s[2] = Lookup(p, s[1])
    BY DEF SubsInv
  <1> QED BY <1>1, LookupStays

\* Where a thread goes, and with which topic, agrees with the table.
Fits(th) ==
    /\ pc[th] # "off"
    /\ pc'[th] \in {"look", "add", "trigger", "addsub", "register"} => name'[th] \in Names
    /\ pc'[th] \in {"trigger", "addsub", "register"} => Holds(name'[th])
    /\ pc'[th] = "add" => ~Holds(name'[th])
Rests(th) == pc'[th] = pc[th] /\ name'[th] = name[th]

LEMMA SizeKept ==
  ASSUME TypeOK, SizeInv, Table' = Table, Done \subseteq Done'
  PROVE  SizeInv'
  <1>1. IsFiniteSet(Done') /\ Cardinality(Done') \in Nat
    <2>1. Done' \subseteq Threads \X Names
      BY DEF Done
    <2> QED BY <2>1, FiniteThreads, FS_Subset, FS_CardinalityType
  <1>2. Cardinality(Done) <= Cardinality(Done')
    BY <1>1, FS_Subset
  <1>3. Listed' = Listed
    BY DEF Listed, Holds
  <1>4. Len(Table) \in Nat
    BY Sizes
  <1> QED BY <1>1, <1>2, <1>3, <1>4, DoneIsFinite, RegistryAssumption DEF SizeInv

LEMMA QuietStep ==
  ASSUME IInv, TypeOK', TextInv', Table' = Table, count' = count, topics' = topics,
         \A th \in Threads : Rests(th) \/ Fits(th),
         \A p \in Procs : \A s \in subs'[p] :
             s \in subs[p] \/ (Known(p, s[1]) /\ s[2] = Lookup(p, s[1]))
  PROVE  IInv' /\ Table' = Table /\ \A q \in Procs : Grows(q)
  <1>1. \A t : Holds(t)' <=> Holds(t)
    BY DEF Holds
  <1>2. CopyInv'
    BY DEF IInv, CopyInv
  <1>3. CurrentInv'
    BY DEF IInv, CurrentInv, Rests, Fits
  <1>4. IdInv'
    BY DEF IInv, IdInv
  <1>5. PlaceInv'
    BY <1>1 DEF IInv, PlaceInv, Rests, Fits
  <1>6. \A p \in Procs : Grows(p)
    BY IndexIs DEF IInv, TypeOK, Grows
  <1>7. SubsInv'
    BY <1>6, SubsKept DEF IInv
  <1>8. SizeInv'
    <2>1. Done \subseteq Done'
      <3> SUFFICES ASSUME NEW x \in Done PROVE x \in Done'
        OBVIOUS
      <3>1. x \in Threads \X Names /\ Holds(x[2]) /\ ~(pc[x[1]] = "add" /\ name[x[1]] = x[2])
        BY DEF Done
      <3>2. ~(pc'[x[1]] = "add" /\ name'[x[1]] = x[2])
        BY <3>1 DEF Rests, Fits
      <3> QED BY <1>1, <3>1, <3>2 DEF Done
    <2> QED BY <2>1, SizeKept DEF IInv
  <1> QED BY <1>2, <1>3, <1>4, <1>5, <1>6, <1>7, <1>8 DEF IInv

\* A thread that has started has all of the table in its copy.
LEMMA Current ==
  ASSUME IInv, NEW th \in Threads, pc[th] # "off"
  PROVE  /\ count[th[1]] = Len(Table) /\ th[1] \in Procs
         /\ \A t : Known(th[1], t) <=> Holds(t)
  <1>1. th[1] \in Procs /\ count[th[1]] = Len(Table)
    BY ThreadHasProc DEF IInv, CurrentInv
  <1> QED BY <1>1, KnownIsHolds DEF IInv

\* What is found is neither put into the table nor given another id.
LEMMA FoundIsSame ==
  ASSUME IInv, NEW p \in Procs, NEW t, Known(p, t),
         topics' = [topics EXCEPT ![p] = FoundTopics(p, t)],
         count' = [count EXCEPT ![p] = FoundCount(p, t)]
  PROVE  topics' = topics /\ count' = count /\ FoundId(p, t) = Lookup(p, t)
  <1>1. FoundTopics(p, t) = topics[p] /\ FoundCount(p, t) = count[p] /\ FoundId(p, t) = Lookup(p, t)
    BY DEF FoundTopics, FoundCount, FoundId, Created
  <1>2. topics' = [topics EXCEPT ![p] = topics[p]] /\ count' = [count EXCEPT ![p] = count[p]]
    BY <1>1
  <1> QED BY <1>1, <1>2 DEF IInv, TypeOK

LEMMA PublishStep ==
  ASSUME IInv, NEW th \in Threads, NEW t \in Names, Publish(th, t)
  PROVE  IInv' /\ Table' = Table /\ \A q \in Procs : Grows(q)
  <1>1. /\ UNCHANGED <<count, topics, area, subs>> /\ Table' = Table
        /\ pc[th] = "idle" /\ pc' = [pc EXCEPT ![th] = "look"] /\ name' = [name EXCEPT ![th] = t]
    BY DEF Publish, Go, tableVars, Table
  <1>2. TypeOK'
    BY <1>1, ThreadHasProc DEF Publish, newsVars, IInv, TypeOK
  <1>3. TextInv'
    BY <1>1 DEF IInv, TextInv, Read
  <1>4. \A u \in Threads : Rests(u) \/ Fits(u)
    BY <1>1 DEF IInv, TypeOK, Rests, Fits
  <1> QED BY <1>1, <1>2, <1>3, <1>4, QuietStep

LEMMA LookStep ==
  ASSUME IInv, NEW th \in Threads, Look(th)
  PROVE  IInv' /\ Table' = Table /\ \A q \in Procs : Grows(q)
  <1>1. /\ UNCHANGED <<count, topics, area, name, subs>> /\ Table' = Table /\ pc[th] = "look"
        /\ pc' = [pc EXCEPT ![th] = IF Known(th[1], name[th]) THEN "trigger" ELSE "add"]
    BY DEF Look, Go, tableVars, Table
  <1>2. TypeOK'
    BY <1>1 DEF Look, newsVars, IInv, TypeOK
  <1>3. TextInv'
    BY <1>1 DEF IInv, TextInv, Read
  <1>4. Fits(th)
    <2>1. Known(th[1], name[th]) <=> Holds(name[th])
      BY <1>1, Current
    <2>2. name[th] \in Names
      BY <1>1 DEF IInv, PlaceInv
    <2> QED BY <1>1, <2>1, <2>2 DEF IInv, TypeOK, Fits
  <1>5. \A u \in Threads : Rests(u) \/ Fits(u)
    BY <1>1, <1>4 DEF IInv, TypeOK, Rests
  <1> QED BY <1>1, <1>2, <1>3, <1>5, QuietStep

LEMMA TriggerStep ==
  ASSUME IInv, NEW th \in Threads, Trigger(th)
  PROVE  IInv' /\ Table' = Table /\ \A q \in Procs : Grows(q)
  <1>1. /\ UNCHANGED <<count, topics, area, subs>> /\ Table' = Table /\ pc[th] = "trigger"
        /\ pc' = [pc EXCEPT ![th] = "idle"] /\ name' = [name EXCEPT ![th] = NoName]
    BY DEF Trigger, Go, tableVars, Table
  <1>2. TypeOK'
    BY <1>1 DEF Trigger, IInv, TypeOK
  <1>3. TextInv'
    BY <1>1 DEF IInv, TextInv, Read
  <1>4. \A u \in Threads : Rests(u) \/ Fits(u)
    BY <1>1 DEF IInv, TypeOK, Rests, Fits
  <1> QED BY <1>1, <1>2, <1>3, <1>4, QuietStep

\* What a process subscribes to is in its table, which is what PublishFirst says.
LEMMA SubscribeStep ==
  ASSUME IInv, NEW th \in Threads, NEW t \in Names, Subscribe(th, t), PublishFirst
  PROVE  IInv' /\ Table' = Table /\ \A q \in Procs : Grows(q)
  <1>1. /\ UNCHANGED <<count, topics, area, subs>> /\ Table' = Table
        /\ pc[th] = "idle" /\ pc' = [pc EXCEPT ![th] = "addsub"] /\ name' = [name EXCEPT ![th] = t]
    BY DEF Subscribe, Go, tableVars, Table
  <1>2. TypeOK'
    BY <1>1 DEF Subscribe, newsVars, IInv, TypeOK
  <1>3. TextInv'
    BY <1>1 DEF IInv, TextInv, Read
  <1>4. pc'[th] = "addsub" /\ name'[th] = t
    BY <1>1 DEF IInv, TypeOK
  <1>5. Holds(t)
    BY <1>1, <1>4, Current DEF PublishFirst
  <1>6. \A u \in Threads : Rests(u) \/ Fits(u)
    BY <1>1, <1>4, <1>5 DEF IInv, TypeOK, Rests, Fits
  <1> QED BY <1>1, <1>2, <1>3, <1>6, QuietStep

LEMMA AddSubTopicStep ==
  ASSUME IInv, NEW th \in Threads, AddSubTopic(th)
  PROVE  IInv' /\ Table' = Table /\ \A q \in Procs : Grows(q)
  <1> DEFINE p == th[1]
             t == name[th]
  <1>1. /\ pc[th] = "addsub" /\ pc' = [pc EXCEPT ![th] = "register"]
        /\ UNCHANGED <<area, name, subs>> /\ Table' = Table
    BY DEF AddSubTopic, Go, Table
  <1>2. t \in Names /\ Holds(t)
    BY <1>1 DEF IInv, PlaceInv
  <1>3. p \in Procs /\ Known(p, t)
    BY <1>1, <1>2, Current
  <1>4. topics' = topics /\ count' = count
    BY <1>3, FoundIsSame DEF AddSubTopic
  <1>5. TypeOK'
    BY <1>1, <1>4 DEF AddSubTopic, newsVars, IInv, TypeOK
  <1>6. TextInv'
    BY <1>1 DEF IInv, TextInv, Read
  <1>7. \A u \in Threads : Rests(u) \/ Fits(u)
    BY <1>1, <1>2 DEF IInv, TypeOK, Rests, Fits
  <1> QED BY <1>1, <1>4, <1>5, <1>6, <1>7, QuietStep

\* The copy of a process that has started, written again, is what was there.
LEMMA RewriteSame ==
  ASSUME IInv, NEW p \in Procs, count[p] = Len(Table), topics' = topics, count' = count, Rewrite(p)
  PROVE  Table' = Table /\ TextInv' /\ area'.extent \in Nat
  <1> DEFINE t == [i \in 1 .. count[p] |-> topics[p][i - 1]]
  <1>1. /\ Table \in Seq(Entry) /\ Len(Table) \in Nat /\ Len(Table) <= Top
        /\ DOMAIN Table = 1 .. Len(Table)
    BY Sizes, IndexIs DEF IInv
  <1>2. t \in Seq(Entry) /\ Len(t) = Len(Table)
    <2>1. topics[p] \in [Index -> Entry] /\ Len(Table) - 1 <= Top
      BY <1>1, IndexIs DEF IInv, TypeOK
    <2> QED BY <1>1, <2>1, Prefix
  <1>3. \A i \in 1 .. Len(Table) : t[i] = Table[i]
    <2> SUFFICES ASSUME NEW i \in 1 .. Len(Table) PROVE topics[p][i - 1] = Table[i]
      OBVIOUS
    <2>1. i - 1 \in Index /\ i - 1 < count[p] /\ i - 1 + 1 = i
      BY <1>1, IndexIs
    <2> QED BY <2>1 DEF IInv, CopyInv
  <1>4. area' = Write(area, t)
    BY DEF Rewrite
  <1> HIDE DEF t
  <1>5. t = Table
    BY <1>1, <1>2, <1>3, SeqEqual
  <1>6. area' = Write(area, Table)
    BY <1>4, <1>5
  <1>7. Length(Table) \in Nat /\ area.extent \in Nat /\ area.extent <= Length(Table)
    BY <1>1, LengthIsNat DEF IInv, TypeOK, TextInv
  <1>8. area'.table = Table /\ area'.extent = Length(Table)
    BY <1>6, <1>7 DEF Write
  <1>9. Table' = Table /\ Read(area)' = Table
    BY <1>8 DEF Read, Table
  <1> QED BY <1>7, <1>8, <1>9 DEF TextInv

\* The subscription keeps the id that a look-up finds.
LEMMA RegisterStep ==
  ASSUME IInv, NEW th \in Threads, RegisterTopicEvent(th)
  PROVE  IInv' /\ Table' = Table /\ \A q \in Procs : Grows(q)
  <1> DEFINE p == th[1]
             t == name[th]
  <1>1. /\ pc[th] = "register" /\ pc' = [pc EXCEPT ![th] = "idle"]
        /\ name' = [name EXCEPT ![th] = NoName]
    BY DEF RegisterTopicEvent, Go
  <1>2. t \in Names /\ Holds(t)
    BY <1>1 DEF IInv, PlaceInv
  <1>3. p \in Procs /\ Known(p, t) /\ count[p] = Len(Table)
    BY <1>1, <1>2, Current
  <1>4. topics' = topics /\ count' = count /\ FoundId(p, t) = Lookup(p, t)
    BY <1>3, FoundIsSame DEF RegisterTopicEvent
  <1>5. Table' = Table /\ TextInv' /\ area'.extent \in Nat
    <2>1. CASE UNCHANGED area
      BY <2>1 DEF IInv, TypeOK, TextInv, Read, Table
    <2>2. CASE Rewrite(p)
      BY <1>3, <1>4, <2>2, RewriteSame
    <2> QED BY <2>1, <2>2 DEF RegisterTopicEvent
  <1>6. subs' = [subs EXCEPT ![p] = subs[p] \cup {<<t, Lookup(p, t)>>}]
    BY <1>4 DEF RegisterTopicEvent
  <1>7. TypeOK'
    <2>1. Lookup(p, t) \in Ids \cup {NoId}
      BY <1>2, <1>3, LookupIsId DEF IInv
    <2>2. subs' \in [Procs -> SUBSET (Names \X (Ids \cup {NoId}))]
      <3> DEFINE e == <<t, Lookup(p, t)>>
                 All == Names \X (Ids \cup {NoId})
      <3>1. e \in All /\ subs \in [Procs -> SUBSET All]
        BY <1>2, <2>1 DEF IInv, TypeOK
      <3>2. subs' = [subs EXCEPT ![p] = subs[p] \cup {e}]
        BY <1>6
      <3> HIDE DEF e, All
      <3>3. subs' \in [Procs -> SUBSET All]
        BY <3>1, <3>2
      <3> QED BY <3>3 DEF All
    <2>3. area'.table \in Seq(Entry)
      BY <1>5 DEF IInv, TypeOK, Table
    <2> QED BY <1>1, <1>4, <1>5, <2>2, <2>3 DEF RegisterTopicEvent, newsVars, IInv, TypeOK
  <1>8. \A u \in Threads : Rests(u) \/ Fits(u)
    BY <1>1 DEF IInv, TypeOK, Rests, Fits
  <1>9. \A q \in Procs : \A s \in subs'[q] :
            s \in subs[q] \/ (Known(q, s[1]) /\ s[2] = Lookup(q, s[1]))
    BY <1>3, <1>6 DEF IInv, TypeOK
  <1> QED BY <1>4, <1>5, <1>7, <1>8, <1>9, QuietStep

LEMMA NewsStep ==
  ASSUME IInv, Departure \/ (\E p \in Procs : ClearNews(p)) \/ UNCHANGED vars
  PROVE  IInv' /\ Table' = Table /\ \A q \in Procs : Grows(q)
  <1>1. UNCHANGED <<count, topics, area, creator, pc, name, subs>> /\ Table' = Table
    BY DEF Departure, ClearNews, tableVars, vars, Table
  <1>2. news' \in BOOLEAN /\ clearing' \subseteq Procs /\ departed' \in 0 .. MaxDepartures
    <2>1. CASE Departure
      BY <2>1, RegistryAssumption DEF Departure, IInv, TypeOK
    <2>2. CASE \E p \in Procs : ClearNews(p)
      BY <2>2 DEF ClearNews, IInv, TypeOK
    <2>3. CASE UNCHANGED vars
      BY <2>3 DEF vars, IInv, TypeOK
    <2> QED BY <2>1, <2>2, <2>3
  <1>3. TypeOK'
    BY <1>1, <1>2 DEF IInv, TypeOK
  <1>4. TextInv'
    BY <1>1 DEF IInv, TextInv, Read
  <1> QED BY <1>1, <1>3, <1>4, QuietStep DEF Rests

-----------------------------------------------------------------------------
(* Reading the registry.                                                   *)

LEMMA ReloadFacts ==
  ASSUME IInv, NEW p \in Procs, Reload(p), area' = area
  PROVE  /\ count' \in [Procs -> Index] /\ topics' \in [Procs -> [Index -> Entry]]
         /\ count'[p] = Len(Table) /\ \A q \in Procs \ {p} : count'[q] = count[q]
         /\ CopyInv' /\ \A q \in Procs : Grows(q)
  <1>1. /\ Table \in Seq(Entry) /\ Len(Table) \in Nat /\ Len(Table) \in Index
        /\ \A i \in 1 .. Len(Table) : Table[i] \in Entry
    BY Sizes DEF IInv
  <1>2. /\ count' = [count EXCEPT ![p] = Len(Table)]
        /\ topics' = [topics EXCEPT ![p] =
               [i \in Index |-> IF i < Len(Table) THEN Table[i + 1] ELSE topics[p][i]]]
    BY DEF Reload, IInv, TextInv
  <1>3. /\ count'[p] = Len(Table) /\ \A q \in Procs \ {p} : count'[q] = count[q]
        /\ \A i \in Index : topics'[p][i] = IF i < Len(Table) THEN Table[i + 1] ELSE topics[p][i]
        /\ \A q \in Procs \ {p} : topics'[q] = topics[q]
    BY <1>2 DEF IInv, TypeOK
  <1>4. count' \in [Procs -> Index]
    BY <1>1, <1>2 DEF IInv, TypeOK
  <1>5. topics' \in [Procs -> [Index -> Entry]]
    <2>1. \A i \in Index : i < Len(Table) => i + 1 \in 1 .. Len(Table)
      BY <1>1, IndexIs
    <2>2. [i \in Index |-> IF i < Len(Table) THEN Table[i + 1] ELSE topics[p][i]] \in [Index -> Entry]
      BY <1>1, <2>1 DEF IInv, TypeOK
    <2> QED BY <1>2, <2>2 DEF IInv, TypeOK
  <1>6. \A q \in Procs : /\ count[q] \in 0 .. Len(Table)
                         /\ \A i \in Index : topics[q][i] = IF i < count[q] THEN Table[i + 1] ELSE Empty
    BY DEF IInv, CopyInv
  <1>7. \A i \in Index : i \in Nat
    BY IndexIs
  <1>8. CopyInv'
    <2>1. Table' = Table /\ Len(Table) \in 0 .. Len(Table)
      BY <1>1 DEF Table
    <2>2. \A i \in Index : topics'[p][i] = IF i < Len(Table) THEN Table[i + 1] ELSE Empty
      <3>1. \A i \in Index : ~(i < Len(Table)) => ~(i < count[p])
        BY <1>1, <1>6, <1>7
      <3> QED BY <1>3, <1>6, <3>1
    <2>3. \A q \in Procs : /\ count'[q] \in 0 .. Len(Table)
                           /\ \A i \in Index : topics'[q][i] = IF i < count'[q] THEN Table[i + 1] ELSE Empty
      BY <1>3, <1>6, <2>1, <2>2
    <2> QED BY <2>1, <2>3 DEF CopyInv
  <1>9. ASSUME NEW q \in Procs PROVE Grows(q)
    <2>1. CASE q = p
      <3>1. count'[q] >= count[q] /\ \A i \in Index : i < count[q] => i < Len(Table)
        BY <1>1, <1>3, <1>6, <1>7, <2>1
      <3> QED BY <1>3, <1>6, <2>1, <3>1 DEF Grows
    <2>2. CASE q # p
      BY <1>1, <1>3, <1>6, <2>2 DEF Grows
    <2> QED BY <2>1, <2>2
  <1> QED BY <1>3, <1>4, <1>5, <1>8, <1>9

LEMMA ReloadStep ==
  ASSUME IInv, NEW p \in Procs, Start(p) \/ Sync(p)
  PROVE  IInv' /\ Table' = Table /\ \A q \in Procs : Grows(q)
  <1>1. Reload(p) /\ UNCHANGED <<area, creator, name, subs>> /\ Table' = Table
    BY DEF Start, Sync, Table
  <1>2. /\ count' \in [Procs -> Index] /\ topics' \in [Procs -> [Index -> Entry]]
        /\ count'[p] = Len(Table) /\ \A q \in Procs \ {p} : count'[q] = count[q]
        /\ CopyInv' /\ \A q \in Procs : Grows(q)
    BY <1>1, ReloadFacts
  <1>3. /\ pc' \in [Threads -> {"off", "idle", "look", "add", "trigger", "addsub", "register"}]
        /\ \A th \in Threads : pc'[th] = pc[th] \/ (pc'[th] = "idle" /\ th[1] = p)
    BY DEF Start, Sync, IInv, TypeOK
  <1>4. TypeOK'
    <2>1. news' \in BOOLEAN /\ clearing' \subseteq Procs /\ departed' \in 0 .. MaxDepartures
      BY DEF Start, Sync, newsVars, IInv, TypeOK
    <2> QED BY <1>1, <1>2, <1>3, <2>1 DEF IInv, TypeOK
  <1>5. TextInv'
    BY <1>1 DEF IInv, TextInv, Read
  <1>6. CurrentInv'
    <2> SUFFICES ASSUME NEW th \in Threads, pc'[th] # "off" PROVE count'[th[1]] = Len(Table)
      BY <1>1 DEF CurrentInv
    <2>1. CASE th[1] = p
      BY <1>2, <2>1
    <2>2. CASE th[1] # p
      BY <1>2, <1>3, <2>2, ThreadHasProc DEF IInv, CurrentInv
    <2> QED BY <2>1, <2>2
  <1>7. IdInv'
    BY <1>1 DEF IInv, IdInv
  <1>8. PlaceInv'
    BY <1>1, <1>3 DEF IInv, PlaceInv, Holds
  <1>9. SubsInv'
    BY <1>1, <1>2, <1>4, SubsKept DEF IInv
  <1>10. SizeInv'
    <2>1. Done \subseteq Done'
      BY <1>1, <1>3 DEF Done, Holds
    <2> QED BY <1>1, <2>1, SizeKept DEF IInv
  <1> QED BY <1>1, <1>2, <1>4, <1>5, <1>6, <1>7, <1>8, <1>9, <1>10 DEF IInv

-----------------------------------------------------------------------------
(* Adding a topic.                                                         *)

\* The thread that adds a topic has not added it before.
LEMMA NotDone ==
  ASSUME IInv, NEW th \in Threads, pc[th] = "add"
  PROVE  /\ name[th] \in Names
         /\ Cardinality(Done \cup {<<th, name[th]>>}) = Cardinality(Done) + 1
         /\ Len(Table) + 1 \in Index
         /\ Len(Table) < MaxTopics => Len(Table) + 2 \in Index
  <1> DEFINE x == <<th, name[th]>>
  <1>1. name[th] \in Names
    BY DEF IInv, PlaceInv
  <1>2. x \notin Done
    BY DEF Done
  <1>3. Cardinality(Done \cup {x}) = Cardinality(Done) + 1
    BY <1>2, DoneIsFinite, FS_AddElement
  <1>4. Done \cup {x} \subseteq Threads \X Names
    BY <1>1 DEF Done
  <1>5. Cardinality(Done) + 1 <= Cardinality(Threads \X Names)
    BY <1>3, <1>4, FiniteThreads, FS_Subset
  <1>6. Len(Table) \in Nat /\ Cardinality(Threads \X Names) \in Nat
    BY Sizes, FiniteThreads, FS_CardinalityType DEF IInv
  <1>7. Len(Table) <= MaxTopics + Cardinality(Done)
    BY DEF IInv, SizeInv
  <1>8. Len(Table) + 1 <= Top /\ (Len(Table) < MaxTopics => Len(Table) + 2 <= Top)
    BY <1>5, <1>6, <1>7, DoneIsFinite, RegistryAssumption DEF Top
  <1> QED BY <1>1, <1>3, <1>6, <1>8, IndexIs

\* The entry of the topic goes to index k, which is that of the end of the table
\* or the one after that, with an empty entry before it.
Extends(th, k, id) ==
    LET p == th[1]
        t == name[th]
        c == Len(Table)
        e == [name |-> t, id |-> id]
    IN
    /\ count' = [count EXCEPT ![p] = k + 1]
    /\ topics' = [topics EXCEPT ![p] = [topics[p] EXCEPT ![k] = e]]
    /\ area' = Write(area, Table') /\ Table' \in Seq(Entry) /\ Len(Table') = k + 1
    /\ \A i \in 1 .. k + 1 :
           Table'[i] = IF i <= c THEN Table[i] ELSE IF i = k + 1 THEN e ELSE Empty
    /\ \/ k = c /\ Known(p, t) /\ id = Lookup(p, t)
       \/ k = c + 1 /\ ~Holds(t) /\ id = c + 1 /\ c < MaxTopics
       \/ k = c /\ ~Holds(t) /\ id = NoId /\ c >= MaxTopics

LEMMA Appended ==
  ASSUME IInv, NEW th \in Threads, AddPubTopic(th)
  PROVE  \E k \in Index, id \in Ids \cup {NoId} : k + 1 \in Index /\ Extends(th, k, id)
  <1> DEFINE p == th[1]
             t == name[th]
             c == Len(Table)
             k == FoundCount(p, t)
             id == FoundId(p, t)
             e == [name |-> t, id |-> id]
             n == [i \in 1 .. k + 1 |-> topics'[p][i - 1]]
  <1>1. /\ p \in Procs /\ t \in Names /\ count[p] = c /\ (Known(p, t) <=> Holds(t))
        /\ c \in Nat /\ c + 1 \in Index /\ (c < MaxTopics => c + 2 \in Index)
    BY Current, NotDone, Sizes DEF AddPubTopic, IInv
  <1>2. /\ \/ k = c /\ Known(p, t) /\ id = Lookup(p, t)
           \/ k = c + 1 /\ ~Holds(t) /\ id = c + 1 /\ c < MaxTopics
           \/ k = c /\ ~Holds(t) /\ id = NoId /\ c >= MaxTopics
    BY <1>1, RegistryAssumption DEF FoundCount, FoundId, Created, NewId
  <1>3. k \in Index /\ k + 1 \in Index /\ k \in Nat /\ c <= k
    BY <1>1, <1>2, IndexIs
  <1>4. id \in Ids \cup {NoId}
    <2>1. Lookup(p, t) \in Ids \cup {NoId}
      BY <1>1, LookupIsId DEF IInv
    <2> QED BY <1>1, <1>2, <2>1, RegistryAssumption DEF Ids
  <1>5. e \in Entry
    BY <1>1, <1>4 DEF Entry
  <1>6. topics[p] \in [Index -> Entry]
    BY <1>1 DEF IInv, TypeOK
  <1>7. AddedTopics(p, t) = [topics[p] EXCEPT ![k] = e]
    <2>1. AddedTopics(p, t) = [FoundTopics(p, t) EXCEPT ![k] = e]
      BY DEF AddedTopics
    <2>2. CASE Created(p, t)
      <3>1. k = NewId(p)
        BY <1>1, <2>2 DEF FoundCount, NewId
      <3>2. FoundTopics(p, t) = [topics[p] EXCEPT ![k] = [name |-> t, id |-> k]]
        BY <2>2, <3>1 DEF FoundTopics
      <3> HIDE DEF k, e
      <3> QED BY <1>3, <1>6, <2>1, <3>2
    <2>3. CASE ~Created(p, t)
      BY <2>1, <2>3 DEF FoundTopics
    <2> QED BY <2>2, <2>3
  <1>8. /\ topics' = [topics EXCEPT ![p] = [topics[p] EXCEPT ![k] = e]]
        /\ count' = [count EXCEPT ![p] = k + 1]
    BY <1>7 DEF AddPubTopic, AddedCount
  <1>9. count'[p] = k + 1 /\ area' = Write(area, [i \in 1 .. count'[p] |-> topics'[p][i - 1]])
    BY <1>1, <1>8 DEF AddPubTopic, Rewrite, IInv, TypeOK
  <1>10. area' = Write(area, n)
    BY <1>9
  <1> HIDE DEF k, id, e
  <1>11. /\ topics'[p] = [topics[p] EXCEPT ![k] = e] /\ topics'[p] \in [Index -> Entry]
         /\ \A i \in Index : topics'[p][i] = IF i = k THEN e ELSE topics[p][i]
    BY <1>1, <1>3, <1>5, <1>6, <1>8 DEF IInv, TypeOK
  <1>12. n \in Seq(Entry) /\ Len(n) = k + 1
    <2> DEFINE a == topics'[p]
               m == k + 1
    <2>1. m \in Nat /\ m - 1 <= Top
      BY <1>3, IndexIs
    <2>2. a \in [Index -> Entry] /\ n = [i \in 1 .. m |-> a[i - 1]] /\ m = k + 1
      BY <1>11
    <2> HIDE DEF a, n, m
    <2>3. [i \in 1 .. m |-> a[i - 1]] \in Seq(Entry) /\ Len([i \in 1 .. m |-> a[i - 1]]) = m
      BY <2>1, <2>2, Prefix
    <2> QED BY <2>2, <2>3
  <1>13. ASSUME NEW i \in 1 .. k + 1
         PROVE  n[i] = IF i <= c THEN Table[i] ELSE IF i = k + 1 THEN e ELSE Empty
    <2>1. i - 1 \in Index /\ i - 1 + 1 = i /\ (i - 1 = k <=> i = k + 1) /\ (i - 1 < c <=> i <= c)
          /\ ~(i = k + 1 /\ i <= c)
      BY <1>1, <1>3, IndexIs
    <2>2. topics[p][i - 1] = IF i <= c THEN Table[i] ELSE Empty
      <3>1. topics[p][i - 1] = IF i - 1 < count[p] THEN Table[i - 1 + 1] ELSE Empty
        BY <1>1, <2>1 DEF IInv, CopyInv
      <3> QED BY <1>1, <2>1, <3>1
    <2>3. n[i] = IF i - 1 = k THEN e ELSE topics[p][i - 1]
      BY <1>11, <2>1
    <2> QED BY <2>1, <2>2, <2>3
  <1> HIDE DEF n
  <1>14. Table' = n
    BY <1>10 DEF Write, Table
  <1>15. Extends(th, k, id)
    BY <1>2, <1>8, <1>10, <1>12, <1>13, <1>14 DEF Extends, e
  <1> QED BY <1>3, <1>4, <1>15

LEMMA AddStep ==
  ASSUME IInv, NEW th \in Threads, AddPubTopic(th), InTurn
  PROVE  IInv' /\ \A q \in Procs : Grows(q)
  <1> DEFINE p == th[1]
             t == name[th]
             c == Len(Table)
  <1>1. PICK k \in Index, id \in Ids \cup {NoId} : k + 1 \in Index /\ Extends(th, k, id)
    BY Appended
  <1> DEFINE e == [name |-> t, id |-> id]
  <1>2. /\ pc[th] = "add" /\ pc' = [pc EXCEPT ![th] = "trigger"]
        /\ UNCHANGED <<creator, name, subs, news, clearing, departed>>
    BY DEF AddPubTopic, Go, newsVars
  <1>3. /\ p \in Procs /\ t \in Names /\ t # NoName /\ count[p] = c /\ (Known(p, t) <=> Holds(t))
        /\ Table \in Seq(Entry) /\ c \in Nat /\ c \in Index
        /\ \A i \in 1 .. c : Table[i] \in Entry
    BY <1>2, Current, NotDone, Sizes, RegistryAssumption DEF IInv
  <1>4. /\ count' = [count EXCEPT ![p] = k + 1]
        /\ topics' = [topics EXCEPT ![p] = [topics[p] EXCEPT ![k] = e]]
        /\ area' = Write(area, Table') /\ Table' \in Seq(Entry) /\ Len(Table') = k + 1
        /\ \A i \in 1 .. k + 1 :
               Table'[i] = IF i <= c THEN Table[i] ELSE IF i = k + 1 THEN e ELSE Empty
    BY <1>1 DEF Extends
  <1>5. \/ k = c /\ Known(p, t) /\ id = Lookup(p, t)
        \/ k = c + 1 /\ ~Holds(t) /\ id = c + 1 /\ c < MaxTopics
        \/ k = c /\ ~Holds(t) /\ id = NoId /\ c >= MaxTopics
    BY <1>1 DEF Extends
  <1>6. e \in Entry /\ e.name = t /\ e.id = id /\ Empty.name = NoName
    BY <1>3 DEF Entry, Empty
  <1>7. k \in Nat /\ k \in Index /\ k + 1 \in Index /\ c <= k
    BY <1>1, <1>3, <1>5, IndexIs
  <1>8. /\ \A i \in 1 .. c : i \in 1 .. k + 1 /\ Table'[i] = Table[i]
        /\ k + 1 \in 1 .. k + 1 /\ Table'[k + 1] = e
        /\ \A i \in 1 .. k + 1 : i \in 1 .. c \/ i = k + 1 \/ Table'[i] = Empty
    BY <1>3, <1>4, <1>7
  \* What is known of the entry that is found.
  <1>9. /\ id < k + 1
        /\ \A i \in 1 .. c : Table[i].name # NoName /\ Table[i].id = id /\ id # NoId => Table[i].name = t
    <2>1. CASE k = c /\ Known(p, t) /\ id = Lookup(p, t)
      <3>1. PICK m \in 1 .. c : Table[m].name = t /\ id = Table[m].id
        BY <1>3, <2>1, EntryOfKnown DEF IInv
      <3>2. Table[m].name # NoName /\ Table[m].id < c
        BY <1>3, <3>1 DEF IInv, IdInv
      <3>3. id < k + 1
        <4> HIDE DEF c
        <4>1. id \in Int
          BY RegistryAssumption DEF Ids, NoId
        <4> QED BY <1>3, <2>1, <3>1, <3>2, <4>1
      <3>4. \A i \in 1 .. c : Table[i].name # NoName /\ Table[i].id = id /\ id # NoId => Table[i].name = t
        BY <3>1, <3>2 DEF IInv, IdInv
      <3> QED BY <3>3, <3>4
    <2>2. CASE k = c + 1 /\ id = c + 1
      <3>1. \A i \in 1 .. c : Table[i].name # NoName => Table[i].id < c
        BY DEF IInv, IdInv
      <3> QED BY <1>3, <2>2, <3>1
    <2>3. CASE id = NoId
      BY <1>7, <2>3 DEF NoId
    <2> QED BY <1>5, <2>1, <2>2, <2>3
  <1>10. \A s : Holds(s) => Holds(s)'
    BY <1>4, <1>8 DEF Holds
  <1>11. \E i \in 1 .. Len(Table') : Table'[i].name = t
    BY <1>4, <1>6, <1>8
  <1>12. /\ pc'[th] = "trigger" /\ \A u \in Threads \ {th} : pc'[u] = pc[u]
         /\ pc' \in [Threads -> {"off", "idle", "look", "add", "trigger", "addsub", "register"}]
    BY <1>2 DEF IInv, TypeOK
  <1> HIDE DEF p, t, c, e
  <1>13. /\ count'[p] = k + 1 /\ \A q \in Procs \ {p} : count'[q] = count[q]
         /\ \A i \in Index : topics'[p][i] = IF i = k THEN e ELSE topics[p][i]
         /\ \A q \in Procs \ {p} : topics'[q] = topics[q]
    BY <1>3, <1>4, <1>7 DEF IInv, TypeOK
  <1>14. TypeOK'
    <2>1. count' \in [Procs -> Index]
      BY <1>4, <1>7 DEF IInv, TypeOK
    <2>2. topics' \in [Procs -> [Index -> Entry]]
      BY <1>3, <1>4, <1>6, <1>7 DEF IInv, TypeOK
    <2>3. area'.table \in Seq(Entry) /\ area'.extent \in Nat
      <3>1. Length(Table') \in Nat /\ area.extent \in Nat
        BY <1>4, LengthIsNat DEF IInv, TypeOK
      <3> QED BY <1>4, <3>1 DEF Write, Table
    <2> QED BY <1>2, <1>12, <2>1, <2>2, <2>3 DEF IInv, TypeOK
  <1>15. TextInv'
    <2>1. Len(Table) < Len(Table') /\ \A i \in 1 .. Len(Table) : Table'[i] = Table[i]
      BY <1>3, <1>4, <1>7, <1>8 DEF c
    <2>2. Length(Table) \in Nat /\ Length(Table') \in Nat /\ Length(Table) < Length(Table')
      BY <1>3, <1>4, <2>1, Longer
    <2>3. area.extent \in Nat /\ area.extent <= Length(Table)
      BY DEF IInv, TypeOK, TextInv
    <2>4. Length(Table') > area.extent
      BY <2>2, <2>3
    <2>5. area'.table = Table' /\ area'.extent = Length(Table')
      BY <1>4, <2>4 DEF Write
    <2>6. Read(area)' = Table'
      BY <2>5 DEF Read
    <2> QED BY <2>2, <2>5, <2>6 DEF TextInv
  <1>16. \A q \in Procs : /\ count[q] \in 0 .. c
                          /\ \A i \in Index : topics[q][i] = IF i < count[q] THEN Table[i + 1] ELSE Empty
    BY DEF IInv, CopyInv, c
  <1>17. CopyInv'
    <2>1. \A i \in Index : i \in Nat
      BY IndexIs
    <2>2. \A i \in Index : i < c => Table'[i + 1] = Table[i + 1]
      BY <1>3, <1>8, <2>1
    <2>3. ASSUME NEW q \in Procs
          PROVE  /\ count'[q] \in 0 .. k + 1
                 /\ \A i \in Index : topics'[q][i] = IF i < count'[q] THEN Table'[i + 1] ELSE Empty
      <3>1. CASE q = p
        <4>1. count'[q] = k + 1 /\ count'[q] \in 0 .. k + 1
          BY <1>7, <1>13, <3>1
        <4>2. ASSUME NEW i \in Index
              PROVE  topics'[p][i] = IF i < k + 1 THEN Table'[i + 1] ELSE Empty
          <5>1. i \in Nat
            BY <2>1
          <5>2. CASE i = k
            BY <1>7, <1>8, <1>13, <5>2
          <5>3. CASE i < c /\ i # k
            BY <1>3, <1>7, <1>13, <1>16, <2>2, <5>1, <5>3
          <5>4. CASE i >= c /\ i # k
            <6>1. topics'[p][i] = Empty
              BY <1>3, <1>13, <1>16, <5>1, <5>4
            <6>2. i < k + 1 => i + 1 \in 1 .. k + 1 /\ i + 1 \notin 1 .. c /\ i + 1 # k + 1
              BY <1>3, <1>7, <5>1, <5>4
            <6> QED BY <1>8, <6>1, <6>2
          <5> QED BY <1>3, <1>7, <5>1, <5>2, <5>3, <5>4
        <4> QED BY <3>1, <4>1, <4>2
      <3>2. CASE q # p
        <4>1. count'[q] = count[q] /\ topics'[q] = topics[q] /\ count[q] \in 0 .. c
          BY <1>13, <1>16, <3>2
        <4>2. \A i \in Index : i < count[q] => i < c
          BY <1>3, <2>1, <4>1
        <4> QED BY <1>3, <1>7, <1>16, <2>2, <4>1, <4>2
      <3> QED BY <3>1, <3>2
    <2> QED BY <1>4, <2>3 DEF CopyInv
  <1>18. \A q \in Procs : Grows(q)
    <2> SUFFICES ASSUME NEW q \in Procs PROVE Grows(q)
      OBVIOUS
    <2>1. CASE q = p
      <3>1. count'[q] >= count[q] /\ \A i \in Index : i < count[q] => i # k
        BY <1>3, <1>7, <1>13, <2>1, IndexIs
      <3> QED BY <1>13, <2>1, <3>1 DEF Grows
    <2>2. CASE q # p
      <3>1. count[q] \in Int
        BY <1>3, <1>16
      <3> QED BY <1>13, <2>2, <3>1 DEF Grows
    <2> QED BY <2>1, <2>2
  <1>19. CurrentInv'
    <2>1. Len(Table') # Len(Table)
      BY <1>3, <1>4, <1>7 DEF c
    <2>2. area' # area
      BY <2>1 DEF Table
    <2>3. PICK r \in Procs : \A u \in Threads : u[1] # r => pc[u] = "off"
      BY <2>2 DEF InTurn
    <2>4. r = p
      BY <1>2, <2>3 DEF p
    <2>5. \A u \in Threads : pc'[u] # "off" => u[1] = p
      BY <1>12, <2>3, <2>4 DEF p
    <2> QED BY <1>4, <1>13, <2>5 DEF CurrentInv
  <1>20. IdInv'
    <2>1. ASSUME NEW i \in 1 .. k + 1, Table'[i].name # NoName
          PROVE  Table'[i].id < k + 1
      <3>1. CASE i \in 1 .. c
        <4>1. Table[i].id < c /\ Table[i].id \in Int
          BY <1>3, <1>8, <2>1, <3>1, RegistryAssumption DEF IInv, IdInv, c, Entry, Ids, NoId
        <4> QED BY <1>3, <1>7, <1>8, <3>1, <4>1
      <3>2. CASE i = k + 1
        BY <1>6, <1>8, <1>9, <3>2
      <3> QED BY <1>6, <1>8, <2>1, <3>1, <3>2
    <2>2. ASSUME NEW i \in 1 .. k + 1, NEW j \in 1 .. k + 1,
                 Table'[i].name # NoName, Table'[j].name # NoName,
                 Table'[i].id = Table'[j].id, Table'[i].id # NoId
          PROVE  Table'[i].name = Table'[j].name
      <3>1. (i \in 1 .. c \/ i = k + 1) /\ (j \in 1 .. c \/ j = k + 1)
        BY <1>6, <1>8, <2>2
      <3>2. CASE i \in 1 .. c /\ j \in 1 .. c
        BY <1>8, <2>2, <3>2 DEF IInv, IdInv, c
      <3>3. CASE i = k + 1 \/ j = k + 1
        BY <1>6, <1>8, <1>9, <2>2, <3>1, <3>3
      <3> QED BY <3>1, <3>2, <3>3
    <2> QED BY <1>4, <2>1, <2>2 DEF IdInv
  <1>21. PlaceInv'
    <2> SUFFICES ASSUME NEW u \in Threads
                 PROVE  /\ pc'[u] \in {"look", "add", "trigger", "addsub", "register"} => name'[u] \in Names
                        /\ pc'[u] \in {"trigger", "addsub", "register"} => Holds(name[u])'
      BY <1>2 DEF PlaceInv
    <2>1. CASE u = th
      BY <1>2, <1>3, <1>11, <2>1 DEF t, Holds
    <2>2. CASE u # th
      BY <1>2, <1>10, <1>12, <2>2 DEF IInv, PlaceInv
    <2> QED BY <2>1, <2>2
  <1>22. SubsInv'
    BY <1>2, <1>14, <1>18, SubsKept DEF IInv
  <1>23. SizeInv'
    <2>1. Done \cup {<<th, t>>} \subseteq Done'
      <3>1. <<th, t>> \in Done'
        BY <1>3, <1>11, <1>12 DEF Done, Holds
      <3>2. \A x \in Done : x \in Done'
        BY <1>2, <1>10, <1>12 DEF Done
      <3> QED BY <3>1, <3>2
    <2>2. Cardinality(Done \cup {<<th, t>>}) = Cardinality(Done) + 1
      BY <1>2, NotDone DEF t
    <2>3. Done' \subseteq Threads \X Names /\ Listed' \subseteq Names /\ Listed \subseteq Listed'
      BY <1>10 DEF Done, Listed
    <2>4. IsFiniteSet(Done') /\ IsFiniteSet(Listed')
      BY <2>3, FiniteThreads, RegistryAssumption, FS_Subset
    <2>5. Cardinality(Done') \in Nat /\ Cardinality(Listed') \in Nat
      BY <2>4, FS_CardinalityType
    <2>6. Cardinality(Done) + 1 <= Cardinality(Done') /\ Cardinality(Listed) <= Cardinality(Listed')
      BY <2>1, <2>2, <2>3, <2>4, FS_Subset
    <2>7. ~Holds(t) => Cardinality(Listed) + 1 <= Cardinality(Listed')
      <3> SUFFICES ASSUME ~Holds(t) PROVE Cardinality(Listed) + 1 <= Cardinality(Listed')
        OBVIOUS
      <3>1. t \notin Listed /\ Listed \cup {t} \subseteq Listed'
        BY <1>3, <1>11, <2>3 DEF Listed, Holds
      <3>2. Cardinality(Listed \cup {t}) = Cardinality(Listed) + 1
        BY <3>1, DoneIsFinite, FS_AddElement
      <3> QED BY <2>4, <3>1, <3>2, FS_Subset
    <2>8. c <= MaxTopics + Cardinality(Done) /\ c <= Cardinality(Done) + Cardinality(Listed)
      BY DEF IInv, SizeInv, c
    <2>9. /\ k + 1 <= MaxTopics + Cardinality(Done')
          /\ k + 1 <= Cardinality(Done') + Cardinality(Listed')
      BY <1>3, <1>5, <1>7, <2>5, <2>6, <2>7, <2>8, DoneIsFinite, RegistryAssumption
    <2> QED BY <1>4, <2>9 DEF SizeInv
  <1> QED BY <1>14, <1>15, <1>17, <1>18, <1>19, <1>20, <1>21, <1>22, <1>23 DEF IInv

-----------------------------------------------------------------------------
(* Every step.                                                             *)

Steps == Next /\ PublishFirst /\ InTurn

\* A step keeps the invariant, no copy loses an entry, and the table in the
\* segment changes only when a topic is added.
LEMMA Step ==
  ASSUME IInv, [Steps]_vars
  PROVE  /\ IInv' /\ \A q \in Procs : Grows(q)
         /\ Table' = Table \/ \E th \in Threads : AddPubTopic(th)
  <1>1. ASSUME NEW th \in Threads, NEW t \in Names, Publish(th, t)
        PROVE  IInv' /\ Table' = Table /\ \A q \in Procs : Grows(q)
    BY <1>1, PublishStep
  <1>2. ASSUME NEW th \in Threads, NEW t \in Names, Subscribe(th, t), PublishFirst
        PROVE  IInv' /\ Table' = Table /\ \A q \in Procs : Grows(q)
    BY <1>2, SubscribeStep
  <1>3. ASSUME NEW th \in Threads, Look(th) \/ Trigger(th) \/ AddSubTopic(th) \/ RegisterTopicEvent(th)
        PROVE  IInv' /\ Table' = Table /\ \A q \in Procs : Grows(q)
    BY <1>3, LookStep, TriggerStep, AddSubTopicStep, RegisterStep
  <1>4. ASSUME NEW th \in Threads, AddPubTopic(th), InTurn
        PROVE  IInv' /\ \A q \in Procs : Grows(q)
    BY <1>4, AddStep
  <1>5. ASSUME NEW p \in Procs, Start(p) \/ Sync(p)
        PROVE  IInv' /\ Table' = Table /\ \A q \in Procs : Grows(q)
    BY <1>5, ReloadStep
  <1>6. ASSUME Departure \/ (\E p \in Procs : ClearNews(p)) \/ UNCHANGED vars
        PROVE  IInv' /\ Table' = Table /\ \A q \in Procs : Grows(q)
    BY <1>6, NewsStep
  <1> QED BY <1>1, <1>2, <1>3, <1>4, <1>5, <1>6 DEF Steps, Next

\* The arrays have room for what threads can put into them: each of the threads
\* adds each of the topics once at most, and the first to add a topic leaves an
\* entry empty.
Room == Cardinality(Threads) * Cardinality(Names) + Cardinality(Names) <= MaxTopics
RoomInv == \A i \in 1 .. Len(Table) : Table[i].name # NoName => Table[i].id # NoId

\* A topic that is not listed finds room.
LEMMA RoomForNew ==
  ASSUME IInv, Room, NEW t \in Names, ~Holds(t)
  PROVE  Len(Table) < MaxTopics
  <1>1. Listed \cup {t} \subseteq Names /\ t \notin Listed
    BY DEF Listed
  <1>2. Cardinality(Listed \cup {t}) = Cardinality(Listed) + 1
    BY <1>1, DoneIsFinite, FS_AddElement
  <1>3. Cardinality(Listed) + 1 <= Cardinality(Names)
    BY <1>1, <1>2, RegistryAssumption, FS_Subset
  <1>4. Cardinality(Done) <= Cardinality(Threads) * Cardinality(Names)
    BY DoneIsFinite, FiniteThreads
  <1>5. Len(Table) <= Cardinality(Done) + Cardinality(Listed)
    BY DEF IInv, SizeInv
  <1>6. Len(Table) \in Nat /\ Cardinality(Threads) * Cardinality(Names) \in Nat
    <2>1. Cardinality(Threads \X Names) \in Nat
      BY FiniteThreads, FS_CardinalityType
    <2> QED BY <2>1, FiniteThreads, Sizes DEF IInv
  <1> DEFINE product == Cardinality(Threads) * Cardinality(Names)
  <1>7. product \in Nat /\ Cardinality(Done) <= product /\ product + Cardinality(Names) <= MaxTopics
    BY <1>4, <1>6 DEF Room
  <1> HIDE DEF product
  <1> QED BY <1>3, <1>5, <1>6, <1>7, FiniteThreads, DoneIsFinite, RegistryAssumption

LEMMA RoomStep ==
  ASSUME IInv, RoomInv, Room, [Steps]_vars
  PROVE  RoomInv'
  <1>1. CASE Table' = Table
    BY <1>1 DEF RoomInv
  <1>2. ASSUME NEW th \in Threads, AddPubTopic(th) PROVE RoomInv'
    <2> DEFINE p == th[1]
               t == name[th]
    <2>1. PICK k \in Index, id \in Ids \cup {NoId} : k + 1 \in Index /\ Extends(th, k, id)
      BY <1>2, Appended
    <2>2. /\ p \in Procs /\ t \in Names /\ t # NoName
          /\ Len(Table) \in Nat
      BY <1>2, Current, NotDone, Sizes, RegistryAssumption DEF AddPubTopic, IInv
    <2>3. id # NoId
      <3>1. CASE Known(p, t) /\ id = Lookup(p, t)
        <4>1. PICK m \in 1 .. Len(Table) : Table[m].name = t /\ Lookup(p, t) = Table[m].id
          BY <2>2, <3>1, EntryOfKnown DEF IInv
        <4> QED BY <2>2, <3>1, <4>1 DEF RoomInv
      <3>2. CASE id = Len(Table) + 1
        BY <2>2, <3>2 DEF NoId
      <3>3. CASE ~Holds(t) /\ Len(Table) >= MaxTopics
        BY <2>2, <3>3, RoomForNew, RegistryAssumption
      <3> QED BY <2>1, <3>1, <3>2, <3>3 DEF Extends
    <2>4. /\ Len(Table') = k + 1
          /\ \A i \in 1 .. k + 1 :
                 Table'[i] = IF i <= Len(Table) THEN Table[i]
                             ELSE IF i = k + 1 THEN [name |-> t, id |-> id] ELSE Empty
      BY <2>1 DEF Extends
    <2> HIDE DEF t
    <2>5. ASSUME NEW i \in 1 .. k + 1, Table'[i].name # NoName PROVE Table'[i].id # NoId
      <3>1. k \in Nat
        BY IndexIs
      <3>2. CASE i <= Len(Table)
        <4>1. i \in 1 .. Len(Table) /\ Table'[i] = Table[i]
          BY <2>2, <2>4, <3>1, <3>2
        <4> QED BY <2>5, <4>1 DEF RoomInv
      <3>3. CASE ~(i <= Len(Table)) /\ i = k + 1
        BY <2>3, <2>4, <3>3
      <3>4. CASE ~(i <= Len(Table)) /\ i # k + 1
        BY <2>4, <2>5, <3>4 DEF Empty
      <3> QED BY <3>2, <3>3, <3>4
    <2> QED BY <2>4, <2>5 DEF RoomInv
  <1> QED BY <1>1, <1>2, Step

-----------------------------------------------------------------------------
(* The theorems.                                                           *)

\* The invariant holds: the copies of all processes are beginnings of one table,
\* which the segment holds and which only grows.
THEOREM Invariance == InTurnSpec => []IInv
  <1>1. IInv /\ [Steps]_vars => IInv'
    BY Step
  <1> QED BY InitIInv, <1>1, PTL DEF InTurnSpec, Steps

\* The variables have the types that the model gives them: no copy grows beyond
\* the array behind it.
THEOREM TypeCorrect == InTurnSpec => []TypeOK
  <1>1. IInv => TypeOK
    BY DEF IInv
  <1> QED BY Invariance, <1>1, PTL

\* The event a subscription waits for is the one that a publisher of its process
\* finds and triggers.
THEOREM RegisteredIdsAreFound == InTurnSpec => []RegisteredIdIsFound
  <1>1. IInv => RegisteredIdIsFound
    BY DEF IInv, SubsInv, RegisteredIdIsFound
  <1> QED BY Invariance, <1>1, PTL

\* No two topics of a table share an event: a trigger wakes those who wait for
\* this topic only.
THEOREM IdsAreDistinct == InTurnSpec => []IdsDistinct
  <1>1. ASSUME IInv PROVE IdsDistinct
    <2> SUFFICES ASSUME NEW p \in Procs, NEW t \in Names, NEW u \in Names,
                        t # u, Lookup(p, t) # NoId, Lookup(p, t) = Lookup(p, u)
                 PROVE  FALSE
      BY DEF IdsDistinct
    <2>1. Known(p, t) /\ Known(p, u)
      BY DEF Lookup
    <2>2. PICK i \in 1 .. Len(Table) : Table[i].name = t /\ Lookup(p, t) = Table[i].id
      BY <1>1, <2>1, EntryOfKnown DEF IInv
    <2>3. PICK j \in 1 .. Len(Table) : Table[j].name = u /\ Lookup(p, u) = Table[j].id
      BY <1>1, <2>1, EntryOfKnown DEF IInv
    <2> QED BY <1>1, <2>2, <2>3, RegistryAssumption DEF IInv, IdInv
  <1> QED BY Invariance, <1>1, PTL

\* Two processes that know a topic trigger and await the same event.
THEOREM SameIdsEverywhere == InTurnSpec => []SameIdEverywhere
  <1>1. ASSUME IInv PROVE SameIdEverywhere
    <2> SUFFICES ASSUME NEW p \in Procs, NEW q \in Procs, NEW t \in Names,
                        Lookup(p, t) # NoId, Lookup(q, t) # NoId
                 PROVE  Lookup(p, t) = Lookup(q, t)
      BY DEF SameIdEverywhere
    <2>1. Known(p, t) /\ Known(q, t)
      BY DEF Lookup
    <2>2. PICK i \in 1 .. Len(Table) : /\ Table[i].name = t /\ Lookup(p, t) = Table[i].id
                                       /\ \A j \in 1 .. i - 1 : Table[j].name # t
      BY <1>1, <2>1, EntryOfKnown DEF IInv
    <2>3. PICK j \in 1 .. Len(Table) : /\ Table[j].name = t /\ Lookup(q, t) = Table[j].id
                                       /\ \A m \in 1 .. j - 1 : Table[m].name # t
      BY <1>1, <2>1, EntryOfKnown DEF IInv
    <2>4. i = j
      BY <2>2, <2>3
    <2> QED BY <2>2, <2>3, <2>4
  <1> QED BY Invariance, <1>1, PTL

\* A topic in a table stays there and keeps its event.
THEOREM IdsAreStable == InTurnSpec => IdStable
  <1>1. ASSUME IInv, [Steps]_vars, NEW p \in Procs, NEW t \in Names, Lookup(p, t) # NoId
        PROVE  Lookup(p, t)' = Lookup(p, t)
    <2>1. Known(p, t)
      BY <1>1 DEF Lookup
    <2>2. IInv' /\ Grows(p)
      BY <1>1, Step
    <2> QED BY <1>1, <2>1, <2>2, LookupStays DEF IInv
  <1>2. IInv /\ [Steps]_vars =>
            [\A p \in Procs, t \in Names : Lookup(p, t) # NoId => Lookup(p, t)' = Lookup(p, t)]_vars
    BY <1>1
  <1> QED BY Invariance, <1>2, PTL DEF InTurnSpec, Steps, IdStable

\* If the arrays have room, a publisher that goes on to trigger has an event to
\* trigger: addPubTopic never ends without an id that a look-up finds.
THEOREM NothingIsSilent ==
  ASSUME Room
  PROVE  InTurnSpec => []NoSilentPublish
  <1>1. Init => RoomInv
    <2> SUFFICES ASSUME Init PROVE RoomInv
      OBVIOUS
    <2>1. Table = <<>>
      BY DEF Init, Blank, Table
    <2>2. 1 .. Len(Table) = {}
      BY <2>1, EmptySeq
    <2> QED BY <2>2 DEF RoomInv
  <1>2. IInv /\ RoomInv /\ [Steps]_vars => RoomInv'
    BY Room, RoomStep
  <1>3. InTurnSpec => []RoomInv
    BY Invariance, <1>1, <1>2, PTL DEF InTurnSpec, Steps
  <1>4. ASSUME IInv, RoomInv PROVE NoSilentPublish
    <2> SUFFICES ASSUME NEW th \in Threads, pc[th] = "trigger"
                 PROVE  Lookup(th[1], name[th]) # NoId
      BY DEF NoSilentPublish
    <2>1. name[th] \in Names /\ Holds(name[th])
      BY <1>4 DEF IInv, PlaceInv
    <2>2. th[1] \in Procs /\ Known(th[1], name[th])
      BY <1>4, <2>1, Current
    <2>3. PICK i \in 1 .. Len(Table) :
              Table[i].name = name[th] /\ Lookup(th[1], name[th]) = Table[i].id
      BY <1>4, <2>1, <2>2, EntryOfKnown DEF IInv
    <2> QED BY <1>4, <2>1, <2>3, RegistryAssumption DEF RoomInv
  <1> QED BY Invariance, <1>3, <1>4, PTL

=============================================================================
