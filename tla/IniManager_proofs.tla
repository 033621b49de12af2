------------------------- MODULE IniManager_proofs -------------------------
(***************************************************************************)
(* Theorems about IniManager, for files, names, keys and values of any     *)
(* length and any number of them.                                          *)
(*                                                                         *)
(* ReadStream is the last state of a run of ReadLine over the lines.  From *)
(* that follow, line by line, that it agrees with what the lines say       *)
(* (ReadStreamAgrees), and that it finds what Write rendered (RoundTrip).  *)
(* The invariant says in addition that the calls keep the agreement, and   *)
(* what a running daemon runs with.                                        *)
(***************************************************************************)
EXTENDS IniManager, CommonLemmas

(* The first position of a mark is where it is said to be, or behind all.  *)
IsFirstAt(line, marks, p) ==
  /\ p \in 1 .. Len(line) + 1
  /\ p <= Len(line) => line[p] \in marks
  /\ \A j \in 1 .. p - 1 : line[j] \notin marks

(* FirstAt finds the first mark, and there is one such position.           *)
LEMMA FirstAtIs ==
  ASSUME NEW line \in Phrases, NEW marks
  PROVE  /\ IsFirstAt(line, marks, FirstAt(line, marks))
         /\ \A p : IsFirstAt(line, marks, p) => p = FirstAt(line, marks)
  <1>. DEFINE T == {i \in 1 .. Len(line) + 1 : i <= Len(line) => line[i] \in marks}
  <1>1. Len(line) \in Nat
    BY DEF Phrases
  <1>2. T \subseteq Nat /\ Len(line) + 1 \in T
    BY <1>1
  <1>3. PICK p \in T : \A i \in T : p <= i
    <2>. HIDE DEF T
    <2>. QED BY <1>2, LeastNatural
  <1>4. IsFirstAt(line, marks, p)
    <2>1. ASSUME NEW j \in 1 .. p - 1
          PROVE  line[j] \notin marks
      <3>1. j \in 1 .. Len(line) + 1 /\ j < p
        BY <1>1, <1>3
      <3>2. j \notin T
        <4>. HIDE DEF T
        <4>. QED BY <1>2, <1>3, <3>1
      <3>. QED BY <3>1, <3>2
    <2>. QED BY <1>3, <2>1 DEF IsFirstAt
  <1>5. FirstAt(line, marks) = CHOOSE i : IsFirstAt(line, marks, i)
    BY Zenon DEF FirstAt, IsFirstAt
  <1>6. IsFirstAt(line, marks, FirstAt(line, marks))
    BY <1>4, <1>5, Zenon
  <1>7. ASSUME NEW q, NEW r, IsFirstAt(line, marks, q), IsFirstAt(line, marks, r)
        PROVE  q = r
    <2>1. q \in Int /\ r \in Int /\ q <= Len(line) + 1 /\ r <= Len(line) + 1
          /\ 1 <= q /\ 1 <= r
      BY <1>1, <1>7 DEF IsFirstAt
    <2>2. ~(q < r)
      BY <1>1, <1>7, <2>1 DEF IsFirstAt
    <2>3. ~(r < q)
      BY <1>1, <1>7, <2>1 DEF IsFirstAt
    <2>. QED BY <2>1, <2>2, <2>3
  <1>. QED BY <1>6, <1>7, Zenon

(* What is before it.                                                      *)
LEMMA BeforeIs ==
  ASSUME NEW line \in Phrases, NEW marks
  PROVE  /\ Before(line, marks) \in Phrases
         /\ Len(Before(line, marks)) = FirstAt(line, marks) - 1
         /\ \A j \in 1 .. FirstAt(line, marks) - 1 : Before(line, marks)[j] = line[j]
  <1>. DEFINE p == FirstAt(line, marks)
  <1>1. p \in 1 .. Len(line) + 1 /\ Len(line) \in Nat
    BY FirstAtIs DEF IsFirstAt, Phrases
  <1>. HIDE DEF p
  <1>2. \A i \in 1 .. p - 1 : line[i] \in Tokens
    BY <1>1, ElementOfSeq DEF Phrases
  <1>3. Before(line, marks) = SubSeq(line, 1, p - 1)
    BY DEF Before, p
  <1>4. /\ SubSeq(line, 1, p - 1) \in Seq(Tokens)
        /\ Len(SubSeq(line, 1, p - 1)) = IF 1 <= p - 1 THEN (p - 1) - 1 + 1 ELSE 0
        /\ \A i \in 1 .. (p - 1) - 1 + 1 : SubSeq(line, 1, p - 1)[i] = line[1 + i - 1]
    BY <1>1, <1>2, SubSeqProperties
  <1>5. \A i \in 1 .. p - 1 : 1 + i - 1 = i /\ i \in 1 .. (p - 1) - 1 + 1
    BY <1>1
  <1>6. \A i \in 1 .. p - 1 : SubSeq(line, 1, p - 1)[i] = line[i]
    BY <1>4, <1>5
  <1>. QED BY <1>1, <1>3, <1>4, <1>6 DEF p, Phrases

(* The rest of a line.                                                     *)
LEMMA RestIs ==
  ASSUME NEW line \in Phrases, NEW p \in 1 .. Len(line) + 1
  PROVE  /\ SubSeq(line, p, Len(line)) \in Phrases
         /\ Len(SubSeq(line, p, Len(line))) = Len(line) + 1 - p
         /\ \A j \in 1 .. Len(line) + 1 - p : SubSeq(line, p, Len(line))[j] = line[p + j - 1]
  <1>1. Len(line) \in Nat /\ \A i \in 1 .. Len(line) : line[i] \in Tokens
    BY ElementOfSeq DEF Phrases
  <1>2. /\ SubSeq(line, p, Len(line)) \in Seq(Tokens)
        /\ Len(SubSeq(line, p, Len(line))) = IF p <= Len(line) THEN Len(line) - p + 1 ELSE 0
        /\ \A i \in 1 .. Len(line) - p + 1 : SubSeq(line, p, Len(line))[i] = line[p + i - 1]
    BY <1>1, SubSeqProperties
  <1>. QED BY <1>1, <1>2 DEF Phrases

(* A folded name is a phrase, and folded once for all.                     *)
LEMMA FoldType ==
  ASSUME NEW name \in Phrases
  PROVE  /\ Fold(name) \in Phrases
         /\ Fold(Fold(name)) = Fold(name)
         /\ Len(Fold(name)) = Len(name)
  <1>1. DOMAIN name = 1 .. Len(name) /\ Len(name) \in Nat
    BY DEF Phrases
  <1>2. \A i \in 1 .. Len(name) : name[i] \in Tokens
    BY ElementOfSeq DEF Phrases
  <1>. DEFINE e(i) == IF name[i] \in DOMAIN Lower THEN Lower[name[i]] ELSE name[i]
  <1>3. \A i \in 1 .. Len(name) : e(i) \in Tokens
    BY <1>2, IniAssumption DEF Tokens
  <1>4. Fold(name) = [i \in 1 .. Len(name) |-> e(i)]
    BY <1>1 DEF Fold
  <1>5. Fold(name) \in [1 .. Len(name) -> Tokens]
    BY <1>3, <1>4
  <1>6. Fold(name) \in Phrases /\ Len(Fold(name)) = Len(name)
    BY <1>1, <1>5 DEF Phrases
  <1>7. DOMAIN Fold(name) = 1 .. Len(name)
    BY <1>5
  <1>8. \A i \in 1 .. Len(name) : e(i) \notin DOMAIN Lower
    BY IniAssumption
  <1>9. Fold(Fold(name)) = [i \in 1 .. Len(name) |-> e(i)]
    <2>. HIDE DEF e
    <2>1. \A i \in 1 .. Len(name) : Fold(name)[i] = e(i) /\ Fold(name)[i] \notin DOMAIN Lower
      BY <1>4, <1>8
    <2>. QED BY <1>7, <2>1 DEF Fold
  <1>. QED BY <1>4, <1>6, <1>9

(* An entry has its "=" before any comment.                                *)
HasEntry(line) == FirstAt(line, {"="}) < FirstAt(line, CommentMarks)

(* What a reader of the text takes for an entry.                           *)
LEMMA EntryIs ==
  ASSUME NEW line \in Phrases
  PROVE  IsEntry(line) <=> Len(line) >= 2 /\ HasEntry(line)
  <1>. DEFINE e == FirstAt(line, {"="})
              c == FirstAt(line, CommentMarks)
  <1>1. IsFirstAt(line, {"="}, e) /\ IsFirstAt(line, CommentMarks, c)
    BY FirstAtIs
  <1>2. Len(line) \in Nat /\ DOMAIN line = 1 .. Len(line)
    BY DEF Phrases
  <1>. HIDE DEF e, c
  <1>3. ASSUME HasEntry(line)
        PROVE  e \in DOMAIN line /\ line[e] = "=" /\ \A j \in 1 .. e : line[j] \notin CommentMarks
    <2>1. e < c
      BY <1>3 DEF HasEntry, e, c
    <2>. QED BY <1>1, <1>2, <2>1 DEF IsFirstAt
  <1>4. ASSUME NEW i \in DOMAIN line, line[i] = "=", \A j \in 1 .. i : line[j] \notin CommentMarks
        PROVE  HasEntry(line)
    <2>1. e <= i
      BY <1>1, <1>2, <1>4 DEF IsFirstAt
    <2>2. i < c
      BY <1>1, <1>2, <1>4 DEF IsFirstAt
    <2>3. e \in Int /\ c \in Int /\ i \in Int
      BY <1>1, <1>2 DEF IsFirstAt
    <2>. QED BY <2>1, <2>2, <2>3 DEF HasEntry, e, c
  <1>. QED BY <1>3, <1>4 DEF IsEntry

(* What is stored of a line: the name before its first "=", and the value  *)
(* between that and a comment.                                             *)
LEMMA ValueOfType ==
  ASSUME NEW line \in Phrases
  PROVE  HasEntry(line) => ValueOf(line) \in Phrases
  <1>. DEFINE e == FirstAt(line, {"="})
  <1>1. IsFirstAt(line, {"="}, e) /\ IsFirstAt(line, CommentMarks, FirstAt(line, CommentMarks))
    BY FirstAtIs
  <1>2. Len(line) \in Nat
    BY DEF Phrases
  <1>3. ASSUME HasEntry(line)
        PROVE  ValueOf(line) \in Phrases
    <2>1. e + 1 \in 1 .. Len(line) + 1
      BY <1>1, <1>2, <1>3 DEF IsFirstAt, HasEntry
    <2>. HIDE DEF e
    <2>2. SubSeq(line, e + 1, Len(line)) \in Phrases
      BY <2>1, RestIs
    <2>3. Before(SubSeq(line, e + 1, Len(line)), CommentMarks) \in Phrases
      BY <2>2, BeforeIs
    <2>. QED BY <2>3 DEF ValueOf, e
  <1>. QED BY <1>3

(* StoreData puts what the reader expects, or nothing.                     *)
LEMMA StoreDataIs ==
  ASSUME NEW line \in Phrases, NEW data
  PROVE  StoreData(data, line) =
           IF HasEntry(line) THEN Put(data, Before(line, {"="}), ValueOf(line)) ELSE data
  <1>. DEFINE e == FirstAt(line, {"="})
              c == FirstAt(line, CommentMarks)
              entry == Before(line, CommentMarks)
              q == FirstAt(entry, {"="})
              rest == SubSeq(line, e + 1, Len(line))
  <1>1. IsFirstAt(line, {"="}, e) /\ IsFirstAt(line, CommentMarks, c)
    BY FirstAtIs
  <1>2. Len(line) \in Nat
    BY DEF Phrases
  <1>3. entry \in Phrases /\ Len(entry) = c - 1 /\ \A j \in 1 .. c - 1 : entry[j] = line[j]
    BY BeforeIs
  <1>4. \A p : IsFirstAt(entry, {"="}, p) => p = q
    <2>. HIDE DEF entry
    <2>. QED BY <1>3, FirstAtIs
  <1>5. HasEntry(line) <=> e < c
    BY DEF HasEntry
  <1>6. StoreData(data, line) =
          IF q > Len(entry) THEN data
          ELSE Put(data, SubSeq(entry, 1, q - 1), SubSeq(entry, q + 1, Len(entry)))
    BY DEF StoreData
  <1>7. Before(line, {"="}) \in Phrases /\ Len(Before(line, {"="})) = e - 1
        /\ \A j \in 1 .. e - 1 : Before(line, {"="})[j] = line[j]
    BY BeforeIs
  <1>8. ValueOf(line) = Before(rest, CommentMarks)
    BY DEF ValueOf
  <1>. HIDE DEF e, c, entry, q
  <1>9. e \in 1 .. Len(line) + 1 /\ c \in 1 .. Len(line) + 1
    BY <1>1 DEF IsFirstAt
  <1>10. CASE ~(e < c)
    <2>1. IsFirstAt(entry, {"="}, c)
      BY <1>1, <1>2, <1>3, <1>9, <1>10 DEF IsFirstAt
    <2>2. q = c
      BY <1>4, <2>1
    <2>. QED BY <1>3, <1>5, <1>6, <1>9, <1>10, <2>2
  <1>11. CASE e < c
    <2>1. IsFirstAt(entry, {"="}, e)
      BY <1>1, <1>2, <1>3, <1>9, <1>11 DEF IsFirstAt
    <2>2. q = e /\ e <= Len(entry) /\ Len(entry) \in Nat
      BY <1>3, <1>4, <1>9, <1>11, <2>1
    <2>3. rest \in Phrases /\ Len(rest) = Len(line) - e
          /\ \A j \in 1 .. Len(line) - e : rest[j] = line[e + j]
      <3>1. e + 1 \in 1 .. Len(line) + 1
        BY <1>2, <1>9, <1>11
      <3>2. /\ rest \in Phrases
            /\ Len(rest) = Len(line) + 1 - (e + 1)
            /\ \A j \in 1 .. Len(line) + 1 - (e + 1) : rest[j] = line[(e + 1) + j - 1]
        BY <3>1, RestIs
      <3>. HIDE DEF rest
      <3>3. \A j \in 1 .. Len(line) - e : (e + 1) + j - 1 = e + j /\ j \in 1 .. Len(line) + 1 - (e + 1)
        BY <1>2, <1>9
      <3>. QED BY <1>2, <1>9, <3>2, <3>3
    <2>. HIDE DEF rest
    <2>4. IsFirstAt(rest, CommentMarks, c - e)
      <3>1. c - e \in 1 .. Len(rest) + 1
        BY <1>2, <1>9, <1>11, <2>3
      <3>2. c - e <= Len(rest) => rest[c - e] \in CommentMarks
        <4>. SUFFICES ASSUME c - e <= Len(rest)
                      PROVE  rest[c - e] \in CommentMarks
          OBVIOUS
        <4>1. c - e \in 1 .. Len(line) - e /\ e + (c - e) = c /\ c <= Len(line)
          BY <1>2, <1>9, <1>11, <2>3
        <4>2. rest[c - e] = line[c]
          BY <2>3, <4>1
        <4>. QED BY <1>1, <4>1, <4>2 DEF IsFirstAt
      <3>3. ASSUME NEW j \in 1 .. c - e - 1
            PROVE  rest[j] \notin CommentMarks
        <4>1. j \in 1 .. Len(line) - e /\ e + j \in 1 .. c - 1
          BY <1>2, <1>9, <1>11
        <4>2. rest[j] = line[e + j]
          BY <2>3, <4>1
        <4>. QED BY <1>1, <4>1, <4>2 DEF IsFirstAt
      <3>. QED BY <3>1, <3>2, <3>3 DEF IsFirstAt
    <2>5. FirstAt(rest, CommentMarks) = c - e
      BY <2>3, <2>4, FirstAtIs
    <2>6. SubSeq(entry, 1, q - 1) = Before(line, {"="})
      <3>1. Before(entry, {"="}) = SubSeq(entry, 1, q - 1)
        BY DEF Before, q
      <3>2. /\ Before(entry, {"="}) \in Phrases
            /\ Len(Before(entry, {"="})) = FirstAt(entry, {"="}) - 1
            /\ \A j \in 1 .. FirstAt(entry, {"="}) - 1 : Before(entry, {"="})[j] = entry[j]
        BY <1>3, BeforeIs
      <3>3. /\ SubSeq(entry, 1, q - 1) \in Phrases
            /\ Len(SubSeq(entry, 1, q - 1)) = e - 1
            /\ \A j \in 1 .. e - 1 : SubSeq(entry, 1, q - 1)[j] = entry[j]
        BY <2>2, <3>1, <3>2 DEF q
      <3>4. ASSUME NEW j \in 1 .. e - 1
            PROVE  SubSeq(entry, 1, q - 1)[j] = Before(line, {"="})[j]
        <4>1. j \in 1 .. c - 1
          BY <1>9, <1>11
        <4>2. SubSeq(entry, 1, q - 1)[j] = entry[j]
          BY <3>3
        <4>3. entry[j] = line[j]
          BY <1>3, <4>1
        <4>4. Before(line, {"="})[j] = line[j]
          BY <1>7
        <4>. QED BY <4>2, <4>3, <4>4
      <3>. QED BY <1>7, <3>3, <3>4, SeqEqual DEF Phrases
    <2>7. SubSeq(entry, q + 1, Len(entry)) = ValueOf(line)
      <3>1. q + 1 \in 1 .. Len(entry) + 1 /\ Len(entry) + 1 - (q + 1) = c - 1 - e
        BY <1>3, <1>9, <2>2
      <3>2. /\ SubSeq(entry, q + 1, Len(entry)) \in Phrases
            /\ Len(SubSeq(entry, q + 1, Len(entry))) = Len(entry) + 1 - (q + 1)
            /\ \A j \in 1 .. Len(entry) + 1 - (q + 1) :
                 SubSeq(entry, q + 1, Len(entry))[j] = entry[(q + 1) + j - 1]
        BY <1>3, <3>1, RestIs
      <3>3. /\ Before(rest, CommentMarks) \in Phrases
            /\ Len(Before(rest, CommentMarks)) = c - e - 1
            /\ \A j \in 1 .. c - e - 1 : Before(rest, CommentMarks)[j] = rest[j]
        BY <2>3, <2>5, BeforeIs
      <3>4. ASSUME NEW j \in 1 .. c - 1 - e
            PROVE  SubSeq(entry, q + 1, Len(entry))[j] = Before(rest, CommentMarks)[j]
        <4>1. (q + 1) + j - 1 = e + j /\ e + j \in 1 .. c - 1 /\ j \in 1 .. Len(line) - e
              /\ j \in 1 .. c - e - 1
          BY <1>2, <1>9, <2>2
        <4>2. SubSeq(entry, q + 1, Len(entry))[j] = line[e + j]
          BY <1>3, <3>1, <3>2, <4>1
        <4>. QED BY <2>3, <3>3, <4>1, <4>2
      <3>5. c - 1 - e = c - e - 1
        BY <1>9
      <3>. QED BY <1>8, <3>1, <3>2, <3>3, <3>4, <3>5, SeqEqual DEF Phrases
    <2>8. ~(q > Len(entry))
      BY <1>9, <2>2
    <2>. QED BY <1>5, <1>6, <1>11, <2>6, <2>7, <2>8
  <1>. QED BY <1>10, <1>11

-----------------------------------------------------------------------------
(* Sections and entries: finite maps, filed under folded spellings.        *)
EntryRecords == [key : Phrases, value : Phrases]

DataMaps ==
  {data \in UNION {[keys -> EntryRecords] : keys \in SUBSET Phrases} :
     /\ IsFiniteSet(DOMAIN data)
     /\ \A k \in DOMAIN data : k = Fold(data[k].key)}

SectionRecords == [name : Phrases, data : DataMaps]

SectionMaps ==
  {sections \in UNION {[names -> SectionRecords] : names \in SUBSET Phrases} :
     /\ IsFiniteSet(DOMAIN sections)
     /\ \A n \in DOMAIN sections : n = Fold(sections[n].name)}

(* A function from a set to a set is one from its domain.                  *)
LEMMA MapsOf ==
  ASSUME NEW S, NEW T, NEW f
  PROVE  f \in UNION {[D -> T] : D \in SUBSET S}
           <=> DOMAIN f \subseteq S /\ f \in [DOMAIN f -> T]
  <1>1. ASSUME f \in UNION {[D -> T] : D \in SUBSET S}
        PROVE  DOMAIN f \subseteq S /\ f \in [DOMAIN f -> T]
    BY <1>1
  <1>2. ASSUME DOMAIN f \subseteq S, f \in [DOMAIN f -> T]
        PROVE  f \in UNION {[D -> T] : D \in SUBSET S}
    BY <1>2, Zenon
  <1>. QED BY <1>1, <1>2

(* What it is to be the data of a section.                                 *)
LEMMA DataMap ==
  ASSUME NEW data
  PROVE  data \in DataMaps <=>
           /\ DOMAIN data \subseteq Phrases
           /\ data \in [DOMAIN data -> EntryRecords]
           /\ IsFiniteSet(DOMAIN data)
           /\ \A k \in DOMAIN data : k = Fold(data[k].key)
  BY MapsOf DEF DataMaps

(* What it is to be the sections of a configuration.                       *)
LEMMA SectionMap ==
  ASSUME NEW sections
  PROVE  sections \in SectionMaps <=>
           /\ DOMAIN sections \subseteq Phrases
           /\ sections \in [DOMAIN sections -> SectionRecords]
           /\ IsFiniteSet(DOMAIN sections)
           /\ \A n \in DOMAIN sections : n = Fold(sections[n].name)
  BY MapsOf DEF SectionMaps

(* The empty map is both.                                                  *)
LEMMA NothingIs == Nothing \in DataMaps /\ Nothing \in SectionMaps /\ DOMAIN Nothing = {}
  <1>1. DOMAIN Nothing = {}
    BY DEF Nothing
  <1>2. IsFiniteSet({})
    BY FS_EmptySet
  <1>3. \A T : Nothing \in [{} -> T]
    BY DEF Nothing
  <1>. HIDE DEF Nothing
  <1>4. Nothing \in DataMaps
    BY <1>1, <1>2, <1>3, DataMap
  <1>5. Nothing \in SectionMaps
    BY <1>1, <1>2, <1>3, SectionMap
  <1>. QED BY <1>1, <1>4, <1>5

(* Put changes the value of one entry, and files it where it belongs.      *)
LEMMA PutIs ==
  ASSUME NEW data \in DataMaps, NEW key \in Phrases, NEW value \in Phrases
  PROVE  /\ Put(data, key, value) \in DataMaps
         /\ DOMAIN Put(data, key, value) = DOMAIN data \cup {Fold(key)}
         /\ \A k \in DOMAIN Put(data, key, value) :
              Put(data, key, value)[k].value = IF k = Fold(key) THEN value ELSE data[k].value
  <1>. DEFINE after == Put(data, key, value)
              entry == [key |-> IF Fold(key) \in DOMAIN data THEN data[Fold(key)].key ELSE key,
                        value |-> value]
  <1>1. /\ DOMAIN data \subseteq Phrases
        /\ data \in [DOMAIN data -> EntryRecords]
        /\ IsFiniteSet(DOMAIN data)
        /\ \A k \in DOMAIN data : k = Fold(data[k].key)
    BY DataMap
  <1>2. Fold(key) \in Phrases
    BY FoldType
  <1>3. DOMAIN after = DOMAIN data \cup {Fold(key)}
    BY DEF Put
  <1>4. after[Fold(key)] = entry
    BY DEF Put
  <1>5. \A k \in DOMAIN data : k # Fold(key) => after[k] = data[k]
    BY DEF Put
  <1>6. after \in [DOMAIN after -> EntryRecords] /\ entry \in EntryRecords
        /\ Fold(entry.key) = Fold(key) /\ entry.value = value
    <2>1. entry \in EntryRecords /\ entry.value = value
      BY <1>1 DEF EntryRecords
    <2>2. Fold(entry.key) = Fold(key)
      BY <1>1
    <2>3. \A k \in DOMAIN data \cup {Fold(key)} : after[k] \in EntryRecords
      <3>. HIDE DEF entry, after
      <3>. QED BY <1>1, <1>4, <1>5, <2>1
    <2>4. after = [k \in DOMAIN data \cup {Fold(key)} |-> after[k]]
      BY DEF Put
    <2>. HIDE DEF entry, after
    <2>. QED BY <1>3, <2>1, <2>2, <2>3, <2>4
  <1>7. IsFiniteSet(DOMAIN after)
    BY <1>1, <1>3, FS_AddElement
  <1>. HIDE DEF entry, after
  <1>8. after \in DataMaps
    <2>1. \A k \in DOMAIN after : k = Fold(after[k].key)
      BY <1>1, <1>3, <1>4, <1>5, <1>6
    <2>. QED BY <1>1, <1>2, <1>3, <1>6, <1>7, <2>1, DataMap
  <1>9. \A k \in DOMAIN after : after[k].value = IF k = Fold(key) THEN value ELSE data[k].value
    BY <1>3, <1>4, <1>5, <1>6
  <1>. QED BY <1>3, <1>8, <1>9 DEF after

(* CreateSection leaves the data of the sections there are.                *)
LEMMA CreateSectionIs ==
  ASSUME NEW sections \in SectionMaps, NEW name \in Phrases
  PROVE  /\ CreateSection(sections, name) \in SectionMaps
         /\ DOMAIN CreateSection(sections, name) = DOMAIN sections \cup {Fold(name)}
         /\ \A n \in DOMAIN CreateSection(sections, name) :
              CreateSection(sections, name)[n].data =
                IF n \in DOMAIN sections THEN sections[n].data ELSE Nothing
  <1>. DEFINE after == CreateSection(sections, name)
              fresh == [name |-> name, data |-> Nothing]
  <1>1. /\ DOMAIN sections \subseteq Phrases
        /\ sections \in [DOMAIN sections -> SectionRecords]
        /\ IsFiniteSet(DOMAIN sections)
        /\ \A n \in DOMAIN sections : n = Fold(sections[n].name)
    BY SectionMap
  <1>2. Fold(name) \in Phrases
    BY FoldType
  <1>3. DOMAIN after = DOMAIN sections \cup {Fold(name)}
    BY DEF CreateSection
  <1>4. \A n \in DOMAIN after : after[n] = IF n \in DOMAIN sections THEN sections[n] ELSE fresh
    BY DEF CreateSection
  <1>5. fresh \in SectionRecords /\ fresh.data = Nothing /\ fresh.name = name
    BY NothingIs DEF SectionRecords
  <1>6. after = [n \in DOMAIN sections \cup {Fold(name)} |-> after[n]]
    BY DEF CreateSection
  <1>7. IsFiniteSet(DOMAIN after)
    BY <1>1, <1>3, FS_AddElement
  <1>. HIDE DEF after, fresh
  <1>8. after \in [DOMAIN after -> SectionRecords]
    BY <1>1, <1>3, <1>4, <1>5, <1>6
  <1>9. \A n \in DOMAIN after : n = Fold(after[n].name)
    BY <1>1, <1>3, <1>4, <1>5
  <1>10. after \in SectionMaps
    BY <1>1, <1>2, <1>3, <1>7, <1>8, <1>9, SectionMap
  <1>. QED BY <1>3, <1>4, <1>5, <1>10 DEF after

(* New data of a section.                                                  *)
LEMMA NewData ==
  ASSUME NEW sections \in SectionMaps, NEW at \in DOMAIN sections, NEW data \in DataMaps
  PROVE  /\ [sections EXCEPT ![at].data = data] \in SectionMaps
         /\ DOMAIN [sections EXCEPT ![at].data = data] = DOMAIN sections
         /\ \A n \in DOMAIN sections :
              /\ [sections EXCEPT ![at].data = data][n].data =
                   IF n = at THEN data ELSE sections[n].data
              /\ [sections EXCEPT ![at].data = data][n].name = sections[n].name
  <1>. DEFINE after == [sections EXCEPT ![at].data = data]
  <1>1. /\ DOMAIN sections \subseteq Phrases
        /\ sections \in [DOMAIN sections -> SectionRecords]
        /\ IsFiniteSet(DOMAIN sections)
        /\ \A n \in DOMAIN sections : n = Fold(sections[n].name)
    BY SectionMap
  <1>2. after \in [DOMAIN sections -> SectionRecords]
    BY <1>1 DEF SectionRecords
  <1>3. \A n \in DOMAIN sections :
          /\ after[n].data = IF n = at THEN data ELSE sections[n].data
          /\ after[n].name = sections[n].name
    BY <1>1 DEF SectionRecords
  <1>4. DOMAIN after = DOMAIN sections
    OBVIOUS
  <1>. HIDE DEF after
  <1>5. after \in SectionMaps
    BY <1>1, <1>2, <1>3, <1>4, SectionMap
  <1>. QED BY <1>3, <1>4, <1>5 DEF after

(* A section less.                                                         *)
LEMMA WithoutSection ==
  ASSUME NEW sections \in SectionMaps, NEW name
  PROVE  Without(sections, name) \in SectionMaps
  <1>1. /\ DOMAIN sections \subseteq Phrases
        /\ sections \in [DOMAIN sections -> SectionRecords]
        /\ IsFiniteSet(DOMAIN sections)
        /\ \A n \in DOMAIN sections : n = Fold(sections[n].name)
    BY SectionMap
  <1>. DEFINE after == Without(sections, name)
  <1>2. DOMAIN after = DOMAIN sections \ {name}
        /\ after = [n \in DOMAIN after |-> after[n]]
        /\ \A n \in DOMAIN after : after[n] = sections[n]
    BY DEF Without
  <1>. HIDE DEF after
  <1>3. IsFiniteSet(DOMAIN after)
    BY <1>1, <1>2, FS_RemoveElement
  <1>4. after \in [DOMAIN after -> SectionRecords]
    BY <1>1, <1>2
  <1>5. \A n \in DOMAIN after : n = Fold(after[n].name)
    BY <1>1, <1>2
  <1>6. after \in SectionMaps
    BY <1>1, <1>2, <1>3, <1>4, <1>5, SectionMap
  <1>. QED BY <1>6 DEF after

(* An entry less.                                                          *)
LEMMA WithoutEntry ==
  ASSUME NEW data \in DataMaps, NEW key
  PROVE  Without(data, key) \in DataMaps
  <1>1. /\ DOMAIN data \subseteq Phrases
        /\ data \in [DOMAIN data -> EntryRecords]
        /\ IsFiniteSet(DOMAIN data)
        /\ \A k \in DOMAIN data : k = Fold(data[k].key)
    BY DataMap
  <1>. DEFINE after == Without(data, key)
  <1>2. DOMAIN after = DOMAIN data \ {key}
        /\ after = [k \in DOMAIN after |-> after[k]]
        /\ \A k \in DOMAIN after : after[k] = data[k]
    BY DEF Without
  <1>. HIDE DEF after
  <1>3. IsFiniteSet(DOMAIN after)
    BY <1>1, <1>2, FS_RemoveElement
  <1>4. after \in [DOMAIN after -> EntryRecords]
    BY <1>1, <1>2
  <1>5. \A k \in DOMAIN after : k = Fold(after[k].key)
    BY <1>1, <1>2
  <1>6. after \in DataMaps
    BY <1>1, <1>2, <1>3, <1>4, <1>5, DataMap
  <1>. QED BY <1>6 DEF after

-----------------------------------------------------------------------------
(* How a line is read.                                                     *)
Has(sections, n, k) == n \in DOMAIN sections /\ k \in DOMAIN sections[n].data

ValueIn(sections, n, k) == sections[n].data[k].value

Progress ==
  {p \in [at : Phrases \cup {None}, sections : SectionMaps] :
     p.at # None => p.at \in DOMAIN p.sections}

\* A line gives an entry in the section it stands in.
Gives(at, line, n, k) ==
  at # None /\ IsEntry(line) /\ n = at /\ k = Fold(Before(line, {"="}))

SectionAfter(at, line) == IF IsHeader(line) THEN Fold(SectionOf(line)) ELSE at

(* The name in a header is a phrase.                                       *)
LEMMA SectionOfType ==
  ASSUME NEW line \in Phrases
  PROVE  IsHeader(line) => SectionOf(line) \in Phrases
  <1>1. ASSUME IsHeader(line)
        PROVE  SectionOf(line) \in Phrases
    <2>1. line # <<>>
      BY <1>1 DEF IsHeader
    <2>2. Tail(line) \in Phrases
      BY <2>1, HeadTailProperties DEF Phrases
    <2>3. Before(Tail(line), {"]"}) \in Phrases
      BY <2>2, BeforeIs
    <2>. QED BY <2>3 DEF SectionOf
  <1>. QED BY <1>1

(* A line moves the reading to the section of its header, and gives at     *)
(* most one entry there.                                                   *)
LEMMA ReadLineIs ==
  ASSUME NEW p \in Progress, NEW line \in Phrases
  PROVE  LET after == ReadLine(p, line) IN
         /\ after \in Progress
         /\ after.at = SectionAfter(p.at, line)
         /\ \A n, k :
              Has(after.sections, n, k)
                <=> Has(p.sections, n, k) \/ Gives(after.at, line, n, k)
         /\ \A n, k : Has(after.sections, n, k) =>
              ValueIn(after.sections, n, k) =
                IF Gives(after.at, line, n, k) THEN ValueOf(line)
                ELSE ValueIn(p.sections, n, k)
  <1>. DEFINE after == ReadLine(p, line)
              at == SectionAfter(p.at, line)
              sections == IF IsHeader(line) THEN CreateSection(p.sections, SectionOf(line))
                          ELSE p.sections
              passed == at = None \/ Len(line) < 2 \/ line[1] \in CommentMarks
              data == StoreData(sections[at].data, line)
  <1>1. /\ p.at \in Phrases \cup {None} /\ p.sections \in SectionMaps
        /\ p.at # None => p.at \in DOMAIN p.sections
    BY DEF Progress
  <1>2. after = [at |-> at, sections |->
                   IF passed THEN sections ELSE [sections EXCEPT ![at].data = data]]
    <2>1. IsHeader(line) <=> line # <<>> /\ line[1] = "["
      BY DEF IsHeader
    <2>. QED BY <2>1, Zenon DEF ReadLine, SectionAfter
  <1>3. /\ sections \in SectionMaps
        /\ at # None => at \in DOMAIN sections
        /\ at \in Phrases \cup {None}
        /\ \A n, k : Has(sections, n, k) <=> Has(p.sections, n, k)
        /\ \A n, k : Has(sections, n, k) => ValueIn(sections, n, k) = ValueIn(p.sections, n, k)
    <2>1. CASE ~IsHeader(line)
      BY <1>1, <2>1 DEF SectionAfter
    <2>2. CASE IsHeader(line)
      <3>. DEFINE created == CreateSection(p.sections, SectionOf(line))
      <3>1. SectionOf(line) \in Phrases
        BY <2>2, SectionOfType
      <3>2. /\ created \in SectionMaps
            /\ DOMAIN created = DOMAIN p.sections \cup {Fold(SectionOf(line))}
            /\ \A n \in DOMAIN created :
                 created[n].data = IF n \in DOMAIN p.sections THEN p.sections[n].data ELSE Nothing
        BY <1>1, <3>1, CreateSectionIs
      <3>3. sections = created /\ at = Fold(SectionOf(line))
        BY <2>2 DEF SectionAfter
      <3>4. at \in Phrases
        BY <3>1, <3>3, FoldType
      <3>. HIDE DEF created, sections, at
      <3>5. DOMAIN Nothing = {}
        BY NothingIs
      <3>6. \A n, k : Has(created, n, k) <=> Has(p.sections, n, k)
        BY <3>2, <3>5 DEF Has
      <3>7. \A n, k : Has(created, n, k) => ValueIn(created, n, k) = ValueIn(p.sections, n, k)
        <4>. SUFFICES ASSUME NEW n, NEW k, Has(created, n, k)
                      PROVE  ValueIn(created, n, k) = ValueIn(p.sections, n, k)
          OBVIOUS
        <4>1. Has(p.sections, n, k)
          BY <3>6
        <4>. QED BY <3>2, <4>1 DEF Has, ValueIn
      <3>. QED BY <3>2, <3>3, <3>4, <3>6, <3>7
    <2>. QED BY <2>1, <2>2
  <1>4. passed => ~(at # None /\ IsEntry(line))
    BY EntryIs DEF IsEntry, Phrases
  <1>. HIDE DEF sections, at, passed, data, after
  <1>5. CASE passed
    <2>1. after = [at |-> at, sections |-> sections]
      BY <1>2, <1>5
    <2>2. after.at = at /\ after.sections = sections /\ after \in Progress
      BY <1>3, <2>1 DEF Progress
    <2>3. \A n, k : ~Gives(after.at, line, n, k)
      BY <1>4, <1>5, <2>2 DEF Gives
    <2>4. after.at = SectionAfter(p.at, line)
      BY <2>2 DEF at
    <2>. QED BY <1>3, <2>2, <2>3, <2>4 DEF after
  <1>6. CASE ~passed
    <2>1. at # None /\ Len(line) >= 2 /\ at \in DOMAIN sections /\ at \in Phrases
      <3>1. at # None /\ ~(Len(line) < 2)
        BY <1>6 DEF passed
      <3>2. Len(line) \in Nat
        BY DEF Phrases
      <3>. QED BY <1>3, <3>1, <3>2
    <2>2. IsEntry(line) <=> HasEntry(line)
      BY <2>1, EntryIs
    <2>3. sections[at].data \in DataMaps
      BY <1>3, <2>1, SectionMap DEF SectionRecords
    <2>4. data = IF HasEntry(line) THEN Put(sections[at].data, Before(line, {"="}), ValueOf(line))
                 ELSE sections[at].data
      BY StoreDataIs DEF data
    <2>5. Before(line, {"="}) \in Phrases /\ (HasEntry(line) => ValueOf(line) \in Phrases)
      BY BeforeIs, ValueOfType
    <2>6. /\ data \in DataMaps
          /\ \A k : k \in DOMAIN data <=>
               k \in DOMAIN sections[at].data \/ Gives(at, line, at, k)
          /\ \A k \in DOMAIN data : data[k].value =
               IF Gives(at, line, at, k) THEN ValueOf(line) ELSE sections[at].data[k].value
      <3>1. CASE ~HasEntry(line)
        BY <2>2, <2>3, <2>4, <3>1 DEF Gives
      <3>2. CASE HasEntry(line)
        <4>. DEFINE key == Before(line, {"="})
        <4>1. data = Put(sections[at].data, key, ValueOf(line))
          BY <2>4, <3>2
        <4>2. \A k : Gives(at, line, at, k) <=> k = Fold(key)
          BY <2>1, <2>2, <3>2 DEF Gives
        <4>3. key \in Phrases /\ ValueOf(line) \in Phrases
          BY <2>5, <3>2
        <4>. HIDE DEF key
        <4>4. /\ data \in DataMaps
              /\ DOMAIN data = DOMAIN sections[at].data \cup {Fold(key)}
              /\ \A k \in DOMAIN data :
                   data[k].value = IF k = Fold(key) THEN ValueOf(line) ELSE sections[at].data[k].value
          <5>. DEFINE before == sections[at].data
                      value == ValueOf(line)
          <5>1. before \in DataMaps /\ value \in Phrases /\ data = Put(before, key, value)
            BY <2>3, <4>1, <4>3
          <5>. HIDE DEF before, value
          <5>2. /\ data \in DataMaps
                /\ DOMAIN data = DOMAIN before \cup {Fold(key)}
                /\ \A k \in DOMAIN data :
                     data[k].value = IF k = Fold(key) THEN value ELSE before[k].value
            <6>1. /\ Put(before, key, value) \in DataMaps
                  /\ DOMAIN Put(before, key, value) = DOMAIN before \cup {Fold(key)}
                  /\ \A k \in DOMAIN Put(before, key, value) :
                       Put(before, key, value)[k].value =
                         IF k = Fold(key) THEN value ELSE before[k].value
              BY <4>3, <5>1, PutIs, ZenonT(30)
            <6>. QED BY <5>1, <6>1
          <5>. QED BY <5>2 DEF before, value
        <4>. QED BY <4>2, <4>4
      <3>. QED BY <3>1, <3>2
    <2>. DEFINE stored == [sections EXCEPT ![at].data = data]
    <2>7. /\ stored \in SectionMaps /\ DOMAIN stored = DOMAIN sections
          /\ \A n \in DOMAIN sections : stored[n].data = IF n = at THEN data ELSE sections[n].data
      BY <1>3, <2>1, <2>6, NewData
    <2>8. after = [at |-> at, sections |-> stored]
      BY <1>2, <1>6
    <2>. HIDE DEF stored
    <2>9. after.at = at /\ after.sections = stored /\ after \in Progress
      BY <2>1, <2>7, <2>8 DEF Progress
    <2>10. \A n, k : Has(stored, n, k) <=> Has(sections, n, k) \/ Gives(at, line, n, k)
      BY <2>1, <2>6, <2>7 DEF Has, Gives
    <2>11. ASSUME NEW n, NEW k, Has(stored, n, k)
           PROVE  ValueIn(stored, n, k) =
                    IF Gives(at, line, n, k) THEN ValueOf(line) ELSE ValueIn(sections, n, k)
      <3>1. n \in DOMAIN sections /\ k \in DOMAIN stored[n].data
        BY <2>7, <2>11 DEF Has
      <3>2. CASE n = at
        BY <2>6, <2>7, <3>1, <3>2 DEF ValueIn
      <3>3. CASE n # at
        BY <2>7, <3>1, <3>3 DEF ValueIn, Gives
      <3>. QED BY <3>2, <3>3
    <2>12. \A n, k : ~Gives(at, line, n, k) /\ Has(stored, n, k) => Has(sections, n, k)
      BY <2>10
    <2>13. \A n, k : Has(stored, n, k) => ValueIn(stored, n, k) =
             IF Gives(at, line, n, k) THEN ValueOf(line) ELSE ValueIn(p.sections, n, k)
      BY <1>3, <2>11, <2>12
    <2>14. \A n, k : Has(stored, n, k) <=> Has(p.sections, n, k) \/ Gives(at, line, n, k)
      BY <1>3, <2>10
    <2>15. at = SectionAfter(p.at, line)
      BY DEF at
    <2>. QED BY <2>9, <2>13, <2>14, <2>15 DEF after
  <1>. QED BY <1>5, <1>6

-----------------------------------------------------------------------------
(* How a text is read: line by line, from nothing.                         *)
Beginning == [at |-> None, sections |-> Nothing]

IsReading(run, text) ==
  /\ run \in [0 .. Len(text) -> Progress]
  /\ run[0] = Beginning
  /\ \A k \in 1 .. Len(text) : run[k] = ReadLine(run[k - 1], text[k])

(* A reading starts with nothing.                                          *)
LEMMA BeginningIs == Beginning \in Progress
  BY NothingIs DEF Beginning, Progress

(* A set of indices has a greatest one.                                    *)
LEMMA MaxIndex ==
  ASSUME NEW n \in Nat, NEW s \in SUBSET (1 .. n), s # {}
  PROVE  Max(s) \in s /\ \A i \in s : Max(s) >= i
  BY GreatestIndex DEF Max

(* The greatest of the first k indices is k.                               *)
LEMMA FirstIndices ==
  ASSUME NEW n \in Nat, NEW k \in 1 .. n
  PROVE  /\ 1 .. k \in SUBSET (1 .. n) /\ 1 .. k # {}
         /\ Max(1 .. k) = k
         /\ (1 .. k) \ {k} = 1 .. k - 1
  <1>1. 1 .. k \in SUBSET (1 .. n) /\ 1 .. k # {} /\ k \in 1 .. k
    OBVIOUS
  <1>2. Max(1 .. k) \in 1 .. k /\ \A i \in 1 .. k : Max(1 .. k) >= i
    BY <1>1, MaxIndex
  <1>3. Max(1 .. k) = k
    BY <1>1, <1>2
  <1>4. (1 .. k) \ {k} = 1 .. k - 1
    OBVIOUS
  <1>. QED BY <1>1, <1>3, <1>4

(* ReadStream is a run of ReadLine over the lines.                         *)
LEMMA ReadStreamRuns ==
  ASSUME NEW text \in Seq(Phrases)
  PROVE  \E run : IsReading(run, text) /\ ReadStream(text) = run[Len(text)].sections
  <1>. DEFINE n == Len(text)
              step == [a \in (1 .. n) \X Progress |-> ReadLine(a[2], text[a[1]])]
              last == [s \in (SUBSET (1 .. n)) \ {{}} |-> Max(s)]
              Folds(f) == f = [s \in SUBSET (1 .. n) |->
                                 IF s = {} THEN Beginning
                                 ELSE ReadLine(f[s \ {Max(s)}], text[Max(s)])]
              iter == CHOOSE f : Folds(f)
  <1>1. n \in Nat /\ DOMAIN text = 1 .. n /\ \A i \in 1 .. n : text[i] \in Phrases
    BY ElementOfSeq
  <1>2. ReadStream(text) = iter[1 .. n].sections
    <2>1. ReadStream(text) = (CHOOSE f : f = [s \in SUBSET DOMAIN text |->
                                        IF s = {} THEN Beginning
                                        ELSE ReadLine(f[s \ {Max(s)}], text[Max(s)])])
                             [DOMAIN text].sections
      BY Zenon DEF ReadStream, FoldLeft, MapThenFoldSet, Beginning
    <2>. QED BY <1>1, <2>1
  <1>3. step \in [(1 .. n) \X Progress -> Progress]
    <2>1. \A i \in 1 .. n, p \in Progress : ReadLine(p, text[i]) \in Progress
      BY <1>1, ReadLineIs
    <2>. QED BY <2>1
  <1>4. \A i \in 1 .. n, p \in Progress : step[<<i, p>>] = ReadLine(p, text[i])
    OBVIOUS
  <1>5. \A s \in SUBSET (1 .. n) : s # {} => last[s] = Max(s)
    OBVIOUS
  <1>6. IsLast(last, n)
    BY <1>1, MaxIndex DEF IsLast
  <1>. HIDE DEF step, last
  <1>7. \E f : IsFold(f, n, Progress, Beginning, step, last)
    <2>. HIDE DEF n
    <2>. QED BY <1>1, <1>3, <1>6, BeginningIs, FoldExists, ZenonT(20)
  <1>. HIDE DEF n
  <1>8. Folds(iter)
    <2>1. PICK f : IsFold(f, n, Progress, Beginning, step, last)
      BY <1>7
    <2>2. f \in [SUBSET (1 .. n) -> Progress] /\ f[{}] = Beginning
      BY <2>1 DEF IsFold
    <2>3. ASSUME NEW s \in SUBSET (1 .. n), s # {}
          PROVE  f[s] = ReadLine(f[s \ {Max(s)}], text[Max(s)])
      <3>1. Max(s) \in 1 .. n /\ s \ {Max(s)} \in SUBSET (1 .. n)
        BY <1>1, <2>3, MaxIndex
      <3>2. f[s] = step[<<Max(s), f[s \ {Max(s)}]>>]
        BY <1>5, <2>1, <2>3 DEF IsFold
      <3>. QED BY <1>4, <2>2, <3>1, <3>2
    <2>4. Folds(f)
      BY <2>2, <2>3
    <2>. HIDE DEF Folds
    <2>. QED BY <2>4
  <1>. HIDE DEF iter
  <1>9. iter[{}] = Beginning
    BY <1>8
  <1>10. ASSUME NEW k \in 1 .. n
         PROVE  iter[1 .. k] = ReadLine(iter[1 .. k - 1], text[k])
    <2>1. /\ 1 .. k \in SUBSET (1 .. n) /\ 1 .. k # {}
          /\ Max(1 .. k) = k
          /\ (1 .. k) \ {k} = 1 .. k - 1
      BY <1>1, FirstIndices
    <2>2. iter[1 .. k] = ReadLine(iter[(1 .. k) \ {Max(1 .. k)}], text[Max(1 .. k)])
      BY <1>8, <2>1
    <2>. QED BY <2>1, <2>2
  <1>11. FoldsPrefixes(iter, n, Progress, Beginning, step)
    BY <1>4, <1>9, <1>10 DEF FoldsPrefixes
  <1>. DEFINE run == RunOfFolds(iter, n)
  <1>12. run[n] = iter[1 .. n]
    BY <1>1 DEF RunOfFolds
  <1>13. IsRun(run, n, Progress, Beginning, step)
    BY <1>1, <1>3, <1>11, BeginningIs, FoldRuns, ZenonT(20)
  <1>. HIDE DEF run
  <1>14. ASSUME NEW k \in 1 .. n
         PROVE  run[k] = ReadLine(run[k - 1], text[k])
    <2>1. run[k - 1] \in Progress /\ run[k] = step[<<k, run[k - 1]>>]
      BY <1>1, <1>13 DEF IsRun
    <2>. QED BY <1>4, <2>1
  <1>15. IsReading(run, text)
    BY <1>13, <1>14 DEF IsReading, IsRun, n
  <1>16. ReadStream(text) = run[Len(text)].sections
    BY <1>2, <1>12 DEF n
  <1>. QED BY <1>15, <1>16

(* A run determines what is read.                                          *)
LEMMA ReadingIsStream ==
  ASSUME NEW text \in Seq(Phrases), NEW run, IsReading(run, text)
  PROVE  ReadStream(text) = run[Len(text)].sections
  <1>. DEFINE n == Len(text)
  <1>1. n \in Nat
    OBVIOUS
  <1>2. PICK other : IsReading(other, text) /\ ReadStream(text) = other[n].sections
    BY ReadStreamRuns
  <1>. DEFINE T == {k \in 0 .. n : run[k] = other[k]}
  <1>3. 0 \in T
    BY <1>1, <1>2 DEF IsReading
  <1>4. \A k \in 1 .. n : k - 1 \in T => k \in T
    BY <1>1, <1>2 DEF IsReading
  <1>5. 0 .. n \subseteq T
    <2>. HIDE DEF T, n
    <2>. QED BY <1>1, <1>3, <1>4, InductionUpTo
  <1>6. n \in T
    BY <1>1, <1>5
  <1>. QED BY <1>2, <1>6

(* What is read is a map of sections.                                      *)
LEMMA ReadStreamType ==
  ASSUME NEW text \in Seq(Phrases)
  PROVE  ReadStream(text) \in SectionMaps
  <1>1. PICK run : IsReading(run, text) /\ ReadStream(text) = run[Len(text)].sections
    BY ReadStreamRuns
  <1>2. run[Len(text)] \in Progress
    BY <1>1 DEF IsReading
  <1>. QED BY <1>1, <1>2 DEF Progress

-----------------------------------------------------------------------------
(* What is read is what the lines say.                                     *)
LEMMA SectionAtIs ==
  ASSUME NEW text \in Seq(Phrases)
  PROVE  /\ SectionAt(text, 0) = None
         /\ \A k \in 1 .. Len(text) :
              SectionAt(text, k) = SectionAfter(SectionAt(text, k - 1), text[k])
  <1>. DEFINE headers(k) == {j \in 1 .. k : IsHeader(text[j])}
              greatest(s) == CHOOSE j \in s : \A h \in s : h <= j
              At(s) == IF s = {} THEN None ELSE Fold(SectionOf(text[greatest(s)]))
  <1>1. \A k : SectionAt(text, k) = At(headers(k))
    BY DEF SectionAt
  <1>2. Len(text) \in Nat
    OBVIOUS
  <1>3. SectionAt(text, 0) = None
    <2>1. headers(0) = {}
      OBVIOUS
    <2>. HIDE DEF headers
    <2>. QED BY <1>1, <2>1
  <1>4. ASSUME NEW k \in 1 .. Len(text)
        PROVE  SectionAt(text, k) = SectionAfter(SectionAt(text, k - 1), text[k])
    <2>1. CASE IsHeader(text[k])
      <3>1. k \in headers(k) /\ \A h \in headers(k) : h \in Int /\ h <= k
        BY <1>2, <2>1
      <3>. HIDE DEF headers
      <3>2. greatest(headers(k)) = k
        <4>. DEFINE P(j) == j \in headers(k) /\ \A h \in headers(k) : h <= j
        <4>1. P(k)
          BY <3>1
        <4>2. P(greatest(headers(k)))
          <5>1. greatest(headers(k)) = CHOOSE j : P(j)
            BY Zenon
          <5>. HIDE DEF P
          <5>. QED BY <4>1, <5>1, Zenon
        <4>3. \A j : P(j) => j = k
          BY <3>1, <4>1
        <4>. HIDE DEF P, greatest
        <4>. QED BY <4>2, <4>3
      <3>3. headers(k) # {}
        BY <3>1
      <3>4. At(headers(k)) = Fold(SectionOf(text[k]))
        BY <3>2, <3>3
      <3>. HIDE DEF At
      <3>. QED BY <1>1, <2>1, <3>4 DEF SectionAfter
    <2>2. CASE ~IsHeader(text[k])
      <3>1. headers(k) = headers(k - 1)
        BY <1>2, <2>2
      <3>. HIDE DEF headers, At
      <3>. QED BY <1>1, <2>2, <3>1 DEF SectionAfter
    <2>. QED BY <2>1, <2>2
  <1>. QED BY <1>3, <1>4

\* Line i gives an entry.
LineGives(text, i, n, k) == Gives(SectionAt(text, i), text[i], n, k)

(* After k lines there are the entries they give, each with the value of   *)
(* the last line that gives it.                                            *)
ReadSoFar(sections, text, k) ==
  \A n, key :
    /\ Has(sections, n, key) <=> \E i \in 1 .. k : LineGives(text, i, n, key)
    /\ \A i \in 1 .. k :
         LineGives(text, i, n, key) /\ (\A j \in i + 1 .. k : ~LineGives(text, j, n, key))
           => ValueIn(sections, n, key) = ValueOf(text[i])

(* By induction over the lines: a run stands in the section the text says, *)
(* with the entries of the lines so far.                                   *)
LEMMA ReadingIsSoFar ==
  ASSUME NEW text \in Seq(Phrases), NEW run, IsReading(run, text)
  PROVE  \A k \in 0 .. Len(text) :
           run[k].at = SectionAt(text, k) /\ ReadSoFar(run[k].sections, text, k)
  <1>. DEFINE T == {k \in 0 .. Len(text) :
                      run[k].at = SectionAt(text, k) /\ ReadSoFar(run[k].sections, text, k)}
  <1>1. Len(text) \in Nat /\ \A i \in 1 .. Len(text) : text[i] \in Phrases
    BY ElementOfSeq
  <1>2. 0 \in T
    <2>1. run[0].at = SectionAt(text, 0)
      BY SectionAtIs DEF IsReading, Beginning
    <2>2. \A n, key : ~Has(run[0].sections, n, key)
      BY NothingIs DEF IsReading, Beginning, Has
    <2>3. ReadSoFar(run[0].sections, text, 0)
      BY <2>2 DEF ReadSoFar
    <2>. QED BY <1>1, <2>1, <2>3
  <1>3. ASSUME NEW k \in 1 .. Len(text), k - 1 \in T
        PROVE  k \in T
    <2>. DEFINE before == run[k - 1]
                after == run[k]
    <2>1. before \in Progress /\ after = ReadLine(before, text[k]) /\ text[k] \in Phrases
      BY <1>1 DEF IsReading
    <2>2. before.at = SectionAt(text, k - 1) /\ ReadSoFar(before.sections, text, k - 1)
      BY <1>3
    <2>. HIDE DEF before, after
    <2>3. /\ after.at = SectionAfter(before.at, text[k])
          /\ \A n, key : Has(after.sections, n, key)
               <=> Has(before.sections, n, key) \/ Gives(after.at, text[k], n, key)
          /\ \A n, key : Has(after.sections, n, key) =>
               ValueIn(after.sections, n, key) =
                 IF Gives(after.at, text[k], n, key) THEN ValueOf(text[k])
                 ELSE ValueIn(before.sections, n, key)
      BY <2>1, ReadLineIs
    <2>4. after.at = SectionAt(text, k)
      BY <2>2, <2>3, SectionAtIs
    <2>5. \A n, key : Gives(after.at, text[k], n, key) <=> LineGives(text, k, n, key)
      BY <2>4 DEF LineGives
    <2>6. ReadSoFar(after.sections, text, k)
      <3>. SUFFICES ASSUME NEW n, NEW key
                    PROVE  /\ Has(after.sections, n, key)
                                <=> \E i \in 1 .. k : LineGives(text, i, n, key)
                           /\ \A i \in 1 .. k :
                                LineGives(text, i, n, key)
                                /\ (\A j \in i + 1 .. k : ~LineGives(text, j, n, key))
                                  => ValueIn(after.sections, n, key) = ValueOf(text[i])
        BY DEF ReadSoFar
      <3>. DEFINE G(i) == LineGives(text, i, n, key)
      <3>1. /\ Has(before.sections, n, key) <=> \E i \in 1 .. k - 1 : G(i)
            /\ \A i \in 1 .. k - 1 : G(i) /\ (\A j \in i + 1 .. k - 1 : ~G(j))
                 => ValueIn(before.sections, n, key) = ValueOf(text[i])
        BY <2>2 DEF ReadSoFar
      <3>2. Has(after.sections, n, key) <=> Has(before.sections, n, key) \/ G(k)
        BY <2>3, <2>5
      <3>3. Has(after.sections, n, key) =>
              ValueIn(after.sections, n, key) =
                IF G(k) THEN ValueOf(text[k]) ELSE ValueIn(before.sections, n, key)
        BY <2>3, <2>5
      <3>. HIDE DEF G
      <3>4. Has(after.sections, n, key) <=> \E i \in 1 .. k : G(i)
        <4>1. (\E i \in 1 .. k : G(i)) <=> (\E i \in 1 .. k - 1 : G(i)) \/ G(k)
          <5>1. \A i \in 1 .. k : i \in 1 .. k - 1 \/ i = k
            BY <1>1
          <5>2. k \in 1 .. k /\ \A i \in 1 .. k - 1 : i \in 1 .. k
            BY <1>1
          <5>. QED BY <5>1, <5>2
        <4>. QED BY <3>1, <3>2, <4>1
      <3>5. ASSUME NEW i \in 1 .. k, G(i), \A j \in i + 1 .. k : ~G(j)
            PROVE  ValueIn(after.sections, n, key) = ValueOf(text[i])
        <4>1. Has(after.sections, n, key)
          BY <3>4, <3>5
        <4>2. CASE i = k
          BY <3>3, <3>5, <4>1, <4>2
        <4>3. CASE i # k
          <5>1. i \in 1 .. k - 1 /\ k \in i + 1 .. k
                /\ \A j \in i + 1 .. k - 1 : j \in i + 1 .. k
            BY <1>1, <4>3
          <5>2. ~G(k)
            BY <3>5, <5>1
          <5>3. ValueIn(before.sections, n, key) = ValueOf(text[i])
            BY <3>1, <3>5, <5>1
          <5>. QED BY <3>3, <4>1, <5>2, <5>3
        <4>. QED BY <4>2, <4>3
      <3>. QED BY <3>4, <3>5 DEF G
    <2>. QED BY <2>4, <2>6 DEF after
  <1>4. 0 .. Len(text) \subseteq T
    <2>. HIDE DEF T
    <2>. QED BY <1>1, <1>2, <1>3, InductionUpTo
  <1>. QED BY <1>4

(* Sections agree with the expected entries.                               *)
Agree(sections, entries) ==
  /\ DOMAIN entries = Entries(sections)
  /\ \A n \in DOMAIN sections : \A k \in DOMAIN sections[n].data :
       entries[<<n, k>>] = sections[n].data[k].value

(* What the entries of the sections are.                                   *)
LEMMA EntriesAre ==
  ASSUME NEW sections, NEW entry
  PROVE  entry \in Entries(sections) <=> \E n, k : entry = <<n, k>> /\ Has(sections, n, k)
  BY DEF Entries, Has

(* ReadStream finds the entries the lines give, each with its last value,  *)
(* and no other.                                                           *)
THEOREM ReadStreamAgrees ==
  ASSUME NEW text \in Seq(Phrases)
  PROVE  Agree(ReadStream(text), EntriesOf(text))
  <1>. DEFINE last == Len(text)
              sections == ReadStream(text)
              given == {i \in DOMAIN text : IsEntry(text[i]) /\ SectionAt(text, i) # None}
              Giving(entry) == {i \in given : EntryAt(text, i) = entry}
              entries == [entry \in {EntryAt(text, i) : i \in given} |->
                            ValueOf(text[CHOOSE i \in Giving(entry) :
                                           \A j \in Giving(entry) : j <= i])]
  <1>1. last \in Nat /\ DOMAIN text = 1 .. last
    OBVIOUS
  <1>2. ReadSoFar(sections, text, last)
    <2>1. PICK run : IsReading(run, text) /\ ReadStream(text) = run[last].sections
      BY ReadStreamRuns
    <2>2. last \in 0 .. last
      BY <1>1
    <2>. HIDE DEF last
    <2>. QED BY <2>1, <2>2, ReadingIsSoFar DEF last
  <1>3. EntriesOf(text) = entries
    BY DEF EntriesOf
  <1>4. \A n, k, i : LineGives(text, i, n, k) /\ i \in 1 .. last
                       <=> i \in given /\ EntryAt(text, i) = <<n, k>>
    BY <1>1 DEF LineGives, Gives, EntryAt
  <1>5. \A i \in given : \E n, k : EntryAt(text, i) = <<n, k>>
    BY DEF EntryAt
  <1>6. DOMAIN entries = {EntryAt(text, i) : i \in given}
    OBVIOUS
  <1>. HIDE DEF sections, given, last
  <1>7. \A n, k : Has(sections, n, k) <=> \E i \in 1 .. last : LineGives(text, i, n, k)
    BY <1>2 DEF ReadSoFar
  <1>8. DOMAIN entries = Entries(sections)
    <2>. HIDE DEF entries
    <2>1. ASSUME NEW entry \in DOMAIN entries
          PROVE  entry \in Entries(sections)
      <3>1. PICK i \in given : entry = EntryAt(text, i)
        BY <1>6
      <3>2. PICK n, k : EntryAt(text, i) = <<n, k>>
        BY <1>5
      <3>3. Has(sections, n, k)
        BY <1>4, <1>7, <3>2
      <3>. QED BY <3>1, <3>2, <3>3, EntriesAre
    <2>2. ASSUME NEW entry \in Entries(sections)
          PROVE  entry \in DOMAIN entries
      <3>1. PICK n, k : entry = <<n, k>> /\ Has(sections, n, k)
        BY EntriesAre
      <3>2. PICK i \in 1 .. last : LineGives(text, i, n, k)
        BY <1>7, <3>1
      <3>. QED BY <1>4, <1>6, <3>1, <3>2
    <2>. QED BY <2>1, <2>2
  <1>9. ASSUME NEW n, NEW k, Has(sections, n, k)
        PROVE  entries[<<n, k>>] = ValueIn(sections, n, k)
    <2>. DEFINE s == Giving(<<n, k>>)
                Greatest(i) == i \in s /\ \A j \in s : j <= i
                i == CHOOSE m : Greatest(m)
    <2>1. \A m : m \in s <=> m \in 1 .. last /\ LineGives(text, m, n, k)
      BY <1>4
    <2>2. s # {} /\ s \in SUBSET (1 .. last)
      <3>. HIDE DEF s
      <3>. QED BY <1>7, <1>9, <2>1
    <2>3. <<n, k>> \in DOMAIN entries
      <3>. HIDE DEF entries
      <3>. QED BY <1>8, <1>9, EntriesAre
    <2>4. entries[<<n, k>>] = ValueOf(text[i])
      <3>1. (CHOOSE m \in s : \A j \in s : j <= m) = i
        BY Zenon
      <3>2. entries[<<n, k>>] = ValueOf(text[CHOOSE m \in s : \A j \in s : j <= m])
        BY <2>3
      <3>. QED BY <3>1, <3>2
    <2>. HIDE DEF s, entries
    <2>5. Greatest(i)
      <3>1. \E m : Greatest(m)
        <4>1. \E m \in s : \A j \in s : m >= j
          BY <1>1, <2>2, GreatestIndex DEF last
        <4>. QED BY <2>2, <4>1
      <3>. HIDE DEF Greatest
      <3>. QED BY <3>1, Zenon
    <2>. HIDE DEF i
    <2>6. i \in 1 .. last /\ LineGives(text, i, n, k)
          /\ \A j \in i + 1 .. last : ~LineGives(text, j, n, k)
      <3>1. i \in 1 .. last /\ LineGives(text, i, n, k)
        BY <2>1, <2>5
      <3>2. ASSUME NEW j \in i + 1 .. last, LineGives(text, j, n, k)
            PROVE  FALSE
        <4>1. j \in 1 .. last /\ ~(j <= i)
          BY <1>1, <3>1 DEF last
        <4>. QED BY <2>1, <2>5, <3>2, <4>1
      <3>. QED BY <3>1, <3>2
    <2>. QED BY <1>2, <2>4, <2>6 DEF ReadSoFar
  <1>. HIDE DEF entries
  <1>10. \A n \in DOMAIN sections : \A k \in DOMAIN sections[n].data :
           entries[<<n, k>>] = sections[n].data[k].value
    BY <1>9 DEF Has, ValueIn
  <1>. QED BY <1>3, <1>8, <1>10 DEF Agree, sections

-----------------------------------------------------------------------------
(* How sections are written.                                               *)

(* The elements of a finite set in an order.                               *)
LEMMA SetToSeqIs ==
  ASSUME NEW S, IsFiniteSet(S)
  PROVE  /\ SetToSeq(S) \in Seq(S)
         /\ \A i, j \in 1 .. Len(SetToSeq(S)) : SetToSeq(S)[i] = SetToSeq(S)[j] => i = j
         /\ \A x \in S : \E i \in 1 .. Len(SetToSeq(S)) : SetToSeq(S)[i] = x
  <1>. DEFINE n == Cardinality(S)
              P(f) == f \in [1 .. n -> S] /\ IsInjective(f)
              order == CHOOSE f : P(f)
  <1>1. n \in Nat /\ ExistsBijection(1 .. n, S)
    BY FS_CardinalityType
  <1>2. PICK b : b \in Bijection(1 .. n, S)
    BY <1>1 DEF ExistsBijection
  <1>3. P(b)
    BY <1>2 DEF Bijection, Injection, IsInjective
  <1>4. SetToSeq(S) = order
    BY Zenon DEF SetToSeq
  <1>5. P(order)
    <2>. HIDE DEF P
    <2>. QED BY <1>3, Zenon
  <1>. HIDE DEF order, n
  <1>6. order \in Seq(S) /\ Len(order) = n
    BY <1>1, <1>5
  <1>7. \A i, j \in 1 .. n : order[i] = order[j] => i = j
    BY <1>5 DEF IsInjective
  <1>8. order \in Injection(1 .. n, S)
    BY <1>5, <1>7 DEF Injection, IsInjective
  <1>9. order \in Surjection(1 .. n, S)
    <2>1. IsFiniteSet(1 .. n) /\ Cardinality(1 .. n) = n
      BY <1>1, FS_Interval
    <2>. QED BY <1>8, <2>1, FS_Injection DEF n
  <1>10. \A x \in S : \E i \in 1 .. n : order[i] = x
    BY <1>9 DEF Surjection
  <1>. QED BY <1>4, <1>6, <1>7, <1>10

HeaderLine(section) == <<"[">> \o section.name \o <<"]">>

EntryLine(entry) == entry.key \o <<"=">> \o entry.value

EntryLines(data, keys) == [i \in DOMAIN keys |-> EntryLine(data[keys[i]])]

(* A mark is a phrase by itself.                                           *)
LEMMA MarksAreTokens == \A mark \in Marks : mark \in Tokens /\ <<mark>> \in Phrases
  <1>1. Marks \subseteq Tokens
    BY DEF Tokens
  <1>2. \A t \in Tokens : <<t>> \in Seq(Tokens)
    OBVIOUS
  <1>. QED BY <1>1, <1>2 DEF Phrases

(* A header is a line.                                                     *)
LEMMA HeaderLineType ==
  ASSUME NEW section \in SectionRecords
  PROVE  HeaderLine(section) \in Phrases
  <1>1. <<"[">> \in Phrases /\ <<"]">> \in Phrases
    BY MarksAreTokens DEF Marks
  <1>2. section.name \in Phrases
    BY DEF SectionRecords
  <1>. DEFINE first == <<"[">>
              second == <<"]">>
  <1>. HIDE DEF first, second
  <1>3. first \o section.name \in Phrases
    BY <1>1, <1>2, ConcatProperties DEF Phrases, first
  <1>4. (first \o section.name) \o second \in Phrases
    BY <1>1, <1>3, ConcatProperties DEF Phrases, second
  <1>. QED BY <1>4 DEF HeaderLine, first, second

(* An entry is written as a line.                                          *)
LEMMA EntryLineType ==
  ASSUME NEW entry \in EntryRecords
  PROVE  EntryLine(entry) \in Phrases
  <1>1. <<"=">> \in Phrases
    BY MarksAreTokens DEF Marks
  <1>2. entry.key \in Phrases /\ entry.value \in Phrases
    BY DEF EntryRecords
  <1>. DEFINE mark == <<"=">>
  <1>. HIDE DEF mark
  <1>3. entry.key \o mark \in Phrases
    BY <1>1, <1>2, ConcatProperties DEF Phrases, mark
  <1>4. (entry.key \o mark) \o entry.value \in Phrases
    BY <1>2, <1>3, ConcatProperties DEF Phrases
  <1>. QED BY <1>4 DEF EntryLine, mark

(* The lines of the entries, one for each key.                             *)
LEMMA EntryLinesType ==
  ASSUME NEW data \in DataMaps, NEW keys \in Seq(DOMAIN data)
  PROVE  /\ EntryLines(data, keys) \in Seq(Phrases)
         /\ Len(EntryLines(data, keys)) = Len(keys)
         /\ \A i \in 1 .. Len(keys) : EntryLines(data, keys)[i] = EntryLine(data[keys[i]])
  <1>. DEFINE lines == EntryLines(data, keys)
              n == Len(keys)
  <1>1. n \in Nat /\ DOMAIN keys = 1 .. n /\ \A i \in 1 .. n : keys[i] \in DOMAIN data
    BY ElementOfSeq
  <1>2. \A i \in 1 .. n : EntryLine(data[keys[i]]) \in Phrases
    BY <1>1, DataMap, EntryLineType
  <1>3. lines = [i \in 1 .. n |-> EntryLine(data[keys[i]])]
    BY <1>1 DEF EntryLines
  <1>4. lines \in [1 .. n -> Phrases]
    BY <1>2, <1>3
  <1>5. \A i \in 1 .. n : lines[i] = EntryLine(data[keys[i]])
    BY <1>3
  <1>. HIDE DEF lines
  <1>6. lines \in Seq(Phrases) /\ Len(lines) = n
    <2>. HIDE DEF n
    <2>. QED BY <1>1, <1>4
  <1>. QED BY <1>5, <1>6 DEF lines

(* A section is its header, its entries in an order and an empty line.     *)
LEMMA SectionLinesAre ==
  ASSUME NEW section \in SectionRecords
  PROVE  LET keys == SetToSeq(DOMAIN section.data) IN
         /\ keys \in Seq(DOMAIN section.data)
         /\ SectionLines(section)
              = <<HeaderLine(section)>> \o EntryLines(section.data, keys) \o << <<>> >>
         /\ SectionLines(section) \in Seq(Phrases)
  <1>. DEFINE keys == SetToSeq(DOMAIN section.data)
              lines == EntryLines(section.data, keys)
              header == <<HeaderLine(section)>>
              footer == << <<>> >>
  <1>1. section.data \in DataMaps
    BY DEF SectionRecords
  <1>2. keys \in Seq(DOMAIN section.data)
    BY <1>1, DataMap, SetToSeqIs
  <1>3. SectionLines(section) = header \o lines \o footer
    BY Zenon DEF SectionLines, HeaderLine, EntryLines, EntryLine
  <1>4. lines \in Seq(Phrases)
    BY <1>1, <1>2, EntryLinesType
  <1>5. header \in Seq(Phrases)
    <2>. DEFINE h == HeaderLine(section)
    <2>1. h \in Phrases
      BY HeaderLineType
    <2>. HIDE DEF h
    <2>2. <<h>> \in Seq(Phrases)
      BY <2>1
    <2>. QED BY <2>2 DEF h
  <1>6. footer \in Seq(Phrases)
    <2>1. <<>> \in Phrases
      BY DEF Phrases
    <2>. QED BY <2>1
  <1>. HIDE DEF keys, lines, header, footer
  <1>7. header \o lines \in Seq(Phrases)
    BY <1>4, <1>5, ConcatProperties
  <1>8. (header \o lines) \o footer \in Seq(Phrases)
    BY <1>6, <1>7, ConcatProperties
  <1>. QED BY <1>2, <1>3, <1>8 DEF keys, lines, header, footer

(* What Write renders is made of the lines of the sections.                *)
LEMMA LinesAre ==
  ASSUME NEW sections \in SectionMaps
  PROVE  LET names == SetToSeq(DOMAIN sections)
             parts == [i \in DOMAIN names |-> SectionLines(sections[names[i]])]
         IN  /\ names \in Seq(DOMAIN sections)
             /\ parts \in Seq(Seq(Phrases)) /\ Len(parts) = Len(names)
             /\ Lines(sections) = FlattenSeq(parts)
             /\ Lines(sections) \in Seq(Phrases)
  <1>. DEFINE names == SetToSeq(DOMAIN sections)
              parts == [i \in DOMAIN names |-> SectionLines(sections[names[i]])]
              n == Len(names)
  <1>1. names \in Seq(DOMAIN sections)
    BY SectionMap, SetToSeqIs
  <1>2. Lines(sections) = FlattenSeq(parts)
    BY Zenon DEF Lines
  <1>3. parts \in Seq(Seq(Phrases)) /\ Len(parts) = n
    <2>. HIDE DEF names
    <2>1. n \in Nat /\ DOMAIN names = 1 .. n /\ \A i \in 1 .. n : names[i] \in DOMAIN sections
      BY <1>1, ElementOfSeq
    <2>2. \A i \in 1 .. n : SectionLines(sections[names[i]]) \in Seq(Phrases)
      BY <2>1, SectionMap, SectionLinesAre
    <2>3. parts \in [1 .. n -> Seq(Phrases)]
      BY <2>1, <2>2
    <2>. HIDE DEF parts, n
    <2>. QED BY <2>1, <2>3
  <1>. HIDE DEF names, parts
  <1>4. FlattenSeq(parts) \in Seq(Phrases)
    <2>1. PICK flat : IsFlat(flat, parts, Phrases) /\ FlattenSeq(parts) = flat[Len(parts)]
      BY <1>3, FlatExists, FlattenIs
    <2>2. Len(parts) \in 0 .. Len(parts)
      BY <1>3
    <2>. QED BY <2>1, <2>2 DEF IsFlat
  <1>. QED BY <1>1, <1>2, <1>3, <1>4 DEF names, parts

-----------------------------------------------------------------------------
(* What is written is read again, if no name, key or value holds a mark.   *)

\* Reading a text after p leads to q.
IsReadingFrom(run, p, text, q) ==
  /\ run \in [0 .. Len(text) -> Progress]
  /\ run[0] = p
  /\ \A k \in 1 .. Len(text) : run[k] = ReadLine(run[k - 1], text[k])
  /\ run[Len(text)] = q

Reaches(p, text, q) == \E run : IsReadingFrom(run, p, text, q)

(* ReadStream finds what reading the text from nothing leads to.           *)
LEMMA StreamReaches ==
  ASSUME NEW text \in Seq(Phrases), NEW q, Reaches(Beginning, text, q)
  PROVE  ReadStream(text) = q.sections
  <1>1. PICK run : IsReadingFrom(run, Beginning, text, q)
    BY DEF Reaches
  <1>2. IsReading(run, text)
    BY <1>1 DEF IsReadingFrom, IsReading
  <1>. QED BY <1>1, <1>2, ReadingIsStream DEF IsReadingFrom

(* Reading leads to sections and a place among them.                       *)
LEMMA ReachesProgress ==
  ASSUME NEW text \in Seq(Phrases), NEW p, NEW q, Reaches(p, text, q)
  PROVE  q \in Progress
  <1>1. PICK run : IsReadingFrom(run, p, text, q)
    BY DEF Reaches
  <1>2. Len(text) \in 0 .. Len(text)
    OBVIOUS
  <1>. QED BY <1>1, <1>2 DEF IsReadingFrom

(* Reading no line leads nowhere else.                                     *)
LEMMA ReachesNothing ==
  ASSUME NEW p \in Progress
  PROVE  Reaches(p, <<>>, p)
  <1>. DEFINE run == [k \in 0 .. 0 |-> p]
  <1>1. IsReadingFrom(run, p, <<>>, p)
    BY DEF IsReadingFrom
  <1>. HIDE DEF run
  <1>. QED BY <1>1 DEF Reaches

(* Reading one line is a round of the loop.                                *)
LEMMA ReachesLine ==
  ASSUME NEW p \in Progress, NEW line \in Phrases
  PROVE  Reaches(p, <<line>>, ReadLine(p, line))
  <1>. DEFINE q == ReadLine(p, line)
              run == [k \in 0 .. 1 |-> IF k = 0 THEN p ELSE q]
              text == <<line>>
  <1>1. q \in Progress
    BY ReadLineIs
  <1>2. Len(text) = 1 /\ text[1] = line
    OBVIOUS
  <1>3. q = ReadLine(p, line)
    OBVIOUS
  <1>. HIDE DEF q
  <1>4. run \in [0 .. 1 -> Progress] /\ run[0] = p /\ run[1] = q
    BY <1>1
  <1>. HIDE DEF run, text
  <1>5. \A k \in 1 .. 1 : run[k] = ReadLine(run[k - 1], text[k])
    <2>1. \A k \in 1 .. 1 : k = 1 /\ k - 1 = 0
      OBVIOUS
    <2>. QED BY <1>2, <1>3, <1>4, <2>1
  <1>6. IsReadingFrom(run, p, text, q)
    BY <1>2, <1>4, <1>5 DEF IsReadingFrom
  <1>. QED BY <1>3, <1>6 DEF Reaches, text

(* A text is read part by part.                                            *)
LEMMA ReachesConcat ==
  ASSUME NEW s \in Seq(Phrases), NEW t \in Seq(Phrases), NEW p, NEW q, NEW r,
         Reaches(p, s, q), Reaches(q, t, r)
  PROVE  Reaches(p, s \o t, r)
  <1>. DEFINE both == s \o t
              m == Len(s)
              n == Len(t)
  <1>1. PICK first : IsReadingFrom(first, p, s, q)
    BY DEF Reaches
  <1>2. PICK second : IsReadingFrom(second, q, t, r)
    BY DEF Reaches
  <1>. DEFINE run == [k \in 0 .. m + n |-> IF k <= m THEN first[k] ELSE second[k - m]]
  <1>3. m \in Nat /\ n \in Nat
    OBVIOUS
  <1>4. /\ Len(both) = m + n
        /\ \A i \in 1 .. m + n : both[i] = IF i <= m THEN s[i] ELSE t[i - m]
    BY ConcatProperties
  <1>5. /\ first \in [0 .. m -> Progress] /\ first[0] = p /\ first[m] = q
        /\ \A k \in 1 .. m : first[k] = ReadLine(first[k - 1], s[k])
    BY <1>1 DEF IsReadingFrom
  <1>6. /\ second \in [0 .. n -> Progress] /\ second[0] = q /\ second[n] = r
        /\ \A k \in 1 .. n : second[k] = ReadLine(second[k - 1], t[k])
    BY <1>2 DEF IsReadingFrom
  <1>. HIDE DEF both, m, n
  <1>7. /\ run \in [0 .. m + n -> Progress]
        /\ \A k \in 0 .. m : run[k] = first[k]
    BY <1>3, <1>5, <1>6
  <1>8. \A k \in 0 .. n : run[m + k] = second[k]
    <2>. SUFFICES ASSUME NEW k \in 0 .. n
                  PROVE  run[m + k] = second[k]
      OBVIOUS
    <2>1. m + k \in 0 .. m + n /\ (m + k) - m = k /\ (m + k <= m => k = 0)
      BY <1>3
    <2>2. run[m + k] = IF m + k <= m THEN first[m + k] ELSE second[(m + k) - m]
      BY <2>1
    <2>3. CASE m + k <= m
      BY <1>3, <1>5, <1>6, <2>1, <2>2, <2>3
    <2>4. CASE ~(m + k <= m)
      BY <2>1, <2>2, <2>4
    <2>. QED BY <2>3, <2>4
  <1>. HIDE DEF run
  <1>9. ASSUME NEW k \in 1 .. m + n
        PROVE  run[k] = ReadLine(run[k - 1], both[k])
    <2>1. CASE k <= m
      <3>1. k \in 1 .. m /\ k \in 0 .. m /\ k - 1 \in 0 .. m
        BY <1>3, <2>1
      <3>. QED BY <1>4, <1>5, <1>7, <2>1, <3>1
    <2>2. CASE ~(k <= m)
      <3>. DEFINE j == k - m
      <3>1. j \in 1 .. n /\ j \in 0 .. n /\ j - 1 \in 0 .. n /\ k = m + j /\ k - 1 = m + (j - 1)
        BY <1>3, <2>2
      <3>2. both[k] = t[j]
        BY <1>4, <2>2
      <3>. HIDE DEF j
      <3>3. run[m + j] = second[j] /\ run[m + (j - 1)] = second[j - 1]
        BY <1>8, <3>1
      <3>4. second[j] = ReadLine(second[j - 1], t[j])
        BY <1>6, <3>1
      <3>. QED BY <3>1, <3>2, <3>3, <3>4
    <2>. QED BY <2>1, <2>2
  <1>10. run[0] = p /\ run[m + n] = r
    <2>1. 0 \in 0 .. m /\ n \in 0 .. n
      BY <1>3
    <2>. QED BY <1>5, <1>6, <1>7, <1>8, <2>1
  <1>11. IsReadingFrom(run, p, both, r)
    BY <1>4, <1>7, <1>9, <1>10 DEF IsReadingFrom
  <1>. QED BY <1>11 DEF Reaches, both
-----------------------------------------------------------------------------
(* Lines that were written.                                                *)

(* A line is split at its mark, if what is before it holds none.           *)
LEMMA MarkIsFirst ==
  ASSUME NEW mark \in Marks, NEW before \in Phrases, NEW after \in Phrases,
         NEW marks, mark \in marks, \A i \in DOMAIN before : before[i] \notin marks
  PROVE  LET line == before \o <<mark>> \o after IN
         /\ line \in Phrases /\ Len(line) = Len(before) + 1 + Len(after)
         /\ \A i \in 1 .. Len(before) : line[i] = before[i]
         /\ line[Len(before) + 1] = mark
         /\ \A i \in 1 .. Len(after) : line[Len(before) + 1 + i] = after[i]
         /\ FirstAt(line, marks) = Len(before) + 1
         /\ Before(line, marks) = before
         /\ SubSeq(line, Len(before) + 2, Len(line)) = after
  <1>. DEFINE middle == <<mark>>
              head == before \o middle
              line == head \o after
              m == Len(before)
              n == Len(after)
  <1>1. middle \in Phrases /\ Len(middle) = 1 /\ middle[1] = mark
    BY MarksAreTokens
  <1>2. m \in Nat /\ n \in Nat /\ DOMAIN before = 1 .. m
    BY DEF Phrases
  <1>. HIDE DEF middle
  <1>3. /\ head \in Phrases /\ Len(head) = m + 1
        /\ \A i \in 1 .. m + 1 : head[i] = IF i <= m THEN before[i] ELSE middle[i - m]
    BY <1>1, ConcatProperties DEF Phrases
  <1>. HIDE DEF head
  <1>4. /\ line \in Phrases /\ Len(line) = (m + 1) + n
        /\ \A i \in 1 .. (m + 1) + n : line[i] = IF i <= m + 1 THEN head[i] ELSE after[i - (m + 1)]
    <2>1. /\ line \in Seq(Tokens) /\ Len(line) = Len(head) + Len(after)
          /\ \A i \in 1 .. Len(head) + Len(after) :
               line[i] = IF i <= Len(head) THEN head[i] ELSE after[i - Len(head)]
      <3>1. head \in Seq(Tokens) /\ after \in Seq(Tokens)
        BY <1>3 DEF Phrases
      <3>. QED BY <3>1, ConcatProperties
    <2>. HIDE DEF line
    <2>. QED BY <1>3, <2>1 DEF Phrases
  <1>. HIDE DEF line, m, n
  <1>5. \A i \in 1 .. m : line[i] = before[i]
    BY <1>2, <1>3, <1>4
  <1>6. line[m + 1] = mark
    <2>1. m + 1 \in 1 .. (m + 1) + n /\ m + 1 \in 1 .. m + 1 /\ (m + 1) - m = 1 /\ ~(m + 1 <= m)
      BY <1>2
    <2>. QED BY <1>1, <1>3, <1>4, <2>1
  <1>7. ASSUME NEW i \in 1 .. n
        PROVE  line[m + 1 + i] = after[i]
    <2>1. m + 1 + i \in 1 .. (m + 1) + n /\ ~(m + 1 + i <= m + 1) /\ (m + 1 + i) - (m + 1) = i
      BY <1>2
    <2>. QED BY <1>4, <2>1
  <1>8. IsFirstAt(line, marks, m + 1)
    BY <1>2, <1>4, <1>5, <1>6 DEF IsFirstAt
  <1>9. FirstAt(line, marks) = m + 1
    BY <1>4, <1>8, FirstAtIs
  <1>10. Before(line, marks) = before
    <2>1. /\ Before(line, marks) \in Phrases /\ Len(Before(line, marks)) = m
          /\ \A j \in 1 .. m : Before(line, marks)[j] = line[j]
      BY <1>2, <1>4, <1>9, BeforeIs
    <2>2. \A j \in 1 .. m : Before(line, marks)[j] = before[j]
      BY <1>5, <2>1
    <2>. QED BY <2>1, <2>2, SeqEqual DEF Phrases, m
  <1>11. SubSeq(line, m + 2, Len(line)) = after
    <2>. DEFINE rest == SubSeq(line, m + 2, Len(line))
    <2>1. m + 2 \in 1 .. Len(line) + 1 /\ Len(line) + 1 - (m + 2) = n
      BY <1>2, <1>4
    <2>2. /\ rest \in Phrases /\ Len(rest) = n
          /\ \A j \in 1 .. n : rest[j] = line[(m + 2) + j - 1]
      BY <1>4, <2>1, RestIs
    <2>. HIDE DEF rest
    <2>3. \A j \in 1 .. n : (m + 2) + j - 1 = m + 1 + j
      BY <1>2
    <2>4. \A j \in 1 .. n : rest[j] = after[j]
      BY <1>7, <2>2, <2>3
    <2>5. rest = after
      BY <2>2, <2>4, SeqEqual DEF Phrases, n
    <2>. QED BY <2>5 DEF rest
  <1>12. Len(line) = m + 1 + n
    BY <1>2, <1>4
  <1>. QED BY <1>4, <1>5, <1>6, <1>7, <1>9, <1>10, <1>11, <1>12 DEF line, head, middle, m, n

SectionsAfter(sections, line) ==
  IF IsHeader(line) THEN CreateSection(sections, SectionOf(line)) ELSE sections

(* A header leaves the reading among the sections.                         *)
LEMMA SectionsAfterType ==
  ASSUME NEW p \in Progress, NEW line \in Phrases
  PROVE  /\ SectionsAfter(p.sections, line) \in SectionMaps
         /\ SectionAfter(p.at, line) # None =>
              SectionAfter(p.at, line) \in DOMAIN SectionsAfter(p.sections, line)
  <1>1. /\ p.sections \in SectionMaps
        /\ p.at # None => p.at \in DOMAIN p.sections
    BY DEF Progress
  <1>2. CASE ~IsHeader(line)
    BY <1>1, <1>2 DEF SectionAfter, SectionsAfter
  <1>3. CASE IsHeader(line)
    <2>1. SectionOf(line) \in Phrases
      BY <1>3, SectionOfType
    <2>2. /\ CreateSection(p.sections, SectionOf(line)) \in SectionMaps
          /\ DOMAIN CreateSection(p.sections, SectionOf(line))
               = DOMAIN p.sections \cup {Fold(SectionOf(line))}
      BY <1>1, <2>1, CreateSectionIs
    <2>. QED BY <1>3, <2>2 DEF SectionAfter, SectionsAfter
  <1>. QED BY <1>2, <1>3

(* A line that gives no entry leaves the entries as they are.              *)
LEMMA ReadNoEntry ==
  ASSUME NEW p \in Progress, NEW line \in Phrases, ~HasEntry(line) \/ Len(line) < 2
  PROVE  ReadLine(p, line) = [at |-> SectionAfter(p.at, line),
                              sections |-> SectionsAfter(p.sections, line)]
  <1>. DEFINE at == SectionAfter(p.at, line)
              sections == SectionsAfter(p.sections, line)
              passed == at = None \/ Len(line) < 2 \/ line[1] \in CommentMarks
              data == StoreData(sections[at].data, line)
  <1>1. ReadLine(p, line) =
          [at |-> at, sections |-> IF passed THEN sections ELSE [sections EXCEPT ![at].data = data]]
    <2>1. IsHeader(line) <=> line # <<>> /\ line[1] = "["
      BY DEF IsHeader
    <2>. QED BY <2>1, Zenon DEF ReadLine, SectionAfter, SectionsAfter
  <1>2. sections \in SectionMaps /\ (at # None => at \in DOMAIN sections)
    BY SectionsAfterType
  <1>3. ~passed => data = sections[at].data /\ at \in DOMAIN sections
    BY <1>2, StoreDataIs
  <1>. HIDE DEF at, sections, data
  <1>4. sections \in [DOMAIN sections -> SectionRecords]
    BY <1>2, SectionMap
  <1>5. ~passed => [sections EXCEPT ![at].data = data] = sections
    BY <1>3, <1>4 DEF SectionRecords
  <1>. HIDE DEF passed
  <1>. QED BY <1>1, <1>5 DEF at, sections

(* A line without "=" gives no entry.                                      *)
LEMMA NoEquals ==
  ASSUME NEW line \in Phrases, \A i \in 1 .. Len(line) : line[i] # "="
  PROVE  ~HasEntry(line)
  <1>1. Len(line) \in Nat
    BY DEF Phrases
  <1>2. IsFirstAt(line, {"="}, Len(line) + 1)
    BY <1>1 DEF IsFirstAt
  <1>3. FirstAt(line, {"="}) = Len(line) + 1
    BY <1>2, FirstAtIs
  <1>4. FirstAt(line, CommentMarks) \in 1 .. Len(line) + 1
    BY FirstAtIs DEF IsFirstAt
  <1>. QED BY <1>1, <1>3, <1>4 DEF HasEntry

(* A header that was written is read as a header with that name, and gives *)
(* no entry.                                                               *)
LEMMA HeaderLineIs ==
  ASSUME NEW section \in SectionRecords,
         \A i \in DOMAIN section.name : section.name[i] \notin {"]", "="}
  PROVE  LET line == HeaderLine(section) IN
         IsHeader(line) /\ SectionOf(line) = section.name /\ ~HasEntry(line)
  <1>. DEFINE name == section.name
              open == <<"[">>
              close == <<"]">>
              line == (open \o name) \o close
              tail == name \o close
              m == Len(name)
  <1>1. /\ open \in Seq(Tokens) /\ Len(open) = 1 /\ open[1] = "["
        /\ close \in Seq(Tokens) /\ Len(close) = 1 /\ close[1] = "]"
    BY MarksAreTokens DEF Marks, Phrases
  <1>2. name \in Seq(Tokens) /\ m \in Nat /\ DOMAIN name = 1 .. m
        /\ \A i \in 1 .. m : name[i] \notin {"]", "="}
    BY DEF SectionRecords, Phrases
  <1>. HIDE DEF name, open, close, m
  <1>3. line = open \o tail
    BY <1>1, <1>2, ConcatAssociative
  <1>4. /\ tail \in Seq(Tokens) /\ Len(tail) = m + 1
        /\ \A i \in 1 .. m + 1 : tail[i] = IF i <= m THEN name[i] ELSE close[i - m]
    <2>1. /\ tail \in Seq(Tokens) /\ Len(tail) = Len(name) + Len(close)
          /\ \A i \in 1 .. Len(name) + Len(close) :
               tail[i] = IF i <= Len(name) THEN name[i] ELSE close[i - Len(name)]
      BY <1>1, <1>2, ConcatProperties, ZenonT(30)
    <2>. QED BY <1>1, <2>1 DEF m
  <1>. HIDE DEF line
  <1>5. /\ line \in Seq(Tokens) /\ Len(line) = 1 + (m + 1)
        /\ \A i \in 1 .. 1 + (m + 1) : line[i] = IF i <= 1 THEN open[i] ELSE tail[i - 1]
    <2>. HIDE DEF tail
    <2>1. /\ open \o tail \in Seq(Tokens) /\ Len(open \o tail) = Len(open) + Len(tail)
          /\ \A i \in 1 .. Len(open) + Len(tail) :
               (open \o tail)[i] = IF i <= Len(open) THEN open[i] ELSE tail[i - Len(open)]
      BY <1>1, <1>4, ConcatProperties, ZenonT(30)
    <2>. QED BY <1>1, <1>3, <1>4, <2>1
  <1>6. line # <<>> /\ line[1] = "["
    BY <1>1, <1>2, <1>5
  <1>7. Tail(line) = tail
    <2>. HIDE DEF tail
    <2>1. /\ Tail(line) \in Seq(Tokens) /\ Len(Tail(line)) = Len(line) - 1
          /\ \A i \in 1 .. Len(Tail(line)) : Tail(line)[i] = line[i + 1]
      BY <1>5, <1>6, HeadTailProperties
    <2>2. Len(Tail(line)) = m + 1
      BY <1>2, <1>5, <2>1
    <2>3. ASSUME NEW i \in 1 .. m + 1
          PROVE  Tail(line)[i] = tail[i]
      <3>1. i + 1 \in 1 .. 1 + (m + 1) /\ ~(i + 1 <= 1) /\ (i + 1) - 1 = i
        BY <1>2
      <3>2. line[i + 1] = tail[i]
        BY <1>5, <3>1
      <3>. QED BY <2>1, <2>2, <3>2
    <2>. QED BY <1>4, <2>1, <2>2, <2>3, SeqEqual
  <1>8. SectionOf(line) = name
    <2>1. Before(name \o <<"]">> \o <<>>, {"]"}) = name
      <3>. DEFINE mark == "]"
                  marks == {mark}
                  empty == <<>>
      <3>1. mark \in Marks /\ mark \in marks /\ empty \in Phrases /\ name \in Phrases
        BY <1>2 DEF Marks, Phrases
      <3>2. \A i \in DOMAIN name : name[i] \notin marks
        BY <1>2
      <3>3. Before(name \o <<mark>> \o empty, marks) = name
        <4>. HIDE DEF mark, marks, empty
        <4>. QED BY <3>1, <3>2, MarkIsFirst
      <3>. QED BY <3>3
    <2>2. name \o <<"]">> \o <<>> = tail
      BY <1>4, ConcatEmptySeq DEF close
    <2>. QED BY <1>7, <2>1, <2>2 DEF SectionOf
  <1>9. \A i \in 1 .. Len(line) : line[i] # "="
    <2>. SUFFICES ASSUME NEW i \in 1 .. Len(line)
                  PROVE  line[i] # "="
      OBVIOUS
    <2>1. CASE i = 1
      BY <1>6, <2>1
    <2>2. CASE i = m + 2
      <3>1. i \in 1 .. 1 + (m + 1) /\ ~(i <= 1) /\ i - 1 = m + 1 /\ (m + 1) - m = 1
            /\ ~(m + 1 <= m) /\ m + 1 \in 1 .. m + 1
        BY <1>2, <2>2
      <3>2. line[i] = tail[m + 1] /\ tail[m + 1] = close[1]
        BY <1>4, <1>5, <3>1
      <3>. QED BY <1>1, <3>2
    <2>3. CASE i # 1 /\ i # m + 2
      <3>1. i \in 1 .. 1 + (m + 1) /\ ~(i <= 1) /\ i - 1 \in 1 .. m /\ i - 1 <= m /\ i - 1 \in 1 .. m + 1
        BY <1>2, <1>5, <2>3
      <3>2. line[i] = tail[i - 1] /\ tail[i - 1] = name[i - 1]
        BY <1>4, <1>5, <3>1
      <3>. QED BY <1>2, <3>1, <3>2
    <2>. QED BY <2>1, <2>2, <2>3
  <1>10. HeaderLine(section) = line
    BY DEF HeaderLine, line, name, open, close
  <1>11. ~HasEntry(line)
    BY <1>5, <1>9, NoEquals DEF Phrases
  <1>. QED BY <1>6, <1>8, <1>10, <1>11 DEF IsHeader, name

\* What Write renders of an entry so that it is found again.
IsPlainEntry(entry) ==
  /\ \A i \in DOMAIN entry.key : entry.key[i] \notin CommentMarks \cup {"="}
  /\ entry.key # <<>> => entry.key[1] # "["
  /\ \A i \in DOMAIN entry.value : entry.value[i] \notin CommentMarks
  /\ entry.key # <<>> \/ entry.value # <<>>

(* The line of a plain entry is no header and no comment, and is split     *)
(* where it was joined.                                                    *)
LEMMA EntryLineIs ==
  ASSUME NEW entry \in EntryRecords, IsPlainEntry(entry)
  PROVE  LET line == EntryLine(entry) IN
         /\ ~IsHeader(line) /\ Len(line) >= 2 /\ line[1] \notin CommentMarks
         /\ HasEntry(line)
         /\ Before(line, {"="}) = entry.key /\ ValueOf(line) = entry.value
  <1>. DEFINE key == entry.key
              value == entry.value
              line == key \o <<"=">> \o value
              m == Len(key)
              n == Len(value)
  <1>1. /\ key \in Phrases /\ value \in Phrases /\ m \in Nat /\ n \in Nat
        /\ DOMAIN key = 1 .. m /\ DOMAIN value = 1 .. n
    BY DEF EntryRecords, Phrases
  <1>2. /\ \A i \in 1 .. m : key[i] \notin CommentMarks /\ key[i] # "="
        /\ key # <<>> => key[1] # "["
        /\ \A i \in 1 .. n : value[i] \notin CommentMarks
        /\ key # <<>> \/ value # <<>>
    BY <1>1 DEF IsPlainEntry
  <1>. HIDE DEF key, value
  <1>3. /\ line \in Phrases /\ Len(line) = m + 1 + n
        /\ \A i \in 1 .. m : line[i] = key[i]
        /\ line[m + 1] = "="
        /\ \A i \in 1 .. n : line[m + 1 + i] = value[i]
        /\ FirstAt(line, {"="}) = m + 1
        /\ Before(line, {"="}) = key
        /\ SubSeq(line, m + 2, Len(line)) = value
    <2>1. "=" \in Marks /\ "=" \in {"="} /\ \A i \in DOMAIN key : key[i] \notin {"="}
      BY <1>1, <1>2 DEF Marks
    <2>. QED BY <1>1, <2>1, MarkIsFirst
  <1>. HIDE DEF line
  <1>4. (m = 0 => key = <<>>) /\ (n = 0 => value = <<>>)
    BY <1>1 DEF m, n, Phrases
  <1>. HIDE DEF m, n
  <1>5. Len(line) >= 2
    <2>1. m # 0 \/ n # 0
      BY <1>2, <1>4
    <2>. QED BY <1>1, <1>3, <2>1
  <1>6. line[1] \notin CommentMarks /\ line[1] # "["
    <2>1. CASE m = 0
      <3>1. m + 1 = 1
        BY <2>1
      <3>2. line[1] = "="
        BY <1>3, <3>1
      <3>. QED BY <3>2 DEF CommentMarks
    <2>2. CASE m # 0
      <3>1. 1 \in 1 .. m
        BY <1>1, <2>2
      <3>2. key # <<>>
        BY <2>2, <1>1 DEF m
      <3>. QED BY <1>2, <1>3, <3>1, <3>2
    <2>. QED BY <2>1, <2>2
  <1>7. IsFirstAt(line, CommentMarks, Len(line) + 1)
    <2>1. ASSUME NEW i \in 1 .. m + 1 + n
          PROVE  line[i] \notin CommentMarks
      <3>1. CASE i \in 1 .. m
        BY <1>2, <1>3, <3>1
      <3>2. CASE i = m + 1
        BY <1>3, <3>2 DEF CommentMarks
      <3>3. CASE i > m + 1
        <4>1. i - (m + 1) \in 1 .. n /\ m + 1 + (i - (m + 1)) = i
          BY <1>1, <3>3
        <4>. QED BY <1>2, <1>3, <4>1
      <3>. QED BY <1>1, <3>1, <3>2, <3>3
    <2>. QED BY <1>1, <1>3, <2>1 DEF IsFirstAt
  <1>8. FirstAt(line, CommentMarks) = Len(line) + 1
    BY <1>3, <1>7, FirstAtIs
  <1>9. HasEntry(line)
    BY <1>1, <1>3, <1>8 DEF HasEntry
  <1>10. ValueOf(line) = value
    <2>1. ValueOf(line) = Before(value, CommentMarks)
      <3>1. FirstAt(line, {"="}) + 1 = m + 2
        BY <1>1, <1>3
      <3>. QED BY <1>3, <3>1 DEF ValueOf
    <2>2. IsFirstAt(value, CommentMarks, n + 1)
      BY <1>1, <1>2 DEF IsFirstAt, n
    <2>3. FirstAt(value, CommentMarks) = n + 1
      BY <1>1, <2>2, FirstAtIs
    <2>4. Before(value, CommentMarks) = SubSeq(value, 1, Len(value))
      BY <1>1, <2>3 DEF Before, n
    <2>5. SubSeq(value, 1, Len(value)) = value
      BY <1>1, SubSeqFull DEF Phrases
    <2>. QED BY <2>1, <2>4, <2>5
  <1>11. EntryLine(entry) = line
    BY DEF EntryLine, line, key, value
  <1>12. ~IsHeader(line)
    BY <1>6 DEF IsHeader
  <1>. QED BY <1>3, <1>5, <1>6, <1>9, <1>10, <1>11, <1>12 DEF key, value

-----------------------------------------------------------------------------
(* How a section that was written is read.                                 *)

\* New data of the section that is read.
With(p, data) == [at |-> p.at, sections |-> [p.sections EXCEPT ![p.at].data = data]]

(* New data take the place of the old.                                     *)
LEMMA WithIs ==
  ASSUME NEW p \in Progress, p.at # None, NEW data \in DataMaps
  PROVE  /\ With(p, data) \in Progress
         /\ With(p, data).at = p.at
         /\ With(p, data).sections[p.at].data = data
         /\ \A other : With(With(p, data), other) = With(p, other)
         /\ p.sections[p.at].data = data => With(p, data) = p
  <1>1. p.sections \in SectionMaps /\ p.at \in DOMAIN p.sections /\ p.at \in Phrases \cup {None}
        /\ p = [at |-> p.at, sections |-> p.sections]
    BY DEF Progress
  <1>. DEFINE at == p.at
              sections == p.sections
              after == [sections EXCEPT ![at].data = data]
  <1>2. after \in SectionMaps /\ DOMAIN after = DOMAIN sections /\ after[at].data = data
    <2>1. sections \in SectionMaps /\ at \in DOMAIN sections
      BY <1>1
    <2>. HIDE DEF sections, at
    <2>2. /\ after \in SectionMaps /\ DOMAIN after = DOMAIN sections
          /\ \A n \in DOMAIN sections :
               after[n].data = IF n = at THEN data ELSE sections[n].data
      BY <2>1, NewData, ZenonT(30)
    <2>. HIDE DEF after
    <2>. QED BY <2>1, <2>2
  <1>3. sections \in [DOMAIN sections -> SectionRecords]
    BY <1>1, SectionMap
  <1>4. sections[at].data = data => after = sections
    BY <1>1, <1>3 DEF SectionRecords
  <1>5. \A other : [after EXCEPT ![at].data = other] = [sections EXCEPT ![at].data = other]
    BY <1>1, <1>3 DEF SectionRecords
  <1>6. With(p, data) = [at |-> at, sections |-> after]
    BY DEF With
  <1>. HIDE DEF at, sections, after
  <1>7. [at |-> at, sections |-> after] \in Progress
    BY <1>1, <1>2 DEF Progress, at, sections
  <1>8. \A other : With([at |-> at, sections |-> after], other)
                     = [at |-> at, sections |-> [sections EXCEPT ![at].data = other]]
    BY <1>5 DEF With
  <1>9. \A other : With(p, other) = [at |-> at, sections |-> [sections EXCEPT ![at].data = other]]
    BY DEF With, at, sections
  <1>. QED BY <1>1, <1>2, <1>4, <1>6, <1>7, <1>8, <1>9 DEF at, sections

(* A line that was written for an entry is read as that entry.             *)
LEMMA EntryRead ==
  ASSUME NEW p \in Progress, p.at # None, NEW entry \in EntryRecords, IsPlainEntry(entry)
  PROVE  ReadLine(p, EntryLine(entry))
           = With(p, Put(p.sections[p.at].data, entry.key, entry.value))
  <1>. DEFINE line == EntryLine(entry)
              at == p.at
              sections == p.sections
              data == Put(sections[at].data, entry.key, entry.value)
  <1>1. /\ line # <<>> => line[1] # "["
        /\ Len(line) >= 2 /\ line[1] \notin CommentMarks
        /\ HasEntry(line)
        /\ Before(line, {"="}) = entry.key /\ ValueOf(line) = entry.value
    BY EntryLineIs DEF IsHeader
  <1>2. line \in Phrases /\ Len(line) \in Nat
    BY EntryLineType DEF Phrases
  <1>3. StoreData(sections[at].data, line) = data
    BY <1>1, <1>2, StoreDataIs
  <1>4. ~(Len(line) < 2) /\ at # None
    BY <1>1, <1>2
  <1>5. ReadLine(p, line) =
          [at |-> at, sections |->
             [sections EXCEPT ![at].data = StoreData(sections[at].data, line)]]
    <2>. HIDE DEF line, data
    <2>1. ~(line # <<>> /\ line[1] = "[")
      BY <1>1
    <2>2. ~(at = None \/ Len(line) < 2 \/ line[1] \in CommentMarks)
      BY <1>1, <1>4
    <2>. QED BY <2>1, <2>2, Zenon DEF ReadLine
  <1>6. ReadLine(p, line) = [at |-> at, sections |-> [sections EXCEPT ![at].data = data]]
    <2>. HIDE DEF line, data
    <2>. QED BY <1>3, <1>5
  <1>. QED BY <1>6 DEF With

\* The part of a map with the first keys of an order.
Part(map, keys, i) == [k \in {keys[j] : j \in 1 .. i} |-> map[k]]

(* No key, no part of the map.                                             *)
LEMMA FirstPart ==
  ASSUME NEW map, NEW keys
  PROVE  Part(map, keys, 0) = Nothing
  <1>1. {keys[j] : j \in 1 .. 0} = {}
    OBVIOUS
  <1>2. Part(map, keys, 0) = [k \in {} |-> map[k]]
    BY <1>1 DEF Part
  <1>. QED BY <1>2, NothingIs DEF Nothing

(* The part of a map agrees with the map.                                  *)
LEMMA PartIs ==
  ASSUME NEW map, IsFiniteSet(DOMAIN map),
         NEW keys \in Seq(DOMAIN map), NEW i \in 0 .. Len(keys)
  PROVE  /\ DOMAIN Part(map, keys, i) = {keys[j] : j \in 1 .. i}
         /\ DOMAIN Part(map, keys, i) \subseteq DOMAIN map
         /\ IsFiniteSet(DOMAIN Part(map, keys, i))
         /\ \A k \in DOMAIN Part(map, keys, i) : Part(map, keys, i)[k] = map[k]
  <1>1. \A j \in 1 .. Len(keys) : keys[j] \in DOMAIN map
    BY ElementOfSeq
  <1>2. \A j \in 1 .. i : j \in 1 .. Len(keys)
    OBVIOUS
  <1>3. {keys[j] : j \in 1 .. i} \subseteq DOMAIN map
    BY <1>1, <1>2
  <1>4. IsFiniteSet({keys[j] : j \in 1 .. i})
    BY <1>3, FS_Subset
  <1>. QED BY <1>3, <1>4 DEF Part

(* The whole of the order gives the whole of the map.                      *)
LEMMA WholePart ==
  ASSUME NEW map, map = [k \in DOMAIN map |-> map[k]], NEW keys \in Seq(DOMAIN map),
         \A k \in DOMAIN map : \E j \in 1 .. Len(keys) : keys[j] = k
  PROVE  Part(map, keys, Len(keys)) = map
  <1>1. \A j \in 1 .. Len(keys) : keys[j] \in DOMAIN map
    BY ElementOfSeq
  <1>2. {keys[j] : j \in 1 .. Len(keys)} = DOMAIN map
    BY <1>1
  <1>. QED BY <1>2 DEF Part

(* The data of a section grow by one entry with each line.                 *)
LEMMA NextEntry ==
  ASSUME NEW data \in DataMaps, NEW keys \in Seq(DOMAIN data), NEW i \in 1 .. Len(keys)
  PROVE  LET entry == data[keys[i]] IN
         /\ Part(data, keys, i - 1) \in DataMaps
         /\ entry \in EntryRecords
         /\ Put(Part(data, keys, i - 1), entry.key, entry.value) = Part(data, keys, i)
  <1>. DEFINE key == keys[i]
              entry == data[key]
              before == Part(data, keys, i - 1)
              after == Part(data, keys, i)
  <1>1. /\ DOMAIN data \subseteq Phrases /\ IsFiniteSet(DOMAIN data)
        /\ data \in [DOMAIN data -> EntryRecords]
        /\ \A k \in DOMAIN data : k = Fold(data[k].key)
    BY DataMap
  <1>2. i \in 0 .. Len(keys) /\ i - 1 \in 0 .. Len(keys)
    OBVIOUS
  <1>3. key \in DOMAIN data
    BY ElementOfSeq
  <1>4. /\ DOMAIN before = {keys[j] : j \in 1 .. i - 1}
        /\ DOMAIN before \subseteq DOMAIN data /\ IsFiniteSet(DOMAIN before)
        /\ \A k \in DOMAIN before : before[k] = data[k]
    BY <1>1, <1>2, PartIs
  <1>5. /\ DOMAIN after = {keys[j] : j \in 1 .. i}
        /\ \A k \in DOMAIN after : after[k] = data[k]
    BY <1>1, <1>2, PartIs
  <1>6. DOMAIN after = DOMAIN before \cup {key}
    <2>1. 1 .. i = (1 .. i - 1) \cup {i}
      OBVIOUS
    <2>. QED BY <1>4, <1>5, <2>1
  <1>7. before = [k \in DOMAIN before |-> before[k]] /\ after = [k \in DOMAIN after |-> after[k]]
    BY DEF Part
  <1>8. entry \in EntryRecords /\ Fold(entry.key) = key
    BY <1>1, <1>3
  <1>9. before \in DataMaps
    <2>. HIDE DEF before
    <2>1. before \in [DOMAIN before -> EntryRecords]
      BY <1>1, <1>4, <1>7
    <2>. QED BY <1>1, <1>4, <2>1, DataMap
  <1>10. Put(before, entry.key, entry.value) = after
    <2>. HIDE DEF before, after, key
    <2>1. Put(before, entry.key, entry.value)
            = [k \in DOMAIN before \cup {key} |->
                 IF k # key THEN before[k]
                 ELSE [key |-> IF k \in DOMAIN before THEN before[k].key ELSE entry.key,
                       value |-> entry.value]]
      BY <1>8 DEF Put
    <2>2. entry = [key |-> entry.key, value |-> entry.value]
      BY <1>8 DEF EntryRecords
    <2>3. ASSUME NEW k \in DOMAIN after
          PROVE  after[k] = IF k # key THEN before[k]
                            ELSE [key |-> IF k \in DOMAIN before THEN before[k].key ELSE entry.key,
                                  value |-> entry.value]
      <3>1. CASE k = key
        <4>1. after[k] = entry
          BY <1>5, <3>1
        <4>2. k \in DOMAIN before => before[k].key = entry.key
          BY <1>4, <3>1
        <4>. QED BY <2>2, <3>1, <4>1, <4>2
      <3>2. CASE k # key
        BY <1>4, <1>5, <1>6, <3>2
      <3>. QED BY <3>1, <3>2
    <2>4. after = [k \in DOMAIN before \cup {key} |->
                 IF k # key THEN before[k]
                 ELSE [key |-> IF k \in DOMAIN before THEN before[k].key ELSE entry.key,
                       value |-> entry.value]]
      BY <1>6, <1>7, <2>3
    <2>. QED BY <2>1, <2>4
  <1>. QED BY <1>8, <1>9, <1>10

(* The lines of its entries fill a section.                                *)
LEMMA EntriesReached ==
  ASSUME NEW p \in Progress, p.at # None, p.sections[p.at].data = Nothing,
         NEW data \in DataMaps, NEW keys \in Seq(DOMAIN data),
         \A k \in DOMAIN data : IsPlainEntry(data[k])
  PROVE  Reaches(p, EntryLines(data, keys), With(p, Part(data, keys, Len(keys))))
  <1>. DEFINE n == Len(keys)
              text == EntryLines(data, keys)
              run == [i \in 0 .. n |-> With(p, Part(data, keys, i))]
  <1>1. n \in Nat /\ \A i \in 1 .. n : keys[i] \in DOMAIN data
    BY ElementOfSeq
  <1>2. Len(text) = n /\ \A i \in 1 .. n : text[i] = EntryLine(data[keys[i]])
    BY EntryLinesType
  <1>3. \A i \in 0 .. n : Part(data, keys, i) \in DataMaps
    <2>. SUFFICES ASSUME NEW i \in 0 .. n
                  PROVE  Part(data, keys, i) \in DataMaps
      OBVIOUS
    <2>. DEFINE part == Part(data, keys, i)
    <2>1. /\ DOMAIN data \subseteq Phrases /\ IsFiniteSet(DOMAIN data)
          /\ data \in [DOMAIN data -> EntryRecords]
          /\ \A k \in DOMAIN data : k = Fold(data[k].key)
      BY DataMap
    <2>2. /\ DOMAIN part \subseteq DOMAIN data /\ IsFiniteSet(DOMAIN part)
          /\ \A k \in DOMAIN part : part[k] = data[k]
      BY <2>1, PartIs
    <2>3. part = [k \in DOMAIN part |-> part[k]]
      BY DEF Part
    <2>. HIDE DEF part
    <2>4. part \in [DOMAIN part -> EntryRecords]
      BY <2>1, <2>2, <2>3
    <2>5. part \in DataMaps
      BY <2>1, <2>2, <2>4, DataMap
    <2>. QED BY <2>5 DEF part
  <1>. HIDE DEF text
  <1>4. run \in [0 .. n -> Progress]
    BY <1>3, WithIs
  <1>5. run[0] = p
    <2>1. Part(data, keys, 0) = Nothing
      BY FirstPart
    <2>2. With(p, Nothing) = p
      BY NothingIs, WithIs
    <2>3. run[0] = With(p, Part(data, keys, 0))
      BY <1>1
    <2>. QED BY <2>1, <2>2, <2>3
  <1>6. ASSUME NEW i \in 1 .. n
        PROVE  run[i] = ReadLine(run[i - 1], text[i])
    <2>. DEFINE entry == data[keys[i]]
                before == Part(data, keys, i - 1)
                q == With(p, before)
    <2>1. before \in DataMaps /\ entry \in EntryRecords
          /\ Put(before, entry.key, entry.value) = Part(data, keys, i)
      BY NextEntry
    <2>2. /\ q \in Progress /\ q.at = p.at /\ q.sections[p.at].data = before
          /\ \A other : With(q, other) = With(p, other)
      BY <2>1, WithIs
    <2>3. IsPlainEntry(entry)
      BY <1>1
    <2>4. i \in 0 .. n /\ i - 1 \in 0 .. n
      OBVIOUS
    <2>5. run[i] = With(p, Part(data, keys, i)) /\ run[i - 1] = q
      BY <2>4
    <2>6. text[i] = EntryLine(entry)
      BY <1>2
    <2>. HIDE DEF entry, before, q, run
    <2>7. ReadLine(q, EntryLine(entry)) = With(q, Put(q.sections[q.at].data, entry.key, entry.value))
      BY <2>1, <2>2, <2>3, EntryRead
    <2>8. With(q, Put(q.sections[q.at].data, entry.key, entry.value)) = With(p, Part(data, keys, i))
      BY <2>1, <2>2
    <2>. QED BY <2>5, <2>6, <2>7, <2>8
  <1>7. run[n] = With(p, Part(data, keys, n))
    BY <1>1
  <1>. HIDE DEF run, n
  <1>8. IsReadingFrom(run, p, text, With(p, Part(data, keys, n)))
    BY <1>2, <1>4, <1>5, <1>6, <1>7 DEF IsReadingFrom
  <1>. QED BY <1>8 DEF Reaches, text, n

\* A section is added to those read.
Added(sections, section) ==
  [n \in DOMAIN sections \cup {Fold(section.name)} |->
     IF n = Fold(section.name) THEN section ELSE sections[n]]

IsPlainSection(section) ==
  /\ \A i \in DOMAIN section.name : section.name[i] \notin {"]", "="}
  /\ \A k \in DOMAIN section.data : IsPlainEntry(section.data[k])

(* The lines of a section add it to those read.                            *)
LEMMA SectionReached ==
  ASSUME NEW p \in Progress, NEW section \in SectionRecords, IsPlainSection(section),
         Fold(section.name) \notin DOMAIN p.sections
  PROVE  Reaches(p, SectionLines(section),
                 [at |-> Fold(section.name), sections |-> Added(p.sections, section)])
  <1>. DEFINE data == section.data
              name == section.name
              at == Fold(name)
              keys == SetToSeq(DOMAIN data)
              header == HeaderLine(section)
              lines == EntryLines(data, keys)
              created == CreateSection(p.sections, name)
              q == [at |-> at, sections |-> created]
              r == [at |-> at, sections |-> Added(p.sections, section)]
  <1>1. data \in DataMaps /\ name \in Phrases /\ section = [name |-> name, data |-> data]
    BY DEF SectionRecords
  <1>2. p.sections \in SectionMaps
    BY DEF Progress
  <1>3. at \in Phrases
    BY <1>1, FoldType
  <1>4. q \in Progress
    <2>1. created \in SectionMaps /\ DOMAIN created = DOMAIN p.sections \cup {at}
      <3>. HIDE DEF name
      <3>. QED BY <1>1, <1>2, CreateSectionIs, Zenon
    <2>. HIDE DEF created, at
    <2>. QED BY <1>3, <2>1 DEF Progress
  <1>5. header \in Phrases
    BY HeaderLineType
  <1>6. ReadLine(p, header) = q
    <2>1. IsHeader(header) /\ SectionOf(header) = name /\ ~HasEntry(header)
      BY HeaderLineIs DEF IsPlainSection
    <2>2. ReadLine(p, header) = [at |-> SectionAfter(p.at, header),
                                 sections |-> SectionsAfter(p.sections, header)]
      BY <1>5, <2>1, ReadNoEntry
    <2>. QED BY <2>1, <2>2 DEF SectionAfter, SectionsAfter
  <1>7. created[at].data = Nothing /\ created[at] = [name |-> name, data |-> Nothing]
    BY DEF CreateSection
  <1>8. q.at # None
    <2>1. None \notin Phrases
      BY IniAssumption
    <2>. HIDE DEF at
    <2>. QED BY <1>3, <2>1
  <1>9. keys \in Seq(DOMAIN data) /\ \A k \in DOMAIN data : \E j \in 1 .. Len(keys) : keys[j] = k
    BY <1>1, DataMap, SetToSeqIs
  <1>10. Reaches(p, <<header>>, q)
    BY <1>5, <1>6, ReachesLine
  <1>11. Part(data, keys, Len(keys)) = data
    <2>1. data = [k \in DOMAIN data |-> data[k]]
      BY <1>1, DataMap
    <2>. HIDE DEF data, keys
    <2>. QED BY <1>9, <2>1, WholePart
  <1>12. With(q, data) = r
    <2>1. [created EXCEPT ![at].data = data] = Added(p.sections, section)
      <3>1. DOMAIN created = DOMAIN p.sections \cup {at}
        BY DEF CreateSection
      <3>2. created[at] = [name |-> name, data |-> Nothing]
        BY <1>7
      <3>3. \A n \in DOMAIN p.sections : created[n] = p.sections[n]
        BY DEF CreateSection
      <3>4. created = [n \in DOMAIN created |-> created[n]]
        BY DEF CreateSection
      <3>. HIDE DEF created
      <3>5. [created EXCEPT ![at].data = data]
              = [n \in DOMAIN created |->
                   IF n = at THEN [created[n] EXCEPT !.data = data] ELSE created[n]]
        BY <3>1, <3>4
      <3>6. [created[at] EXCEPT !.data = data] = section
        BY <1>1, <3>2
      <3>. QED BY <3>1, <3>3, <3>5, <3>6 DEF Added
    <2>. HIDE DEF created
    <2>. QED BY <2>1 DEF With
  <1>13. Reaches(q, lines, r)
    <2>. HIDE DEF q, data, keys
    <2>1. \A k \in DOMAIN data : IsPlainEntry(data[k])
      BY DEF IsPlainSection, data
    <2>2. q.sections[q.at].data = Nothing
      BY <1>7 DEF q
    <2>3. Reaches(q, lines, With(q, Part(data, keys, Len(keys))))
      BY <1>1, <1>4, <1>8, <1>9, <2>1, <2>2, EntriesReached
    <2>. HIDE DEF lines, r
    <2>. QED BY <1>11, <1>12, <2>3
  <1>14. r \in Progress /\ r.at = at
    <2>1. With(q, data) \in Progress
      BY <1>1, <1>4, <1>8, WithIs
    <2>. QED BY <1>12, <2>1
  <1>15. Reaches(r, << <<>> >>, r)
    <2>. DEFINE line == <<>>
    <2>1. line \in Phrases /\ Len(line) < 2 /\ ~IsHeader(line)
      BY DEF Phrases, IsHeader
    <2>. HIDE DEF line, r
    <2>2. ReadLine(r, line) = [at |-> r.at, sections |-> r.sections]
      BY <1>14, <2>1, ReadNoEntry DEF SectionAfter, SectionsAfter
    <2>3. r = [at |-> r.at, sections |-> r.sections]
      BY <1>14 DEF Progress
    <2>4. Reaches(r, <<line>>, ReadLine(r, line))
      BY <1>14, <2>1, ReachesLine
    <2>5. Reaches(r, <<line>>, r)
      BY <2>2, <2>3, <2>4
    <2>. QED BY <2>5 DEF line
  <1>16. <<header>> \in Seq(Phrases) /\ << <<>> >> \in Seq(Phrases) /\ lines \in Seq(Phrases)
    <2>1. <<>> \in Phrases
      BY DEF Phrases
    <2>2. lines \in Seq(Phrases)
      BY <1>1, <1>9, EntryLinesType
    <2>. HIDE DEF header, lines
    <2>. QED BY <1>5, <2>1, <2>2
  <1>17. SectionLines(section) = (<<header>> \o lines) \o << <<>> >>
    BY SectionLinesAre
  <1>. HIDE DEF header, lines, q, r
  <1>18. Reaches(p, <<header>> \o lines, r) /\ <<header>> \o lines \in Seq(Phrases)
    BY <1>10, <1>13, <1>16, ReachesConcat, ConcatProperties
  <1>19. Reaches(p, (<<header>> \o lines) \o << <<>> >>, r)
    BY <1>15, <1>16, <1>18, ReachesConcat
  <1>. QED BY <1>17, <1>19 DEF r

(* Folding keeps the marks of the format where they are.                   *)
LEMMA FoldKeepsMarks ==
  ASSUME NEW name \in Phrases
  PROVE  /\ DOMAIN Fold(name) = DOMAIN name
         /\ \A i \in DOMAIN name : name[i] \in Marks => Fold(name)[i] = name[i]
         /\ name = <<>> <=> Fold(name) = <<>>
  <1>1. \A mark \in Marks : mark \notin DOMAIN Lower
    BY IniAssumption
  <1>2. DOMAIN Fold(name) = DOMAIN name
    BY DEF Fold
  <1>3. \A i \in DOMAIN name : name[i] \in Marks => Fold(name)[i] = name[i]
    BY <1>1 DEF Fold
  <1>4. name = <<>> <=> Fold(name) = <<>>
    <2>1. Fold(name) \in Phrases /\ Len(Fold(name)) = Len(name)
      BY FoldType
    <2>. HIDE DEF Fold
    <2>2. \A s \in Phrases : s = <<>> <=> Len(s) = 0
      BY DEF Phrases
    <2>. QED BY <2>1, <2>2
  <1>. QED BY <1>2, <1>3, <1>4

(* What IsPlain says of the folded names and keys holds of their spellings.*)
LEMMA PlainSections ==
  ASSUME NEW sections \in SectionMaps, IsPlain(sections), NEW n \in DOMAIN sections
  PROVE  IsPlainSection(sections[n])
  <1>. DEFINE section == sections[n]
              data == section.data
  <1>1. section \in SectionRecords /\ n = Fold(section.name)
    BY SectionMap
  <1>2. section.name \in Phrases /\ data \in DataMaps
    BY <1>1 DEF SectionRecords
  <1>3. \A i \in DOMAIN section.name : section.name[i] \notin {"]", "="}
    <2>1. \A i \in DOMAIN n : n[i] \notin {"]", "="}
      BY DEF IsPlain
    <2>2. /\ DOMAIN n = DOMAIN section.name
          /\ \A i \in DOMAIN section.name : section.name[i] \in Marks => n[i] = section.name[i]
      BY <1>1, <1>2, FoldKeepsMarks
    <2>. QED BY <2>1, <2>2 DEF Marks
  <1>4. ASSUME NEW k \in DOMAIN data
        PROVE  IsPlainEntry(data[k])
    <2>. DEFINE key == data[k].key
                value == data[k].value
    <2>1. data[k] \in EntryRecords /\ k = Fold(key)
      BY <1>2, DataMap
    <2>2. key \in Phrases /\ value \in Phrases
      BY <2>1 DEF EntryRecords
    <2>3. /\ \A i \in DOMAIN k : k[i] \notin CommentMarks \cup {"="}
          /\ k # <<>> => k[1] # "["
          /\ \A i \in DOMAIN value : value[i] \notin CommentMarks
          /\ k # <<>> \/ value # <<>>
      BY DEF IsPlain
    <2>4. /\ DOMAIN k = DOMAIN key
          /\ \A i \in DOMAIN key : key[i] \in Marks => k[i] = key[i]
          /\ key = <<>> <=> k = <<>>
      BY <2>1, <2>2, FoldKeepsMarks
    <2>. HIDE DEF key, value, data
    <2>5. \A i \in DOMAIN key : key[i] \notin CommentMarks \cup {"="}
      BY <2>3, <2>4 DEF CommentMarks, Marks
    <2>6. key # <<>> => 1 \in DOMAIN key
      BY <2>2 DEF Phrases
    <2>7. key # <<>> => key[1] # "["
      BY <2>3, <2>4, <2>6 DEF Marks
    <2>. QED BY <2>3, <2>4, <2>5, <2>7 DEF IsPlainEntry, key, value
  <1>. QED BY <1>3, <1>4 DEF IsPlainSection

(* One more section.                                                       *)
LEMMA NextSection ==
  ASSUME NEW sections \in SectionMaps, NEW names \in Seq(DOMAIN sections),
         \A i, j \in 1 .. Len(names) : names[i] = names[j] => i = j,
         NEW i \in 1 .. Len(names)
  PROVE  LET section == sections[names[i]] IN
         /\ section \in SectionRecords
         /\ Fold(section.name) = names[i]
         /\ names[i] \notin DOMAIN Part(sections, names, i - 1)
         /\ Added(Part(sections, names, i - 1), section) = Part(sections, names, i)
  <1>. DEFINE name == names[i]
              section == sections[name]
              before == Part(sections, names, i - 1)
              after == Part(sections, names, i)
  <1>1. /\ IsFiniteSet(DOMAIN sections)
        /\ sections \in [DOMAIN sections -> SectionRecords]
        /\ \A n \in DOMAIN sections : n = Fold(sections[n].name)
    BY SectionMap
  <1>2. i \in 0 .. Len(names) /\ i - 1 \in 0 .. Len(names)
    OBVIOUS
  <1>3. name \in DOMAIN sections
    BY ElementOfSeq
  <1>4. section \in SectionRecords /\ Fold(section.name) = name
    BY <1>1, <1>3
  <1>5. /\ DOMAIN before = {names[j] : j \in 1 .. i - 1}
        /\ \A n \in DOMAIN before : before[n] = sections[n]
    BY <1>1, <1>2, PartIs
  <1>6. /\ DOMAIN after = {names[j] : j \in 1 .. i}
        /\ \A n \in DOMAIN after : after[n] = sections[n]
    BY <1>1, <1>2, PartIs
  <1>7. DOMAIN after = DOMAIN before \cup {name}
    <2>1. 1 .. i = (1 .. i - 1) \cup {i}
      OBVIOUS
    <2>. QED BY <1>5, <1>6, <2>1
  <1>8. name \notin DOMAIN before
    BY <1>5
  <1>9. after = [n \in DOMAIN after |-> after[n]]
    BY DEF Part
  <1>. HIDE DEF before, after, name
  <1>10. Added(before, section) = after
    <2>1. Added(before, section)
            = [n \in DOMAIN before \cup {name} |-> IF n = name THEN section ELSE before[n]]
      BY <1>4 DEF Added
    <2>2. \A n \in DOMAIN after : after[n] = IF n = name THEN section ELSE before[n]
      BY <1>5, <1>6, <1>7
    <2>. QED BY <1>7, <1>9, <2>1, <2>2
  <1>. QED BY <1>4, <1>8, <1>10 DEF before, after, name

(* ReadStream finds what Write wrote.                                      *)
THEOREM RoundTrip ==
  ASSUME NEW sections \in SectionMaps, IsPlain(sections)
  PROVE  ReadStream(Lines(sections)) = sections
  <1>. DEFINE names == SetToSeq(DOMAIN sections)
              parts == [i \in DOMAIN names |-> SectionLines(sections[names[i]])]
              n == Len(names)
              Found(i) == [at |-> IF i = 0 THEN None ELSE names[i],
                          sections |-> Part(sections, names, i)]
  <1>1. /\ names \in Seq(DOMAIN sections)
        /\ parts \in Seq(Seq(Phrases)) /\ Len(parts) = n
        /\ Lines(sections) = FlattenSeq(parts)
        /\ Lines(sections) \in Seq(Phrases)
    BY LinesAre
  <1>2. /\ \A i, j \in 1 .. n : names[i] = names[j] => i = j
        /\ \A x \in DOMAIN sections : \E i \in 1 .. n : names[i] = x
    BY SectionMap, SetToSeqIs
  <1>3. n \in Nat /\ DOMAIN names = 1 .. n /\ \A i \in 1 .. n : names[i] \in DOMAIN sections
    <2>. HIDE DEF names
    <2>. QED BY <1>1, ElementOfSeq
  <1>4. PICK flat : IsFlat(flat, parts, Phrases) /\ FlattenSeq(parts) = flat[n]
    <2>. HIDE DEF parts, n
    <2>1. \E flat : IsFlat(flat, parts, Phrases) /\ FlattenSeq(parts) = flat[Len(parts)]
      BY <1>1, FlatExists, FlattenIs
    <2>. QED BY <1>1, <2>1
  <1>. DEFINE T == {i \in 0 .. n : Found(i) \in Progress /\ Reaches(Beginning, flat[i], Found(i))}
  <1>5. /\ flat \in [0 .. n -> Seq(Phrases)] /\ flat[0] = <<>>
        /\ \A i \in 1 .. n : flat[i] = flat[i - 1] \o parts[i]
    <2>. HIDE DEF parts, n
    <2>. QED BY <1>1, <1>4 DEF IsFlat
  <1>6. \A i \in 1 .. n : parts[i] = SectionLines(sections[names[i]])
    BY <1>3
  <1>. HIDE DEF names, parts
  <1>7. 0 \in T
    <2>1. Part(sections, names, 0) = Nothing
      BY FirstPart
    <2>2. Found(0) = Beginning
      BY <2>1 DEF Beginning
    <2>3. Reaches(Beginning, <<>>, Beginning) /\ Beginning \in Progress
      BY BeginningIs, ReachesNothing
    <2>4. 0 \in 0 .. n
      BY <1>3
    <2>. HIDE DEF Found, n
    <2>. QED BY <1>5, <2>2, <2>3, <2>4
  <1>8. ASSUME NEW i \in 1 .. n, i - 1 \in T
        PROVE  i \in T
    <2>. DEFINE section == sections[names[i]]
                p == Found(i - 1)
                q == Found(i)
                before == Part(sections, names, i - 1)
    <2>1. p \in Progress /\ Reaches(Beginning, flat[i - 1], p)
      BY <1>8
    <2>2. /\ section \in SectionRecords /\ Fold(section.name) = names[i]
          /\ names[i] \notin DOMAIN before
          /\ Added(before, section) = Part(sections, names, i)
      <3>1. /\ names \in Seq(DOMAIN sections) /\ i \in 1 .. Len(names)
            /\ \A j, k \in 1 .. Len(names) : names[j] = names[k] => j = k
        BY <1>1, <1>2
      <3>. HIDE DEF T, Found, p, q, n
      <3>. QED BY <3>1, NextSection
    <2>3. IsPlainSection(section)
      BY <1>3, PlainSections
    <2>4. p.sections = before
      OBVIOUS
    <2>5. q = [at |-> Fold(section.name), sections |-> Added(p.sections, section)]
      <3>1. i # 0
        BY <1>3
      <3>. HIDE DEF section, before
      <3>. QED BY <2>2, <2>4, <3>1
    <2>6. Reaches(p, SectionLines(section), q)
      <3>. HIDE DEF p, q, section, before
      <3>1. Fold(section.name) \notin DOMAIN p.sections
        BY <2>2, <2>4
      <3>. QED BY <2>1, <2>2, <2>3, <2>5, <3>1, SectionReached
    <2>7. flat[i - 1] \in Seq(Phrases) /\ SectionLines(section) \in Seq(Phrases)
      <3>1. i - 1 \in 0 .. n
        BY <1>3
      <3>2. SectionLines(section) \in Seq(Phrases)
        BY <2>2, SectionLinesAre
      <3>. QED BY <1>5, <3>1, <3>2
    <2>. HIDE DEF p, q, section, Found
    <2>8. Reaches(Beginning, flat[i - 1] \o SectionLines(section), q)
      BY <2>1, <2>6, <2>7, ReachesConcat
    <2>9. flat[i] = flat[i - 1] \o SectionLines(section)
      BY <1>5, <1>6 DEF section
    <2>10. q \in Progress
      BY <2>6, <2>7, ReachesProgress
    <2>11. i \in 0 .. n
      BY <1>3
    <2>. QED BY <2>8, <2>9, <2>10, <2>11 DEF q
  <1>9. n \in T
    <2>. HIDE DEF T, n
    <2>1. 0 .. n \subseteq T
      BY <1>3, <1>7, <1>8, InductionUpTo
    <2>. QED BY <1>3, <2>1
  <1>10. Reaches(Beginning, Lines(sections), Found(n))
    BY <1>1, <1>4, <1>9
  <1>11. Part(sections, names, n) = sections
    <2>1. sections = [x \in DOMAIN sections |-> sections[x]]
      BY SectionMap
    <2>. QED BY <1>1, <1>2, <2>1, WholePart
  <1>12. Found(n).sections = sections
    BY <1>11
  <1>. HIDE DEF Found
  <1>13. ReadStream(Lines(sections)) = Found(n).sections
    BY <1>1, <1>10, StreamReaches
  <1>. QED BY <1>12, <1>13

-----------------------------------------------------------------------------
(* The calls that change the sections keep them in agreement with what is  *)
(* expected.                                                               *)

(* Agreement, entry by entry.                                              *)
LEMMA AgreeIs ==
  ASSUME NEW sections, NEW entries
  PROVE  Agree(sections, entries) <=>
           /\ \A entry : entry \in DOMAIN entries
                <=> \E n, k : entry = <<n, k>> /\ Has(sections, n, k)
           /\ \A n, k : Has(sections, n, k) => entries[<<n, k>>] = ValueIn(sections, n, k)
  <1>1. DOMAIN entries = Entries(sections)
          <=> \A entry : entry \in DOMAIN entries
                <=> \E n, k : entry = <<n, k>> /\ Has(sections, n, k)
    BY EntriesAre
  <1>2. (\A n \in DOMAIN sections : \A k \in DOMAIN sections[n].data :
           entries[<<n, k>>] = sections[n].data[k].value)
          <=> \A n, k : Has(sections, n, k) => entries[<<n, k>>] = ValueIn(sections, n, k)
    BY DEF Has, ValueIn
  <1>. QED BY <1>1, <1>2 DEF Agree

NoEntries == [entry \in {} |-> None]

(* An empty configuration agrees with no entries.                          *)
LEMMA NothingAgrees == Agree(Nothing, NoEntries)
  <1>1. DOMAIN NoEntries = {} /\ \A n, k : ~Has(Nothing, n, k)
    BY NothingIs DEF NoEntries, Has
  <1>. QED BY <1>1, AgreeIs

\* The sections after Set.
AfterSet(sections, name, key, value) ==
  [CreateSection(sections, name) EXCEPT ![Fold(name)].data = Put(@, key, value)]

(* Set changes one entry, in a new section if need be.                     *)
LEMMA AfterSetIs ==
  ASSUME NEW sections \in SectionMaps,
         NEW name \in Phrases, NEW key \in Phrases, NEW value \in Phrases
  PROVE  LET after == AfterSet(sections, name, key, value) IN
         /\ after \in SectionMaps
         /\ \A n, k :
              Has(after, n, k) <=> Has(sections, n, k) \/ (n = Fold(name) /\ k = Fold(key))
         /\ \A n, k : Has(after, n, k) =>
              ValueIn(after, n, k) =
                IF n = Fold(name) /\ k = Fold(key) THEN value ELSE ValueIn(sections, n, k)
  <1>. DEFINE at == Fold(name)
              created == CreateSection(sections, name)
              old == created[at].data
              data == Put(old, key, value)
              after == [created EXCEPT ![at].data = data]
  <1>1. /\ created \in SectionMaps
        /\ DOMAIN created = DOMAIN sections \cup {at}
        /\ \A n \in DOMAIN created :
             created[n].data = IF n \in DOMAIN sections THEN sections[n].data ELSE Nothing
    BY CreateSectionIs, Zenon
  <1>. HIDE DEF created
  <1>2. old \in DataMaps
    <2>1. created[at] \in SectionRecords
      BY <1>1, SectionMap
    <2>. QED BY <2>1 DEF SectionRecords
  <1>3. old = IF at \in DOMAIN sections THEN sections[at].data ELSE Nothing
    BY <1>1
  <1>. HIDE DEF old
  <1>4. /\ data \in DataMaps
        /\ DOMAIN data = DOMAIN old \cup {Fold(key)}
        /\ \A k \in DOMAIN data : data[k].value = IF k = Fold(key) THEN value ELSE old[k].value
    BY <1>2, PutIs, ZenonT(30)
  <1>. HIDE DEF data, at
  <1>5. /\ after \in SectionMaps
        /\ DOMAIN after = DOMAIN created
        /\ \A n \in DOMAIN created : after[n].data = IF n = at THEN data ELSE created[n].data
    <2>1. at \in DOMAIN created
      BY <1>1
    <2>. QED BY <1>1, <1>4, <2>1, NewData, ZenonT(30)
  <1>6. AfterSet(sections, name, key, value) = after
    BY DEF AfterSet, created, at, data, old
  <1>. HIDE DEF after
  <1>7. \A n, k : Has(after, n, k) <=> Has(sections, n, k) \/ (n = at /\ k = Fold(key))
    <2>1. ASSUME NEW n, NEW k
          PROVE  Has(after, n, k) <=> Has(sections, n, k) \/ (n = at /\ k = Fold(key))
      <3>1. ASSUME n = at
            PROVE  Has(after, n, k) <=> Has(sections, n, k) \/ k = Fold(key)
        BY <1>1, <1>3, <1>4, <1>5, <3>1, NothingIs DEF Has
      <3>2. ASSUME n # at
            PROVE  Has(after, n, k) <=> Has(sections, n, k)
        BY <1>1, <1>5, <3>2 DEF Has
      <3>. QED BY <3>1, <3>2
    <2>. QED BY <2>1
  <1>8. ASSUME NEW n, NEW k, Has(after, n, k)
        PROVE  ValueIn(after, n, k)
                 = IF n = at /\ k = Fold(key) THEN value ELSE ValueIn(sections, n, k)
    <2>1. n \in DOMAIN created /\ k \in DOMAIN after[n].data
      BY <1>5, <1>8 DEF Has
    <2>2. ASSUME n = at
          PROVE  ValueIn(after, n, k)
                   = IF k = Fold(key) THEN value ELSE ValueIn(sections, n, k)
      <3>1. after[n].data = data
        BY <1>5, <2>1, <2>2
      <3>2. ValueIn(after, n, k) = IF k = Fold(key) THEN value ELSE old[k].value
        BY <1>4, <2>1, <3>1 DEF ValueIn
      <3>3. k # Fold(key) => at \in DOMAIN sections
        BY <1>3, <1>4, <2>1, <3>1, NothingIs
      <3>. QED BY <1>3, <2>2, <3>2, <3>3 DEF ValueIn
    <2>3. ASSUME n # at
          PROVE  ValueIn(after, n, k) = ValueIn(sections, n, k)
      <3>1. n \in DOMAIN sections /\ after[n].data = sections[n].data
        BY <1>1, <1>5, <2>1, <2>3
      <3>. QED BY <3>1 DEF ValueIn
    <2>. QED BY <2>2, <2>3
  <1>. QED BY <1>5, <1>6, <1>7, <1>8 DEF at

(* Set keeps the agreement.                                                *)
LEMMA SetAgrees ==
  ASSUME NEW sections \in SectionMaps, NEW entries, Agree(sections, entries),
         NEW name \in Phrases, NEW key \in Phrases, NEW value \in Phrases
  PROVE  Agree(AfterSet(sections, name, key, value),
               [entry \in DOMAIN entries \cup {<<Fold(name), Fold(key)>>} |->
                  IF entry = <<Fold(name), Fold(key)>> THEN value ELSE entries[entry]])
  <1>. DEFINE after == AfterSet(sections, name, key, value)
              at == Fold(name)
              k0 == Fold(key)
              new == [entry \in DOMAIN entries \cup {<<at, k0>>} |->
                        IF entry = <<at, k0>> THEN value ELSE entries[entry]]
  <1>1. /\ \A n, k : Has(after, n, k) <=> Has(sections, n, k) \/ (n = at /\ k = k0)
        /\ \A n, k : Has(after, n, k) =>
             ValueIn(after, n, k) = IF n = at /\ k = k0 THEN value ELSE ValueIn(sections, n, k)
    BY AfterSetIs
  <1>2. /\ \A entry : entry \in DOMAIN entries
                <=> \E n, k : entry = <<n, k>> /\ Has(sections, n, k)
        /\ \A n, k : Has(sections, n, k) => entries[<<n, k>>] = ValueIn(sections, n, k)
    BY AgreeIs
  <1>. HIDE DEF after, at, k0
  <1>3. \A entry : entry \in DOMAIN new <=> \E n, k : entry = <<n, k>> /\ Has(after, n, k)
    BY <1>1, <1>2
  <1>4. ASSUME NEW n, NEW k, Has(after, n, k)
        PROVE  new[<<n, k>>] = ValueIn(after, n, k)
    <2>1. <<n, k>> \in DOMAIN new
      BY <1>3, <1>4
    <2>2. new[<<n, k>>] = IF <<n, k>> = <<at, k0>> THEN value ELSE entries[<<n, k>>]
      BY <2>1
    <2>3. <<n, k>> = <<at, k0>> <=> n = at /\ k = k0
      OBVIOUS
    <2>. QED BY <1>1, <1>2, <1>4, <2>2, <2>3
  <1>. HIDE DEF new
  <1>5. Agree(after, new)
    BY <1>3, <1>4, AgreeIs
  <1>. QED BY <1>5 DEF after, new, at, k0

(* DeleteSection keeps the agreement.                                      *)
LEMMA DeleteSectionAgrees ==
  ASSUME NEW sections, NEW entries, Agree(sections, entries), NEW name
  PROVE  Agree(Without(sections, name),
               [entry \in {e \in DOMAIN entries : e[1] # name} |-> entries[entry]])
  <1>. DEFINE after == Without(sections, name)
              new == [entry \in {e \in DOMAIN entries : e[1] # name} |-> entries[entry]]
  <1>1. /\ \A entry : entry \in DOMAIN entries
                <=> \E n, k : entry = <<n, k>> /\ Has(sections, n, k)
        /\ \A n, k : Has(sections, n, k) => entries[<<n, k>>] = ValueIn(sections, n, k)
    BY AgreeIs
  <1>2. /\ \A n, k : Has(after, n, k) <=> Has(sections, n, k) /\ n # name
        /\ \A n, k : Has(after, n, k) => ValueIn(after, n, k) = ValueIn(sections, n, k)
    BY DEF Without, Has, ValueIn
  <1>. HIDE DEF after
  <1>3. \A entry : entry \in DOMAIN new <=> \E n, k : entry = <<n, k>> /\ Has(after, n, k)
    <2>1. ASSUME NEW entry, entry \in DOMAIN new
          PROVE  \E n, k : entry = <<n, k>> /\ Has(after, n, k)
      <3>1. entry \in DOMAIN entries /\ entry[1] # name
        BY <2>1
      <3>2. PICK n, k : entry = <<n, k>> /\ Has(sections, n, k)
        BY <1>1, <3>1
      <3>3. n # name
        BY <3>1, <3>2
      <3>. QED BY <1>2, <3>2, <3>3
    <2>2. ASSUME NEW n, NEW k, Has(after, n, k)
          PROVE  <<n, k>> \in DOMAIN new
      <3>1. <<n, k>> \in DOMAIN entries /\ <<n, k>>[1] # name
        BY <1>1, <1>2, <2>2
      <3>. QED BY <3>1
    <2>. HIDE DEF new
    <2>. QED BY <2>1, <2>2
  <1>4. ASSUME NEW n, NEW k, Has(after, n, k)
        PROVE  new[<<n, k>>] = ValueIn(after, n, k)
    <2>1. <<n, k>> \in DOMAIN new
      BY <1>3, <1>4
    <2>2. new[<<n, k>>] = entries[<<n, k>>]
      BY <2>1
    <2>. QED BY <1>1, <1>2, <1>4, <2>2
  <1>. HIDE DEF new
  <1>5. Agree(after, new)
    BY <1>3, <1>4, AgreeIs
  <1>. QED BY <1>5 DEF after, new

\* The sections after DeleteKey.
AfterDeleteKey(sections, n, k) == [sections EXCEPT ![n].data = Without(@, k)]

(* DeleteKey changes the data of one section.                              *)
LEMMA AfterDeleteKeyType ==
  ASSUME NEW sections \in SectionMaps, NEW n \in DOMAIN sections, NEW k
  PROVE  /\ AfterDeleteKey(sections, n, k) \in SectionMaps
         /\ DOMAIN AfterDeleteKey(sections, n, k) = DOMAIN sections
         /\ \A m \in DOMAIN sections : AfterDeleteKey(sections, n, k)[m].data =
              IF m = n THEN Without(sections[n].data, k) ELSE sections[m].data
  <1>. DEFINE data == Without(sections[n].data, k)
  <1>1. data \in DataMaps
    <2>1. sections[n].data \in DataMaps
      BY SectionMap DEF SectionRecords
    <2>. QED BY <2>1, WithoutEntry
  <1>2. AfterDeleteKey(sections, n, k) = [sections EXCEPT ![n].data = data]
    BY DEF AfterDeleteKey
  <1>. HIDE DEF data
  <1>3. /\ [sections EXCEPT ![n].data = data] \in SectionMaps
        /\ DOMAIN [sections EXCEPT ![n].data = data] = DOMAIN sections
        /\ \A m \in DOMAIN sections : [sections EXCEPT ![n].data = data][m].data =
             IF m = n THEN data ELSE sections[m].data
    BY <1>1, NewData
  <1>. QED BY <1>2, <1>3, Zenon DEF data

(* DeleteKey keeps the agreement, also where there is no such key.         *)
LEMMA DeleteKeyAgrees ==
  ASSUME NEW sections \in SectionMaps, NEW entries, Agree(sections, entries),
         NEW at \in DOMAIN sections, NEW key
  PROVE  Agree(AfterDeleteKey(sections, at, key), Without(entries, <<at, key>>))
  <1>. DEFINE after == AfterDeleteKey(sections, at, key)
              data == Without(sections[at].data, key)
              new == Without(entries, <<at, key>>)
  <1>1. /\ \A entry : entry \in DOMAIN entries
                <=> \E n, k : entry = <<n, k>> /\ Has(sections, n, k)
        /\ \A n, k : Has(sections, n, k) => entries[<<n, k>>] = ValueIn(sections, n, k)
    BY AgreeIs
  <1>2. /\ DOMAIN after = DOMAIN sections
        /\ \A n \in DOMAIN sections :
             after[n].data = IF n = at THEN data ELSE sections[n].data
    BY AfterDeleteKeyType
  <1>3. DOMAIN data = DOMAIN sections[at].data \ {key}
        /\ \A k \in DOMAIN data : data[k] = sections[at].data[k]
    BY DEF Without
  <1>4. DOMAIN new = DOMAIN entries \ {<<at, key>>}
        /\ \A entry \in DOMAIN new : new[entry] = entries[entry]
    BY DEF Without
  <1>. HIDE DEF after, data, new
  <1>5. \A n, k : Has(after, n, k) <=> Has(sections, n, k) /\ ~(n = at /\ k = key)
    BY <1>2, <1>3 DEF Has
  <1>6. \A n, k : Has(after, n, k) => ValueIn(after, n, k) = ValueIn(sections, n, k)
    BY <1>2, <1>3 DEF Has, ValueIn
  <1>7. \A n, k : <<n, k>> = <<at, key>> <=> n = at /\ k = key
    OBVIOUS
  <1>8. \A entry : entry \in DOMAIN new <=> \E n, k : entry = <<n, k>> /\ Has(after, n, k)
    BY <1>1, <1>4, <1>5, <1>7
  <1>9. \A n, k : Has(after, n, k) => new[<<n, k>>] = ValueIn(after, n, k)
    BY <1>1, <1>4, <1>5, <1>6, <1>8
  <1>10. Agree(after, new)
    BY <1>8, <1>9, AgreeIs
  <1>. QED BY <1>10 DEF after, new

-----------------------------------------------------------------------------
(* The inductive invariant.  What runs is what was read when it started,   *)
(* and that is what was meant while nothing else touched the file.         *)
RunsAs(sections) ==
  IF Lookup(sections, <<"ptp">>, <<"interface">>, <<>>) # <<>>
  THEN Waits ELSE Options(sections)

IniInv ==
  /\ m_filepath \in Paths \cup {None}
  /\ m_mSections \in SectionMaps
  /\ files \in [Paths -> Seq(Phrases) \cup {None}]
  /\ meant \in [Paths -> SectionMaps \cup {None}]
  /\ Agree(m_mSections, expected)
  /\ SavedIsRead
  /\ running # None =>
       /\ m_filepath \in Paths
       /\ running = RunsAs(m_mSections)
       /\ meant[m_filepath] # None /\ IsPlain(meant[m_filepath])
            => m_mSections = meant[m_filepath]

\* SavedIsRead of one path.
IsReadAgain(text, sections) ==
  sections # None /\ IsPlain(sections) => text # None /\ ReadStream(text) = sections

(* SavedIsRead, path by path.                                              *)
LEMMA SavedIs == SavedIsRead <=> \A path \in Paths : IsReadAgain(files[path], meant[path])
  BY DEF SavedIsRead, IsReadAgain

(* And after a step.                                                       *)
LEMMA SavedIsNext ==
  SavedIsRead' <=> \A path \in Paths : IsReadAgain(files'[path], meant'[path])
  BY DEF SavedIsRead, IsReadAgain

(* The invariant holds at first.                                           *)
LEMMA InvariantInit == Init => IniInv
  <1>. SUFFICES ASSUME Init
                PROVE  IniInv
    OBVIOUS
  <1>1. m_mSections \in SectionMaps /\ Agree(m_mSections, expected)
    <2>1. m_mSections = Nothing /\ expected = NoEntries
      BY DEF Init, NoEntries
    <2>. QED BY <2>1, NothingIs, NothingAgrees
  <1>2. files \in [Paths -> Seq(Phrases) \cup {None}]
    BY IniAssumption DEF Init
  <1>3. meant \in [Paths -> SectionMaps \cup {None}] /\ \A path \in Paths : meant[path] = None
    BY DEF Init
  <1>4. SavedIsRead
    BY <1>3, SavedIs DEF IsReadAgain
  <1>5. m_filepath = None /\ running = None
    BY DEF Init
  <1>. QED BY <1>1, <1>2, <1>3, <1>4, <1>5 DEF IniInv

(* Set, DeleteSection and DeleteKey, which only a program that edits the   *)
(* configuration calls.                                                    *)
LEMMA CallsKeepInvariant ==
  ASSUME IniInv, running = None, UNCHANGED <<m_filepath, files, running, meant>>,
         m_mSections' \in SectionMaps, Agree(m_mSections', expected')
  PROVE  IniInv'
  <1>1. SavedIsRead'
    BY SavedIs, SavedIsNext DEF IniInv
  <1>. QED BY <1>1 DEF IniInv

(* Set keeps the invariant.                                                *)
LEMMA SetKeepsInvariant ==
  ASSUME IniInv, NEW name \in Names, NEW key \in Keys, NEW value \in Values,
         Set(name, key, value)
  PROVE  IniInv'
  <1>1. name \in Phrases /\ key \in Phrases /\ value \in Phrases
    BY IniAssumption
  <1>2. m_mSections \in SectionMaps /\ Agree(m_mSections, expected)
    BY DEF IniInv
  <1>3. m_mSections' = AfterSet(m_mSections, name, key, value)
    BY DEF Set, AfterSet
  <1>4. expected' = [entry \in DOMAIN expected \cup {<<Fold(name), Fold(key)>>} |->
                       IF entry = <<Fold(name), Fold(key)>> THEN value ELSE expected[entry]]
    BY DEF Set
  <1>5. m_mSections' \in SectionMaps
    BY <1>1, <1>2, <1>3, AfterSetIs
  <1>6. Agree(m_mSections', expected')
    BY <1>1, <1>2, <1>3, <1>4, SetAgrees
  <1>7. running = None /\ UNCHANGED <<m_filepath, files, running, meant>>
    BY DEF Set
  <1>. QED BY <1>5, <1>6, <1>7, CallsKeepInvariant

(* DeleteSection keeps the invariant.                                      *)
LEMMA DeleteSectionKeepsInvariant ==
  ASSUME IniInv, NEW name \in Names, DeleteSection(name)
  PROVE  IniInv'
  <1>1. m_mSections \in SectionMaps /\ Agree(m_mSections, expected)
    BY DEF IniInv
  <1>2. /\ m_mSections' = Without(m_mSections, Fold(name))
        /\ expected' = [entry \in {e \in DOMAIN expected : e[1] # Fold(name)} |->
                          expected[entry]]
    BY DEF DeleteSection
  <1>3. m_mSections' \in SectionMaps
    BY <1>1, <1>2, WithoutSection
  <1>4. Agree(m_mSections', expected')
    BY <1>1, <1>2, DeleteSectionAgrees
  <1>5. running = None /\ UNCHANGED <<m_filepath, files, running, meant>>
    BY DEF DeleteSection
  <1>. QED BY <1>3, <1>4, <1>5, CallsKeepInvariant

(* DeleteKey keeps the invariant.                                          *)
LEMMA DeleteKeyKeepsInvariant ==
  ASSUME IniInv, NEW name \in Names, NEW key \in Keys, DeleteKey(name, key)
  PROVE  IniInv'
  <1>1. /\ m_mSections \in SectionMaps /\ Agree(m_mSections, expected)
        /\ Fold(name) \in DOMAIN m_mSections
    BY DEF IniInv, DeleteKey
  <1>2. /\ m_mSections' = AfterDeleteKey(m_mSections, Fold(name), Fold(key))
        /\ expected' = Without(expected, <<Fold(name), Fold(key)>>)
    BY DEF DeleteKey, AfterDeleteKey
  <1>3. m_mSections' \in SectionMaps
    BY <1>1, <1>2, AfterDeleteKeyType
  <1>4. Agree(m_mSections', expected')
    BY <1>1, <1>2, DeleteKeyAgrees
  <1>5. running = None /\ UNCHANGED <<m_filepath, files, running, meant>>
    BY DEF DeleteKey
  <1>. QED BY <1>3, <1>4, <1>5, CallsKeepInvariant

(* What Load leaves in memory agrees with what is expected, whether the    *)
(* file opens or not.                                                      *)
LEMMA LoadIs ==
  ASSUME IniInv, NEW path \in Paths, NEW opens \in BOOLEAN, opens => files[path] # None,
         Load(path, opens)
  PROVE  m_filepath' = path /\ m_mSections' \in SectionMaps /\ Agree(m_mSections', expected')
  <1>1. CASE opens
    <2>1. files[path] \in Seq(Phrases)
      BY <1>1 DEF IniInv
    <2>2. m_mSections' = ReadStream(files[path]) /\ expected' = EntriesOf(files[path])
      BY <1>1 DEF Load
    <2>. QED BY <2>1, <2>2, ReadStreamType, ReadStreamAgrees DEF Load
  <1>2. CASE ~opens
    <2>1. m_mSections' = Nothing /\ expected' = NoEntries
      BY <1>2 DEF Load, NoEntries
    <2>. QED BY <2>1, NothingIs, NothingAgrees DEF Load
  <1>. QED BY <1>1, <1>2

(* What is read first is what is meant from then on.                       *)
LEMMA NoteReadIs ==
  ASSUME IniInv, NEW path \in Paths, NEW opens \in BOOLEAN, opens => files[path] # None,
         NoteRead(path, opens), UNCHANGED files
  PROVE  /\ meant' \in [Paths -> SectionMaps \cup {None}]
         /\ SavedIsRead'
         /\ opens /\ meant'[path] # None /\ IsPlain(meant'[path])
              => ReadStream(files[path]) = meant'[path]
  <1>1. meant \in [Paths -> SectionMaps \cup {None}]
        /\ \A other \in Paths : IsReadAgain(files[other], meant[other])
    BY SavedIs DEF IniInv
  <1>2. ASSUME opens, meant[path] = None
        PROVE  /\ meant' \in [Paths -> SectionMaps \cup {None}]
               /\ \A other \in Paths : IsReadAgain(files'[other], meant'[other])
    <2>1. files[path] \in Seq(Phrases)
      BY <1>2 DEF IniInv
    <2>2. meant' = [meant EXCEPT ![path] = ReadStream(files[path])]
      BY <1>2 DEF NoteRead
    <2>3. ReadStream(files[path]) \in SectionMaps
      BY <2>1, ReadStreamType
    <2>4. IsReadAgain(files[path], ReadStream(files[path]))
      BY <1>2 DEF IsReadAgain
    <2>5. \A other \in Paths : IsReadAgain(files'[other], meant'[other])
      <3>1. \A other \in Paths :
              meant'[other] = IF other = path THEN ReadStream(files[path]) ELSE meant[other]
        BY <1>1, <2>2
      <3>. QED BY <1>1, <2>4, <3>1
    <2>. QED BY <1>1, <2>2, <2>3, <2>5
  <1>3. ASSUME ~(opens /\ meant[path] = None)
        PROVE  /\ meant' \in [Paths -> SectionMaps \cup {None}]
               /\ \A other \in Paths : IsReadAgain(files'[other], meant'[other])
    <2>1. meant' = meant
      BY <1>3 DEF NoteRead
    <2>. QED BY <1>1, <2>1
  <1>4. /\ meant' \in [Paths -> SectionMaps \cup {None}]
        /\ \A other \in Paths : IsReadAgain(files'[other], meant'[other])
    BY <1>2, <1>3
  <1>5. opens /\ meant'[path] # None /\ IsPlain(meant'[path])
          => ReadStream(files[path]) = meant'[path]
    BY <1>4 DEF IsReadAgain
  <1>. QED BY <1>4, <1>5, SavedIsNext

(* Read keeps the invariant.                                               *)
LEMMA ReadKeepsInvariant ==
  ASSUME IniInv, NEW path \in Paths, Read(path)
  PROVE  IniInv'
  <1>1. running = None /\ running' = None /\ UNCHANGED files
    BY DEF Read
  <1>2. PICK opens \in BOOLEAN : /\ opens => files[path] # None
                                 /\ Load(path, opens) /\ NoteRead(path, opens)
    BY DEF Read
  <1>3. m_filepath' = path /\ m_mSections' \in SectionMaps /\ Agree(m_mSections', expected')
    BY <1>2, LoadIs
  <1>4. meant' \in [Paths -> SectionMaps \cup {None}] /\ SavedIsRead'
    BY <1>1, <1>2, NoteReadIs
  <1>. QED BY <1>1, <1>3, <1>4 DEF IniInv

(* Whatever the disk has room for, a file holds lines; and it is meant to  *)
(* be what was saved only when it holds all of them.                       *)
LEMMA WriteToIs ==
  ASSUME IniInv, NEW path \in Paths, WriteTo(path)
  PROVE  /\ files' \in [Paths -> Seq(Phrases) \cup {None}]
         /\ meant' \in [Paths -> SectionMaps \cup {None}]
         /\ SavedIsRead'
  <1>. DEFINE lines == Lines(m_mSections)
  <1>1. /\ files \in [Paths -> Seq(Phrases) \cup {None}]
        /\ meant \in [Paths -> SectionMaps \cup {None}]
        /\ m_mSections \in SectionMaps
        /\ \A other \in Paths : IsReadAgain(files[other], meant[other])
    BY SavedIs DEF IniInv
  <1>2. lines \in Seq(Phrases)
    BY <1>1, LinesAre
  <1>3. PICK room \in 0 .. Len(lines) :
          /\ files' = [files EXCEPT ![path] = SubSeq(lines, 1, room)]
          /\ meant' = [meant EXCEPT ![path] = IF room = Len(lines) THEN m_mSections ELSE None]
    BY Zenon DEF WriteTo
  <1>. DEFINE text == SubSeq(lines, 1, room)
              noted == IF room = Len(lines) THEN m_mSections ELSE None
  <1>4. text \in Seq(Phrases)
    <2>. HIDE DEF lines
    <2>. QED BY <1>2, <1>3
  <1>5. noted \in SectionMaps \cup {None}
    BY <1>1
  <1>6. IsReadAgain(text, noted)
    <2>. SUFFICES ASSUME noted # None, IsPlain(noted)
                  PROVE  text # None /\ ReadStream(text) = noted
      BY DEF IsReadAgain
    <2>1. room = Len(lines) /\ noted = m_mSections
      OBVIOUS
    <2>2. text = lines
      <3>. HIDE DEF lines
      <3>. QED BY <1>2, <2>1, SubSeqFull
    <2>3. text # None
      <3>. HIDE DEF text
      <3>. QED BY <1>4, IniAssumption
    <2>4. ReadStream(lines) = m_mSections
      BY <1>1, <2>1, RoundTrip
    <2>. QED BY <2>1, <2>2, <2>3, <2>4
  <1>. HIDE DEF text, noted, lines
  <1>7. /\ files' = [files EXCEPT ![path] = text]
        /\ meant' = [meant EXCEPT ![path] = noted]
    BY <1>3 DEF text, noted
  <1>8. \A other \in Paths : IsReadAgain(files'[other], meant'[other])
    <2>1. \A other \in Paths :
            /\ files'[other] = IF other = path THEN text ELSE files[other]
            /\ meant'[other] = IF other = path THEN noted ELSE meant[other]
      BY <1>1, <1>7
    <2>. QED BY <1>1, <1>6, <2>1
  <1>. QED BY <1>1, <1>4, <1>5, <1>7, <1>8, SavedIsNext

(* Write keeps the invariant, also where the path cannot be opened.        *)
LEMMA WriteKeepsInvariant ==
  ASSUME IniInv, NEW path \in Paths, Write(path)
  PROVE  IniInv'
  <1>1. /\ running = None /\ m_filepath' = path
        /\ UNCHANGED <<m_mSections, expected, running>>
    BY DEF Write
  <1>2. /\ files' \in [Paths -> Seq(Phrases) \cup {None}]
        /\ meant' \in [Paths -> SectionMaps \cup {None}]
        /\ SavedIsRead'
    <2>1. CASE WriteTo(path)
      BY <2>1, WriteToIs
    <2>2. CASE UNCHANGED <<files, meant>>
      BY <2>2, SavedIs, SavedIsNext DEF IniInv
    <2>. QED BY <2>1, <2>2 DEF Write
  <1>. QED BY <1>1, <1>2 DEF IniInv

(* A daemon that starts runs as what it read.                              *)
LEMMA StartKeepsInvariant ==
  ASSUME IniInv, NEW path \in Paths, Start(path)
  PROVE  IniInv'
  <1>1. /\ files[path] # None /\ UNCHANGED files
        /\ Load(path, TRUE) /\ NoteRead(path, TRUE)
        /\ running' = RunsAs(m_mSections')
    BY DEF Start, RunsAs
  <1>2. m_filepath' = path /\ m_mSections' \in SectionMaps /\ Agree(m_mSections', expected')
    BY <1>1, LoadIs
  <1>3. /\ meant' \in [Paths -> SectionMaps \cup {None}] /\ SavedIsRead'
        /\ meant'[path] # None /\ IsPlain(meant'[path]) => ReadStream(files[path]) = meant'[path]
    BY <1>1, NoteReadIs
  <1>4. m_mSections' = ReadStream(files[path])
    BY <1>1 DEF Load
  <1>5. files' \in [Paths -> Seq(Phrases) \cup {None}]
    BY <1>1 DEF IniInv
  <1>. QED BY <1>1, <1>2, <1>3, <1>4, <1>5 DEF IniInv

(* A new process has nothing in memory, and the files stay.                *)
LEMMA ExitKeepsInvariant ==
  ASSUME IniInv, Exit
  PROVE  IniInv'
  <1>1. /\ m_filepath' = None /\ m_mSections' = Nothing /\ expected' = NoEntries
        /\ running' = None /\ UNCHANGED <<files, meant>>
    BY DEF Exit, NoEntries
  <1>2. m_mSections' \in SectionMaps /\ Agree(m_mSections', expected')
    BY <1>1, NothingIs, NothingAgrees
  <1>3. SavedIsRead'
    BY <1>1, SavedIs, SavedIsNext DEF IniInv
  <1>. QED BY <1>1, <1>2, <1>3 DEF IniInv

(* What a user edits is meant by nobody any more.                          *)
LEMMA EditKeepsInvariant ==
  ASSUME IniInv, NEW path \in Paths, Edit(path)
  PROVE  IniInv'
  <1>1. PICK text \in Texts \cup {None} : files' = [files EXCEPT ![path] = text]
    BY DEF Edit
  <1>2. meant' = [meant EXCEPT ![path] = None] /\ UNCHANGED <<memory, running>>
    BY DEF Edit
  <1>3. /\ files' \in [Paths -> Seq(Phrases) \cup {None}]
        /\ \A other \in Paths : other # path => files'[other] = files[other]
    <2>1. text \in Seq(Phrases) \cup {None}
      BY IniAssumption
    <2>. QED BY <1>1, <2>1 DEF IniInv
  <1>4. /\ meant' \in [Paths -> SectionMaps \cup {None}]
        /\ meant'[path] = None
        /\ \A other \in Paths : other # path => meant'[other] = meant[other]
    BY <1>2 DEF IniInv
  <1>5. SavedIsRead'
    <2>1. \A other \in Paths : IsReadAgain(files[other], meant[other])
      BY SavedIs DEF IniInv
    <2>2. \A other \in Paths : IsReadAgain(files'[other], meant'[other])
      <3>. SUFFICES ASSUME NEW other \in Paths
                    PROVE  IsReadAgain(files'[other], meant'[other])
        OBVIOUS
      <3>1. CASE other = path
        BY <1>4, <3>1 DEF IsReadAgain
      <3>2. CASE other # path
        BY <1>3, <1>4, <2>1, <3>2
      <3>. QED BY <3>1, <3>2
    <2>. QED BY <2>2, SavedIsNext
  <1>6. running' # None =>
          /\ m_filepath' \in Paths
          /\ running' = RunsAs(m_mSections')
          /\ meant'[m_filepath'] # None /\ IsPlain(meant'[m_filepath'])
               => m_mSections' = meant'[m_filepath']
    <2>1. /\ m_filepath' = m_filepath /\ m_mSections' = m_mSections /\ running' = running
      BY <1>2 DEF memory
    <2>2. m_filepath \in Paths => meant'[m_filepath] \in {None, meant[m_filepath]}
      BY <1>4
    <2>. QED BY <2>1, <2>2 DEF IniInv
  <1>. QED BY <1>2, <1>3, <1>4, <1>5, <1>6 DEF IniInv, memory

(* Every step keeps the invariant.                                         *)
LEMMA InvariantNext == IniInv /\ [Next]_vars => IniInv'
  <1>. SUFFICES ASSUME IniInv, [Next]_vars
                PROVE  IniInv'
    OBVIOUS
  <1>1. ASSUME NEW name \in Names, NEW key \in Keys, DeleteKey(name, key)
        PROVE  IniInv'
    BY <1>1, DeleteKeyKeepsInvariant
  <1>2. ASSUME NEW name \in Names, NEW key \in Keys, NEW value \in Values, Set(name, key, value)
        PROVE  IniInv'
    BY <1>2, SetKeepsInvariant
  <1>3. ASSUME NEW name \in Names, DeleteSection(name)
        PROVE  IniInv'
    BY <1>3, DeleteSectionKeepsInvariant
  <1>4. ASSUME NEW path \in Paths, Read(path)
        PROVE  IniInv'
    BY <1>4, ReadKeepsInvariant
  <1>5. ASSUME NEW path \in Paths, Write(path)
        PROVE  IniInv'
    BY <1>5, WriteKeepsInvariant
  <1>6. ASSUME NEW path \in Paths, Start(path)
        PROVE  IniInv'
    BY <1>6, StartKeepsInvariant
  <1>7. ASSUME NEW path \in Paths, Edit(path)
        PROVE  IniInv'
    BY <1>7, EditKeepsInvariant
  <1>8. CASE ReRead
    BY <1>4, <1>8 DEF ReRead, IniInv
  <1>9. CASE WriteAgain
    BY <1>5, <1>9 DEF WriteAgain, IniInv
  <1>10. CASE Exit
    BY <1>10, ExitKeepsInvariant
  <1>11. CASE UNCHANGED vars
    <2>1. UNCHANGED <<m_filepath, m_mSections, expected, files, running, meant>>
      BY <1>11 DEF vars, memory
    <2>2. SavedIsRead'
      BY <2>1, SavedIs, SavedIsNext DEF IniInv
    <2>. QED BY <2>1, <2>2 DEF IniInv
  <1>. QED BY <1>1, <1>2, <1>3, <1>4, <1>5, <1>6, <1>7, <1>8, <1>9, <1>10, <1>11 DEF Next

(* The sections are finite maps filed under folded spellings that hold     *)
(* exactly what the calls and the text read give them, whatever was saved  *)
(* in full is read again, and a daemon runs as what it read says.          *)
THEOREM IniInvariant == Spec => []IniInv
  <1>. QED BY InvariantInit, InvariantNext, PTL DEF Spec

-----------------------------------------------------------------------------
(* What the invariant says.                                                *)

(* Lookup, entry by entry.                                                 *)
LEMMA LookupIs ==
  ASSUME NEW sections \in SectionMaps, NEW name, NEW key, NEW default
  PROVE  Lookup(sections, name, key, default) =
           IF Has(sections, Fold(name), Fold(key))
           THEN ValueIn(sections, Fold(name), Fold(key)) ELSE default
  BY Zenon DEF Lookup, Has, ValueIn

(* A value is a phrase.                                                    *)
LEMMA ValueType ==
  ASSUME NEW sections \in SectionMaps, NEW n, NEW k, Has(sections, n, k)
  PROVE  ValueIn(sections, n, k) \in Phrases
  <1>1. sections[n].data \in DataMaps
    BY SectionMap DEF Has, SectionRecords
  <1>2. sections[n].data[k] \in EntryRecords
    BY <1>1, DataMap DEF Has
  <1>. QED BY <1>2 DEF EntryRecords, ValueIn

(* Whatever a value says, GetLong gives a number.                          *)
LEMMA GetLongType ==
  ASSUME NEW sections, NEW name, NEW key, NEW default \in Int
  PROVE  GetLong(sections, name, key, default) \in Int
  <1>. DEFINE value == Lookup(sections, name, key, <<>>)
  <1>1. GetLong(sections, name, key, default) =
          IF value # <<>> /\ value[1] \in DOMAIN NumberOf THEN NumberOf[value[1]] ELSE default
    BY DEF GetLong
  <1>. HIDE DEF value
  <1>2. \A word \in DOMAIN NumberOf : NumberOf[word] \in Int
    BY IniAssumption
  <1>. QED BY <1>1, <1>2

(* Whatever the file says, the daemon runs with options of the types main  *)
(* converts them to.                                                       *)
LEMMA OptionsType ==
  ASSUME NEW sections \in SectionMaps
  PROVE  Options(sections) \in OptionRecords
  <1>. DEFINE address == Lookup(sections, <<"ptp">>, <<"address">>, <<"0.0.0.0">>)
              domain == GetLong(sections, <<"ptp">>, <<"domain">>, 0)
              mode == GetLong(sections, <<"ptp">>, <<"mode">>, 0)
              hwc == GetLong(sections, <<"ptp">>, <<"hwc">>, -1)
  <1>1. address \in Phrases
    <2>1. <<"0.0.0.0">> \in Phrases
      BY IniAssumption DEF Phrases, Tokens
    <2>. QED BY <2>1, LookupIs, ValueType
  <1>2. domain \in Int /\ mode \in Int /\ hwc \in Int
    <2>1. -1 \in Int /\ 0 \in Int
      OBVIOUS
    <2>. QED BY <2>1, GetLongType
  <1>3. Options(sections) = [address |-> address, nDomain |-> domain % 256,
                             mode |-> mode, nHwC |-> hwc]
    BY DEF Options
  <1>. HIDE DEF address, domain, mode, hwc
  <1>4. domain % 256 \in 0 .. 255
    BY <1>2
  <1>. QED BY <1>1, <1>2, <1>3, <1>4 DEF OptionRecords

(* The names main asks for are folded already.                             *)
LEMMA FoldedPtp ==
  \A word \in {"ptp", "interface", "domain"} : Fold(<<word>>) = <<word>>
  <1>. SUFFICES ASSUME NEW word \in {"ptp", "interface", "domain"}
                PROVE  Fold(<<word>>) = <<word>>
    OBVIOUS
  <1>1. word \notin DOMAIN Lower
    BY IniAssumption
  <1>2. DOMAIN <<word>> = 1 .. 1 /\ <<word>>[1] = word
    OBVIOUS
  <1>3. Fold(<<word>>) = [i \in 1 .. 1 |-> word]
    <2>1. \A i \in 1 .. 1 : <<word>>[i] = word
      BY <1>2
    <2>. QED BY <1>1, <1>2, <2>1 DEF Fold
  <1>4. [i \in 1 .. 1 |-> word] = <<word>>
    OBVIOUS
  <1>. QED BY <1>3, <1>4

(* Every section and entry stays filed under its folded spelling, and a    *)
(* domain the daemon runs in is one octet (inimanager.cpp:73-149,          *)
(* main.cpp:49-56).                                                        *)
THEOREM IniTypeCorrect == Spec => []TypeOK
  <1>1. IniInv => TypeOK
    <2>. SUFFICES ASSUME IniInv
                  PROVE  TypeOK
      OBVIOUS
    <2>1. ASSUME NEW n \in DOMAIN m_mSections
          PROVE  /\ n = Fold(m_mSections[n].name)
                 /\ \A k \in DOMAIN m_mSections[n].data : k = Fold(m_mSections[n].data[k].key)
      <3>1. m_mSections[n] \in SectionRecords /\ n = Fold(m_mSections[n].name)
        BY SectionMap DEF IniInv
      <3>2. m_mSections[n].data \in DataMaps
        BY <3>1 DEF SectionRecords
      <3>. QED BY <3>1, <3>2, DataMap
    <2>2. running \notin {None, Waits} => running.nDomain \in 0 .. 255
      <3>. SUFFICES ASSUME running \notin {None, Waits}
                    PROVE  running.nDomain \in 0 .. 255
        OBVIOUS
      <3>1. running = Options(m_mSections)
        BY DEF IniInv, RunsAs
      <3>. QED BY <3>1, OptionsType DEF IniInv, OptionRecords
    <2>. QED BY <2>1, <2>2 DEF IniInv, TypeOK
  <1>. QED BY <1>1, IniInvariant, PTL

(* Whatever the spelling, a lookup finds the value the calls and the file  *)
(* last gave to an entry, and the caller's default if there is none, in    *)
(* texts and for names, keys and values of any length.                     *)
THEOREM LastValueAlwaysWins == Spec => []LastValueWins
  <1>1. IniInv => LastValueWins
    <2>. SUFFICES ASSUME IniInv, NEW name \in Names, NEW key \in Keys
                  PROVE  Lookup(m_mSections, name, key, None) =
                           IF <<Fold(name), Fold(key)>> \in DOMAIN expected
                           THEN expected[<<Fold(name), Fold(key)>>] ELSE None
      BY Zenon DEF LastValueWins
    <2>. DEFINE n == Fold(name)
                k == Fold(key)
    <2>1. /\ \A entry : entry \in DOMAIN expected
                <=> \E n1, k1 : entry = <<n1, k1>> /\ Has(m_mSections, n1, k1)
          /\ \A n1, k1 : Has(m_mSections, n1, k1)
                => expected[<<n1, k1>>] = ValueIn(m_mSections, n1, k1)
      BY AgreeIs DEF IniInv
    <2>2. Lookup(m_mSections, name, key, None)
            = IF Has(m_mSections, n, k) THEN ValueIn(m_mSections, n, k) ELSE None
      BY LookupIs DEF IniInv
    <2>. HIDE DEF n, k
    <2>3. <<n, k>> \in DOMAIN expected <=> Has(m_mSections, n, k)
      BY <2>1
    <2>4. Lookup(m_mSections, name, key, None)
            = IF <<n, k>> \in DOMAIN expected THEN expected[<<n, k>>] ELSE None
      BY <2>1, <2>2, <2>3
    <2>. QED BY <2>4 DEF n, k
  <1>. QED BY <1>1, IniInvariant, PTL

(* Sections none of whose names, keys and values holds a mark are read     *)
(* again as they were saved, whatever they are and in whatever order they  *)
(* were written.                                                           *)
THEOREM SavedIsAlwaysRead == Spec => []SavedIsRead
  <1>1. IniInv => SavedIsRead
    BY DEF IniInv
  <1>. QED BY <1>1, IniInvariant, PTL

(* A daemon that found what was saved runs in the domain that was saved,   *)
(* and waits if an interface was (main.cpp:49-56).                         *)
THEOREM DaemonAlwaysRunsAsSaved == Spec => []DaemonRunsAsSaved
  <1>1. IniInv => DaemonRunsAsSaved
    <2>. SUFFICES ASSUME IniInv, running # None, meant[m_filepath] # None,
                         IsPlain(meant[m_filepath]),
                         NEW n \in DOMAIN meant[m_filepath], n = <<"ptp">>
                  PROVE  LET data == meant[m_filepath][n].data
                             Named(key) == {k \in DOMAIN data : k = <<key>> /\ data[k].value # <<>>}
                         IN  /\ running = Waits <=> Named("interface") # {}
                             /\ running # Waits =>
                                  \A k \in Named("domain") :
                                    LET word == data[k].value[1]
                                    IN  word \in DOMAIN NumberOf /\ NumberOf[word] \in 0 .. 255
                                          => running.nDomain = NumberOf[word]
      BY Zenon DEF DaemonRunsAsSaved
    <2>. DEFINE sections == m_mSections
                data == meant[m_filepath][n].data
                interface == Lookup(sections, <<"ptp">>, <<"interface">>, <<>>)
                domain == Lookup(sections, <<"ptp">>, <<"domain">>, <<>>)
    <2>1. /\ sections \in SectionMaps /\ sections = meant[m_filepath]
          /\ running = IF interface # <<>> THEN Waits ELSE Options(sections)
      BY DEF IniInv, RunsAs
    <2>2. /\ Fold(<<"ptp">>) = n /\ Fold(<<"interface">>) = <<"interface">>
          /\ Fold(<<"domain">>) = <<"domain">>
      BY FoldedPtp
    <2>3. /\ interface = IF <<"interface">> \in DOMAIN data THEN data[<<"interface">>].value
                         ELSE <<>>
          /\ domain = IF <<"domain">> \in DOMAIN data THEN data[<<"domain">>].value ELSE <<>>
      BY <2>1, <2>2 DEF Lookup
    <2>4. Options(sections) # Waits
      BY <2>1, OptionsType, IniAssumption
    <2>5. running = Waits <=> interface # <<>>
      BY <2>1, <2>4
    <2>6. ASSUME running # Waits, <<"domain">> \in DOMAIN data,
                 data[<<"domain">>].value # <<>>,
                 data[<<"domain">>].value[1] \in DOMAIN NumberOf,
                 NumberOf[data[<<"domain">>].value[1]] \in 0 .. 255
          PROVE  running.nDomain = NumberOf[data[<<"domain">>].value[1]]
      <3>1. GetLong(sections, <<"ptp">>, <<"domain">>, 0) = NumberOf[data[<<"domain">>].value[1]]
        BY <2>3, <2>6 DEF GetLong
      <3>2. running.nDomain = GetLong(sections, <<"ptp">>, <<"domain">>, 0) % 256
        BY <2>1, <2>6 DEF Options
      <3>3. \A number \in 0 .. 255 : number % 256 = number
        OBVIOUS
      <3>. QED BY <2>6, <3>1, <3>2, <3>3, ZenonT(30)
    <2>. HIDE DEF data, interface, domain, sections
    <2>7. interface # <<>> <=> \E k \in DOMAIN data : k = <<"interface">> /\ data[k].value # <<>>
      BY <2>3
    <2>. QED BY <2>5, <2>6, <2>7 DEF data
  <1>. QED BY <1>1, IniInvariant, PTL
=============================================================================
