-------------------------- MODULE Management_proofs --------------------------
(***************************************************************************)
(* The invariants of Management, for every value of the constants.         *)
(*                                                                         *)
(* The first half is about the messages alone.  Create pushes fields and   *)
(* Read reads them; a layout whose fields suit the contents reads back     *)
(* what it pushed (SuitedComesBack), and every layout in the code is such  *)
(* a layout (AllLayouts, AllWritten).  The header, the TLVs and what is    *)
(* around them are found again where they were put (MessageIs, TlvIs).     *)
(*                                                                         *)
(* The second half is the inductive invariant: Managed, the arguments of   *)
(* the calls; AskedWell, the request on the network is made of them;       *)
(* Understood, what is on its way reads as its sender means it; ToldWell,  *)
(* so does what a handler has been told; ChangesAreReported.               *)
(***************************************************************************)
EXTENDS Management, CommonLemmas

-----------------------------------------------------------------------------
(* What is pushed for a layout, and what is read of it.                    *)

(* A timestamp is ten octets.                                              *)
LEMMA FromSecNanoType ==
  ASSUME NEW time \in Nat
  PROVE  FromSecNano(time) \in Bytes /\ Len(FromSecNano(time)) = 10
  <1>. DEFINE s == time \div Second
              n == time % Second
              a == Octets(s, 6)
              b == Octets(n, 4)
  <1>1. s \in Int /\ n \in Int
    BY StructsAssumption
  <1>. HIDE DEF s, n
  <1>2. a \in Bytes /\ b \in Bytes /\ Len(a) = 6 /\ Len(b) = 4
    BY <1>1, OctetsBytes
  <1>. HIDE DEF a, b
  <1>3. a \o b \in Bytes /\ Len(a \o b) = Len(a) + Len(b)
    BY <1>2, Join
  <1>4. Len(a) + Len(b) = 10
    BY <1>2
  <1>5. FromSecNano(time) = a \o b
    BY DEF FromSecNano, a, b, s, n
  <1>. QED BY <1>3, <1>4, <1>5

(* What CreateMessage pushes for a field are octets, and not too many.     *)
LEMMA EncodeType ==
  ASSUME NEW names, NEW field \in Fields(names), NEW value, Writable(field, value)
  PROVE  Encode(field, value) \in Bytes /\ Len(Encode(field, value)) <= FieldSize
  <1>. DEFINE width == field.width
              Bounded(octets) == octets \in Bytes /\ Len(octets) <= FieldSize
  <1>1. field.kind \in Kinds /\ width \in Nat /\ width <= 128
    BY DEF Fields
  <1>. HIDE DEF width
  <1>2. \A n \in Int : Bounded(Octets(n, width))
    BY <1>1, OctetsBytes DEF FieldSize
  <1>3. CASE field.kind \in NumberKinds
    <2>1. Encode(field, value) = Octets(value, width)
      BY <1>3 DEF Encode, NumberKinds, width
    <2>2. value \in Int
      BY <1>3 DEF Writable
    <2>. QED BY <1>2, <2>1, <2>2
  <1>4. CASE field.kind \in FlagKinds
    <2>1. value \subseteq Weights
      BY <1>4 DEF Writable
    <2>6. 0 \in Int /\ \A w \in Weights : w \in Int
      BY SMT DEF Weights
    <2>2. CASE field.kind = "bits"
      <3>. DEFINE n == FoldSet(+, 0, value)
      <3>1. Encode(field, value) = Octets(n, width)
        BY <2>2 DEF Encode, width
      <3>2. n = WeightSum(value)
        BY <2>1, FlagsAddUp
      <3>. HIDE DEF n
      <3>3. n \in Int
        BY <2>1, <3>2, WeightSumStep
      <3>. QED BY <1>2, <3>1, <3>3
    <2>3. CASE field.kind = "least"
      <3>. DEFINE n == IF value = {} THEN 0 ELSE Min(value)
      <3>1. Encode(field, value) = Octets(n, width)
        BY <2>3 DEF Encode, width
      <3>2. n \in Int
        BY <2>1, <2>6, WeightsRange
      <3>. HIDE DEF n
      <3>. QED BY <1>2, <3>1, <3>2
    <2>4. CASE field.kind = "greatest"
      <3>. DEFINE n == IF value = {} THEN 0 ELSE Max(value)
      <3>1. Encode(field, value) = Octets(n, width)
        BY <2>4 DEF Encode, width
      <3>2. n \in Int
        BY <2>1, <2>6, WeightsRange
      <3>. HIDE DEF n
      <3>. QED BY <1>2, <3>1, <3>2
    <2>5. CASE field.kind = "sixteens"
      <3>. DEFINE n == 16 * Cardinality(value)
      <3>1. Encode(field, value) = Octets(n, width)
        BY <2>5 DEF Encode, width
      <3>2. Cardinality(value) \in Nat
        BY <2>1, WeightsCount
      <3>3. n \in Int
        BY <3>2
      <3>. HIDE DEF n
      <3>. QED BY <1>2, <3>1, <3>3
    <2>. QED BY <1>4, <2>2, <2>3, <2>4, <2>5 DEF FlagKinds
  <1>5. CASE field.kind = "hex"
    <2>1. Encode(field, value) = FromHexStr(value, width)
      BY <1>5 DEF Encode, width
    <2>2. value \in Bytes
      BY <1>5 DEF Writable
    <2>3. FromHexStr(value, width) \in Bytes /\ Len(FromHexStr(value, width)) = width
      BY <1>1, <2>2, FromHexStrType
    <2>. QED BY <1>1, <2>1, <2>3 DEF FieldSize
  <1>. DEFINE Short(text) == text \in Bytes /\ Len(text) <= 255
  <1>6. \A text : Short(text) => Bounded(FromStr(text, width))
    <2>1. ASSUME NEW text, Short(text)
          PROVE  FromStr(text, width) \in Bytes /\ Len(FromStr(text, width)) <= FieldSize
      <3>1. Len(text) \in Nat
        BY <2>1, BytesAre
      <3>2. FromStr(text, width) \in Bytes /\ Len(FromStr(text, width)) = width + Len(text)
        BY <1>1, <2>1, FromStrType
      <3>. QED BY <1>1, <2>1, <3>1, <3>2 DEF FieldSize
    <2>. QED BY <2>1
  <1>7. CASE field.kind \in TextKinds
    <2>1. Encode(field, value) = FromStr(value, width)
      BY <1>7 DEF Encode, TextKinds, width
    <2>2. Short(value)
      BY <1>7 DEF Writable
    <2>. QED BY <1>6, <2>1, <2>2
  <1>8. CASE field.kind = "name+location"
    <2>. DEFINE both == value[1] \o <<Separator>> \o value[2]
                n == Len(both)
                m == Min({MaxDescription, n})
                text == SubSeq(both, 1, m)
    <2>1. Encode(field, value) = FromStr(text, width)
      BY <1>8 DEF Encode, width
    <2>2. both \in Bytes
      <3>. DEFINE s == <<Separator>>
                  v == value[1]
                  w == value[2]
      <3>1. v \in Bytes /\ w \in Bytes
        BY <1>8 DEF Writable
      <3>2. Separator \in Octet
        BY OctetIs DEF Separator
      <3>3. s \in Bytes
        BY <3>2, OneByte
      <3>. HIDE DEF s, v, w
      <3>4. v \o s \in Bytes
        BY <3>1, <3>3, Join
      <3>5. v \o s \o w \in Bytes
        BY <3>1, <3>4, Join
      <3>. QED BY <3>5 DEF s, v, w
    <2>. HIDE DEF both
    <2>3. n \in Nat
      BY <2>2, BytesAre
    <2>. HIDE DEF n
    <2>4. m \in {MaxDescription, n} /\ m <= MaxDescription /\ m <= n
      <3>1. MaxDescription \in Nat /\ MaxDescription <= 255
        BY StructsAssumption
      <3>2. \E x \in {MaxDescription, n} : \A y \in {MaxDescription, n} : x <= y
        BY <2>3, <3>1
      <3>. QED BY <3>2, Zenon DEF Min
    <2>. HIDE DEF m
    <2>5. m \in Nat /\ m <= 255 /\ m <= n
      BY <2>3, <2>4, StructsAssumption
    <2>6. text \in Bytes /\ Len(text) = m
      <3>1. 1 \in Nat \ {0} /\ 1 <= m + 1 /\ m <= Len(both) /\ (m - 1) + 1 = m
        BY <2>5 DEF n
      <3>. DEFINE one == 1
      <3>2. one \in Nat \ {0} /\ one <= m + 1 /\ (m - one) + 1 = m
        BY <3>1
      <3>. HIDE DEF one
      <3>3. SubSeq(both, one, m) \in Bytes /\ Len(SubSeq(both, one, m)) = (m - one) + 1
        BY <2>2, <2>5, <3>1, <3>2, SliceIs
      <3>. QED BY <3>2, <3>3 DEF one
    <2>. HIDE DEF text
    <2>7. Short(text)
      BY <2>5, <2>6
    <2>. QED BY <1>6, <2>1, <2>7
  <1>9. CASE field.kind = "time"
    <2>1. Encode(field, value) = FromSecNano(value)
      BY <1>9 DEF Encode
    <2>2. value \in Nat
      BY <1>9 DEF Writable
    <2>3. FromSecNano(value) \in Bytes /\ Len(FromSecNano(value)) = 10
      BY <2>2, FromSecNanoType
    <2>. QED BY <2>1, <2>3 DEF FieldSize
  <1>. QED BY <1>1, <1>3, <1>4, <1>5, <1>7, <1>8, <1>9 DEF Kinds

Encoded(layout, contents) ==
  [i \in DOMAIN layout |-> Encode(layout[i], contents[layout[i].name])]

(* What CreateMessage pushes for each field is a sequence of octets of a   *)
(* bounded length.                                                         *)
LEMMA EncodedType ==
  ASSUME NEW names, NEW layout \in Seq(Fields(names)), NEW contents, CanWrite(layout, contents)
  PROVE  /\ Encoded(layout, contents) \in Seq(Bytes)
         /\ Len(Encoded(layout, contents)) = Len(layout)
         /\ \A i \in 1 .. Len(layout) :
              /\ Encoded(layout, contents)[i] = Encode(layout[i], contents[layout[i].name])
              /\ Encoded(layout, contents)[i] \in Bytes
              /\ Len(Encoded(layout, contents)[i]) <= FieldSize
  <1>. DEFINE n == Len(layout)
              part(i) == Encode(layout[i], contents[layout[i].name])
  <1>1. n \in Nat /\ DOMAIN layout = 1 .. n
    BY LenProperties
  <1>2. ASSUME NEW i \in 1 .. n
        PROVE  part(i) \in Bytes /\ Len(part(i)) <= FieldSize
    <2>. DEFINE field == layout[i]
                value == contents[layout[i].name]
    <2>1. field \in Fields(names)
      BY ElementOfSeq
    <2>2. Writable(field, value)
      BY DEF CanWrite
    <2>. HIDE DEF field, value
    <2>3. Encode(field, value) \in Bytes /\ Len(Encode(field, value)) <= FieldSize
      BY <2>1, <2>2, EncodeType
    <2>. QED BY <2>3 DEF field, value
  <1>3. Encoded(layout, contents) = [i \in 1 .. n |-> part(i)]
    BY <1>1 DEF Encoded
  <1>. HIDE DEF n, part
  <1>4. Encoded(layout, contents) \in Seq(Bytes) /\ Len(Encoded(layout, contents)) = n
    BY <1>1, <1>2, <1>3
  <1>5. \A i \in 1 .. n : Encoded(layout, contents)[i] = part(i)
    BY <1>3
  <1>. QED BY <1>2, <1>4, <1>5 DEF part, n

(* CreateMessage pushes what it makes of the fields one after the other.   *)
LEMMA CreateIs ==
  ASSUME NEW layout, NEW contents
  PROVE  Create(layout, contents) = FlattenSeq(Encoded(layout, contents))
  BY DEF Create, Encoded

(* A message is pushed field by field, and the fields before it come first.*)
LEMMA CreateJoin ==
  ASSUME NEW names, NEW contents, NEW a, CanPush(names, a, contents),
         NEW b, CanPush(names, b, contents)
  PROVE  /\ Create(a \o b, contents) = Then(Create(a, contents), Create(b, contents))
         /\ Create(a, contents) \in Bytes /\ Create(b, contents) \in Bytes
         /\ CanPush(names, a \o b, contents)
  <1>. DEFINE S == Fields(names)
              m == Len(a)
              n == Len(b)
              ab == a \o b
              ea == Encoded(a, contents)
              eb == Encoded(b, contents)
              eab == Encoded(ab, contents)
  <1>10. /\ a \in Seq(Fields(names)) /\ b \in Seq(Fields(names))
         /\ CanWrite(a, contents) /\ CanWrite(b, contents)
    BY DEF CanPush
  <1>1. m \in Nat /\ n \in Nat
    BY <1>10
  <1>2. /\ ab \in Seq(S) /\ Len(ab) = m + n
        /\ \A i \in 1 .. m + n : ab[i] = IF i <= m THEN a[i] ELSE b[i - m]
    <2>. HIDE DEF S
    <2>1. a \in Seq(S) /\ b \in Seq(S)
      BY <1>10 DEF S
    <2>. QED BY <2>1, ConcatProperties
  <1>. HIDE DEF ab
  <1>3. CanWrite(ab, contents)
    <2>1. \A i \in 1 .. m + n : IF i <= m THEN i \in 1 .. m ELSE i - m \in 1 .. n
      BY <1>1
    <2>2. ASSUME NEW i \in 1 .. m + n
          PROVE  Writable(ab[i], contents[ab[i].name])
      <3>1. CASE i <= m
        <4>1. ab[i] = a[i] /\ i \in 1 .. m
          BY <1>2, <2>1, <3>1
        <4>. QED BY <1>10, <4>1 DEF CanWrite
      <3>2. CASE ~(i <= m)
        <4>1. ab[i] = b[i - m] /\ i - m \in 1 .. n
          BY <1>2, <2>1, <3>2
        <4>. QED BY <1>10, <4>1 DEF CanWrite
      <3>. QED BY <3>1, <3>2
    <2>. HIDE DEF m, n
    <2>. QED BY <1>2, <2>2 DEF CanWrite
  <1>4. /\ ea \in Seq(Bytes) /\ Len(ea) = m
        /\ \A i \in 1 .. m : ea[i] = Encode(a[i], contents[a[i].name])
    BY <1>10, EncodedType
  <1>5. /\ eb \in Seq(Bytes) /\ Len(eb) = n
        /\ \A i \in 1 .. n : eb[i] = Encode(b[i], contents[b[i].name])
    BY <1>10, EncodedType
  <1>6. /\ eab \in Seq(Bytes) /\ Len(eab) = m + n
        /\ \A i \in 1 .. m + n : eab[i] = Encode(ab[i], contents[ab[i].name])
    <2>1. /\ eab \in Seq(Bytes) /\ Len(eab) = Len(ab)
          /\ \A i \in 1 .. Len(ab) : eab[i] = Encode(ab[i], contents[ab[i].name])
      BY <1>2, <1>3, EncodedType
    <2>. HIDE DEF eab
    <2>. QED BY <1>2, <2>1
  <1>. HIDE DEF ea, eb, eab, m, n, S
  <1>7. eab = ea \o eb
    <2>. DEFINE both == ea \o eb
    <2>1. /\ both \in Seq(Bytes) /\ Len(both) = m + n
          /\ \A i \in 1 .. m + n : both[i] = IF i <= m THEN ea[i] ELSE eb[i - m]
      BY <1>4, <1>5, ConcatProperties
    <2>. HIDE DEF both
    <2>2. \A i \in 1 .. m + n : IF i <= m THEN i \in 1 .. m ELSE i - m \in 1 .. n
      BY <1>1
    <2>3. ASSUME NEW i \in 1 .. m + n
          PROVE  eab[i] = both[i]
      <3>1. eab[i] = Encode(ab[i], contents[ab[i].name])
        BY <1>6
      <3>2. CASE i <= m
        <4>1. ab[i] = a[i] /\ i \in 1 .. m /\ both[i] = ea[i]
          BY <1>2, <2>1, <2>2, <3>2
        <4>. QED BY <1>4, <3>1, <4>1
      <3>3. CASE ~(i <= m)
        <4>1. ab[i] = b[i - m] /\ i - m \in 1 .. n /\ both[i] = eb[i - m]
          BY <1>2, <2>1, <2>2, <3>3
        <4>. QED BY <1>5, <3>1, <4>1
      <3>. QED BY <3>2, <3>3
    <2>4. eab = both
      BY <1>6, <2>1, <2>3, SeqEqual
    <2>. QED BY <2>4 DEF both
  <1>8. /\ FlattenSeq(ea \o eb) = FlattenSeq(ea) \o FlattenSeq(eb)
        /\ FlattenSeq(ea) \in Bytes /\ FlattenSeq(eb) \in Bytes
    BY <1>4, <1>5, FlattenConcat DEF Bytes
  <1>9. /\ Create(ab, contents) = FlattenSeq(eab) /\ Create(a, contents) = FlattenSeq(ea)
        /\ Create(b, contents) = FlattenSeq(eb)
    BY CreateIs DEF ea, eb, eab
  <1>. QED BY <1>2, <1>3, <1>7, <1>8, <1>9 DEF ab, S, CanPush, Then

(* A message is a sequence of octets, and not longer than its fields allow.*)
LEMMA CreateType ==
  ASSUME NEW names, NEW layout \in Seq(Fields(names)), NEW contents, CanWrite(layout, contents)
  PROVE  /\ Create(layout, contents) \in Bytes
         /\ Len(Create(layout, contents)) <= FieldSize * Len(layout)
  <1>. DEFINE parts == Encoded(layout, contents)
              n == Len(layout)
  <1>1. /\ parts \in Seq(Bytes) /\ Len(parts) = n /\ n \in Nat
        /\ \A i \in 1 .. n : parts[i] \in Bytes /\ Len(parts[i]) <= FieldSize
    BY EncodedType
  <1>2. Create(layout, contents) = FlattenSeq(parts)
    BY CreateIs
  <1>. HIDE DEF parts, n
  <1>3. PICK flat : IsFlat(flat, parts, Octet)
    BY <1>1, FlatExists DEF Bytes
  <1>4. FlattenSeq(parts) = flat[n]
    BY <1>1, <1>3, FlattenIs DEF Bytes
  <1>5. /\ flat[0] = <<>> /\ \A i \in 0 .. n : flat[i] \in Bytes
        /\ \A i \in 1 .. n : flat[i] = flat[i - 1] \o parts[i]
    BY <1>1, <1>3 DEF IsFlat, Bytes
  <1>. DEFINE Z == {i \in 0 .. n : Len(flat[i]) <= FieldSize * i}
  <1>6. 0 \in Z
    BY <1>1, <1>5, JoinNothing DEF FieldSize
  <1>7. ASSUME NEW i \in 1 .. n, i - 1 \in Z
        PROVE  i \in Z
    <2>. DEFINE before == flat[i - 1]
                part == parts[i]
    <2>1. i - 1 \in 0 .. n /\ i \in 0 .. n /\ i \in Nat
      BY <1>1
    <2>2. before \in Bytes /\ part \in Bytes /\ flat[i] = before \o part
      BY <1>1, <1>5, <2>1
    <2>3. Len(before) <= FieldSize * (i - 1) /\ Len(part) <= FieldSize
      BY <1>1, <1>7
    <2>. HIDE DEF before, part
    <2>4. Len(before \o part) = Len(before) + Len(part)
      BY <2>2, Join
    <2>5. Len(before) \in Nat /\ Len(part) \in Nat
      BY <2>2, BytesAre
    <2>. DEFINE x == Len(before)
                y == Len(part)
    <2>6. x \in Nat /\ y \in Nat /\ x <= FieldSize * (i - 1) /\ y <= FieldSize
      BY <2>3, <2>5
    <2>. HIDE DEF x, y
    <2>7. x + y <= FieldSize * i
      BY <2>1, <2>6 DEF FieldSize
    <2>. QED BY <2>1, <2>2, <2>4, <2>7 DEF x, y
  <1>. HIDE DEF Z
  <1>8. 0 .. n \subseteq Z
    BY <1>1, <1>6, <1>7, InductionUpTo
  <1>9. n \in 0 .. n
    BY <1>1
  <1>10. Len(flat[n]) <= FieldSize * n /\ flat[n] \in Bytes
    BY <1>5, <1>8, <1>9 DEF Z
  <1>. QED BY <1>2, <1>4, <1>10 DEF n

(* Octets that are read as a value, wherever they are and whatever follows *)
(* them, if anything does.                                                 *)
Reads(field, own, value) ==
  /\ own \in Bytes
  /\ \A before, after \in Bytes :
       after # <<>> =>
         Decode(field, before \o own \o after, Len(before) + 1)
           = [value |-> value, next |-> Len(before) + Len(own) + 1]

ReadStep(field, octets, before) ==
  LET decoded == Decode(field, octets, before.next)
  IN  [next     |-> decoded.next,
       contents |-> [name \in {field.name} \cup DOMAIN before.contents |->
                       IF name = field.name THEN decoded.value ELSE before.contents[name]]]

(* The constructor that has read some fields of what was pushed reads the  *)
(* next, as long as something follows.                                     *)
LEMMA ReadGoesOn ==
  ASSUME NEW names, NEW n, NEW layout, IsLayout(layout, names, n),
         NEW parts \in Seq(Bytes), Len(parts) = n,
         NEW flat, IsFlat(flat, parts, Octet),
         NEW values, NEW i \in 1 .. n, Reads(layout[i], parts[i], values[layout[i].name]),
         NEW after \in Bytes, after # <<>>
  PROVE  ReadStep(layout[i], flat[i] \o after, Upto(layout, flat, values, i - 1))
           = Upto(layout, flat, values, i)
  <1>. DEFINE field == layout[i]
              own == parts[i]
              before == flat[i - 1]
              octets == flat[i] \o after
              value == values[layout[i].name]
              done == Upto(layout, flat, values, i - 1)
              name == layout[i].name
              read == {layout[j].name : j \in 1 .. i - 1}
  <1>1. n \in Nat /\ i - 1 \in 0 .. n /\ i \in 0 .. n
    BY DEF IsLayout
  <1>2. before \in Bytes /\ own \in Bytes /\ flat[i] = before \o own
    BY <1>1 DEF IsFlat, Bytes, Reads
  <1>3. Len(flat[i]) = Len(before) + Len(own)
    <2>. HIDE DEF before, own
    <2>1. Len(before \o own) = Len(before) + Len(own)
      BY <1>2, Join
    <2>. QED BY <1>2, <2>1
  <1>4. octets = before \o own \o after
    BY <1>2
  <1>5. done.next = Len(before) + 1 /\ done.contents = [x \in read |-> values[x]]
    BY DEF Upto
  <1>6. Decode(field, octets, done.next) = [value |-> value, next |-> Len(flat[i]) + 1]
    <2>. HIDE DEF before, own, octets, done, field, value
    <2>1. Decode(field, before \o own \o after, Len(before) + 1)
            = [value |-> value, next |-> Len(before) + Len(own) + 1]
      <3>1. Reads(field, own, value)
        BY DEF field, own, value
      <3>. QED BY <1>2, <3>1 DEF Reads
    <2>. QED BY <1>3, <1>4, <1>5, <2>1
  <1>7. {layout[j].name : j \in 1 .. i} = {name} \cup read
    <2>1. \A j : j \in 1 .. i <=> j = i \/ j \in 1 .. i - 1
      BY <1>1
    <2>. QED BY <2>1
  <1>. DEFINE old == [x \in read |-> values[x]]
              new == [x \in {name} \cup read |-> values[x]]
              made == [x \in {name} \cup DOMAIN done.contents |->
                         IF x = name THEN value ELSE done.contents[x]]
  <1>8. made = new
    <2>1. DOMAIN done.contents = read
      BY <1>5
    <2>2. \A x \in {name} \cup read :
            (IF x = name THEN value ELSE done.contents[x]) = values[x]
      BY <1>5
    <2>. HIDE DEF done, read, name, value
    <2>. QED BY <2>1, <2>2
  <1>9. ReadStep(field, octets, done) = [next |-> Len(flat[i]) + 1, contents |-> made]
    <2>. HIDE DEF octets, done, value
    <2>. QED BY <1>6 DEF ReadStep
  <1>10. Upto(layout, flat, values, i) = [next |-> Len(flat[i]) + 1, contents |-> new]
    BY <1>7 DEF Upto
  <1>. QED BY <1>8, <1>9, <1>10

(* The constructor reads every field of a message as it is read alone.     *)
LEMMA ReadBack ==
  ASSUME NEW names, NEW n, NEW layout, IsLayout(layout, names, n),
         NEW parts \in Seq(Bytes), Len(parts) = n, NEW values,
         \A i \in 1 .. n : Reads(layout[i], parts[i], values[layout[i].name]),
         NEW rest \in Bytes, rest # <<>>
  PROVE  Read(layout, FlattenSeq(parts) \o rest) = [name \in names |-> values[name]]
  <1>1. n \in Nat /\ Len(layout) = n
    BY DEF IsLayout
  <1>2. PICK flat : IsFlat(flat, parts, Octet)
    BY FlatExists DEF Bytes
  <1>. DEFINE octets == FlattenSeq(parts) \o rest
              Fixed(f) == f = [i \in 0 .. n |->
                                 IF i = 0 THEN [next |-> 1, contents |-> <<>>]
                                 ELSE ReadStep(layout[i], octets, f[i - 1])]
              at == CHOOSE f : Fixed(f)
              upto == [i \in 0 .. n |-> Upto(layout, flat, values, i)]
  <1>3. Read(layout, octets) = at[n].contents
    BY <1>1, Zenon DEF Read, ReadStep
  <1>4. octets = flat[n] \o rest
    BY <1>2, FlattenIs DEF Bytes
  <1>5. ASSUME NEW i \in 1 .. n
        PROVE  ReadStep(layout[i], octets, Upto(layout, flat, values, i - 1))
                 = Upto(layout, flat, values, i)
    <2>1. i \in 0 .. n
      BY <1>1
    <2>2. Follows(flat, n, rest, i)
      BY <1>1, <1>2, <2>1, SomethingFollows
    <2>3. PICK after \in Bytes : after # <<>> /\ octets = flat[i] \o after
      BY <1>4, <2>2 DEF Follows
    <2>4. ReadStep(layout[i], flat[i] \o after, Upto(layout, flat, values, i - 1))
            = Upto(layout, flat, values, i)
      BY <1>2, <2>3, ReadGoesOn
    <2>. QED BY <2>3, <2>4
  <1>. HIDE DEF octets
  <1>6. Upto(layout, flat, values, 0) = [next |-> 1, contents |-> <<>>]
    <2>1. flat[0] = <<>>
      BY <1>2 DEF IsFlat
    <2>. QED BY <2>1, ReadStarts
  <1>7. /\ upto[0] = [next |-> 1, contents |-> <<>>]
        /\ \A i \in 1 .. n : upto[i] = ReadStep(layout[i], octets, upto[i - 1])
    <2>1. upto[0] = Upto(layout, flat, values, 0)
      BY <1>1
    <2>2. \A i \in 1 .. n : /\ upto[i] = Upto(layout, flat, values, i)
                            /\ upto[i - 1] = Upto(layout, flat, values, i - 1)
      BY <1>1
    <2>. HIDE DEF upto
    <2>. QED BY <1>5, <1>6, <2>1, <2>2
  <1>8. Fixed(at)
    <2>1. upto = [i \in 0 .. n |-> upto[i]]
      OBVIOUS
    <2>. HIDE DEF upto
    <2>2. \A i \in 0 .. n : upto[i] = IF i = 0 THEN [next |-> 1, contents |-> <<>>]
                                      ELSE ReadStep(layout[i], octets, upto[i - 1])
      BY <1>1, <1>7
    <2>3. Fixed(upto)
      BY <2>1, <2>2, Zenon
    <2>. HIDE DEF Fixed
    <2>. QED BY <2>3, Zenon
  <1>. HIDE DEF at
  <1>9. /\ at[0] = [next |-> 1, contents |-> <<>>]
        /\ \A i \in 1 .. n : at[i] = ReadStep(layout[i], octets, at[i - 1])
    BY <1>1, <1>8
  <1>. HIDE DEF Fixed, upto
  <1>. DEFINE Z == {i \in 0 .. n : at[i] = upto[i]}
  <1>10. 0 \in Z
    BY <1>1, <1>7, <1>9
  <1>11. ASSUME NEW i \in 1 .. n, i - 1 \in Z
         PROVE  i \in Z
    <2>1. at[i - 1] = upto[i - 1] /\ i \in 0 .. n
      BY <1>1, <1>11
    <2>. QED BY <1>7, <1>9, <2>1
  <1>. HIDE DEF Z
  <1>12. 0 .. n \subseteq Z
    BY <1>1, <1>10, <1>11, InductionUpTo
  <1>13. at[n] = upto[n]
    BY <1>1, <1>12 DEF Z
  <1>14. upto[n] = Upto(layout, flat, values, n)
    BY <1>1 DEF upto
  <1>15. {layout[j].name : j \in 1 .. n} = names
    <2>1. \A j \in 1 .. n : layout[j].name \in names
      <3>1. \A j \in 1 .. n : layout[j] \in Fields(names)
        <4>1. layout \in Seq(Fields(names))
          BY DEF IsLayout
        <4>. QED BY <1>1, <4>1, ElementOfSeq
      <3>. QED BY <3>1 DEF Fields
    <2>2. \A name \in names : \E j \in 1 .. n : layout[j].name = name
      BY DEF IsLayout
    <2>. QED BY <2>1, <2>2
  <1>16. upto[n].contents = [name \in names |-> values[name]]
    BY <1>14, <1>15 DEF Upto
  <1>. QED BY <1>3, <1>13, <1>16 DEF octets

-----------------------------------------------------------------------------
(* The layouts of all messages.                                            *)

(* The weights of the flags of each field.                                 *)
LEMMA WeightsAre ==
  /\ AllFlags \subseteq Weights /\ \A w \in AllFlags : w < 256
  /\ {16, 32} \subseteq Weights /\ {8} \subseteq Weights /\ {1, 2} \subseteq Weights
  /\ {32768, 16384, 8192, 4096, 2048} \subseteq Weights
  <1>1. AllFlags = {1, 2, 4, 8, 16, 32}
    BY SMT DEF AllFlags, enumFlags
  <1>. QED BY <1>1, SMT DEF Weights

(* The messages.                                                           *)
LEMMA HeaderLaid ==
  /\ Laid(ptpV2Header) /\ Received(ptpV2Header) /\ SizeOf(ptpV2Header) = 13
  /\ NamesOf(ptpV2Header) =
       {"nType", "nVersion", "nMessageLength", "nDomain", "reserved1",
        "nFlags", "nCorrection", "reserved2", "nSourceId", "nSourcePort",
        "nSequenceId", "nControl", "nInterval"}
  <1>. DEFINE a == Field("nType", "nibble", 1) \o Field("nVersion", "nibble", 1)
                     \o U("nMessageLength", 2) \o U("nDomain", 1)
              b == a \o Hex("reserved1", 1) \o U("nFlags", 2)
                     \o Hex("nCorrection", 8)
              c == b \o Hex("reserved2", 4) \o Pid("nSourceId", "nSourcePort")
                     \o U("nSequenceId", 2)
              d == c \o U("nControl", 1) \o I("nInterval", 1)
              A == {"nType", "nVersion", "nMessageLength", "nDomain"}
              B == A \cup {"reserved1", "nFlags", "nCorrection"}
              C == B \cup {"reserved2", "nSourceId", "nSourcePort", "nSequenceId"}
              D == C \cup {"nControl", "nInterval"}
  <1>1. Laid(a) /\ Received(a) /\ SizeOf(a) = 4 /\ NamesOf(a) = A
    BY LaidNibble, LaidU, LaidJoin4 DEF Widths, IsOne
  <1>. HIDE DEF a
  <1>2. Laid(b) /\ Received(b) /\ SizeOf(b) = 7 /\ NamesOf(b) = B
    BY <1>1, LaidHex, LaidU, LaidJoin4 DEF Widths, IsOne
  <1>. HIDE DEF b
  <1>3. Laid(c) /\ Received(c) /\ SizeOf(c) = 11 /\ NamesOf(c) = C
    BY <1>2, LaidHex, LaidPid, LaidU, LaidJoin4 DEF Widths, IsOne
  <1>. HIDE DEF c
  <1>4. Laid(d) /\ Received(d) /\ SizeOf(d) = 13 /\ NamesOf(d) = D
    BY <1>3, LaidU, LaidI, LaidJoin3 DEF Widths, IsOne
  <1>5. ptpV2Header = d
    BY DEF ptpV2Header, a, b, c
  <1>. HIDE DEF d
  <1>. QED BY <1>4, <1>5

(* The layout of a timestamp, of a Sync and a delay request.               *)
LEMMA PayloadLaid ==
  /\ Laid(ptpV2Payload) /\ Received(ptpV2Payload) /\ SizeOf(ptpV2Payload) = 1
  /\ NamesOf(ptpV2Payload) = {"originTime"}
  <1>1. ptpV2Payload = Field("originTime", "time", 10)
    BY DEF ptpV2Payload
  <1>. QED BY <1>1, LaidTime DEF IsOne, Widths

(* The layout of a delay response.                                         *)
LEMMA DelayResponseLaid ==
  /\ Laid(ptpDelayResponse) /\ Received(ptpDelayResponse) /\ SizeOf(ptpDelayResponse) = 3
  /\ NamesOf(ptpDelayResponse) = {"originTime", "nRequestId", "nRequestPort"}
  <1>. DEFINE a == ptpV2Payload \o Pid("nRequestId", "nRequestPort")
              A == {"originTime", "nRequestId", "nRequestPort"}
  <1>1. Laid(a) /\ Received(a) /\ SizeOf(a) = 3 /\ NamesOf(a) = A
    BY PayloadLaid, LaidPid, LaidJoin DEF Widths, IsOne
  <1>2. ptpDelayResponse = a
    BY DEF ptpDelayResponse
  <1>. HIDE DEF a
  <1>. QED BY <1>1, <1>2

(* The layout of an announcement.                                          *)
LEMMA AnnounceLaid ==
  /\ Laid(ptpAnnounce) /\ Received(ptpAnnounce) /\ SizeOf(ptpAnnounce) = 11
  /\ NamesOf(ptpAnnounce) =
       {"originTime", "nUtcOffset", "reserved", "nGrandmasterPriority1",
        "nGrandmasterClass", "eGrandmasterAccuracy", "nGrandmasterVariance",
        "nGrandmasterPriority2", "sGrandmasterClockId", "nStepsRemoved",
        "eTimeSource"}
  <1>. DEFINE a == ptpV2Payload \o U("nUtcOffset", 2) \o Hex("reserved", 1)
                     \o Us(<<"nGrandmasterPriority1", "nGrandmasterClass", "eGrandmasterAccuracy">>, 1)
              b == a \o U("nGrandmasterVariance", 2)
                     \o U("nGrandmasterPriority2", 1)
                     \o Hex("sGrandmasterClockId", 8)
              c == b \o U("nStepsRemoved", 2) \o U("eTimeSource", 1)
              A == {"originTime", "nUtcOffset", "reserved", "nGrandmasterPriority1",
                       "nGrandmasterClass", "eGrandmasterAccuracy"}
              B == A \cup {"nGrandmasterVariance", "nGrandmasterPriority2",
                       "sGrandmasterClockId"}
              C == B \cup {"nStepsRemoved", "eTimeSource"}
  <1>1. Laid(a) /\ Received(a) /\ SizeOf(a) = 6 /\ NamesOf(a) = A
    BY PayloadLaid, LaidU, LaidHex, LaidUs3, LaidJoin4 DEF Widths, IsOne
  <1>. HIDE DEF a
  <1>2. Laid(b) /\ Received(b) /\ SizeOf(b) = 9 /\ NamesOf(b) = B
    BY <1>1, LaidU, LaidHex, LaidJoin4 DEF Widths, IsOne
  <1>. HIDE DEF b
  <1>3. Laid(c) /\ Received(c) /\ SizeOf(c) = 11 /\ NamesOf(c) = C
    BY <1>2, LaidU, LaidJoin3 DEF Widths, IsOne
  <1>4. ptpAnnounce = c
    BY DEF ptpAnnounce, a, b
  <1>. HIDE DEF c
  <1>. QED BY <1>3, <1>4

(* The layout of the fields of a management message ahead of its TLV.      *)
LEMMA MessageFieldsLaid ==
  /\ Laid(MessageFields) /\ Received(MessageFields) /\ SizeOf(MessageFields) = 4
  /\ NamesOf(MessageFields) = {"nStartingBoundaryHops", "nBoundaryHops", "eAction", "reserved"}
  <1>. DEFINE a == Us(<<"nStartingBoundaryHops", "nBoundaryHops">>, 1)
                     \o Field("eAction", "nibble", 1) \o Hex("reserved", 1)
              A == {"nStartingBoundaryHops", "nBoundaryHops", "eAction", "reserved"}
  <1>1. Laid(a) /\ Received(a) /\ SizeOf(a) = 4 /\ NamesOf(a) = A
    BY LaidUs2, LaidNibble, LaidHex, LaidJoin3 DEF Widths, IsOne
  <1>2. MessageFields = a
    BY DEF MessageFields
  <1>. HIDE DEF a
  <1>. QED BY <1>1, <1>2

(* The layout of a management error status.                                *)
LEMMA ErrorStatusLaid ==
  /\ Laid(ErrorStatus) /\ Received(ErrorStatus) /\ SizeOf(ErrorStatus) = 4
  /\ NamesOf(ErrorStatus) = {"eError", "eId", "nReserved", "sError"}
  <1>. DEFINE a == Us(<<"eError", "eId">>, 2) \o U("nReserved", 4)
                     \o Text("sError")
              A == {"eError", "eId", "nReserved", "sError"}
  <1>1. Laid(a) /\ Received(a) /\ SizeOf(a) = 4 /\ NamesOf(a) = A
    BY LaidUs2, LaidU, LaidText, LaidJoin3 DEF Widths, IsOne
  <1>2. ErrorStatus = a
    BY DEF ErrorStatus
  <1>. HIDE DEF a
  <1>. QED BY <1>1, <1>2

(* The data of management messages.                                        *)
LEMMA BasicLaid ==
  /\ Laid(tlvBasic) /\ Received(tlvBasic) /\ SizeOf(tlvBasic) = 2
  /\ NamesOf(tlvBasic) = {"nValue", "nReserved"}
  <1>1. tlvBasic = Us(<<"nValue", "nReserved">>, 1)
    BY DEF tlvBasic
  <1>. QED BY <1>1, LaidUs2 DEF IsOne, Widths

(* The layout of the traceability properties, received as bits only.       *)
LEMMA TraceableLaid ==
  ASSUME NEW kind \in FlagKinds
  PROVE  /\ Laid(tlvTraceable(kind)) /\ SizeOf(tlvTraceable(kind)) = 2
         /\ (kind = "bits" => Received(tlvTraceable(kind)))
         /\ NamesOf(tlvTraceable(kind)) = {"traceable", "nReserved"}
  <1>. DEFINE weights == {16, 32}
              a == Flags("traceable", kind, 1, weights) \o Hex("nReserved", 1)
              A == {"traceable", "nReserved"}
  <1>1. weights \subseteq Weights /\ \A v \in weights : v < 256
    BY WeightsAre, SMT
  <1>. HIDE DEF weights
  <1>2. IsFlags(Flags("traceable", kind, 1, weights), "traceable", kind)
    BY <1>1, LaidFlags DEF FlagKinds
  <1>3. Laid(a) /\ (kind = "bits" => Received(a)) /\ SizeOf(a) = 2 /\ NamesOf(a) = A
    BY <1>2, LaidHex, LaidJoin DEF Widths, IsOne, IsFlags
  <1>4. tlvTraceable(kind) = a
    BY DEF tlvTraceable, weights
  <1>. HIDE DEF a
  <1>. QED BY <1>3, <1>4

(* The layout of the timescale properties.                                 *)
LEMMA TimescaleLaid ==
  /\ Laid(tlvTimescale) /\ Received(tlvTimescale) /\ SizeOf(tlvTimescale) = 2
  /\ NamesOf(tlvTimescale) = {"bPtpTimescale", "nReserved"}
  <1>. DEFINE weights == {8}
              a == Flags("bPtpTimescale", "bits", 1, weights) \o Hex("nReserved", 1)
              A == {"bPtpTimescale", "nReserved"}
  <1>1. weights \subseteq Weights /\ \A v \in weights : v < 256
    BY WeightsAre, SMT
  <1>. HIDE DEF weights
  <1>2. IsFlags(Flags("bPtpTimescale", "bits", 1, weights), "bPtpTimescale", "bits")
    BY <1>1, LaidFlags DEF FlagKinds
  <1>3. Laid(a) /\ Received(a) /\ SizeOf(a) = 2 /\ NamesOf(a) = A
    BY <1>2, LaidHex, LaidJoin DEF Widths, IsOne, IsFlags
  <1>4. tlvTimescale = a
    BY DEF tlvTimescale, weights
  <1>. HIDE DEF a
  <1>. QED BY <1>3, <1>4

(* The layout of the version number.                                       *)
LEMMA VersionLaid ==
  /\ Laid(tlvVersion) /\ Received(tlvVersion) /\ SizeOf(tlvVersion) = 2
  /\ NamesOf(tlvVersion) = {"nValue", "nReserved"}
  <1>. DEFINE a == Field("nValue", "nibble", 1) \o U("nReserved", 1)
              A == {"nValue", "nReserved"}
  <1>1. Laid(a) /\ Received(a) /\ SizeOf(a) = 2 /\ NamesOf(a) = A
    BY LaidNibble, LaidU, LaidJoin DEF Widths, IsOne
  <1>2. tlvVersion = a
    BY DEF tlvVersion
  <1>. HIDE DEF a
  <1>. QED BY <1>1, <1>2

(* The layout of a user description.                                       *)
LEMMA UserDescriptionLaid ==
  /\ Laid(tlvUserDescription) /\ Received(tlvUserDescription) /\ SizeOf(tlvUserDescription) = 1
  /\ NamesOf(tlvUserDescription) = {"sName_sLocation"}
  <1>1. tlvUserDescription = Field("sName_sLocation", "name+location", 1)
    BY DEF tlvUserDescription
  <1>. QED BY <1>1, LaidDescription DEF IsOne, Widths

(* The layout of a clock description, received as bits only.               *)
LEMMA ClockDescriptionLaid ==
  ASSUME NEW kind \in FlagKinds
  PROVE  /\ Laid(tlvClockDescription(kind)) /\ SizeOf(tlvClockDescription(kind)) = 11
         /\ (kind = "bits" => Received(tlvClockDescription(kind)))
         /\ NamesOf(tlvClockDescription(kind)) =
              {"bClock", "sPhysicalLayerProtocol", "sPhysicalAddress", "nProtocol",
               "sAddress", "sManufacturerIdentity", "reserved",
               "sProductDescription", "sRevisionData", "sUserDescription",
               "sProfileIdentity"}
  <1>. DEFINE weights == {32768, 16384, 8192, 4096, 2048}
              a == Flags("bClock", kind, 2, weights)
                     \o Text("sPhysicalLayerProtocol")
                     \o Field("sPhysicalAddress", "counted", 2)
                     \o U("nProtocol", 2)
              b == a \o Field("sAddress", "counted", 2)
                     \o Hex("sManufacturerIdentity", 3) \o Hex("reserved", 1)
              c == b \o Text("sProductDescription") \o Text("sRevisionData")
                     \o Text("sUserDescription")
              d == c \o Hex("sProfileIdentity", 6)
              A == {"bClock", "sPhysicalLayerProtocol", "sPhysicalAddress", "nProtocol"}
              B == A \cup {"sAddress", "sManufacturerIdentity", "reserved"}
              C == B \cup {"sProductDescription", "sRevisionData", "sUserDescription"}
              D == C \cup {"sProfileIdentity"}
  <1>1. weights \subseteq Weights /\ \A v \in weights : 2 = 1 => v < 256
    BY WeightsAre, SMT
  <1>. HIDE DEF weights
  <1>2. IsFlags(Flags("bClock", kind, 2, weights), "bClock", kind)
    BY <1>1, LaidFlags DEF FlagKinds
  <1>3. Laid(a) /\ (kind = "bits" => Received(a)) /\ SizeOf(a) = 4 /\ NamesOf(a) = A
    BY <1>2, LaidText, LaidCounted, LaidU, LaidJoin4 DEF Widths, IsOne, IsFlags
  <1>. HIDE DEF a
  <1>4. Laid(b) /\ (kind = "bits" => Received(b)) /\ SizeOf(b) = 7 /\ NamesOf(b) = B
    BY <1>3, LaidCounted, LaidHex, LaidJoin4 DEF Widths, IsOne
  <1>. HIDE DEF b
  <1>5. Laid(c) /\ (kind = "bits" => Received(c)) /\ SizeOf(c) = 10 /\ NamesOf(c) = C
    BY <1>4, LaidText, LaidJoin4 DEF Widths, IsOne
  <1>. HIDE DEF c
  <1>6. Laid(d) /\ (kind = "bits" => Received(d)) /\ SizeOf(d) = 11 /\ NamesOf(d) = D
    BY <1>5, LaidHex, LaidJoin DEF Widths, IsOne
  <1>7. tlvClockDescription(kind) = d
    BY DEF tlvClockDescription, a, b, c, weights
  <1>. HIDE DEF d
  <1>. QED BY <1>6, <1>7

(* The layout of the clock quality that several TLVs hold.                 *)
LEMMA ClockQualityLaid ==
  /\ Laid(clockQuality) /\ Received(clockQuality) /\ SizeOf(clockQuality) = 3
  /\ NamesOf(clockQuality) = {"nClass", "eAccuracy", "nOffsetScaledLogVariance"}
  <1>. DEFINE a == Us(<<"nClass", "eAccuracy">>, 1)
                     \o U("nOffsetScaledLogVariance", 2)
              A == {"nClass", "eAccuracy", "nOffsetScaledLogVariance"}
  <1>1. Laid(a) /\ Received(a) /\ SizeOf(a) = 3 /\ NamesOf(a) = A
    BY LaidUs2, LaidU, LaidJoin DEF Widths, IsOne
  <1>2. clockQuality = a
    BY DEF clockQuality
  <1>. HIDE DEF a
  <1>. QED BY <1>1, <1>2

(* The layout of the default data set, with the fields it is read with or  *)
(* without.                                                                *)
LEMMA DefaultDataSetLaid ==
  ASSUME NEW more, Laid(more), Received(more),
         NamesOf(more) \subseteq {"nNumberPorts", "nPriority1"},
         NEW k \in 0 .. 2, SizeOf(more) = k
  PROVE  /\ Laid(tlvDefaultDataSet(more)) /\ Received(tlvDefaultDataSet(more))
         /\ SizeOf(tlvDefaultDataSet(more)) = k + 9
  <1>. DEFINE weights == {1, 2}
              flags == Flags("b2Step_bSlaveOnly", "bits", 1, weights)
              one == U("nReserved1", 1)
              a == flags \o one \o more \o clockQuality
              b == a \o U("nPriority2", 1) \o Hex("sClockIdentity", 8)
                     \o Us(<<"nDomain", "nReserved2">>, 1)
              A == {"b2Step_bSlaveOnly", "nReserved1", "nClass", "eAccuracy",
                    "nOffsetScaledLogVariance", "nNumberPorts", "nPriority1"}
  <1>1. weights \subseteq Weights /\ \A v \in weights : v < 256
    BY WeightsAre, SMT
  <1>. HIDE DEF weights
  <1>2. IsFlags(flags, "b2Step_bSlaveOnly", "bits")
    BY <1>1, LaidFlags DEF FlagKinds
  <1>. HIDE DEF flags, one
  <1>3. /\ Laid(flags) /\ Received(flags) /\ SizeOf(flags) = 1
        /\ NamesOf(flags) = {"b2Step_bSlaveOnly"}
    BY <1>2 DEF IsFlags
  <1>4. /\ Laid(a) /\ Received(a) /\ SizeOf(a) = k + 5
        /\ NamesOf(a) \subseteq A
    <2>. DEFINE N == NamesOf(flags) \cup NamesOf(one) \cup NamesOf(more) \cup NamesOf(clockQuality)
    <2>1. Laid(one) /\ Received(one) /\ SizeOf(one) = 1 /\ NamesOf(one) = {"nReserved1"}
      BY LaidU DEF Widths, IsOne, one
    <2>2. /\ Laid(clockQuality) /\ Received(clockQuality) /\ SizeOf(clockQuality) = 3
          /\ NamesOf(clockQuality) = {"nClass", "eAccuracy", "nOffsetScaledLogVariance"}
      BY ClockQualityLaid
    <2>3. /\ NamesOf(flags) \cap NamesOf(one) = {}
          /\ (NamesOf(flags) \cup NamesOf(one)) \cap NamesOf(more) = {}
          /\ (NamesOf(flags) \cup NamesOf(one) \cup NamesOf(more)) \cap NamesOf(clockQuality) = {}
          /\ N \subseteq A
      BY <1>3, <2>1, <2>2
    <2>. HIDE DEF A, N
    <2>4. Laid(a) /\ Received(a) /\ NamesOf(a) = N
      BY <1>3, <2>1, <2>2, <2>3, LaidJoin4 DEF N
    <2>5. SizeOf(a) = SizeOf(flags) + SizeOf(one) + SizeOf(more) + SizeOf(clockQuality)
      BY <1>3, <2>1, <2>2, <2>3, LaidJoin4
    <2>6. SizeOf(flags) + SizeOf(one) + SizeOf(more) + SizeOf(clockQuality) = k + 5
      BY <1>3, <2>1, <2>2
    <2>. HIDE DEF a
    <2>. QED BY <2>3, <2>4, <2>5, <2>6
  <1>. HIDE DEF a
  <1>5. Laid(b) /\ Received(b) /\ SizeOf(b) = k + 9
    <2>. DEFINE p == U("nPriority2", 1)
                q == Hex("sClockIdentity", 8)
                r == Us(<<"nDomain", "nReserved2">>, 1)
    <2>1. /\ Laid(p) /\ Received(p) /\ SizeOf(p) = 1 /\ NamesOf(p) = {"nPriority2"}
          /\ Laid(q) /\ Received(q) /\ SizeOf(q) = 1 /\ NamesOf(q) = {"sClockIdentity"}
          /\ Laid(r) /\ Received(r) /\ SizeOf(r) = 2 /\ NamesOf(r) = {"nDomain", "nReserved2"}
      BY LaidU, LaidHex, LaidUs2 DEF Widths, IsOne
    <2>. HIDE DEF p, q, r
    <2>2. /\ NamesOf(a) \cap NamesOf(p) = {}
          /\ (NamesOf(a) \cup NamesOf(p)) \cap NamesOf(q) = {}
          /\ (NamesOf(a) \cup NamesOf(p) \cup NamesOf(q)) \cap NamesOf(r) = {}
      BY <1>4, <2>1
    <2>3. Laid(b) /\ Received(b) /\ SizeOf(b) = SizeOf(a) + SizeOf(p) + SizeOf(q) + SizeOf(r)
      BY <1>4, <2>1, <2>2, LaidJoin4 DEF p, q, r
    <2>. HIDE DEF b
    <2>. QED BY <1>4, <2>1, <2>3
  <1>6. tlvDefaultDataSet(more) = b
    BY DEF tlvDefaultDataSet, a, one, flags, weights
  <1>. HIDE DEF b
  <1>. QED BY <1>5, <1>6

(* The layout of the current data set.                                     *)
LEMMA CurrentDataSetLaid ==
  /\ Laid(tlvCurrentDataSet) /\ Received(tlvCurrentDataSet) /\ SizeOf(tlvCurrentDataSet) = 5
  /\ NamesOf(tlvCurrentDataSet) =
       {"nStepsRemoved", "offsetFromMaster", "offsetFromMaster.sub",
        "meanPathDelay", "meanPathDelay.sub"}
  <1>. DEFINE a == U("nStepsRemoved", 2)
                     \o SubNano("offsetFromMaster", "offsetFromMaster.sub")
                     \o SubNano("meanPathDelay", "meanPathDelay.sub")
              A == {"nStepsRemoved", "offsetFromMaster", "offsetFromMaster.sub",
                       "meanPathDelay", "meanPathDelay.sub"}
  <1>1. Laid(a) /\ Received(a) /\ SizeOf(a) = 5 /\ NamesOf(a) = A
    BY LaidU, LaidSubNano, LaidJoin3 DEF Widths, IsOne
  <1>2. tlvCurrentDataSet = a
    BY DEF tlvCurrentDataSet
  <1>. HIDE DEF a
  <1>. QED BY <1>1, <1>2

(* The layout of the parent data set.                                      *)
LEMMA ParentDataSetLaid ==
  /\ Laid(tlvParentDataSet) /\ Received(tlvParentDataSet) /\ SizeOf(tlvParentDataSet) = 12
  /\ NamesOf(tlvParentDataSet) =
       {"sParentPortIdentity", "parentPort", "nParentStats", "nReserved",
        "nObservedParentOffsetScaledLogVariance",
        "nObservedParentClockPhaseChangeRate", "nGrandmasterPriority1",
        "nClass", "eAccuracy", "nOffsetScaledLogVariance",
        "nGrandmasterPriority2", "sGrandmasterIdentity"}
  <1>. DEFINE a == Pid("sParentPortIdentity", "parentPort")
                     \o Us(<<"nParentStats", "nReserved">>, 1)
                     \o U("nObservedParentOffsetScaledLogVariance", 2)
                     \o U("nObservedParentClockPhaseChangeRate", 4)
              b == a \o U("nGrandmasterPriority1", 1) \o clockQuality
                     \o U("nGrandmasterPriority2", 1)
              c == b \o Hex("sGrandmasterIdentity", 8)
              A == {"sParentPortIdentity", "parentPort", "nParentStats", "nReserved",
                       "nObservedParentOffsetScaledLogVariance",
                       "nObservedParentClockPhaseChangeRate"}
              B == A \cup {"nGrandmasterPriority1", "nClass", "eAccuracy",
                       "nOffsetScaledLogVariance", "nGrandmasterPriority2"}
              C == B \cup {"sGrandmasterIdentity"}
  <1>1. Laid(a) /\ Received(a) /\ SizeOf(a) = 6 /\ NamesOf(a) = A
    BY LaidPid, LaidUs2, LaidU, LaidJoin4 DEF Widths, IsOne
  <1>. HIDE DEF a
  <1>2. Laid(b) /\ Received(b) /\ SizeOf(b) = 11 /\ NamesOf(b) = B
    BY <1>1, LaidU, ClockQualityLaid, LaidJoin4 DEF Widths, IsOne
  <1>. HIDE DEF b
  <1>3. Laid(c) /\ Received(c) /\ SizeOf(c) = 12 /\ NamesOf(c) = C
    BY <1>2, LaidHex, LaidJoin DEF Widths, IsOne
  <1>4. tlvParentDataSet = c
    BY DEF tlvParentDataSet, a, b
  <1>. HIDE DEF c
  <1>. QED BY <1>3, <1>4

(* The layout of the time properties data set, received as bits only.      *)
LEMMA TimePropertiesLaid ==
  ASSUME NEW kind \in FlagKinds
  PROVE  /\ Laid(tlvTimePropertiesDataSet(kind)) /\ SizeOf(tlvTimePropertiesDataSet(kind)) = 3
         /\ (kind = "bits" => Received(tlvTimePropertiesDataSet(kind)))
         /\ NamesOf(tlvTimePropertiesDataSet(kind)) =
              {"nCurrentUtcOffset", "flags", "eTimeSource"}
  <1>. DEFINE weights == AllFlags
              a == U("nCurrentUtcOffset", 2)
                     \o Flags("flags", kind, 1, weights) \o U("eTimeSource", 1)
              A == {"nCurrentUtcOffset", "flags", "eTimeSource"}
  <1>1. weights \subseteq Weights /\ \A v \in weights : v < 256
    BY WeightsAre, SMT
  <1>. HIDE DEF weights
  <1>2. IsFlags(Flags("flags", kind, 1, weights), "flags", kind)
    BY <1>1, LaidFlags DEF FlagKinds
  <1>3. Laid(a) /\ (kind = "bits" => Received(a)) /\ SizeOf(a) = 3 /\ NamesOf(a) = A
    BY <1>2, LaidU, LaidJoin3 DEF Widths, IsOne, IsFlags
  <1>4. tlvTimePropertiesDataSet(kind) = a
    BY DEF tlvTimePropertiesDataSet, weights
  <1>. HIDE DEF a
  <1>. QED BY <1>3, <1>4

(* The layout of the port data set.                                        *)
LEMMA PortDataSetLaid ==
  /\ Laid(tlvPortDataSet) /\ Received(tlvPortDataSet) /\ SizeOf(tlvPortDataSet) = 12
  /\ NamesOf(tlvPortDataSet) =
       {"sPortIdentity", "port", "nPortState", "nLogMinDelayReqInterval",
        "peerMeanPathDelay", "peerMeanPathDelay.sub",
        "nLogAnnounceInterval", "nAnnounceReceiptTimeout",
        "nLogSyncInterval", "eDelayMechanism", "nLogMinPdelayReqInterval",
        "nVersionNumber"}
  <1>. DEFINE a == Pid("sPortIdentity", "port")
                     \o Us(<<"nPortState", "nLogMinDelayReqInterval">>, 1)
                     \o SubNano("peerMeanPathDelay", "peerMeanPathDelay.sub")
                     \o I("nLogAnnounceInterval", 1)
              b == a \o U("nAnnounceReceiptTimeout", 1)
                     \o I("nLogSyncInterval", 1) \o U("eDelayMechanism", 1)
              c == b \o I("nLogMinPdelayReqInterval", 1)
                     \o Field("nVersionNumber", "nibble", 1)
              A == {"sPortIdentity", "port", "nPortState", "nLogMinDelayReqInterval",
                       "peerMeanPathDelay", "peerMeanPathDelay.sub", "nLogAnnounceInterval"}
              B == A \cup {"nAnnounceReceiptTimeout", "nLogSyncInterval", "eDelayMechanism"}
              C == B \cup {"nLogMinPdelayReqInterval", "nVersionNumber"}
  <1>1. Laid(a) /\ Received(a) /\ SizeOf(a) = 7 /\ NamesOf(a) = A
    BY LaidPid, LaidUs2, LaidSubNano, LaidI, LaidJoin4 DEF Widths, IsOne
  <1>. HIDE DEF a
  <1>2. Laid(b) /\ Received(b) /\ SizeOf(b) = 10 /\ NamesOf(b) = B
    BY <1>1, LaidU, LaidI, LaidJoin4 DEF Widths, IsOne
  <1>. HIDE DEF b
  <1>3. Laid(c) /\ Received(c) /\ SizeOf(c) = 12 /\ NamesOf(c) = C
    BY <1>2, LaidI, LaidNibble, LaidJoin3 DEF Widths, IsOne
  <1>4. tlvPortDataSet = c
    BY DEF tlvPortDataSet, a, b
  <1>. HIDE DEF c
  <1>. QED BY <1>3, <1>4

(* The layout of the name of an alternate time offset.                     *)
LEMMA OffsetNameLaid ==
  /\ Laid(tlvAlternateTimeOffsetName) /\ Received(tlvAlternateTimeOffsetName)
  /\ SizeOf(tlvAlternateTimeOffsetName) = 2
  /\ NamesOf(tlvAlternateTimeOffsetName) = {"nKeyField", "sName"}
  <1>. DEFINE a == U("nKeyField", 1) \o Text("sName")
              A == {"nKeyField", "sName"}
  <1>1. Laid(a) /\ Received(a) /\ SizeOf(a) = 2 /\ NamesOf(a) = A
    BY LaidU, LaidText, LaidJoin DEF Widths, IsOne
  <1>2. tlvAlternateTimeOffsetName = a
    BY DEF tlvAlternateTimeOffsetName
  <1>. HIDE DEF a
  <1>. QED BY <1>1, <1>2

(* The layout of the properties of an alternate time offset.               *)
LEMMA OffsetPropertiesLaid ==
  /\ Laid(tlvAlternateTimeOffsetProperties) /\ Received(tlvAlternateTimeOffsetProperties)
  /\ SizeOf(tlvAlternateTimeOffsetProperties) = 4
  /\ NamesOf(tlvAlternateTimeOffsetProperties) =
       {"nKeyField", "nCurrentOffset", "nJumpSeconds", "nextJump"}
  <1>. DEFINE a == U("nKeyField", 1) \o I("nCurrentOffset", 4)
                     \o I("nJumpSeconds", 4) \o U("nextJump", 6)
              A == {"nKeyField", "nCurrentOffset", "nJumpSeconds", "nextJump"}
  <1>1. Laid(a) /\ Received(a) /\ SizeOf(a) = 4 /\ NamesOf(a) = A
    BY LaidU, LaidI, LaidJoin4 DEF Widths, IsOne
  <1>2. tlvAlternateTimeOffsetProperties = a
    BY DEF tlvAlternateTimeOffsetProperties
  <1>. HIDE DEF a
  <1>. QED BY <1>1, <1>2

(* The layout of the time status.                                          *)
LEMMA TimeStatusLaid ==
  /\ Laid(tlvTimeStatusNP) /\ Received(tlvTimeStatusNP) /\ SizeOf(tlvTimeStatusNP) = 10
  /\ NamesOf(tlvTimeStatusNP) =
       {"masterOffset", "ingressTime", "nCumulativeScaledRateOffset",
        "nScaledLastGmPhaseChange", "nGmTimeBaseIndicator",
        "nanoseconds_msb", "nanoseconds_lsb", "fractional_nanoseconds",
        "bGmPresent", "sGmIdentity"}
  <1>. DEFINE a == I("masterOffset", 8) \o I("ingressTime", 8)
                     \o I("nCumulativeScaledRateOffset", 4)
                     \o I("nScaledLastGmPhaseChange", 4)
              b == a \o Us(<<"nGmTimeBaseIndicator", "nanoseconds_msb">>, 2)
                     \o U("nanoseconds_lsb", 8)
                     \o U("fractional_nanoseconds", 2)
              c == b \o Field("bGmPresent", "nonzero", 4)
                     \o Hex("sGmIdentity", 8)
              A == {"masterOffset", "ingressTime", "nCumulativeScaledRateOffset",
                       "nScaledLastGmPhaseChange"}
              B == A \cup {"nGmTimeBaseIndicator", "nanoseconds_msb", "nanoseconds_lsb",
                       "fractional_nanoseconds"}
              C == B \cup {"bGmPresent", "sGmIdentity"}
  <1>1. Laid(a) /\ Received(a) /\ SizeOf(a) = 4 /\ NamesOf(a) = A
    BY LaidI, LaidJoin4 DEF Widths, IsOne
  <1>. HIDE DEF a
  <1>2. Laid(b) /\ Received(b) /\ SizeOf(b) = 8 /\ NamesOf(b) = B
    BY <1>1, LaidUs2, LaidU, LaidJoin4 DEF Widths, IsOne
  <1>. HIDE DEF b
  <1>3. Laid(c) /\ Received(c) /\ SizeOf(c) = 10 /\ NamesOf(c) = C
    BY <1>2, LaidNonzero, LaidHex, LaidJoin3 DEF Widths, IsOne
  <1>4. tlvTimeStatusNP = c
    BY DEF tlvTimeStatusNP, a, b
  <1>. HIDE DEF c
  <1>. QED BY <1>3, <1>4

(* The layout of the grandmaster settings, received as bits only.          *)
LEMMA GrandmasterSettingsLaid ==
  ASSUME NEW kind \in FlagKinds
  PROVE  /\ Laid(tlvGrandmasterSettingsNP(kind)) /\ SizeOf(tlvGrandmasterSettingsNP(kind)) = 6
         /\ (kind = "bits" => Received(tlvGrandmasterSettingsNP(kind)))
         /\ NamesOf(tlvGrandmasterSettingsNP(kind)) =
              {"nClass", "eAccuracy", "nOffsetScaledLogVariance", "nUtcOffset",
               "flags", "eTimeSource"}
  <1>. DEFINE weights == AllFlags
              a == clockQuality \o I("nUtcOffset", 2)
                     \o Flags("flags", kind, 1, weights) \o U("eTimeSource", 1)
              A == {"nClass", "eAccuracy", "nOffsetScaledLogVariance", "nUtcOffset",
                       "flags", "eTimeSource"}
  <1>1. weights \subseteq Weights /\ \A v \in weights : v < 256
    BY WeightsAre, SMT
  <1>. HIDE DEF weights
  <1>2. IsFlags(Flags("flags", kind, 1, weights), "flags", kind)
    BY <1>1, LaidFlags DEF FlagKinds
  <1>3. Laid(a) /\ (kind = "bits" => Received(a)) /\ SizeOf(a) = 6 /\ NamesOf(a) = A
    BY <1>2, ClockQualityLaid, LaidI, LaidU, LaidJoin4 DEF Widths, IsOne, IsFlags
  <1>4. tlvGrandmasterSettingsNP(kind) = a
    BY DEF tlvGrandmasterSettingsNP, weights
  <1>. HIDE DEF a
  <1>. QED BY <1>3, <1>4

(* The layout of the port properties.                                      *)
LEMMA PortPropertiesLaid ==
  /\ Laid(tlvPortPropertiesNP) /\ Received(tlvPortPropertiesNP) /\ SizeOf(tlvPortPropertiesNP) = 5
  /\ NamesOf(tlvPortPropertiesNP) =
       {"sPortIdentity", "port", "nPortState", "nTimestamping", "sInterface"}
  <1>. DEFINE a == Pid("sPortIdentity", "port")
                     \o Us(<<"nPortState", "nTimestamping">>, 1)
                     \o Text("sInterface")
              A == {"sPortIdentity", "port", "nPortState", "nTimestamping", "sInterface"}
  <1>1. Laid(a) /\ Received(a) /\ SizeOf(a) = 5 /\ NamesOf(a) = A
    BY LaidPid, LaidUs2, LaidText, LaidJoin3 DEF Widths, IsOne
  <1>2. tlvPortPropertiesNP = a
    BY DEF tlvPortPropertiesNP
  <1>. HIDE DEF a
  <1>. QED BY <1>1, <1>2

(* The layout of the port statistics.                                      *)
LEMMA PortStatsLaid ==
  /\ Laid(tlvPortStatsNP) /\ Received(tlvPortStatsNP) /\ SizeOf(tlvPortStatsNP) = 4
  /\ NamesOf(tlvPortStatsNP) = {"sPortIdentity", "port", "rx", "tx"}
  <1>. DEFINE a == Pid("sPortIdentity", "port") \o Hex("rx", 128)
                     \o Hex("tx", 128)
              A == {"sPortIdentity", "port", "rx", "tx"}
  <1>1. Laid(a) /\ Received(a) /\ SizeOf(a) = 4 /\ NamesOf(a) = A
    BY LaidPid, LaidHex, LaidJoin3 DEF Widths, IsOne
  <1>2. tlvPortStatsNP = a
    BY DEF tlvPortStatsNP
  <1>. HIDE DEF a
  <1>. QED BY <1>1, <1>2

(* The layout of the port service statistics.                              *)
LEMMA PortServiceLaid ==
  Laid(tlvPortServiceStatsNP) /\ Received(tlvPortServiceStatsNP)
    /\ SizeOf(tlvPortServiceStatsNP) = 12
  <1>. DEFINE names ==
                <<"nAnnounceTimeout", "nSyncTimeout", "nDelayTimeout", "nUnicastServiceTimeout",
                  "nUnicastRequestTimeout", "nMasterAnnounceTimeout", "nMasterSyncTimeout",
                  "nQualificationTimeout", "nSyncMismatch", "nFollowupMismatch">>
              ten == {"nAnnounceTimeout", "nSyncTimeout", "nDelayTimeout", "nUnicastServiceTimeout",
                      "nUnicastRequestTimeout", "nMasterAnnounceTimeout", "nMasterSyncTimeout",
                      "nQualificationTimeout", "nSyncMismatch", "nFollowupMismatch"}
              a == Pid("sPortIdentity", "port")
              b == Us(names, 8)
  <1>1. names \in Seq(ten) /\ Len(names) = 10
    OBVIOUS
  <1>2. \A i \in 1 .. 10 : i = 1 \/ i = 2 \/ i = 3 \/ i = 4 \/ i = 5
                             \/ i = 6 \/ i = 7 \/ i = 8 \/ i = 9 \/ i = 10
    OBVIOUS
  <1>3. /\ names[1] = "nAnnounceTimeout" /\ names[2] = "nSyncTimeout"
        /\ names[3] = "nDelayTimeout" /\ names[4] = "nUnicastServiceTimeout"
        /\ names[5] = "nUnicastRequestTimeout" /\ names[6] = "nMasterAnnounceTimeout"
        /\ names[7] = "nMasterSyncTimeout" /\ names[8] = "nQualificationTimeout"
        /\ names[9] = "nSyncMismatch" /\ names[10] = "nFollowupMismatch"
    OBVIOUS
  <1>. HIDE DEF names, ten
  <1>4. \A i, j \in 1 .. 10 : names[i] = names[j] => i = j
    BY <1>2, <1>3
  <1>5. \A i \in 1 .. 10 : names[i] \notin {"sInterface", "sPortIdentity", "port"}
    BY <1>2, <1>3
  <1>6. 8 \in Widths /\ 8 \in 1 .. 128
    BY DEF Widths
  <1>7. /\ Laid(b) /\ Received(b) /\ SizeOf(b) = 10
        /\ NamesOf(b) = {names[i] : i \in 1 .. 10}
    BY <1>1, <1>4, <1>5, <1>6, LaidUs
  <1>8. /\ Laid(a) /\ Received(a) /\ SizeOf(a) = 2 /\ NamesOf(a) = {"sPortIdentity", "port"}
    BY LaidPid
  <1>9. tlvPortServiceStatsNP = a \o b
    BY Zenon DEF tlvPortServiceStatsNP, names
  <1>. HIDE DEF a, b
  <1>10. NamesOf(a) \cap NamesOf(b) = {}
    BY <1>5, <1>7, <1>8
  <1>11. /\ Laid(a \o b) /\ SizeOf(a \o b) = SizeOf(a) + SizeOf(b)
         /\ Received(a) /\ Received(b) => Received(a \o b)
    BY <1>7, <1>8, <1>10, LaidJoin
  <1>. QED BY <1>7, <1>8, <1>9, <1>11

(* The layout of the port data set of ptp4l.                               *)
LEMMA PortDataSetNPLaid ==
  /\ Laid(tlvPortDataSetNP) /\ Received(tlvPortDataSetNP) /\ SizeOf(tlvPortDataSetNP) = 2
  /\ NamesOf(tlvPortDataSetNP) = {"neighbourPropDelayThresh", "bCapable"}
  <1>. DEFINE a == U("neighbourPropDelayThresh", 4)
                     \o Field("bCapable", "one", 4)
              A == {"neighbourPropDelayThresh", "bCapable"}
  <1>1. Laid(a) /\ Received(a) /\ SizeOf(a) = 2 /\ NamesOf(a) = A
    BY LaidU, LaidFlag, LaidJoin DEF Widths, IsOne
  <1>2. tlvPortDataSetNP = a
    BY DEF tlvPortDataSetNP
  <1>. HIDE DEF a
  <1>. QED BY <1>1, <1>2

(* The layout of the time.                                                 *)
LEMMA TimeLaid ==
  /\ Laid(tlvTime) /\ Received(tlvTime) /\ SizeOf(tlvTime) = 1
  /\ NamesOf(tlvTime) = {"timestamp"}
  <1>1. tlvTime = Field("timestamp", "time", 10)
    BY DEF tlvTime
  <1>. QED BY <1>1, LaidTime DEF IsOne, Widths

(* What is said of the layout of every TLV, as read and as written.        *)
TlvRead(layout)    == Laid(layout) /\ Received(layout) /\ SizeOf(layout) <= 16

TlvWritten(layout) == Laid(layout) /\ SizeOf(layout) <= 16

(* Every layout a TLV is read by reads back what it pushes, has names of   *)
(* its own, and is short.                                                  *)
LEMMA LayoutsRead ==
  /\ TlvRead(tlvBasic) /\ TlvRead(tlvClockDescription("bits")) /\ TlvRead(tlvUserDescription)
  /\ TlvRead(tlvDefaultDataSet(U("nNumberPorts", 2) \o U("nPriority1", 1)))
  /\ TlvRead(tlvCurrentDataSet) /\ TlvRead(tlvParentDataSet)
  /\ TlvRead(tlvTimePropertiesDataSet("bits")) /\ TlvRead(tlvPortDataSet)
  /\ TlvRead(tlvVersion) /\ TlvRead(tlvTime) /\ TlvRead(tlvClockAccuracy)
  /\ TlvRead(tlvTraceable("bits")) /\ TlvRead(tlvTimescale)
  /\ TlvRead(tlvAlternateTimeOffsetName) /\ TlvRead(tlvAlternateTimeOffsetProperties)
  /\ TlvRead(tlvTimeStatusNP) /\ TlvRead(tlvGrandmasterSettingsNP("bits"))
  /\ TlvRead(tlvPortDataSetNP) /\ TlvRead(tlvPortPropertiesNP) /\ TlvRead(tlvPortStatsNP)
  /\ TlvRead(tlvPortServiceStatsNP)
  <1>1. "bits" \in FlagKinds
    BY DEF FlagKinds
  <1>. DEFINE ports == U("nNumberPorts", 2) \o U("nPriority1", 1)
  <1>2. TlvRead(tlvDefaultDataSet(ports))
    <2>1. /\ Laid(ports) /\ Received(ports) /\ SizeOf(ports) = 2
          /\ NamesOf(ports) \subseteq {"nNumberPorts", "nPriority1"}
      BY PortsLaid
    <2>. HIDE DEF ports
    <2>. QED BY <2>1, DefaultDataSetLaid DEF TlvRead
  <1>3. /\ TlvRead(tlvTimePropertiesDataSet("bits")) /\ TlvRead(tlvTraceable("bits"))
        /\ TlvRead(tlvGrandmasterSettingsNP("bits")) /\ TlvRead(tlvClockDescription("bits"))
    BY <1>1, TimePropertiesLaid, TraceableLaid, GrandmasterSettingsLaid, ClockDescriptionLaid
       DEF TlvRead
  <1>4. /\ TlvRead(tlvBasic) /\ TlvRead(tlvUserDescription) /\ TlvRead(tlvCurrentDataSet)
        /\ TlvRead(tlvParentDataSet) /\ TlvRead(tlvPortDataSet) /\ TlvRead(tlvVersion)
        /\ TlvRead(tlvTime)
    BY BasicLaid, UserDescriptionLaid, CurrentDataSetLaid, ParentDataSetLaid, PortDataSetLaid,
       VersionLaid, TimeLaid DEF TlvRead
  <1>5. /\ TlvRead(tlvTimescale) /\ TlvRead(tlvAlternateTimeOffsetName)
        /\ TlvRead(tlvAlternateTimeOffsetProperties) /\ TlvRead(tlvTimeStatusNP)
        /\ TlvRead(tlvPortDataSetNP) /\ TlvRead(tlvPortPropertiesNP) /\ TlvRead(tlvPortStatsNP)
        /\ TlvRead(tlvPortServiceStatsNP)
    BY TimescaleLaid, OffsetNameLaid, OffsetPropertiesLaid, TimeStatusLaid, PortDataSetNPLaid,
       PortPropertiesLaid, PortStatsLaid, PortServiceLaid DEF TlvRead
  <1>6. TlvRead(tlvClockAccuracy)
    BY <1>4 DEF tlvClockAccuracy
  <1>. QED BY <1>2, <1>3, <1>4, <1>5, <1>6

(* So does the layout of every TLV that ptpManagement can hold.            *)
LEMMA AllLayouts == \A id \in DOMAIN Layouts : TlvRead(Layouts[id])
  <1>. SUFFICES ASSUME NEW id \in DOMAIN Layouts
                PROVE  TlvRead(Layouts[id])
    OBVIOUS
  <1>. QED BY LayoutsRead, SMTT(30) DEF Layouts

(* Every layout that CreateMessage pushes has names of its own, and is     *)
(* short.                                                                  *)
LEMMA AllWritten == \A id \in DOMAIN Written : TlvWritten(Written[id])
  <1>1. DOMAIN Written = DOMAIN Layouts
    BY DEF Written
  <1>2. \A layout : TlvRead(layout) => TlvWritten(layout)
    BY DEF TlvRead, TlvWritten
  <1>3. \A id \in DOMAIN Layouts : TlvWritten(Layouts[id])
    BY <1>2, AllLayouts
  <1>4. "greatest" \in FlagKinds /\ "least" \in FlagKinds /\ "sixteens" \in FlagKinds
    BY DEF FlagKinds
  <1>5. /\ TlvWritten(tlvTimePropertiesDataSet("least")) /\ TlvWritten(tlvTraceable("sixteens"))
        /\ TlvWritten(tlvGrandmasterSettingsNP("least"))
        /\ TlvWritten(tlvClockDescription("greatest"))
    BY <1>4, TimePropertiesLaid, TraceableLaid, GrandmasterSettingsLaid, ClockDescriptionLaid
       DEF TlvWritten
  <1>6. TlvWritten(<<>>) /\ TlvWritten(tlvDefaultDataSet(<<>>))
    <2>. DEFINE none == <<>>
    <2>1. /\ Laid(none) /\ Received(none) /\ SizeOf(none) = 0
          /\ NamesOf(none) \subseteq {"nNumberPorts", "nPriority1"}
      BY NoneLaid
    <2>. HIDE DEF none
    <2>2. TlvWritten(none) /\ TlvWritten(tlvDefaultDataSet(none))
      BY <2>1, DefaultDataSetLaid DEF TlvWritten
    <2>. QED BY <2>2 DEF none
  <1>. SUFFICES ASSUME NEW id \in DOMAIN Layouts
                PROVE  TlvWritten(Written[id])
    BY <1>1
  <1>7. Written[id] = CASE id = "kClockDescription"      -> tlvClockDescription("greatest")
       [] id = "kDefaultDataSet"        -> tlvDefaultDataSet(<<>>)
       [] id = "kTimePropertiesDataSet" -> tlvTimePropertiesDataSet("least")
       [] id = "kTraceabilityProperties" -> tlvTraceable("sixteens")
       [] id = "kGrandmasterSettingsNp" -> tlvGrandmasterSettingsNP("least")
       [] id \in {"kAlternateTimeOffsetProperties", "kPortStatsNp"} -> <<>>
       [] OTHER                         -> Layouts[id]
    BY DEF Written
  <1>. QED BY <1>3, <1>5, <1>6, <1>7

-----------------------------------------------------------------------------
(* The octets of a message, part by part.                                  *)

(* A layout and the octets it is pushed as.                                *)
Pushes(names, layout, contents, octets) ==
  /\ CanPush(names, layout, contents)
  /\ octets \in Bytes
  /\ Create(layout, contents) = octets

(* What two layouts push for some contents, one after the other.           *)
LEMMA PushJoin ==
  ASSUME NEW names, NEW contents, NEW a, NEW b, NEW x, NEW y,
         Pushes(names, a, contents, x), Pushes(names, b, contents, y)
  PROVE  Pushes(names, a \o b, contents, Then(x, y))
  <1>1. /\ CanPush(names, a, contents) /\ CanPush(names, b, contents)
        /\ Create(a, contents) = x /\ Create(b, contents) = y
        /\ x \in Bytes /\ y \in Bytes
    BY DEF Pushes
  <1>2. Then(x, y) \in Bytes
    BY <1>1, Join DEF Then
  <1>3. /\ Create(a \o b, contents) = Then(Create(a, contents), Create(b, contents))
        /\ CanPush(names, a \o b, contents)
    BY <1>1, CreateJoin
  <1>. QED BY <1>1, <1>2, <1>3 DEF Pushes

(* What a field pushes for some contents.                                  *)
LEMMA PushOne ==
  ASSUME NEW names, NEW field \in Fields(names), NEW contents,
         Writable(field, contents[field.name]), NEW layout, layout = <<field>>
  PROVE  Pushes(names, layout, contents, Encode(field, contents[field.name]))
  <1>. DEFINE octets == Encode(field, contents[field.name])
              parts == Encoded(layout, contents)
  <1>1. layout \in Seq(Fields(names)) /\ Len(layout) = 1 /\ DOMAIN layout = {1}
        /\ layout[1] = field /\ 1 .. 1 = {1}
    OBVIOUS
  <1>2. CanWrite(layout, contents)
    BY <1>1 DEF CanWrite
  <1>3. octets \in Bytes
    BY EncodeType
  <1>4. parts = <<octets>>
    <2>1. parts = [i \in {1} |-> Encode(layout[i], contents[layout[i].name])]
      BY <1>1 DEF Encoded
    <2>2. parts = [i \in {1} |-> octets]
      BY <1>1, <2>1
    <2>. HIDE DEF octets, parts
    <2>3. <<octets>> = [i \in {1} |-> octets]
      BY <1>1
    <2>. QED BY <2>2, <2>3
  <1>5. Create(layout, contents) = octets
    <2>1. Create(layout, contents) = FlattenSeq(parts)
      BY CreateIs
    <2>. HIDE DEF octets, parts
    <2>2. octets \in Seq(Octet)
      BY <1>3 DEF Bytes
    <2>3. FlattenSeq(<<octets>>) = octets
      BY <2>2, FlattenOne
    <2>. QED BY <1>4, <2>1, <2>3
  <1>. QED BY <1>1, <1>2, <1>3, <1>5 DEF Pushes, CanPush

(* What a number of any kind pushes.                                       *)
LEMMA PushNumber ==
  ASSUME NEW names, NEW name \in names, NEW kind \in NumberKinds, NEW width \in 1 .. 128,
         NEW contents, contents[name] \in Int
  PROVE  Pushes(names, Field(name, kind, width), contents, Octets(contents[name], width))
  <1>. DEFINE field == [name |-> name, kind |-> kind, width |-> width, weights |-> {}]
              layout == Field(name, kind, width)
              value == contents[name]
  <1>1. layout = <<field>>
    BY DEF Field
  <1>2. field.name = name /\ field.kind = kind /\ field.width = width
    OBVIOUS
  <1>3. kind \in Kinds /\ kind \notin FlagKinds \cup TextKinds \cup {"hex", "name+location", "time"}
    BY DEF Kinds, NumberKinds, FlagKinds, TextKinds
  <1>4. field \in Fields(names)
    BY <1>3 DEF Fields
  <1>. HIDE DEF field, layout
  <1>5. Writable(field, contents[field.name])
    BY <1>2, <1>3 DEF Writable
  <1>6. Encode(field, contents[field.name]) = Octets(value, width)
    <2>1. Encode(field, value) = Octets(value, width)
      <3>. HIDE DEF value
      <3>. QED BY <1>2 DEF Encode, NumberKinds
    <2>. QED BY <1>2, <2>1
  <1>7. Pushes(names, layout, contents, Encode(field, contents[field.name]))
    BY <1>1, <1>4, <1>5, PushOne
  <1>. QED BY <1>6, <1>7 DEF layout

(* What an unsigned number pushes.                                         *)
LEMMA PushU ==
  ASSUME NEW names, NEW name \in names, NEW width \in 1 .. 128,
         NEW contents, contents[name] \in Int
  PROVE  Pushes(names, U(name, width), contents, Octets(contents[name], width))
  <1>. DEFINE kind == "unsigned"
  <1>1. kind \in NumberKinds
    BY DEF NumberKinds
  <1>2. U(name, width) = Field(name, kind, width)
    BY DEF U
  <1>. HIDE DEF kind
  <1>. QED BY <1>1, <1>2, PushNumber

(* What a signed number pushes.                                            *)
LEMMA PushI ==
  ASSUME NEW names, NEW name \in names, NEW width \in 1 .. 128,
         NEW contents, contents[name] \in Int
  PROVE  Pushes(names, I(name, width), contents, Octets(contents[name], width))
  <1>. DEFINE kind == "signed"
  <1>1. kind \in NumberKinds
    BY DEF NumberKinds
  <1>2. I(name, width) = Field(name, kind, width)
    BY DEF I
  <1>. HIDE DEF kind
  <1>. QED BY <1>1, <1>2, PushNumber

(* What a nibble pushes: the whole octet.                                  *)
LEMMA PushNibble ==
  ASSUME NEW names, NEW name \in names, NEW contents, contents[name] \in Int
  PROVE  Pushes(names, Field(name, "nibble", 1), contents, Octets(contents[name], 1))
  <1>. DEFINE kind == "nibble"
              width == 1
  <1>1. kind \in NumberKinds /\ width \in 1 .. 128
    BY DEF NumberKinds
  <1>. HIDE DEF kind, width
  <1>2. Pushes(names, Field(name, kind, width), contents, Octets(contents[name], width))
    BY <1>1, PushNumber
  <1>. QED BY <1>2 DEF kind, width

(* What a string of octets pushes.                                         *)
LEMMA PushHex ==
  ASSUME NEW names, NEW name \in names, NEW width \in 1 .. 128,
         NEW contents, contents[name] \in Bytes
  PROVE  Pushes(names, Hex(name, width), contents, FromHexStr(contents[name], width))
  <1>. DEFINE kind == "hex"
              field == [name |-> name, kind |-> kind, width |-> width, weights |-> {}]
              layout == Hex(name, width)
              value == contents[name]
  <1>1. layout = <<field>>
    BY DEF Hex, Field
  <1>2. field.name = name /\ field.kind = kind /\ field.width = width /\ kind = "hex"
    OBVIOUS
  <1>3. kind \in Kinds /\ kind \notin NumberKinds \cup FlagKinds \cup TextKinds
    BY DEF Kinds, NumberKinds, FlagKinds, TextKinds
  <1>. HIDE DEF kind
  <1>4. field \in Fields(names)
    BY <1>3 DEF Fields
  <1>. HIDE DEF field, layout
  <1>5. Writable(field, contents[field.name])
    BY <1>2, <1>3 DEF Writable
  <1>6. Encode(field, contents[field.name]) = FromHexStr(value, width)
    <2>1. Encode(field, value) = FromHexStr(value, width)
      <3>. HIDE DEF value
      <3>. QED BY <1>2 DEF Encode
    <2>. QED BY <1>2, <2>1
  <1>7. Pushes(names, layout, contents, Encode(field, contents[field.name]))
    BY <1>1, <1>4, <1>5, PushOne
  <1>. QED BY <1>6, <1>7 DEF layout

(* A timestamp is ten octets.                                              *)
LEMMA SizeTime ==
  ASSUME NEW time \in Nat
  PROVE  OfSize(FromSecNano(time), 10)
  <1>. DEFINE octets == FromSecNano(time)
              l == Len(octets)
              k == 10
  <1>1. octets \in Bytes /\ l = k /\ k \in Nat
    BY FromSecNanoType
  <1>. HIDE DEF octets, l, k
  <1>2. OfSize(octets, k)
    BY <1>1 DEF OfSize, l
  <1>. QED BY <1>2 DEF octets, k

(* The octets of a header.                                                 *)
Flags16 == IF Multicast THEN 0 ELSE 1024

HeaderStart(type, length, domain) ==
  Then(Then(Then(Then(Then(
    Then(Then(Octets(type, 1), Octets(2, 1)), Octets(length, 2)),
    Octets(domain, 1)), HexNothing(1)), Octets(Flags16, 2)), HexNothing(8)), HexNothing(4))

IdentityOctets(source) == Then(FromHexStr(source.id, 8), Octets(source.port, 2))

HeaderEnd(sequence, interval) ==
  Then(Then(Octets(sequence, 2), Octets(1, 1)), Octets(interval, 1))

(* The beginning of a header is 20 octets, with the length of the message  *)
(* in the third and fourth.                                                *)
LEMMA HeaderStartIs ==
  ASSUME NEW type \in Int, NEW length \in Int, NEW domain \in Int
  PROVE  /\ OfSize(HeaderStart(type, length, domain), 20)
         /\ Holds(HeaderStart(type, length, domain), 3, 4, Octets(length, 2))
  <1>. DEFINE v == Octets(2, 1)
              t == Octets(type, 1)
              a == Then(t, v)
              l == Octets(length, 2)
              b == Then(a, l)
              dom == Octets(domain, 1)
              c == Then(b, dom)
              h1 == HexNothing(1)
              d == Then(c, h1)
              flags == Octets(Flags16, 2)
              e == Then(d, flags)
              h8 == HexNothing(8)
              f == Then(e, h8)
              h4 == HexNothing(4)
              g == Then(f, h4)
  <1>1. Flags16 \in Int
    BY SMT DEF Flags16
  <1>2. OfSize(h1, 1) /\ OfSize(h8, 8) /\ OfSize(h4, 4)
    BY JoinNothing, SizeHex DEF HexNothing
  <1>3. OfSize(t, 1) /\ OfSize(v, 1) /\ OfSize(l, 2) /\ OfSize(dom, 1) /\ OfSize(flags, 2)
    BY <1>1, SizeOctets
  <1>. HIDE DEF h1, h8, h4, t, v, l, dom, flags
  <1>12. /\ h1 \in Bytes /\ h8 \in Bytes /\ h4 \in Bytes /\ l \in Bytes /\ dom \in Bytes
         /\ flags \in Bytes
    BY <1>2, <1>3 DEF OfSize
  <1>4. OfSize(a, 2)
    BY <1>3, SizeThen
  <1>. HIDE DEF a
  <1>5. OfSize(b, 4) /\ Holds(b, 3, 4, l)
    <2>1. OfSize(b, 4)
      BY <1>3, <1>4, SizeThen
    <2>2. Holds(b, 3, 4, l)
      BY <1>3, <1>4, HoldsLast
    <2>. QED BY <2>1, <2>2
  <1>. HIDE DEF b
  <1>6. OfSize(c, 5) /\ Holds(c, 3, 4, l)
    <2>1. OfSize(c, 5)
      BY <1>3, <1>5, SizeThen
    <2>2. Holds(c, 3, 4, l)
      BY <1>5, <1>12, HoldsThen
    <2>. QED BY <2>1, <2>2
  <1>. HIDE DEF c
  <1>7. OfSize(d, 6) /\ Holds(d, 3, 4, l)
    <2>1. OfSize(d, 6)
      BY <1>2, <1>6, SizeThen
    <2>2. Holds(d, 3, 4, l)
      BY <1>6, <1>12, HoldsThen
    <2>. QED BY <2>1, <2>2
  <1>. HIDE DEF d
  <1>8. OfSize(e, 8) /\ Holds(e, 3, 4, l)
    <2>1. OfSize(e, 8)
      BY <1>3, <1>7, SizeThen
    <2>2. Holds(e, 3, 4, l)
      BY <1>7, <1>12, HoldsThen
    <2>. QED BY <2>1, <2>2
  <1>. HIDE DEF e
  <1>9. OfSize(f, 16) /\ Holds(f, 3, 4, l)
    <2>1. OfSize(f, 16)
      BY <1>2, <1>8, SizeThen
    <2>2. Holds(f, 3, 4, l)
      BY <1>8, <1>12, HoldsThen
    <2>. QED BY <2>1, <2>2
  <1>. HIDE DEF f
  <1>10. OfSize(g, 20) /\ Holds(g, 3, 4, l)
    <2>1. OfSize(g, 20)
      BY <1>2, <1>9, SizeThen
    <2>2. Holds(g, 3, 4, l)
      BY <1>9, <1>12, HoldsThen
    <2>. QED BY <2>1, <2>2
  <1>11. HeaderStart(type, length, domain) = g
    BY DEF HeaderStart, a, b, c, d, e, f, l, t, v, dom, flags, h1, h8, h4
  <1>. HIDE DEF g
  <1>. QED BY <1>10, <1>11 DEF l

(* The identity of the sender is ten octets.                               *)
LEMMA IdentityIs ==
  ASSUME NEW source, source.id \in Bytes, source.port \in Int
  PROVE  OfSize(IdentityOctets(source), 10)
  <1>. DEFINE a == FromHexStr(source.id, 8)
              b == Octets(source.port, 2)
  <1>1. OfSize(a, 8) /\ OfSize(b, 2)
    BY SizeHex, SizeOctets
  <1>. HIDE DEF a, b
  <1>2. OfSize(Then(a, b), 10)
    BY <1>1, SizeThen
  <1>. QED BY <1>2 DEF IdentityOctets, a, b

(* The end of a header is four octets, which begin with the sequence id.   *)
LEMMA HeaderEndIs ==
  ASSUME NEW sequence \in Int, NEW interval \in Int
  PROVE  /\ OfSize(HeaderEnd(sequence, interval), 4)
         /\ Holds(HeaderEnd(sequence, interval), 1, 2, Octets(sequence, 2))
  <1>. DEFINE a == Octets(sequence, 2)
              b == Octets(1, 1)
              c == Octets(interval, 1)
              ab == Then(a, b)
              abc == Then(ab, c)
  <1>1. OfSize(a, 2) /\ OfSize(b, 1) /\ OfSize(c, 1)
    BY SizeOctets
  <1>. HIDE DEF a, b, c
  <1>5. a \in Bytes /\ b \in Bytes /\ c \in Bytes
    BY <1>1 DEF OfSize
  <1>2. OfSize(ab, 3) /\ Holds(ab, 1, 2, a)
    BY <1>1, <1>5, SizeThen, HoldsFirst
  <1>. HIDE DEF ab
  <1>4. OfSize(abc, 4) /\ Holds(abc, 1, 2, a)
    <2>1. OfSize(abc, 4)
      BY <1>1, <1>2, SizeThen
    <2>2. Holds(abc, 1, 2, a)
      BY <1>2, <1>5, HoldsThen
    <2>. QED BY <2>1, <2>2
  <1>. QED BY <1>4 DEF HeaderEnd, a, b, c, ab

(* The contents of a header, with nothing in what is reserved.             *)
IsHeader(contents, type, length, domain, source, sequence, interval) ==
  /\ contents["nType"] = type /\ contents["nVersion"] = 2
  /\ contents["nMessageLength"] = length /\ contents["nDomain"] = domain
  /\ contents["nFlags"] = Flags16
  /\ contents["nSourceId"] = source.id /\ contents["nSourcePort"] = source.port
  /\ contents["nSequenceId"] = sequence /\ contents["nControl"] = 1
  /\ contents["nInterval"] = interval
  /\ contents["reserved1"] \in Bytes /\ FromHexStr(contents["reserved1"], 1) = HexNothing(1)
  /\ contents["nCorrection"] \in Bytes
  /\ FromHexStr(contents["nCorrection"], 8) = HexNothing(8)
  /\ contents["reserved2"] \in Bytes /\ FromHexStr(contents["reserved2"], 4) = HexNothing(4)

HeaderNames ==
  {"nType", "nVersion", "nMessageLength", "nDomain", "reserved1", "nFlags",
   "nCorrection", "reserved2", "nSourceId", "nSourcePort", "nSequenceId",
   "nControl", "nInterval"}

(* What CreateMessage of a header pushes, in three parts.                  *)
LEMMA HeaderPushed ==
  ASSUME NEW type \in Int, NEW length \in Int, NEW domain \in Int, NEW source,
         source.id \in Bytes, source.port \in Int, NEW sequence \in Int, NEW interval \in Int,
         NEW contents, IsHeader(contents, type, length, domain, source, sequence, interval)
  PROVE  Create(ptpV2Header, contents)
           = Then(Then(HeaderStart(type, length, domain), IdentityOctets(source)),
                  HeaderEnd(sequence, interval))
  <1>. DEFINE id == source.id
              port == source.port
              flags == IF Multicast THEN 0 ELSE 1024
              names == HeaderNames
              made == Create(ptpV2Header, contents)
  <1>2. flags \in Int /\ id \in Bytes /\ port \in Int
    OBVIOUS
  <1>3. /\ "nType" \in names /\ "nVersion" \in names /\ "nMessageLength" \in names
        /\ "nDomain" \in names /\ "reserved1" \in names /\ "nFlags" \in names
        /\ "nCorrection" \in names /\ "reserved2" \in names /\ "nSourceId" \in names
        /\ "nSourcePort" \in names /\ "nSequenceId" \in names /\ "nControl" \in names
        /\ "nInterval" \in names
    BY DEF HeaderNames
  <1>4. /\ contents["nType"] = type /\ contents["nVersion"] = 2
        /\ contents["nMessageLength"] = length /\ contents["nDomain"] = domain
        /\ contents["nFlags"] = flags
        /\ contents["nSourceId"] = id /\ contents["nSourcePort"] = port
        /\ contents["nSequenceId"] = sequence /\ contents["nControl"] = 1
        /\ contents["nInterval"] = interval
    BY Zenon DEF IsHeader, Flags16
  <1>40. /\ contents["reserved1"] \in Bytes /\ contents["nCorrection"] \in Bytes
         /\ contents["reserved2"] \in Bytes
    BY Zenon DEF IsHeader
  <1>41. /\ FromHexStr(contents["reserved1"], 1) = HexNothing(1)
         /\ FromHexStr(contents["nCorrection"], 8) = HexNothing(8)
         /\ FromHexStr(contents["reserved2"], 4) = HexNothing(4)
    BY Zenon DEF IsHeader
  <1>. HIDE DEF flags, id, port, names, made
  <1>. DEFINE P(layout, octets) == Pushes(names, layout, contents, octets)
  <1>5. ASSUME NEW a, NEW b, NEW x, NEW y, P(a, x), P(b, y)
        PROVE  P(a \o b, Then(x, y))
    BY <1>5, PushJoin
  <1>. DEFINE f1 == Field("nType", "nibble", 1)
              f2 == Field("nVersion", "nibble", 1)
              f3 == U("nMessageLength", 2)
              f4 == U("nDomain", 1)
              f5 == Hex("reserved1", 1)
              f6 == U("nFlags", 2)
              f7 == Hex("nCorrection", 8)
              f8 == Hex("reserved2", 4)
              f9 == Hex("nSourceId", 8)
              f10 == U("nSourcePort", 2)
              pid == f9 \o f10
              f11 == U("nSequenceId", 2)
              f12 == U("nControl", 1)
              f13 == I("nInterval", 1)
              o1 == Octets(type, 1)
              o2 == Octets(2, 1)
              o3 == Octets(length, 2)
              o4 == Octets(domain, 1)
              o5 == HexNothing(1)
              o6 == Octets(flags, 2)
              o7 == HexNothing(8)
              o8 == HexNothing(4)
              o9 == FromHexStr(id, 8)
              o10 == Octets(port, 2)
              o11 == Octets(sequence, 2)
              o12 == Octets(1, 1)
              o13 == Octets(interval, 1)
  <1>. DEFINE one == 1
              two == 2
              four == 4
              eight == 8
  <1>6. one \in 1 .. 128 /\ two \in 1 .. 128 /\ four \in 1 .. 128 /\ eight \in 1 .. 128
    OBVIOUS
  <1>. HIDE DEF one, two, four, eight
  <1>7. P(Field("nType", "nibble", 1), Octets(contents["nType"], 1))
    BY <1>3, <1>4, PushNibble
  <1>8. P(Field("nVersion", "nibble", 1), Octets(contents["nVersion"], 1))
    BY <1>3, <1>4, PushNibble
  <1>9. P(U("nMessageLength", two), Octets(contents["nMessageLength"], two))
    BY <1>3, <1>4, <1>6, PushU
  <1>10. P(U("nDomain", one), Octets(contents["nDomain"], one))
    BY <1>3, <1>4, <1>6, PushU
  <1>11. P(Hex("reserved1", one), FromHexStr(contents["reserved1"], one))
    BY <1>2, <1>3, <1>4, <1>40, <1>6, PushHex
  <1>12. P(U("nFlags", two), Octets(contents["nFlags"], two))
    BY <1>2, <1>3, <1>4, <1>6, PushU
  <1>13. P(Hex("nCorrection", eight), FromHexStr(contents["nCorrection"], eight))
    BY <1>2, <1>3, <1>4, <1>40, <1>6, PushHex
  <1>14. P(Hex("reserved2", four), FromHexStr(contents["reserved2"], four))
    BY <1>2, <1>3, <1>4, <1>40, <1>6, PushHex
  <1>15. P(Hex("nSourceId", eight), FromHexStr(contents["nSourceId"], eight))
    BY <1>2, <1>3, <1>4, <1>40, <1>6, PushHex
  <1>16. P(U("nSourcePort", two), Octets(contents["nSourcePort"], two))
    BY <1>2, <1>3, <1>4, <1>6, PushU
  <1>17. P(U("nSequenceId", two), Octets(contents["nSequenceId"], two))
    BY <1>3, <1>4, <1>6, PushU
  <1>18. P(U("nControl", one), Octets(contents["nControl"], one))
    BY <1>3, <1>4, <1>6, PushU, SMTT(30)
  <1>19. P(I("nInterval", one), Octets(contents["nInterval"], one))
    BY <1>3, <1>4, <1>6, PushI
  <1>. HIDE DEF P
  <1>20. P(f1, o1) /\ P(f2, o2) /\ P(f3, o3) /\ P(f4, o4)
    BY <1>4, <1>7, <1>8, <1>9, <1>10 DEF one, two
  <1>21. P(f5, o5) /\ P(f6, o6) /\ P(f7, o7) /\ P(f8, o8)
    BY <1>4, <1>41, <1>11, <1>12, <1>13, <1>14 DEF one, two, four, eight
  <1>22. P(f9, o9) /\ P(f10, o10) /\ P(f11, o11) /\ P(f12, o12) /\ P(f13, o13)
    BY <1>4, <1>15, <1>16, <1>17, <1>18, <1>19 DEF one, two, eight
  <1>23. /\ ptpV2Header = f1 \o f2 \o f3 \o f4 \o f5 \o f6 \o f7 \o f8 \o pid
                            \o f11 \o f12 \o f13
         /\ pid = f9 \o f10
    BY DEF ptpV2Header, Pid
  <1>. DEFINE start == Then(Then(Then(Then(Then(Then(Then(o1, o2), o3), o4), o5), o6), o7), o8)
              identity == Then(o9, o10)
              end == Then(Then(o11, o12), o13)
  <1>24. /\ start = HeaderStart(type, length, domain) /\ identity = IdentityOctets(source)
         /\ end = HeaderEnd(sequence, interval)
    BY DEF HeaderStart, IdentityOctets, HeaderEnd, Flags16, flags, id, port
  <1>. HIDE DEF f1, f2, f3, f4, f5, f6, f7, f8, f9, f10, f11, f12, f13,
                o1, o2, o3, o4, o5, o6, o7, o8, o9, o10, o11, o12, o13
  <1>. DEFINE s2 == f1 \o f2
              s3 == s2 \o f3
              s4 == s3 \o f4
              s5 == s4 \o f5
              s6 == s5 \o f6
              s7 == s6 \o f7
              s8 == s7 \o f8
              s9 == s8 \o pid
              s10 == s9 \o f11
              s11 == s10 \o f12
              s12 == s11 \o f13
              t2 == Then(o1, o2)
              t3 == Then(t2, o3)
              t4 == Then(t3, o4)
              t5 == Then(t4, o5)
              t6 == Then(t5, o6)
              t7 == Then(t6, o7)
              t8 == Then(t7, o8)
              t9 == Then(t8, identity)
              t10 == Then(t9, o11)
              t11 == Then(t10, o12)
              t12 == Then(t11, o13)
  <1>25. P(pid, identity)
    BY <1>5, <1>22
  <1>26. ptpV2Header = s12 /\ start = t8
    BY <1>23
  <1>. HIDE DEF pid, identity, start
  <1>27. P(s2, t2)
    BY <1>5, <1>20
  <1>. HIDE DEF s2, t2
  <1>28. P(s3, t3)
    BY <1>5, <1>20, <1>27
  <1>. HIDE DEF s3, t3
  <1>29. P(s4, t4)
    BY <1>5, <1>20, <1>28
  <1>. HIDE DEF s4, t4
  <1>30. P(s5, t5)
    BY <1>5, <1>21, <1>29
  <1>. HIDE DEF s5, t5
  <1>31. P(s6, t6)
    BY <1>5, <1>21, <1>30
  <1>. HIDE DEF s6, t6
  <1>32. P(s7, t7)
    BY <1>5, <1>21, <1>31
  <1>. HIDE DEF s7, t7
  <1>33. P(s8, t8)
    BY <1>5, <1>21, <1>32
  <1>. HIDE DEF s8, t8
  <1>34. P(s9, t9)
    BY <1>5, <1>25, <1>33
  <1>. HIDE DEF s9
  <1>35. P(s10, t10)
    BY <1>5, <1>22, <1>34
  <1>. HIDE DEF s10
  <1>36. P(s11, t11)
    BY <1>5, <1>22, <1>35
  <1>. HIDE DEF s11
  <1>37. P(s12, t12)
    BY <1>5, <1>22, <1>36
  <1>. HIDE DEF s12
  <1>38. made = t12
    BY <1>26, <1>37 DEF P, Pushes, made
  <1>39. t12 = Then(t9, end)
    <2>1. o11 \in Bytes /\ o12 \in Bytes /\ o13 \in Bytes /\ t9 \in Bytes
      BY <1>22, <1>34 DEF P, Pushes
    <2>. HIDE DEF t9
    <2>2. Then(o11, o12) \in Bytes
      BY <2>1, ThenIs
    <2>3. Then(Then(t9, o11), o12) = Then(t9, Then(o11, o12))
      BY <2>1, ThenIsAssociative
    <2>4. Then(Then(t9, Then(o11, o12)), o13) = Then(t9, Then(Then(o11, o12), o13))
      BY <2>1, <2>2, ThenIsAssociative
    <2>. QED BY <2>3, <2>4
  <1>. HIDE DEF end
  <1>. QED BY <1>24, <1>26, <1>38, <1>39 DEF made

(* So does a message of this machine or of a device.                       *)
LEMMA HeaderIs ==
  ASSUME NEW type \in Int, NEW length \in Int, NEW domain \in Int, NEW source,
         source.id \in Bytes, source.port \in Int, NEW sequence \in Int, NEW interval \in Int
  PROVE  CreateHeader(type, length, domain, source, sequence, interval)
           = Then(Then(HeaderStart(type, length, domain), IdentityOctets(source)),
                  HeaderEnd(sequence, interval))
  <1>. DEFINE id == source.id
              port == source.port
              nothing == <<>>
              flags == IF Multicast THEN 0 ELSE 1024
              contents ==
                [nType |-> type, nVersion |-> 2, nMessageLength |-> length, nDomain |-> domain,
                 nFlags |-> flags, nCorrection |-> nothing,
                 reserved1 |-> nothing, reserved2 |-> nothing,
                 nSourceId |-> id, nSourcePort |-> port,
                 nSequenceId |-> sequence, nControl |-> 1, nInterval |-> interval]
              made == CreateHeader(type, length, domain, source, sequence, interval)
  <1>1. made = Create(ptpV2Header, contents)
    BY DEF CreateHeader
  <1>2. nothing \in Bytes
    BY JoinNothing
  <1>3. flags = Flags16
    BY DEF Flags16
  <1>. HIDE DEF flags, nothing
  <1>4. /\ contents["nType"] = type /\ contents["nVersion"] = 2
        /\ contents["nMessageLength"] = length /\ contents["nDomain"] = domain
        /\ contents["reserved1"] = nothing /\ contents["nFlags"] = flags
        /\ contents["nCorrection"] = nothing /\ contents["reserved2"] = nothing
        /\ contents["nSourceId"] = source.id /\ contents["nSourcePort"] = source.port
        /\ contents["nSequenceId"] = sequence /\ contents["nControl"] = 1
        /\ contents["nInterval"] = interval
    OBVIOUS
  <1>. HIDE DEF contents, made
  <1>5. \A width : FromHexStr(nothing, width) = HexNothing(width)
    BY DEF HexNothing, nothing
  <1>6. IsHeader(contents, type, length, domain, source, sequence, interval)
    BY <1>2, <1>3, <1>4, <1>5, Zenon DEF IsHeader
  <1>7. Create(ptpV2Header, contents)
          = Then(Then(HeaderStart(type, length, domain), IdentityOctets(source)),
                 HeaderEnd(sequence, interval))
    BY <1>6, HeaderPushed
  <1>. QED BY <1>1, <1>7 DEF made

Message(type, domain, source, sequence, interval, payload) ==
  CreateHeader(type, HeaderSize + Len(payload), domain, source, sequence, interval) \o payload

(* Fields of a message, for types of the arguments of CreateHeader.        *)
Headed(type, domain, source, sequence, interval) ==
  /\ type \in Int /\ domain \in Int /\ sequence \in Int /\ interval \in Int
  /\ source.id \in Bytes /\ source.port \in Int

(* What follows the identity of the sender.                                *)
After(sequence, interval, payload) == Then(HeaderEnd(sequence, interval), payload)

(* The end of a header with the payload after it.                          *)
LEMMA AfterIs ==
  ASSUME NEW sequence \in Int, NEW interval \in Int, NEW n \in Nat, NEW payload,
         OfSize(payload, n), NEW m \in Nat, m = 4 + n
  PROVE  /\ OfSize(After(sequence, interval, payload), m)
         /\ Holds(After(sequence, interval, payload), 1, 2, Octets(sequence, 2))
         /\ Holds(After(sequence, interval, payload), 5, m, payload)
  <1>. DEFINE end == HeaderEnd(sequence, interval)
              after == Then(end, payload)
              x == Octets(sequence, 2)
  <1>1. OfSize(end, 4) /\ Holds(end, 1, 2, x)
    BY HeaderEndIs
  <1>. HIDE DEF end, x
  <1>2. payload \in Bytes
    BY DEF OfSize
  <1>3. OfSize(after, m)
    BY <1>1, SizeThen
  <1>4. Holds(after, 1, 2, x)
    BY <1>1, <1>2, HoldsThen
  <1>5. Holds(after, 5, m, payload)
    BY <1>1, HoldsLast
  <1>. QED BY <1>3, <1>4, <1>5 DEF After, end, x

(* A message is three parts: what comes before the identity of its sender, *)
(* the identity, and the rest.                                             *)
LEMMA MessageParts ==
  ASSUME NEW type, NEW domain, NEW source, NEW sequence, NEW interval,
         Headed(type, domain, source, sequence, interval),
         NEW n \in Nat, NEW payload, OfSize(payload, n)
  PROVE  Message(type, domain, source, sequence, interval, payload)
           = Then(HeaderStart(type, 34 + n, domain),
                  Then(IdentityOctets(source), After(sequence, interval, payload)))
  <1>. DEFINE l == HeaderSize + Len(payload)
              k == 34 + n
              header == CreateHeader(type, l, domain, source, sequence, interval)
              start == HeaderStart(type, k, domain)
              identity == IdentityOctets(source)
              end == HeaderEnd(sequence, interval)
              message == Message(type, domain, source, sequence, interval, payload)
  <1>1. /\ type \in Int /\ domain \in Int /\ sequence \in Int /\ interval \in Int
        /\ source.id \in Bytes /\ source.port \in Int
    BY DEF Headed
  <1>2. l = k /\ k \in Int /\ payload \in Bytes
    BY DEF OfSize, HeaderSize
  <1>3. message = Then(header, payload)
    BY DEF Message, Then
  <1>. HIDE DEF message
  <1>4. header = Then(Then(start, identity), end)
    <2>. HIDE DEF l, k
    <2>. QED BY <1>1, <1>2, HeaderIs
  <1>5. start \in Bytes /\ identity \in Bytes /\ end \in Bytes
    <2>. HIDE DEF k
    <2>1. OfSize(start, 20)
      BY <1>1, <1>2, HeaderStartIs
    <2>2. OfSize(identity, 10)
      BY <1>1, IdentityIs
    <2>3. OfSize(end, 4)
      BY <1>1, HeaderEndIs
    <2>. HIDE DEF start, identity, end
    <2>. QED BY <2>1, <2>2, <2>3 DEF OfSize
  <1>. HIDE DEF header, start, identity, end
  <1>6. Then(start, identity) \in Bytes /\ Then(end, payload) \in Bytes
    BY <1>2, <1>5, ThenIs
  <1>7. message = Then(Then(start, identity), Then(end, payload))
    BY <1>2, <1>3, <1>4, <1>5, <1>6, ThenIsAssociative
  <1>8. message = Then(start, Then(identity, Then(end, payload)))
    BY <1>5, <1>6, <1>7, ThenIsAssociative
  <1>. QED BY <1>8 DEF message, After, start, identity, end, k

(* Where the parts of a message are.                                       *)
LEMMA MessageIs ==
  ASSUME NEW type, NEW domain, NEW source, NEW sequence, NEW interval,
         Headed(type, domain, source, sequence, interval),
         NEW n \in Nat, NEW payload, OfSize(payload, n), NEW message,
         message = Message(type, domain, source, sequence, interval, payload),
         NEW l \in Nat, l = 34 + n
  PROVE  /\ OfSize(message, l)
         /\ Holds(message, 3, 4, Octets(l, 2))
         /\ Holds(message, 1, 20, HeaderStart(type, l, domain))
         /\ Holds(message, 21, 30, IdentityOctets(source))
         /\ Holds(message, 31, 32, Octets(sequence, 2))
         /\ Holds(message, 31, l, After(sequence, interval, payload))
         /\ Holds(message, 35, l, payload)
  <1>. DEFINE start == HeaderStart(type, l, domain)
              identity == IdentityOctets(source)
              after == After(sequence, interval, payload)
              rest == Then(identity, after)
              x == Octets(l, 2)
              y == Octets(sequence, 2)
              m == 4 + n
              k == 14 + n
  <1>1. /\ type \in Int /\ domain \in Int /\ sequence \in Int /\ interval \in Int
        /\ source.id \in Bytes /\ source.port \in Int
    BY DEF Headed
  <1>2. l \in Int /\ m \in Nat /\ m = 4 + n /\ k = 10 + m /\ k \in Nat /\ l = 20 + k /\ l = 34 + n
    OBVIOUS
  <1>3. message = Then(start, rest)
    BY <1>2, MessageParts
  <1>4. OfSize(start, 20) /\ Holds(start, 3, 4, x)
    BY <1>1, <1>2, HeaderStartIs
  <1>5. OfSize(identity, 10)
    BY <1>1, IdentityIs
  <1>6. OfSize(after, m) /\ Holds(after, 1, 2, y) /\ Holds(after, 5, m, payload)
    <2>. HIDE DEF m
    <2>. QED BY <1>1, <1>2, AfterIs
  <1>. HIDE DEF start, identity, after, x, y, m, k
  <1>7. OfSize(rest, k)
    BY <1>2, <1>5, <1>6, SizeThen
  <1>8. identity \in Bytes /\ after \in Bytes
    BY <1>5, <1>6 DEF OfSize
  <1>9. Holds(rest, 1, 10, identity)
    BY <1>5, <1>8, HoldsFirst
  <1>10. Holds(rest, 11, 12, y)
    BY <1>2, <1>5, <1>6, HoldsInside
  <1>11. Holds(rest, 15, k, payload)
    BY <1>2, <1>5, <1>6, HoldsInside
  <1>12. Holds(rest, 11, k, after)
    BY <1>2, <1>5, <1>6, HoldsLast
  <1>. HIDE DEF rest
  <1>13. rest \in Bytes
    BY <1>7 DEF OfSize
  <1>. DEFINE whole == Then(start, rest)
  <1>14. OfSize(whole, l)
    BY <1>2, <1>4, <1>7, SizeThen
  <1>15. Holds(whole, 3, 4, x)
    BY <1>4, <1>13, HoldsThen
  <1>16. Holds(whole, 1, 20, start)
    BY <1>4, <1>13, HoldsFirst
  <1>17. Holds(whole, 21, 30, identity)
    BY <1>2, <1>4, <1>7, <1>9, HoldsInside
  <1>18. Holds(whole, 31, 32, y)
    BY <1>2, <1>4, <1>7, <1>10, HoldsInside
  <1>19. Holds(whole, 31, l, after)
    BY <1>2, <1>4, <1>7, <1>12, HoldsInside
  <1>20. Holds(whole, 35, l, payload)
    BY <1>2, <1>4, <1>7, <1>11, HoldsInside
  <1>. QED BY <1>3, <1>14, <1>15, <1>16, <1>17, <1>18, <1>19, <1>20
           DEF start, identity, after, x, y

(* The identity and the port that a text of a target is written as.        *)
TargetId(identity, number) ==
  FromHexStr(IF identity = <<>> THEN <<((number \div 10) % 10) * 16 + (number % 10)>>
             ELSE identity, 8)

TargetPort(identity, number) == IF identity = <<>> THEN 65535 ELSE number

(* FromPidStr gives the eight octets of a clock and the two of a port, for *)
(* an identity and without one.                                            *)
LEMMA PidParts ==
  ASSUME NEW identity \in Bytes, NEW number \in Word
  PROVE  /\ TargetId(identity, number) \in Bytes /\ TargetPort(identity, number) \in Word
         /\ OfSize(TargetId(identity, number), 8)
         /\ OfSize(Octets(TargetPort(identity, number), 2), 2)
         /\ FromPidStr(identity, number)
              = Then(TargetId(identity, number), Octets(TargetPort(identity, number), 2))
  <1>. DEFINE x == ((number \div 10) % 10) * 16 + (number % 10)
              one == <<x>>
              hex == IF identity = <<>> THEN one ELSE identity
              port == TargetPort(identity, number)
              a == FromHexStr(hex, 8)
              b == Octets(port, 2)
              pid == FromPidStr(identity, number)
  <1>1. number \in Nat /\ number \in Int
    BY WordIs
  <1>2. x \in Octet
    <2>1. x \in Nat /\ x < 256
      BY <1>1
    <2>. HIDE DEF x
    <2>. QED BY <2>1, OctetIs
  <1>. HIDE DEF x
  <1>3. one \in Bytes
    BY <1>2, OneByte
  <1>4. hex \in Bytes
    BY <1>3
  <1>5. port \in Word
    <2>1. 65535 \in Word
      BY WordIs, SMT
    <2>. QED BY <2>1 DEF TargetPort
  <1>6. port \in Int
    BY <1>5, WordIs
  <1>7. OfSize(a, 8)
    <2>. HIDE DEF hex
    <2>. QED BY <1>4, SizeHex
  <1>8. OfSize(b, 2)
    <2>. HIDE DEF port
    <2>. QED BY <1>6, SizeOctets
  <1>9. pid = Then(a, b)
    <2>1. CASE identity = <<>>
      <3>1. port = 65535 /\ hex = one
        BY <2>1 DEF TargetPort
      <3>2. Octets(65535, 2) = <<255, 255>>
        <4>. DEFINE big == 65535
                    two == 2
        <4>1. big \in Int /\ two \in Nat
          BY SMT
        <4>2. big \div 256 = 255 /\ big % 256 = 255 /\ 255 % 256 = 255
          BY SMT
        <4>. HIDE DEF big
        <4>3. PICK shifted : /\ IsShifted(shifted, big, two)
                             /\ Octets(big, two) = [k \in 1 .. two |-> shifted[two - k] % 256]
          <5>. HIDE DEF two
          <5>1. \E shifted : /\ IsShifted(shifted, big, two)
                             /\ Octets(big, two) = [k \in 1 .. two |-> shifted[two - k] % 256]
            BY <4>1, OctetsShift
          <5>. QED BY <5>1
        <4>4. shifted[0] = big /\ shifted[1] = 255
          BY <4>2, <4>3 DEF IsShifted
        <4>. DEFINE made == Octets(big, two)
        <4>5. made = [k \in 1 .. 2 |-> shifted[2 - k] % 256]
          BY <4>3
        <4>. HIDE DEF made
        <4>6. made \in Seq(Int) /\ Len(made) = 2 /\ made[1] = 255 /\ made[2] = 255
          <5>1. \A k \in 1 .. 2 : shifted[2 - k] \in Int
            BY <4>3 DEF IsShifted
          <5>2. made[1] = 255 /\ made[2] = 255
            BY <4>2, <4>4, <4>5
          <5>3. made \in Seq(Int) /\ Len(made) = 2
            BY <4>5, <5>1
          <5>. QED BY <5>2, <5>3
        <4>7. made = <<255, 255>>
          BY <4>6
        <4>. QED BY <4>7 DEF made, big
      <3>3. pid = FromHexStr(one, 8) \o <<255, 255>>
        BY <2>1 DEF FromPidStr, one, x
      <3>. HIDE DEF hex, port, one, pid
      <3>4. FromHexStr(hex, 8) = FromHexStr(one, 8)
        BY <3>1
      <3>5. Octets(port, 2) = <<255, 255>>
        BY <3>1, <3>2
      <3>6. pid = Then(FromHexStr(one, 8), <<255, 255>>)
        BY <3>3 DEF Then
      <3>7. pid = Then(FromHexStr(hex, 8), Octets(port, 2))
        BY <3>4, <3>5, <3>6, Zenon
      <3>. QED BY <3>7
    <2>2. CASE identity # <<>>
      BY <2>2 DEF FromPidStr, Then, TargetPort
    <2>. QED BY <2>1, <2>2
  <1>10. a = TargetId(identity, number)
    BY DEF TargetId, x
  <1>. HIDE DEF a, b, pid
  <1>11. a \in Bytes
    BY <1>7 DEF OfSize
  <1>. QED BY <1>5, <1>7, <1>8, <1>9, <1>10, <1>11 DEF b, pid

(* Where they are.                                                         *)
LEMMA PidStrIs ==
  ASSUME NEW identity \in Bytes, NEW number \in Word
  PROVE  /\ TargetId(identity, number) \in Bytes /\ TargetPort(identity, number) \in Word
         /\ OfSize(FromPidStr(identity, number), 10)
         /\ Holds(FromPidStr(identity, number), 1, 8, TargetId(identity, number))
         /\ Holds(FromPidStr(identity, number), 9, 10, Octets(TargetPort(identity, number), 2))
  <1>. DEFINE a == TargetId(identity, number)
              port == TargetPort(identity, number)
              b == Octets(port, 2)
              pid == FromPidStr(identity, number)
  <1>1. a \in Bytes /\ port \in Word /\ OfSize(a, 8) /\ OfSize(b, 2) /\ pid = Then(a, b)
    BY PidParts
  <1>. HIDE DEF a, b, pid
  <1>2. b \in Bytes
    BY <1>1 DEF OfSize
  <1>. DEFINE ab == Then(a, b)
  <1>3. OfSize(ab, 10)
    BY <1>1, SizeThen
  <1>4. Holds(ab, 1, 8, a)
    BY <1>1, <1>2, HoldsFirst
  <1>5. Holds(ab, 9, 10, b)
    BY <1>1, HoldsLast
  <1>. QED BY <1>1, <1>3, <1>4, <1>5 DEF a, b, pid

FieldsOctets(hops, action) ==
  Then(Then(Then(Octets(hops, 1), Octets(hops, 1)), Octets(action, 1)), HexNothing(1))

(* The hops, twice, and the action. What is pushed of the hops and the     *)
(* action, with other contents or not.                                     *)
LEMMA FieldsPushed ==
  ASSUME NEW names, "nStartingBoundaryHops" \in names, "nBoundaryHops" \in names,
         "eAction" \in names, "reserved" \in names, NEW hops \in Int, NEW action \in Int,
         NEW contents, contents["nStartingBoundaryHops"] = hops,
         contents["nBoundaryHops"] = hops, contents["eAction"] = action,
         contents["reserved"] \in Bytes, FromHexStr(contents["reserved"], 1) = HexNothing(1)
  PROVE  Pushes(names, MessageFields, contents, FieldsOctets(hops, action))
  <1>. DEFINE P(layout, octets) == Pushes(names, layout, contents, octets)
              f1 == U("nStartingBoundaryHops", 1)
              f2 == U("nBoundaryHops", 1)
              f3 == Field("eAction", "nibble", 1)
              f4 == Hex("reserved", 1)
              o1 == Octets(hops, 1)
              o3 == Octets(action, 1)
              o4 == HexNothing(1)
              one == 1
  <1>2. one \in 1 .. 128
    OBVIOUS
  <1>. HIDE DEF one
  <1>3. P(U("nStartingBoundaryHops", one), Octets(contents["nStartingBoundaryHops"], one))
    BY <1>2, PushU
  <1>4. P(U("nBoundaryHops", one), Octets(contents["nBoundaryHops"], one))
    BY <1>2, PushU
  <1>5. P(Field("eAction", "nibble", 1), Octets(contents["eAction"], 1))
    BY PushNibble
  <1>6. P(Hex("reserved", one), FromHexStr(contents["reserved"], one))
    BY <1>2, PushHex
  <1>7. ASSUME NEW a, NEW b, NEW x, NEW y, P(a, x), P(b, y)
        PROVE  P(a \o b, Then(x, y))
    BY <1>7, PushJoin
  <1>. HIDE DEF P
  <1>8. P(f1, o1) /\ P(f2, o1) /\ P(f3, o3) /\ P(f4, o4)
    BY <1>3, <1>4, <1>5, <1>6 DEF one
  <1>9. MessageFields = f1 \o f2 \o f3 \o f4
    BY UsTwo DEF MessageFields
  <1>10. FieldsOctets(hops, action) = Then(Then(Then(o1, o1), o3), o4)
    BY DEF FieldsOctets
  <1>. HIDE DEF f1, f2, f3, f4, o1, o3, o4
  <1>11. P(f1 \o f2, Then(o1, o1))
    BY <1>7, <1>8
  <1>12. P(f1 \o f2 \o f3, Then(Then(o1, o1), o3))
    BY <1>7, <1>8, <1>11
  <1>13. P(f1 \o f2 \o f3 \o f4, Then(Then(Then(o1, o1), o3), o4))
    BY <1>7, <1>8, <1>12
  <1>. QED BY <1>9, <1>10, <1>13 DEF P

(* So are those of a message with nothing in what is reserved.             *)
LEMMA FieldsIs ==
  ASSUME NEW hops \in Int, NEW action \in Int
  PROVE  Create(MessageFields, [nStartingBoundaryHops |-> hops, nBoundaryHops |-> hops,
                                eAction |-> action, reserved |-> <<>>])
           = FieldsOctets(hops, action)
  <1>. DEFINE nothing == <<>>
              contents == [nStartingBoundaryHops |-> hops, nBoundaryHops |-> hops,
                           eAction |-> action, reserved |-> nothing]
              names == {"nStartingBoundaryHops", "nBoundaryHops", "eAction", "reserved"}
  <1>1. /\ "nStartingBoundaryHops" \in names /\ "nBoundaryHops" \in names
        /\ "eAction" \in names /\ "reserved" \in names
        /\ contents["nStartingBoundaryHops"] = hops /\ contents["nBoundaryHops"] = hops
        /\ contents["eAction"] = action /\ contents["reserved"] = nothing
    OBVIOUS
  <1>2. nothing \in Bytes
    BY JoinNothing
  <1>3. FromHexStr(nothing, 1) = HexNothing(1)
    BY DEF HexNothing
  <1>. HIDE DEF nothing, contents, names
  <1>4. Pushes(names, MessageFields, contents, FieldsOctets(hops, action))
    BY <1>1, <1>2, <1>3, FieldsPushed
  <1>5. Create(MessageFields, contents) = FieldsOctets(hops, action)
    BY <1>4 DEF Pushes
  <1>. QED BY <1>5 DEF contents, nothing

(* The hops, the action and the reserved octet are four octets.            *)
LEMMA FieldsSize ==
  ASSUME NEW hops \in Int, NEW action \in Int
  PROVE  OfSize(FieldsOctets(hops, action), 4)
  <1>. DEFINE o1 == Octets(hops, 1)
              o3 == Octets(action, 1)
              o4 == HexNothing(1)
              a == Then(o1, o1)
              b == Then(a, o3)
              c == Then(b, o4)
  <1>1. OfSize(o1, 1) /\ OfSize(o3, 1)
    BY SizeOctets
  <1>2. OfSize(o4, 1)
    BY JoinNothing, SizeHex DEF HexNothing
  <1>. HIDE DEF o1, o3, o4
  <1>3. OfSize(a, 2)
    BY <1>1, SizeThen
  <1>. HIDE DEF a
  <1>4. OfSize(b, 3)
    BY <1>1, <1>3, SizeThen
  <1>. HIDE DEF b
  <1>5. OfSize(c, 4)
    BY <1>2, <1>4, SizeThen
  <1>. QED BY <1>5 DEF FieldsOctets, o1, o3, o4, a, b

Tlv(type, length, body) == Then(Then(Octets(type, 2), Octets(length, 2)), body)

(* A TLV holds its type, its length and its body.                          *)
LEMMA TlvIs ==
  ASSUME NEW type \in Int, NEW length \in Int, NEW n \in Nat, NEW body, OfSize(body, n),
         NEW l \in Nat, l = 4 + n
  PROVE  /\ OfSize(Tlv(type, length, body), l)
         /\ Holds(Tlv(type, length, body), 1, 2, Octets(type, 2))
         /\ Holds(Tlv(type, length, body), 3, 4, Octets(length, 2))
         /\ Holds(Tlv(type, length, body), 5, l, body)
  <1>. DEFINE a == Octets(type, 2)
              b == Octets(length, 2)
              ab == Then(a, b)
              abc == Then(ab, body)
  <1>1. OfSize(a, 2) /\ OfSize(b, 2)
    BY SizeOctets
  <1>. HIDE DEF a, b
  <1>2. a \in Bytes /\ b \in Bytes /\ body \in Bytes
    BY <1>1 DEF OfSize
  <1>3. OfSize(ab, 4)
    BY <1>1, SizeThen
  <1>4. Holds(ab, 1, 2, a)
    BY <1>1, <1>2, HoldsFirst
  <1>5. Holds(ab, 3, 4, b)
    BY <1>1, HoldsLast
  <1>. HIDE DEF ab
  <1>6. OfSize(abc, l)
    BY <1>3, SizeThen
  <1>7. Holds(abc, 1, 2, a)
    BY <1>2, <1>3, <1>4, HoldsThen
  <1>8. Holds(abc, 3, 4, b)
    BY <1>2, <1>3, <1>5, HoldsThen
  <1>9. Holds(abc, 5, l, body)
    BY <1>3, HoldsLast
  <1>. QED BY <1>6, <1>7, <1>8, <1>9 DEF Tlv, a, b, ab

(* An octet is added when the number of octets is odd.                     *)
LEMMA PadIs ==
  ASSUME NEW a \in Bytes
  PROVE  /\ Pad(a) \in Bytes /\ Len(Pad(a)) % 2 = 0 /\ Len(Pad(a)) <= Len(a) + 1
         /\ \E more \in Bytes : Pad(a) = Then(a, more)
  <1>. DEFINE n == Len(a)
              zero == <<0>>
              none == <<>>
  <1>1. n \in Nat
    BY BytesAre
  <1>2. 0 \in Octet
    BY OctetIs
  <1>3. zero \in Bytes /\ Len(zero) = 1 /\ none \in Bytes /\ a \o none = a
    BY <1>2, OneByte, JoinNothing
  <1>. HIDE DEF zero, none
  <1>4. a \o zero \in Bytes /\ Len(a \o zero) = Len(a) + Len(zero)
    BY <1>3, Join
  <1>. DEFINE longer == a \o zero
              m == Len(longer)
  <1>5. longer \in Bytes /\ m = n + 1
    BY <1>3, <1>4
  <1>6. Pad(a) = IF n % 2 = 0 THEN a ELSE longer
    BY DEF Pad, zero
  <1>7. CASE n % 2 = 0
    <2>1. Pad(a) = a /\ a = Then(a, none)
      BY <1>3, <1>6, <1>7 DEF Then
    <2>2. Len(Pad(a)) = n
      BY <2>1
    <2>. HIDE DEF n
    <2>. QED BY <1>1, <1>3, <1>7, <2>1, <2>2 DEF n
  <1>8. CASE n % 2 # 0
    <2>1. Pad(a) = longer /\ longer = Then(a, zero)
      BY <1>6, <1>8 DEF Then
    <2>2. Len(Pad(a)) = m
      BY <2>1
    <2>. HIDE DEF n, m, longer
    <2>3. (n + 1) % 2 = 0
      BY <1>1, <1>8
    <2>4. Len(Pad(a)) % 2 = 0 /\ Len(Pad(a)) <= n + 1
      BY <1>1, <1>5, <2>2, <2>3
    <2>. QED BY <1>3, <1>5, <2>1, <2>4 DEF n
  <1>. QED BY <1>7, <1>8

PayloadOf(pid, hops, action, tlv) == Then(Then(pid, FieldsOctets(hops, action)), tlv)

(* The payload of a management message holds its target, its fields and    *)
(* its TLV.                                                                *)
LEMMA PayloadIs ==
  ASSUME NEW pid, OfSize(pid, 10), NEW hops \in Int, NEW action \in Int,
         NEW n \in Nat, NEW tlv, OfSize(tlv, n), NEW l \in Nat, l = 14 + n
  PROVE  /\ OfSize(PayloadOf(pid, hops, action, tlv), l)
         /\ Holds(PayloadOf(pid, hops, action, tlv), 1, 10, pid)
         /\ Holds(PayloadOf(pid, hops, action, tlv), 11, 14, FieldsOctets(hops, action))
         /\ Holds(PayloadOf(pid, hops, action, tlv), 15, l, tlv)
  <1>. DEFINE f == FieldsOctets(hops, action)
              a == Then(pid, f)
              b == Then(a, tlv)
  <1>1. OfSize(f, 4)
    BY FieldsSize
  <1>. HIDE DEF f
  <1>2. f \in Bytes /\ tlv \in Bytes
    BY <1>1 DEF OfSize
  <1>3. OfSize(a, 14)
    BY <1>1, SizeThen
  <1>4. Holds(a, 1, 10, pid)
    BY <1>2, HoldsFirst
  <1>5. Holds(a, 11, 14, f)
    BY <1>1, HoldsLast
  <1>. HIDE DEF a
  <1>6. OfSize(b, l)
    BY <1>3, SizeThen
  <1>7. Holds(b, 1, 10, pid)
    BY <1>2, <1>3, <1>4, HoldsThen
  <1>8. Holds(b, 11, 14, f)
    BY <1>2, <1>3, <1>5, HoldsThen
  <1>9. Holds(b, 15, l, tlv)
    BY <1>3, HoldsLast
  <1>. QED BY <1>6, <1>7, <1>8, <1>9 DEF PayloadOf, f, a

(* Every managementId fits the two octets it is pushed with.               *)
LEMMA IdsAreWords == \A id \in DOMAIN enumId : enumId[id] \in Word
  <1>1. \A id \in DOMAIN enumId : enumId[id] \in Nat /\ enumId[id] < 65536
    BY SMT DEF enumId
  <1>. QED BY <1>1, WordIs

(* The numbers of the actions.                                             *)
LEMMA ActionsAre ==
  enumAction["kGet"] = 0 /\ enumAction["kSet"] = 1 /\ enumAction["kResponse"] = 2
  BY DEF enumAction

-----------------------------------------------------------------------------
(* The TLVs of requests, and the data that can be set.                     *)

(* What is written for data, padded, and the length that says so.          *)
TlvData(id, data) == Pad(Create(Written[id], data))

TlvBody(id, data) ==
  IF data = None THEN Octets(enumId[id], 2)
  ELSE Then(Octets(enumId[id], 2), TlvData(id, data))

TlvLength(id, data) == IF data = None THEN 0 ELSE 2 + Len(TlvData(id, data))

(* Data of a type that is written for an id, or none.                      *)
CanCarry(id, data) ==
  /\ id \in DOMAIN enumId
  /\ data # None => id \in DOMAIN Written /\ CanWrite(Written[id], data)

(* The data of a TLV are what CreateMessage pushes for them and an octet   *)
(* at most, so that their length is even.                                  *)
LEMMA TlvDataIs ==
  ASSUME NEW id \in DOMAIN Written, NEW data, CanWrite(Written[id], data)
  PROVE  /\ TlvData(id, data) \in Bytes /\ Len(TlvData(id, data)) % 2 = 0
         /\ Len(TlvData(id, data)) <= 6401
         /\ Create(Written[id], data) \in Bytes
         /\ \E more \in Bytes : TlvData(id, data) = Then(Create(Written[id], data), more)
  <1>. DEFINE layout == Written[id]
              names == NamesOf(layout)
              octets == Create(layout, data)
              n == Len(layout)
  <1>1. Laid(layout) /\ SizeOf(layout) <= 16
    BY AllWritten DEF TlvWritten
  <1>. HIDE DEF layout
  <1>2. layout \in Seq(Fields(names)) /\ n <= 16 /\ n \in Nat
    BY <1>1 DEF Laid, IsLayout, SizeOf
  <1>3. CanWrite(layout, data)
    BY DEF layout
  <1>4. octets \in Bytes /\ Len(octets) <= FieldSize * n
    <2>. HIDE DEF names
    <2>. QED BY <1>2, <1>3, CreateType
  <1>. HIDE DEF octets
  <1>5. Len(octets) <= 6400
    <2>. DEFINE l == Len(octets)
    <2>1. l \in Nat /\ l <= FieldSize * n
      BY <1>4, BytesAre
    <2>. HIDE DEF l, n
    <2>2. l <= 6400
      BY <1>2, <2>1 DEF FieldSize
    <2>. QED BY <2>2 DEF l
  <1>6. /\ Pad(octets) \in Bytes /\ Len(Pad(octets)) % 2 = 0 /\ Len(Pad(octets)) <= Len(octets) + 1
        /\ \E more \in Bytes : Pad(octets) = Then(octets, more)
    BY <1>4, PadIs
  <1>7. Len(octets) \in Nat /\ Len(Pad(octets)) \in Nat
    BY <1>4, <1>6, BytesAre
  <1>8. Len(Pad(octets)) <= 6401
    BY <1>5, <1>6, <1>7
  <1>. QED BY <1>4, <1>6, <1>8 DEF TlvData, octets, layout

(* The TLV of a request or an answer, as the sequence of its parts.        *)
LEMMA CreateTlvIs ==
  ASSUME NEW id, NEW data, CanCarry(id, data)
  PROVE  /\ CreateTlv(id, data) = Tlv(1, TlvLength(id, data), TlvBody(id, data))
         /\ TlvLength(id, data) \in Nat /\ TlvLength(id, data) <= 6403
         /\ TlvLength(id, data) % 2 = 0
         /\ OfSize(TlvBody(id, data), Len(TlvBody(id, data)))
         /\ Len(TlvBody(id, data)) = IF data = None THEN 2 ELSE TlvLength(id, data)
         /\ Holds(TlvBody(id, data), 1, 2, Octets(enumId[id], 2))
  <1>. DEFINE e == Octets(enumId[id], 2)
              t == Octets(1, 2)
              number == enumId[id]
  <1>1. number \in Int
    <2>1. number \in Word
      BY IdsAreWords DEF CanCarry
    <2>. QED BY <2>1, WordIs
  <1>2. OfSize(e, 2) /\ OfSize(t, 2)
    <2>. HIDE DEF number
    <2>1. OfSize(Octets(number, 2), 2) /\ OfSize(Octets(1, 2), 2)
      BY <1>1, SizeOctets
    <2>. QED BY <2>1 DEF number
  <1>. HIDE DEF e, t, number
  <1>3. e \in Bytes /\ t \in Bytes /\ Len(e) = 2
    BY <1>2 DEF OfSize
  <1>4. CASE data = None
    <2>1. TlvBody(id, data) = e /\ TlvLength(id, data) = 0
      BY <1>4 DEF TlvBody, TlvLength, e
    <2>2. CreateTlv(id, data) = Then(Then(t, Octets(0, 2)), e)
      BY <1>4 DEF CreateTlv, Then, kManagement, e, t
    <2>3. Tlv(1, TlvLength(id, data), TlvBody(id, data)) = Then(Then(t, Octets(0, 2)), e)
      BY <2>1 DEF Tlv, t
    <2>4. Holds(e, 1, 2, e)
      <3>1. Holds(Then(e, <<>>), 1, 2, e)
        BY <1>2, JoinNothing, HoldsFirst
      <3>2. Then(e, <<>>) = e
        BY <1>3, JoinNothing DEF Then
      <3>. QED BY <3>1, <3>2
    <2>5. /\ TlvLength(id, data) \in Nat /\ TlvLength(id, data) <= 6403
          /\ TlvLength(id, data) % 2 = 0
      BY <2>1
    <2>6. OfSize(TlvBody(id, data), Len(TlvBody(id, data))) /\ Len(TlvBody(id, data)) = 2
      BY <1>2, <1>3, <2>1
    <2>7. Holds(TlvBody(id, data), 1, 2, Octets(enumId[id], 2))
      BY <2>1, <2>4 DEF e
    <2>. QED BY <1>4, <2>2, <2>3, <2>5, <2>6, <2>7
  <1>5. CASE data # None
    <2>. DEFINE v == TlvData(id, data)
                n == Len(v)
                l == 2 + n
                body == Then(e, v)
                length == Octets(l, 2)
    <2>1. v \in Bytes /\ n % 2 = 0 /\ n <= 6401
      BY <1>5, TlvDataIs DEF CanCarry
    <2>2. TlvBody(id, data) = body /\ TlvLength(id, data) = l
      BY <1>5 DEF TlvBody, TlvLength, e
    <2>3. CreateTlv(id, data) = t \o Octets(n + 2, 2) \o e \o v
      BY <1>5 DEF CreateTlv, TlvData, kManagement, e, t
    <2>. HIDE DEF v
    <2>4. n \in Nat /\ l = n + 2
      BY <2>1, BytesAre
    <2>5. OfSize(v, n)
      BY <2>1, <2>4 DEF OfSize
    <2>. HIDE DEF n
    <2>6. l \in Nat /\ l % 2 = 0 /\ l <= 6403 /\ l \in Int
      BY <2>1, <2>4
    <2>7. OfSize(length, 2)
      <3>. HIDE DEF l
      <3>. QED BY <2>6, SizeOctets
    <2>8. CreateTlv(id, data) = t \o length \o e \o v
      BY <2>3, <2>4
    <2>9. OfSize(body, l)
      <3>1. l = 2 + n
        OBVIOUS
      <3>. HIDE DEF l
      <3>. QED BY <1>2, <2>4, <2>5, <2>6, <3>1, SizeThen
    <2>10. Holds(body, 1, 2, e)
      BY <1>2, <2>1, HoldsFirst
    <2>. HIDE DEF l, length
    <2>11. length \in Bytes
      BY <2>7 DEF OfSize
    <2>12. t \o length \o e \o v = Then(Then(Then(t, length), e), v)
      BY DEF Then
    <2>13. Then(t, length) \in Bytes
      BY <1>3, <2>11, ThenIs
    <2>14. Then(Then(Then(t, length), e), v) = Then(Then(t, length), body)
      BY <1>3, <2>1, <2>13, ThenIsAssociative
    <2>. HIDE DEF body
    <2>15. CreateTlv(id, data) = Tlv(1, l, body)
      BY <2>8, <2>12, <2>14 DEF Tlv, t, length
    <2>16. Len(body) = l
      BY <2>9 DEF OfSize
    <2>. QED BY <1>5, <2>2, <2>6, <2>9, <2>10, <2>15, <2>16 DEF e
  <1>. QED BY <1>4, <1>5

(* Whatever a member that is not initialised holds can be written.         *)
LEMMA InitialIs ==
  ASSUME NEW names, NEW field \in Fields(names), NEW garbage \in Nat
  PROVE  Writable(field, Initial(field, garbage))
  <1>. DEFINE value == Initial(field, garbage)
              weights == field.weights
              set == {w \in weights : field.name \in {"bClock", "traceable", "bPtpTimescale"}
                                        /\ (garbage \div w) % 2 = 1}
  <1>1. field.kind \in Kinds /\ weights \subseteq Weights
    BY DEF Fields
  <1>2. CASE field.kind \in NumberKinds
    <2>1. value = 0
      BY <1>2 DEF Initial, NumberKinds
    <2>. HIDE DEF value
    <2>. QED BY <1>2, <2>1, WritableNumber DEF value
  <1>3. CASE field.kind \in FlagKinds
    <2>1. value = set
      BY <1>3 DEF Initial, FlagKinds
    <2>2. set \subseteq Weights
      <3>. HIDE DEF weights
      <3>. QED BY <1>1
    <2>. HIDE DEF set, value
    <2>3. Writable(field, value)
      BY <1>3, <2>1, <2>2, WritableFlags
    <2>. QED BY <2>3 DEF value
  <1>4. CASE field.kind \in TextKinds
    <2>1. value = <<>>
      BY <1>4 DEF Initial, TextKinds
    <2>2. value \in Bytes /\ Len(value) <= 255
      BY <2>1, JoinNothing
    <2>. HIDE DEF value
    <2>3. Writable(field, value)
      BY <1>4, <2>2, WritableText
    <2>. QED BY <2>3 DEF value
  <1>5. CASE field.kind = "hex"
    <2>1. value = <<>>
      BY <1>5 DEF Initial
    <2>2. value \in Bytes
      BY <2>1, JoinNothing
    <2>. HIDE DEF value
    <2>3. Writable(field, value)
      BY <1>5, <2>2, WritableHex
    <2>. QED BY <2>3 DEF value
  <1>6. CASE field.kind = "name+location"
    <2>1. value = << <<>>, <<>> >>
      BY <1>6 DEF Initial
    <2>2. value[1] \in Bytes /\ value[2] \in Bytes
      BY <2>1, JoinNothing
    <2>. HIDE DEF value
    <2>3. Writable(field, value)
      BY <1>6, <2>2, WritableDescription
    <2>. QED BY <2>3 DEF value
  <1>7. CASE field.kind = "time"
    <2>1. value = 0
      BY <1>7 DEF Initial
    <2>. HIDE DEF value
    <2>. QED BY <1>7, <2>1, WritableTime DEF value
  <1>. QED BY <1>1, <1>2, <1>3, <1>4, <1>5, <1>6, <1>7 DEF Kinds

(* The data a Get is sent with can be written.                             *)
LEMMA BlankIs ==
  ASSUME NEW id \in DOMAIN Written, NEW garbage \in Nat
  PROVE  CanWrite(Written[id], Blank(id, garbage))
  <1>. DEFINE layout == Written[id]
              n == Len(layout)
              names == NamesOf(layout)
              members == {layout[i] : i \in DOMAIN layout}
              blank == Blank(id, garbage)
              of(name) == Initial(CHOOSE m \in members : m.name = name, garbage)
  <1>1. /\ layout \in Seq(Fields(names)) /\ n \in Nat /\ DOMAIN layout = 1 .. n
        /\ \A i, j \in 1 .. n : layout[i].name = layout[j].name => i = j
        /\ \A i \in 1 .. n : SuitsBlank(layout[i])
        /\ \A i \in 1 .. n : layout[i] \in Fields(names)
    <2>1. Laid(layout)
      BY AllWritten DEF TlvWritten
    <2>. HIDE DEF layout
    <2>2. IsLayout(layout, names, n) /\ \A i \in 1 .. n : SuitsBlank(layout[i])
      BY <2>1 DEF Laid
    <2>3. /\ layout \in Seq(Fields(names)) /\ n \in Nat
          /\ \A i, j \in 1 .. n : layout[i].name = layout[j].name => i = j
      BY <2>2 DEF IsLayout
    <2>. HIDE DEF names
    <2>4. DOMAIN layout = 1 .. n
      BY <2>3, LenProperties
    <2>5. \A i \in 1 .. n : layout[i] \in Fields(names)
      BY <2>3, ElementOfSeq
    <2>. QED BY <2>2, <2>3, <2>4, <2>5
  <1>2. id = "kTime" => \A i \in 1 .. n : layout[i].kind = "time"
    <2>1. ASSUME id = "kTime"
          PROVE  layout = tlvTime
      <3>1. id \in DOMAIN Layouts
        BY DEF Written
      <3>2. Written[id] = Layouts[id]
        BY <2>1, <3>1 DEF Written
      <3>3. Layouts[id] = tlvTime
        BY <2>1, <3>1 DEF Layouts
      <3>. QED BY <3>2, <3>3
    <2>2. \A i \in 1 .. Len(tlvTime) : tlvTime[i].kind = "time"
      BY DEF tlvTime, Field
    <2>. HIDE DEF layout
    <2>. QED BY <2>1, <2>2
  <1>. HIDE DEF layout, n
  <1>3. SUFFICES ASSUME NEW i \in 1 .. n
                 PROVE  Writable(layout[i], blank[layout[i].name])
    BY DEF CanWrite, layout, n, blank
  <1>. DEFINE field == layout[i]
              name == field.name
  <1>4. field \in members /\ \A m \in members : m.name = name => m = field
    BY <1>1
  <1>5. name \in {m.name : m \in members}
    BY <1>4
  <1>6. (CHOOSE m \in members : m.name = name) = field
    <2>. HIDE DEF members, field
    <2>. QED BY <1>4
  <1>7. of(name) = Initial(field, garbage)
    BY <1>6, Zenon
  <1>8. Writable(field, of(name))
    <2>1. Writable(field, Initial(field, garbage))
      <3>. HIDE DEF field
      <3>. QED BY <1>1, InitialIs DEF field
    <2>. HIDE DEF of
    <2>. QED BY <1>7, <2>1
  <1>9. blank[name] =
          CASE id = "kPortDataSet" /\ name = "eDelayMechanism"        -> 1
            [] id = "kPortPropertiesNp" /\ name = "sInterface"        -> <<0>>
            [] id = "kVersionNumber" /\ name = "nValue"               -> garbage % 256
            [] id = "kAlternateTimeOffsetName" /\ name = "nKeyField"  -> garbage % 256
            [] id = "kTime"                                           -> garbage
            [] OTHER -> of(name)
    <2>. HIDE DEF field, name
    <2>. QED BY <1>5 DEF Blank, layout
  <1>10. SuitsBlank(field)
    BY <1>1
  <1>. HIDE DEF field, of, blank, members
  <1>11. CASE id = "kPortDataSet" /\ name = "eDelayMechanism"
    <2>1. blank[name] = 1 /\ field.kind \in NumberKinds
      BY <1>9, <1>10, <1>11 DEF SuitsBlank
    <2>. QED BY <2>1, WritableNumber DEF field
  <1>12. CASE id = "kPortPropertiesNp" /\ name = "sInterface"
    <2>1. blank[name] = <<0>> /\ field.kind \in TextKinds
      BY <1>9, <1>10, <1>12 DEF SuitsBlank, TextKinds
    <2>2. 0 \in Octet
      BY OctetIs
    <2>3. blank[name] \in Bytes /\ Len(blank[name]) <= 255
      BY <2>1, <2>2, OneByte
    <2>. QED BY <2>1, <2>3, WritableText DEF field
  <1>13. CASE id = "kVersionNumber" /\ name = "nValue"
    <2>1. blank[name] = garbage % 256 /\ field.kind \in NumberKinds
      BY <1>9, <1>10, <1>13 DEF SuitsBlank
    <2>2. garbage % 256 \in Int
      OBVIOUS
    <2>. QED BY <2>1, <2>2, WritableNumber DEF field
  <1>14. CASE id = "kAlternateTimeOffsetName" /\ name = "nKeyField"
    <2>1. blank[name] = garbage % 256 /\ field.kind \in NumberKinds
      BY <1>9, <1>10, <1>14 DEF SuitsBlank
    <2>2. garbage % 256 \in Int
      OBVIOUS
    <2>. QED BY <2>1, <2>2, WritableNumber DEF field
  <1>15. CASE id = "kTime"
    <2>1. blank[name] = garbage
      BY <1>9, <1>15
    <2>2. field.kind = "time"
      BY <1>2, <1>15 DEF field
    <2>. QED BY <2>1, <2>2, WritableTime DEF field
  <1>16. CASE /\ ~(id = "kPortDataSet" /\ name = "eDelayMechanism")
              /\ ~(id = "kPortPropertiesNp" /\ name = "sInterface")
              /\ ~(id = "kVersionNumber" /\ name = "nValue")
              /\ ~(id = "kAlternateTimeOffsetName" /\ name = "nKeyField")
              /\ id # "kTime"
    <2>1. blank[name] = of(name)
      BY <1>9, <1>16
    <2>. QED BY <1>8, <2>1 DEF field
  <1>. QED BY <1>11, <1>12, <1>13, <1>14, <1>15, <1>16

(* A Get can push its data for every id that can be asked for.             *)
LEMMA GetCanCarry ==
  ASSUME NEW id \in enumGet, NEW garbage \in Nat
  PROVE  CanCarry(id, GetData(id, garbage))
  <1>1. id \in DOMAIN enumId
    BY DEF enumGet
  <1>2. id \in DOMAIN Written => CanWrite(Written[id], Blank(id, garbage))
    BY BlankIs
  <1>. QED BY <1>1, <1>2 DEF CanCarry, GetData

(* The flags are weights.                                                  *)
LEMMA FlagsAreWeights == AllFlags \subseteq Weights
  BY DEF AllFlags, enumFlags, Weights

(* A set of flags can be pushed as the least of them.                      *)
LEMMA PushLeast ==
  ASSUME NEW names, NEW name \in names, NEW contents, contents[name] \subseteq AllFlags
  PROVE  CanPush(names, Flags(name, "least", 1, AllFlags), contents)
  <1>. DEFINE kind == "least"
              width == 1
              weights == AllFlags
              field == [name |-> name, kind |-> kind, width |-> width, weights |-> weights]
              layout == Flags(name, kind, width, weights)
  <1>1. kind \in Kinds /\ kind \in FlagKinds /\ width \in 1 .. 128 /\ weights \subseteq Weights
    BY FlagsAreWeights DEF Kinds, FlagKinds
  <1>2. layout = <<field>>
    BY DEF Flags
  <1>3. field.kind = kind
    OBVIOUS
  <1>5. contents[name] \subseteq Weights
    BY FlagsAreWeights
  <1>. HIDE DEF kind, width, layout, weights
  <1>4. Writable(field, contents[name])
    <2>. HIDE DEF field
    <2>. QED BY <1>1, <1>3, <1>5, WritableFlags
  <1>6. CanPush(names, layout, contents)
    BY <1>1, <1>2, <1>4, PushField
  <1>. QED BY <1>6 DEF layout, kind, width, weights

(* Contents with a number can be pushed by its layout.                     *)
LEMMA CanPushNumber ==
  ASSUME NEW names, NEW name \in names, NEW width \in 1 .. 128,
         NEW contents, contents[name] \in Int
  PROVE  CanPush(names, U(name, width), contents) /\ CanPush(names, I(name, width), contents)
  BY PushU, PushI DEF Pushes

(* Contents that two layouts can push, both together can.                  *)
LEMMA CanPushJoin ==
  ASSUME NEW names, NEW contents, NEW a, NEW b, CanPush(names, a, contents),
         CanPush(names, b, contents)
  PROVE  CanPush(names, a \o b, contents)
  BY CreateJoin

(* What the Manager sets.                                                  *)
BasicIds ==
  {"kPriority1", "kPriority2", "kAlternateTimeOffsetEnable", "kSynchronizationUncertainNp",
   "kDomain", "kSlaveOnly", "kLogAnnounceInterval", "kAnnounceReceiptTimeout",
   "kLogSyncInterval"}

BasicData == [nValue : Octet, nReserved : Octet]

NameData == [nKeyField : Octet, sName : Bytes]

SettingsData ==
  [nClass : Octet, eAccuracy : Octet, nOffsetScaledLogVariance : Word,
   nUtcOffset : SignedWord, eTimeSource : Octet, flags : SUBSET AllFlags]

PortData == [neighbourPropDelayThresh : {n \in Nat : IsThreshold(n)}, bCapable : {0, 1}]

DescriptionData == [sName_sLocation : Bytes \X Bytes]

TimeData == [timestamp : Nat]

Settable(id, data) ==
  \/ id \in BasicIds \cup {"kVersionNumber"} /\ data \in BasicData
  \/ id = "kAlternateTimeOffsetName" /\ data \in NameData /\ Len(data.sName) <= 10
  \/ id = "kAlternateTimeOffsetProperties"
  \/ id = "kGrandmasterSettingsNp" /\ data \in SettingsData
  \/ id = "kPortDataSetNp" /\ data \in PortData
  \/ id = "kUserDescription" /\ data \in DescriptionData
  \/ id = "kTime" /\ data \in TimeData /\ IsTime(data.timestamp)

(* The data of a Set of one number can be pushed.                          *)
LEMMA BasicCanPush ==
  ASSUME NEW data \in BasicData
  PROVE  CanPush({"nValue", "nReserved"}, tlvBasic, data)
  <1>. DEFINE names == {"nValue", "nReserved"}
              one == 1
              a == U("nValue", one)
              b == U("nReserved", one)
  <1>1. data["nValue"] \in Octet /\ data["nReserved"] \in Octet
    BY DEF BasicData
  <1>2. data["nValue"] \in Int /\ data["nReserved"] \in Int
    BY <1>1, OctetIs
  <1>3. "nValue" \in names /\ "nReserved" \in names /\ one \in 1 .. 128
    OBVIOUS
  <1>4. tlvBasic = a \o b
    BY UsTwo DEF tlvBasic
  <1>. HIDE DEF names, one
  <1>5. CanPush(names, a, data) /\ CanPush(names, b, data)
    BY <1>2, <1>3, CanPushNumber
  <1>. HIDE DEF a, b
  <1>6. CanPush(names, a \o b, data)
    BY <1>5, CanPushJoin
  <1>. QED BY <1>4, <1>6 DEF names

(* So can those of a Set of the version number.                            *)
LEMMA VersionCanPush ==
  ASSUME NEW data \in BasicData
  PROVE  CanPush({"nValue", "nReserved"}, tlvVersion, data)
  <1>. DEFINE names == {"nValue", "nReserved"}
              one == 1
              a == Field("nValue", "nibble", 1)
              b == U("nReserved", one)
  <1>1. data["nValue"] \in Octet /\ data["nReserved"] \in Octet
    BY DEF BasicData
  <1>2. data["nValue"] \in Int /\ data["nReserved"] \in Int
    BY <1>1, OctetIs
  <1>3. "nValue" \in names /\ "nReserved" \in names /\ one \in 1 .. 128
    OBVIOUS
  <1>4. tlvVersion = a \o b
    BY DEF tlvVersion
  <1>. HIDE DEF names, one
  <1>5. CanPush(names, a, data) /\ CanPush(names, b, data)
    BY <1>2, <1>3, CanPushNumber, PushNibble DEF Pushes
  <1>. HIDE DEF a, b
  <1>6. CanPush(names, a \o b, data)
    BY <1>5, CanPushJoin
  <1>. QED BY <1>4, <1>6 DEF names

(* So can those of a Set of a name.                                        *)
LEMMA NameCanPush ==
  ASSUME NEW data \in NameData, Len(data.sName) <= 10
  PROVE  CanPush({"nKeyField", "sName"}, tlvAlternateTimeOffsetName, data)
  <1>. DEFINE names == {"nKeyField", "sName"}
              one == 1
              a == U("nKeyField", one)
              b == Text("sName")
  <1>1. data["nKeyField"] \in Octet /\ data["sName"] \in Bytes
    BY DEF NameData
  <1>2. data["nKeyField"] \in Int
    BY <1>1, OctetIs
  <1>7. Len(data["sName"]) <= 255
    <2>1. Len(data["sName"]) \in Nat
      BY <1>1, BytesAre
    <2>. QED BY <2>1
  <1>3. "nKeyField" \in names /\ "sName" \in names /\ one \in 1 .. 128
    OBVIOUS
  <1>4. tlvAlternateTimeOffsetName = a \o b
    BY DEF tlvAlternateTimeOffsetName
  <1>. HIDE DEF names, one
  <1>5. CanPush(names, a, data) /\ CanPush(names, b, data)
    BY <1>1, <1>2, <1>3, <1>7, CanPushNumber, PushText
  <1>. HIDE DEF a, b
  <1>6. CanPush(names, a \o b, data)
    BY <1>5, CanPushJoin
  <1>. QED BY <1>4, <1>6 DEF names

(* So can those of a Set of the port data set of ptp4l.                    *)
LEMMA PortCanPush ==
  ASSUME NEW data \in PortData
  PROVE  CanPush({"neighbourPropDelayThresh", "bCapable"}, tlvPortDataSetNP, data)
  <1>. DEFINE names == {"neighbourPropDelayThresh", "bCapable"}
              four == 4
              kind == "one"
              a == U("neighbourPropDelayThresh", four)
              b == Field("bCapable", kind, four)
  <1>1. data["neighbourPropDelayThresh"] \in Nat /\ data["bCapable"] \in {0, 1}
    BY DEF PortData
  <1>2. data["neighbourPropDelayThresh"] \in Int /\ data["bCapable"] \in Int
    BY <1>1
  <1>3. /\ "neighbourPropDelayThresh" \in names /\ "bCapable" \in names /\ four \in 1 .. 128
        /\ kind \in NumberKinds
    BY DEF NumberKinds
  <1>4. tlvPortDataSetNP = a \o b
    BY DEF tlvPortDataSetNP
  <1>. HIDE DEF names, four, kind
  <1>5. CanPush(names, a, data)
    BY <1>2, <1>3, CanPushNumber
  <1>7. CanPush(names, b, data)
    BY <1>2, <1>3, PushNumber DEF Pushes
  <1>. HIDE DEF a, b
  <1>6. CanPush(names, a \o b, data)
    BY <1>5, <1>7, CanPushJoin
  <1>. QED BY <1>4, <1>6 DEF names

(* So can those of a Set of the grandmaster settings.                      *)
LEMMA SettingsCanPush ==
  ASSUME NEW data \in SettingsData
  PROVE  CanPush({"nClass", "eAccuracy", "nOffsetScaledLogVariance", "nUtcOffset", "flags",
                  "eTimeSource"}, tlvGrandmasterSettingsNP("least"), data)
  <1>. DEFINE names == {"nClass", "eAccuracy", "nOffsetScaledLogVariance", "nUtcOffset", "flags",
                        "eTimeSource"}
              one == 1
              two == 2
              f1 == U("nClass", one)
              f2 == U("eAccuracy", one)
              f3 == U("nOffsetScaledLogVariance", two)
              f4 == I("nUtcOffset", two)
              f5 == Flags("flags", "least", 1, AllFlags)
              f6 == U("eTimeSource", one)
  <1>1. /\ data["nClass"] \in Octet /\ data["eAccuracy"] \in Octet
        /\ data["nOffsetScaledLogVariance"] \in Word
        /\ data["nUtcOffset"] \in SignedWord
        /\ data["flags"] \subseteq AllFlags /\ data["eTimeSource"] \in Octet
    BY DEF SettingsData
  <1>2. /\ data["nClass"] \in Int /\ data["eAccuracy"] \in Int
        /\ data["nOffsetScaledLogVariance"] \in Int /\ data["nUtcOffset"] \in Int
        /\ data["eTimeSource"] \in Int
    BY <1>1, OctetIs, WordIs, SignedWordIs
  <1>3. /\ "nClass" \in names /\ "eAccuracy" \in names /\ "nOffsetScaledLogVariance" \in names
        /\ "nUtcOffset" \in names /\ "flags" \in names /\ "eTimeSource" \in names
        /\ one \in 1 .. 128 /\ two \in 1 .. 128
    OBVIOUS
  <1>4. tlvGrandmasterSettingsNP("least") = (f1 \o f2 \o f3) \o f4 \o f5 \o f6
    BY UsTwo DEF tlvGrandmasterSettingsNP, clockQuality
  <1>. HIDE DEF names, one, two
  <1>5. CanPush(names, f1, data) /\ CanPush(names, f2, data) /\ CanPush(names, f3, data)
    BY <1>2, <1>3, CanPushNumber
  <1>6. CanPush(names, f4, data) /\ CanPush(names, f6, data)
    BY <1>2, <1>3, CanPushNumber
  <1>7. CanPush(names, f5, data)
    BY <1>1, <1>3, PushLeast
  <1>. HIDE DEF f1, f2, f3, f4, f5, f6
  <1>. DEFINE s2 == f1 \o f2
              s3 == s2 \o f3
              s4 == s3 \o f4
              s5 == s4 \o f5
              s6 == s5 \o f6
  <1>8. CanPush(names, s2, data)
    BY <1>5, CanPushJoin
  <1>. HIDE DEF s2
  <1>9. CanPush(names, s3, data)
    BY <1>5, <1>8, CanPushJoin
  <1>. HIDE DEF s3
  <1>10. CanPush(names, s4, data)
    BY <1>6, <1>9, CanPushJoin
  <1>. HIDE DEF s4
  <1>11. CanPush(names, s5, data)
    BY <1>7, <1>10, CanPushJoin
  <1>. HIDE DEF s5
  <1>12. CanPush(names, s6, data)
    BY <1>6, <1>11, CanPushJoin
  <1>13. tlvGrandmasterSettingsNP("least") = s6
    BY <1>4 DEF s2, s3, s4, s5
  <1>. HIDE DEF s6
  <1>. QED BY <1>12, <1>13 DEF names

(* The layouts of what the Manager sets.                                   *)
LEMMA SetLayouts ==
  /\ \A id \in BasicIds \cup {"kVersionNumber", "kAlternateTimeOffsetName",
                              "kAlternateTimeOffsetProperties", "kGrandmasterSettingsNp",
                              "kPortDataSetNp", "kUserDescription", "kTime"} :
       id \in DOMAIN enumId /\ id \in DOMAIN Layouts /\ id \in DOMAIN Written
  /\ \A id \in BasicIds : Layouts[id] = tlvBasic
  /\ Layouts["kVersionNumber"] = tlvVersion
  /\ Layouts["kAlternateTimeOffsetName"] = tlvAlternateTimeOffsetName
  /\ Layouts["kPortDataSetNp"] = tlvPortDataSetNP
  /\ Layouts["kUserDescription"] = tlvUserDescription
  /\ Layouts["kTime"] = tlvTime
  /\ Layouts["kGrandmasterSettingsNp"] = tlvGrandmasterSettingsNP("bits")
  /\ Written["kGrandmasterSettingsNp"] = tlvGrandmasterSettingsNP("least")
  /\ Written["kAlternateTimeOffsetProperties"] = <<>>
  /\ \A id \in BasicIds \cup {"kVersionNumber", "kAlternateTimeOffsetName", "kPortDataSetNp",
                              "kUserDescription", "kTime"} : Written[id] = Layouts[id]
  <1>1. \A id \in BasicIds \cup {"kVersionNumber", "kAlternateTimeOffsetName",
                                 "kAlternateTimeOffsetProperties", "kGrandmasterSettingsNp",
                                 "kPortDataSetNp", "kUserDescription", "kTime"} :
          id \in DOMAIN enumId /\ id # "kSubscribeEventsNp"
    BY SMT DEF BasicIds, enumId
  <1>2. DOMAIN Layouts = DOMAIN enumId \ {"kSubscribeEventsNp"} /\ DOMAIN Written = DOMAIN Layouts
    BY DEF Layouts, Written
  <1>3. \A id \in BasicIds \cup {"kVersionNumber", "kAlternateTimeOffsetName",
                                 "kAlternateTimeOffsetProperties", "kGrandmasterSettingsNp",
                                 "kPortDataSetNp", "kUserDescription", "kTime"} :
          id \in DOMAIN enumId /\ id \in DOMAIN Layouts /\ id \in DOMAIN Written
    BY <1>1, <1>2
  <1>4. ASSUME NEW id \in BasicIds
        PROVE  Layouts[id] = tlvBasic /\ Written[id] = Layouts[id]
    <2>1. id \in DOMAIN Layouts
      BY <1>3
    <2>2. Layouts[id] = tlvBasic
      BY <2>1 DEF Layouts, BasicIds
    <2>3. Written[id] = Layouts[id]
      BY <2>1 DEF Written, BasicIds
    <2>. QED BY <2>2, <2>3
  <1>5. /\ "kVersionNumber" \in DOMAIN Layouts /\ "kAlternateTimeOffsetName" \in DOMAIN Layouts
        /\ "kPortDataSetNp" \in DOMAIN Layouts /\ "kUserDescription" \in DOMAIN Layouts
        /\ "kTime" \in DOMAIN Layouts /\ "kGrandmasterSettingsNp" \in DOMAIN Layouts
        /\ "kAlternateTimeOffsetProperties" \in DOMAIN Layouts
    BY <1>3
  <1>6. Layouts["kVersionNumber"] = tlvVersion
    BY <1>5 DEF Layouts
  <1>7. Layouts["kAlternateTimeOffsetName"] = tlvAlternateTimeOffsetName
    BY <1>5 DEF Layouts
  <1>8. Layouts["kPortDataSetNp"] = tlvPortDataSetNP
    BY <1>5 DEF Layouts
  <1>9. Layouts["kUserDescription"] = tlvUserDescription
    BY <1>5 DEF Layouts
  <1>10. Layouts["kTime"] = tlvTime
    BY <1>5 DEF Layouts
  <1>11. Layouts["kGrandmasterSettingsNp"] = tlvGrandmasterSettingsNP("bits")
    BY <1>5 DEF Layouts
  <1>12. Written["kGrandmasterSettingsNp"] = tlvGrandmasterSettingsNP("least")
    BY <1>5 DEF Written
  <1>13. Written["kAlternateTimeOffsetProperties"] = <<>>
    BY <1>5 DEF Written
  <1>14. \A id \in {"kVersionNumber", "kAlternateTimeOffsetName", "kPortDataSetNp",
                    "kUserDescription", "kTime"} : Written[id] = Layouts[id]
    BY <1>5 DEF Written
  <1>. QED BY <1>3, <1>4, <1>6, <1>7, <1>8, <1>9, <1>10, <1>11, <1>12, <1>13, <1>14

(* The data of every Set can be pushed by the layout of its id.            *)
LEMMA SettableCanCarry ==
  ASSUME NEW id, NEW data, Settable(id, data)
  PROVE  CanCarry(id, data)
  <1>1. id \in BasicIds \cup {"kVersionNumber", "kAlternateTimeOffsetName",
                              "kAlternateTimeOffsetProperties", "kGrandmasterSettingsNp",
                              "kPortDataSetNp", "kUserDescription", "kTime"}
    BY DEF Settable
  <1>2. id \in DOMAIN enumId /\ id \in DOMAIN Written
    BY <1>1, SetLayouts
  <1>3. \A names, layout : CanPush(names, layout, data) => CanWrite(layout, data)
    BY DEF CanPush
  <1>4. CASE id \in BasicIds /\ data \in BasicData
    <2>1. Written[id] = tlvBasic
      BY <1>4, SetLayouts
    <2>. QED BY <1>2, <1>3, <1>4, <2>1, BasicCanPush DEF CanCarry
  <1>5. CASE id = "kVersionNumber" /\ data \in BasicData
    <2>1. Written[id] = tlvVersion
      BY <1>5, SetLayouts
    <2>. QED BY <1>2, <1>3, <1>5, <2>1, VersionCanPush DEF CanCarry
  <1>6. CASE id = "kAlternateTimeOffsetName" /\ data \in NameData /\ Len(data.sName) <= 10
    <2>1. Written[id] = tlvAlternateTimeOffsetName
      BY <1>6, SetLayouts
    <2>. QED BY <1>2, <1>3, <1>6, <2>1, NameCanPush DEF CanCarry
  <1>7. CASE id = "kAlternateTimeOffsetProperties"
    <2>1. Written[id] = <<>>
      BY <1>7, SetLayouts
    <2>2. CanWrite(<<>>, data)
      BY DEF CanWrite
    <2>. QED BY <1>2, <2>1, <2>2 DEF CanCarry
  <1>8. CASE id = "kGrandmasterSettingsNp" /\ data \in SettingsData
    <2>1. Written[id] = tlvGrandmasterSettingsNP("least")
      BY <1>8, SetLayouts
    <2>. QED BY <1>2, <1>3, <1>8, <2>1, SettingsCanPush DEF CanCarry
  <1>9. CASE id = "kPortDataSetNp" /\ data \in PortData
    <2>1. Written[id] = tlvPortDataSetNP
      BY <1>9, SetLayouts
    <2>. QED BY <1>2, <1>3, <1>9, <2>1, PortCanPush DEF CanCarry
  <1>10. CASE id = "kUserDescription" /\ data \in DescriptionData
    <2>. DEFINE names == {"sName_sLocation"}
    <2>1. Written[id] = Field("sName_sLocation", "name+location", 1)
      BY <1>10, SetLayouts DEF tlvUserDescription
    <2>2. data["sName_sLocation"] \in Bytes \X Bytes
      BY <1>10 DEF DescriptionData
    <2>3. data["sName_sLocation"][1] \in Bytes /\ data["sName_sLocation"][2] \in Bytes
      BY <2>2
    <2>4. "sName_sLocation" \in names
      OBVIOUS
    <2>. HIDE DEF names
    <2>5. CanPush(names, Field("sName_sLocation", "name+location", 1), data)
      BY <2>3, <2>4, PushDescription
    <2>. QED BY <1>2, <1>3, <2>1, <2>5 DEF CanCarry
  <1>11. CASE id = "kTime" /\ data \in TimeData /\ IsTime(data.timestamp)
    <2>. DEFINE names == {"timestamp"}
    <2>1. Written[id] = Field("timestamp", "time", 10)
      BY <1>11, SetLayouts DEF tlvTime
    <2>2. data["timestamp"] \in Nat
      BY <1>11 DEF IsTime
    <2>3. "timestamp" \in names
      OBVIOUS
    <2>. HIDE DEF names
    <2>4. CanPush(names, Field("timestamp", "time", 10), data)
      BY <2>2, <2>3, PushTime
    <2>. QED BY <1>2, <1>3, <2>1, <2>4 DEF CanCarry
  <1>. QED BY <1>4, <1>5, <1>6, <1>7, <1>8, <1>9, <1>10, <1>11 DEF Settable

(* Every call of the Manager that sets something is a Set of such data.    *)
LEMMA SetAnyIsSet ==
  ASSUME SetAny
  PROVE  \E id, data : Settable(id, data) /\ Set(id, data)
  <1>1. \A n \in Numbers : n \in Octet /\ n \in Int
    BY ManagementAssumption, OctetIs
  <1>2. \A n \in Numbers : n \in Octet /\ (n - 8) % 256 \in Octet
    <2>1. \A n \in Numbers : (n - 8) % 256 \in Nat /\ (n - 8) % 256 < 256
      BY <1>1
    <2>. QED BY <1>1, <2>1, OctetIs
  <1>3. 0 \in Octet /\ 1 \in Octet /\ 255 \in Octet
    BY OctetIs
  <1>4. \A id \in BasicIds \cup {"kVersionNumber"}, n \in Octet, r \in Octet :
          Settable(id, [nValue |-> n, nReserved |-> r])
    BY DEF Settable, BasicData
  <1>. DEFINE Goal == \E id, data : Settable(id, data) /\ Set(id, data)
  <1>5. \A id \in BasicIds \cup {"kVersionNumber"}, n \in Octet, r \in Octet :
          Set(id, [nValue |-> n, nReserved |-> r]) => Goal
    BY <1>4
  <1>6. \A id \in BasicIds \cup {"kVersionNumber"}, n \in Octet : SetBasic(id, n) => Goal
    <2>. HIDE DEF Goal
    <2>. QED BY <1>3, <1>5 DEF SetBasic
  <1>7. \A text \in Texts : text \in Bytes /\ Len(text) <= 255
    <2>1. \A text \in Texts : text \in Seq(Octet) /\ Len(text) <= 255
      BY ManagementAssumption
    <2>. QED BY <2>1 DEF Bytes
  <1>. DEFINE Goals(n) ==
         \/ SetPriority1(n)
         \/ SetPriority2(n)
         \/ SetDomain(n)
         \/ SetAnnounceReceiptTimeout(n)
         \/ SetVersionNumber(n)
         \/ SetAnnounceInterval(n - 8)
         \/ SetSyncInterval(n - 8)
  <1>8. ASSUME NEW n \in Numbers, Goals(n)
        PROVE  Goal
    <2>. HIDE DEF Goal
    <2>. QED BY <1>2, <1>6, <1>8 DEF SetPriority1, SetPriority2, SetDomain,
               SetAnnounceReceiptTimeout, SetVersionNumber, SetAnnounceInterval, SetSyncInterval,
               BasicIds
  <1>9. ASSUME NEW n \in Numbers, NEW b \in Booleans, SetAlternateTimeOffsetEnable(n, b)
        PROVE  Goal
    <2>1. b \in Octet
      BY <1>3 DEF Booleans
    <2>. HIDE DEF Goal
    <2>. QED BY <1>2, <1>5, <1>9, <2>1 DEF SetAlternateTimeOffsetEnable, BasicIds
  <1>10. ASSUME NEW n \in Thresholds, NEW b \in Booleans, SetPortDataSetNP(n, b)
         PROVE  Goal
    <2>. DEFINE data == [neighbourPropDelayThresh |-> n, bCapable |-> b]
    <2>0. IsThreshold(n) /\ n \in Nat
      BY ManagementAssumption DEF IsThreshold
    <2>1. data \in PortData
      BY <2>0 DEF PortData, Booleans
    <2>2. Set("kPortDataSetNp", data)
      BY <1>10 DEF SetPortDataSetNP
    <2>. HIDE DEF data
    <2>3. Settable("kPortDataSetNp", data)
      BY <2>1 DEF Settable
    <2>. QED BY <2>2, <2>3
  <1>11. ASSUME NEW n \in Numbers, NEW text \in Texts, SetAlternateTimeOffsetName(n, text)
         PROVE  Goal
    <2>. DEFINE m == Min({10, Len(text)})
                part == SubSeq(text, 1, m)
                data == [nKeyField |-> n, sName |-> part]
    <2>1. text \in Bytes /\ Len(text) \in Nat
      BY <1>7, BytesAre
    <2>2. m \in {10, Len(text)} /\ m <= 10 /\ m <= Len(text)
      <3>1. \E x \in {10, Len(text)} : \A y \in {10, Len(text)} : x <= y
        BY <2>1
      <3>. QED BY <3>1, Zenon DEF Min
    <2>. HIDE DEF m
    <2>3. m \in Nat
      BY <2>1, <2>2
    <2>4. part \in Bytes /\ Len(part) <= 10
      <3>. DEFINE one == 1
      <3>1. one \in Nat \ {0} /\ one <= m + 1 /\ (m - one) + 1 = m
        BY <2>3
      <3>. HIDE DEF one
      <3>2. /\ SubSeq(text, one, m) \in Bytes
            /\ Len(SubSeq(text, one, m)) = (m - one) + 1
        BY <2>1, <2>2, <2>3, <3>1, SliceIs
      <3>. QED BY <2>2, <3>1, <3>2 DEF one
    <2>5. Set("kAlternateTimeOffsetName", data)
      BY <1>11 DEF SetAlternateTimeOffsetName, m
    <2>. HIDE DEF part
    <2>6. data \in NameData /\ Len(data.sName) <= 10
      BY <1>2, <2>4 DEF NameData
    <2>. HIDE DEF data
    <2>7. Settable("kAlternateTimeOffsetName", data)
      BY <2>6 DEF Settable
    <2>. QED BY <2>5, <2>7
  <1>12. ASSUME NEW n \in Numbers, SetAlternateTimeOffsetProperties(n, n, n, n)
         PROVE  Goal
    BY <1>12 DEF SetAlternateTimeOffsetProperties, Settable
  <1>13. ASSUME NEW s \in Settings, NEW flags \in FlagSets,
                SetGrandmasterSettings(s.nClass, s.eAccuracy, s.nVariance, s.nUtcOffset,
                                       s.eTimeSource, flags)
         PROVE  Goal
    <2>. DEFINE data == [nClass |-> s.nClass, eAccuracy |-> s.eAccuracy,
                         nOffsetScaledLogVariance |-> s.nVariance,
                         nUtcOffset |-> s.nUtcOffset,
                         eTimeSource |-> s.eTimeSource, flags |-> flags]
    <2>1. flags \in SUBSET AllFlags /\ s \in GrandmasterSettings
      BY ManagementAssumption
    <2>2. Set("kGrandmasterSettingsNp", data)
      BY <1>13 DEF SetGrandmasterSettings
    <2>3. data \in SettingsData
      BY <2>1 DEF SettingsData, GrandmasterSettings
    <2>. HIDE DEF data
    <2>4. Settable("kGrandmasterSettingsNp", data)
      BY <2>3 DEF Settable
    <2>. QED BY <2>2, <2>4
  <1>14. ASSUME NEW b \in Booleans, SetSlaveOnly(b)
         PROVE  Goal
    <2>1. b \in Octet
      BY <1>3 DEF Booleans
    <2>. HIDE DEF Goal
    <2>. QED BY <1>6, <1>14, <2>1 DEF SetSlaveOnly, BasicIds
  <1>15. ASSUME NEW eState \in {0, 1, 255}, SetSynchonizationUncertain(eState)
         PROVE  Goal
    <2>1. eState \in Octet
      BY <1>3
    <2>. HIDE DEF Goal
    <2>. QED BY <1>6, <1>15, <2>1 DEF SetSynchonizationUncertain, BasicIds
  <1>16. ASSUME NEW name \in Texts, NEW location \in Texts, SetUserDescription(name, location)
         PROVE  Goal
    <2>. DEFINE data == [sName_sLocation |-> <<name, location>>]
    <2>1. Set("kUserDescription", data)
      BY <1>16 DEF SetUserDescription
    <2>2. data \in DescriptionData
      BY <1>7 DEF DescriptionData
    <2>. HIDE DEF data
    <2>3. Settable("kUserDescription", data)
      BY <2>2 DEF Settable
    <2>. QED BY <2>1, <2>3
  <1>17. ASSUME NEW time \in Times, SetTime(time)
         PROVE  Goal
    <2>. DEFINE data == [timestamp |-> time]
    <2>1. Set("kTime", data)
      BY <1>17 DEF SetTime
    <2>2. IsTime(time)
      BY ManagementAssumption
    <2>3. data \in TimeData /\ IsTime(data.timestamp)
      BY <2>2 DEF TimeData, IsTime
    <2>. HIDE DEF data
    <2>4. Settable("kTime", data)
      BY <2>3 DEF Settable
    <2>. QED BY <2>1, <2>4
  <1>. HIDE DEF Goal
  <1>18. Goal
    BY <1>8, <1>9, <1>10, <1>11, <1>12, <1>13, <1>14, <1>15, <1>16, <1>17 DEF SetAny
  <1>. QED BY <1>18 DEF Goal

Machine == [id |-> Self, port |-> 1]

(* An identity of a clock is eight octets.                                 *)
LEMMA IdentityBytes ==
  ASSUME NEW id \in Identities
  PROVE  id \in Bytes /\ Len(id) = 8
  <1>. DEFINE S == Octet
              n == 8
  <1>1. id \in [1 .. n -> S] /\ n \in Nat
    BY DEF Identities
  <1>. HIDE DEF S, n
  <1>2. id \in Seq(S)
    BY <1>1
  <1>3. Len(id) = n
    BY <1>1, <1>2, LenProperties
  <1>. QED BY <1>2, <1>3 DEF Bytes, S, n

(* The header of this machine has parts that fit.                          *)
LEMMA MachineIs ==
  ASSUME NEW type \in Int, NEW sequence \in Word, NEW interval \in Int
  PROVE  Headed(type, m_nDomain, Machine, sequence, interval)
  <1>1. Self \in Bytes /\ m_nDomain \in Octet
    BY ManagementAssumption, IdentityBytes
  <1>2. m_nDomain \in Int /\ sequence \in Int
    BY <1>1, OctetIs, WordIs
  <1>. QED BY <1>1, <1>2 DEF Headed, Machine

(* The payload of a management message, by its parts.                      *)
LEMMA CreatePayloadIs ==
  ASSUME NEW action \in {"kGet", "kSet"}, NEW hops \in Int, NEW identity, NEW number, NEW tlv
  PROVE  /\ CreatePayload(action, hops, identity, number, tlv)
              = PayloadOf(FromPidStr(identity, number), hops, enumAction[action], tlv)
         /\ enumAction[action] \in Int
  <1>1. enumAction[action] \in Int
    BY ActionsAre
  <1>. DEFINE number_ == enumAction[action]
              fields == Create(MessageFields, [nStartingBoundaryHops |-> hops,
                               nBoundaryHops |-> hops, eAction |-> number_, reserved |-> <<>>])
  <1>2. fields = FieldsOctets(hops, number_)
    <2>. HIDE DEF number_
    <2>. QED BY <1>1, FieldsIs DEF number_
  <1>3. CreatePayload(action, hops, identity, number, tlv)
          = Then(Then(FromPidStr(identity, number), fields), tlv)
    BY DEF CreatePayload, Then
  <1>. HIDE DEF fields, number_
  <1>. QED BY <1>1, <1>2, <1>3 DEF PayloadOf, number_

(* Where everything is in a request of the Manager.                        *)
LEMMA RequestIs ==
  ASSUME NEW action \in {"kGet", "kSet"}, NEW hops \in Octet, NEW identity \in Bytes,
         NEW number \in Word, NEW id, NEW data, CanCarry(id, data), NEW sequence \in Word,
         NEW octets,
         octets = Message(13, m_nDomain, Machine, sequence, 127,
                          CreatePayload(action, hops, identity, number, CreateTlv(id, data)))
  PROVE  \E n \in Nat :
           /\ OfSize(octets, n) /\ n <= 6500
           /\ n = 52 + IF data = None THEN 2 ELSE TlvLength(id, data)
           /\ Holds(octets, 3, 4, Octets(n, 2))
           /\ Holds(octets, 21, 30, IdentityOctets(Machine))
           /\ Holds(octets, 31, 32, Octets(sequence, 2))
           /\ Holds(octets, 35, 42, TargetId(identity, number))
           /\ Holds(octets, 43, 44, Octets(TargetPort(identity, number), 2))
           /\ Holds(octets, 51, 52, Octets(TlvLength(id, data), 2))
           /\ Holds(octets, 53, n, TlvBody(id, data))
  <1>. DEFINE pid == FromPidStr(identity, number)
              act == enumAction[action]
              body == TlvBody(id, data)
              length == TlvLength(id, data)
              tlv == CreateTlv(id, data)
              payload == PayloadOf(pid, hops, act, tlv)
              b == Len(body)
              x == TargetId(identity, number)
              y == Octets(TargetPort(identity, number), 2)
              z == Octets(length, 2)
  <1>1. hops \in Int
    BY OctetIs
  <1>2. act \in Int /\ CreatePayload(action, hops, identity, number, tlv) = payload
    BY <1>1, CreatePayloadIs
  <1>3. OfSize(pid, 10) /\ Holds(pid, 1, 8, x) /\ Holds(pid, 9, 10, y)
    BY PidStrIs
  <1>4. /\ tlv = Tlv(1, length, body)
        /\ length \in Nat /\ length <= 6403 /\ OfSize(body, b)
        /\ b = IF data = None THEN 2 ELSE length
    BY CreateTlvIs
  <1>. HIDE DEF pid, act, body, length, tlv, payload, b, x, y, z
  <1>. DEFINE t == 4 + b
              p == 18 + b
              n == 52 + b
  <1>5. b \in Nat /\ length \in Int /\ t \in Nat /\ p = 14 + t /\ p \in Nat /\ n = 34 + p /\ n \in Nat
        /\ t = 4 + b /\ p = 18 + b /\ b <= 6403 /\ n <= 6500
        /\ n = 52 + IF data = None THEN 2 ELSE length
    BY <1>4
  <1>. HIDE DEF t, p, n
  <1>6. OfSize(tlv, t) /\ Holds(tlv, 3, 4, z) /\ Holds(tlv, 5, t, body)
    <2>. DEFINE one == 1
    <2>1. one \in Int /\ length \in Int /\ b \in Nat /\ t \in Nat /\ t = 4 + b /\ OfSize(body, b)
      BY <1>4, <1>5
    <2>. HIDE DEF one
    <2>2. /\ OfSize(Tlv(one, length, body), t)
          /\ Holds(Tlv(one, length, body), 3, 4, Octets(length, 2))
          /\ Holds(Tlv(one, length, body), 5, t, body)
      BY <2>1, TlvIs
    <2>. QED BY <1>4, <2>2 DEF z, one
  <1>7. OfSize(payload, p) /\ Holds(payload, 1, 10, pid) /\ Holds(payload, 15, p, tlv)
    <2>1. t \in Nat /\ p \in Nat /\ p = 14 + t /\ act \in Int
      BY <1>2, <1>5
    <2>2. /\ OfSize(PayloadOf(pid, hops, act, tlv), p)
          /\ Holds(PayloadOf(pid, hops, act, tlv), 1, 10, pid)
          /\ Holds(PayloadOf(pid, hops, act, tlv), 15, p, tlv)
      BY <1>1, <1>3, <1>6, <2>1, PayloadIs
    <2>. QED BY <2>2 DEF payload
  <1>8. payload = Then(Then(pid, FieldsOctets(hops, act)), tlv)
    BY DEF payload, PayloadOf
  <1>. DEFINE f == FieldsOctets(hops, act)
              head == Then(pid, f)
  <1>9. OfSize(f, 4)
    BY <1>1, <1>2, FieldsSize
  <1>. HIDE DEF f
  <1>10. OfSize(head, 14)
    BY <1>3, <1>9, SizeThen
  <1>11. f \in Bytes /\ tlv \in Bytes
    BY <1>6, <1>9 DEF OfSize
  <1>12. Holds(head, 1, 8, x)
    BY <1>3, <1>11, HoldsThen
  <1>13. Holds(head, 9, 10, y)
    BY <1>3, <1>11, HoldsThen
  <1>. HIDE DEF head
  <1>14. Holds(payload, 1, 8, x)
    BY <1>8, <1>10, <1>11, <1>12, HoldsThen DEF f, head
  <1>15. Holds(payload, 9, 10, y)
    BY <1>8, <1>10, <1>11, <1>13, HoldsThen DEF f, head
  <1>16. Holds(payload, 17, 18, z)
    <2>1. Holds(Then(head, tlv), 17, 18, z)
      BY <1>5, <1>6, <1>10, HoldsInside
    <2>. QED BY <1>8, <2>1 DEF f, head
  <1>17. Holds(payload, 19, p, body)
    <2>1. 4 + 1 <= t + 1 /\ 19 = 14 + 5 /\ 5 \in Nat \ {0}
      BY <1>5
    <2>2. Holds(Then(head, tlv), 19, p, body)
      BY <1>5, <1>6, <1>10, <2>1, HoldsInside
    <2>. QED BY <1>8, <2>2 DEF f, head
  <1>18. Headed(13, m_nDomain, Machine, sequence, 127)
    BY MachineIs
  <1>19. octets = Message(13, m_nDomain, Machine, sequence, 127, payload)
    BY <1>2 DEF tlv
  <1>20. /\ OfSize(octets, n) /\ Holds(octets, 3, 4, Octets(n, 2))
         /\ Holds(octets, 21, 30, IdentityOctets(Machine))
         /\ Holds(octets, 31, 32, Octets(sequence, 2)) /\ Holds(octets, 35, n, payload)
         /\ Holds(octets, 1, 20, HeaderStart(13, n, m_nDomain))
    BY <1>5, <1>7, <1>18, <1>19, MessageIs
  <1>21. \A w : \A i \in Nat \ {0}, j \in Nat, c \in Nat, d \in Nat :
           i <= j + 1 /\ j <= p /\ c = 34 + i /\ d = 34 + j /\ Holds(payload, i, j, w)
             => Holds(octets, c, d, w)
    <2>. DEFINE start == HeaderStart(13, n, m_nDomain)
                rest == Then(IdentityOctets(Machine), HeaderEnd(sequence, 127))
                h == Then(start, rest)
    <2>1. /\ sequence \in Int /\ Machine.id \in Bytes /\ Machine.port \in Int
          /\ m_nDomain \in Int
      BY <1>18 DEF Headed
    <2>2. OfSize(start, 20)
      BY <1>5, <2>1, HeaderStartIs
    <2>3. OfSize(IdentityOctets(Machine), 10) /\ OfSize(HeaderEnd(sequence, 127), 4)
      BY <2>1, IdentityIs, HeaderEndIs
    <2>4. octets = Then(start, Then(IdentityOctets(Machine), After(sequence, 127, payload)))
      BY <1>5, <1>7, <1>18, <1>19, MessageParts
    <2>. DEFINE a == IdentityOctets(Machine)
                e == HeaderEnd(sequence, 127)
    <2>5. After(sequence, 127, payload) = Then(e, payload)
      BY DEF After
    <2>. HIDE DEF start, a, e
    <2>6. start \in Bytes /\ a \in Bytes /\ e \in Bytes /\ payload \in Bytes
      BY <1>7, <2>2, <2>3 DEF OfSize, a, e
    <2>7. Then(a, Then(e, payload)) = Then(Then(a, e), payload)
      BY <2>6, ThenIsAssociative
    <2>. DEFINE ae == Then(a, e)
                sae == Then(start, ae)
    <2>8. OfSize(ae, 14)
      BY <2>3, SizeThen DEF a, e
    <2>. HIDE DEF ae
    <2>9. OfSize(sae, 34)
      BY <2>2, <2>8, SizeThen
    <2>10. ae \in Bytes
      BY <2>8 DEF OfSize
    <2>11. Then(start, Then(ae, payload)) = Then(sae, payload)
      BY <2>6, <2>10, ThenIsAssociative
    <2>. HIDE DEF sae
    <2>12. octets = Then(sae, payload)
      BY <2>4, <2>5, <2>7, <2>11 DEF a, ae
    <2>13. ASSUME NEW i \in Nat \ {0}, NEW j \in Nat, NEW c \in Nat, NEW d \in Nat, NEW w,
                  i <= j + 1, j <= p, c = 34 + i, d = 34 + j, Holds(payload, i, j, w)
           PROVE  Holds(octets, c, d, w)
      <3>2. p \in Nat /\ OfSize(payload, p) /\ 34 \in Nat
        BY <1>5, <1>7
      <3>1. Holds(Then(sae, payload), c, d, w)
        BY <2>9, <2>13, <3>2, HoldsInside
      <3>. QED BY <2>12, <3>1
    <2>. QED BY <2>13
  <1>22. 8 <= p /\ 10 <= p /\ 18 <= p
    BY <1>5
  <1>23. Holds(octets, 35, 42, x)
    BY <1>14, <1>21, <1>22
  <1>24. Holds(octets, 43, 44, y)
    BY <1>15, <1>21, <1>22
  <1>25. Holds(octets, 51, 52, z)
    BY <1>16, <1>21, <1>22
  <1>26. Holds(octets, 53, n, body)
    <2>1. 19 <= p + 1 /\ p <= p /\ 53 = 34 + 19
      BY <1>5
    <2>. QED BY <1>5, <1>17, <1>21, <2>1
  <1>. QED BY <1>5, <1>20, <1>23, <1>24, <1>25, <1>26 DEF x, y, z, body, length

-----------------------------------------------------------------------------
(* Requests on the network: the invariant of what is asked.                *)

(* What the calls of the application make of the Manager's own state.      *)
Managed ==
  /\ m_nHops \in Octet
  /\ m_target \in [identity : [octets : Bytes, upper : BOOLEAN], number : Word]
  /\ Len(m_target.identity.octets) <= 8
  /\ receiving \in BOOLEAN

(* A request of the Manager, made of what the Manager was given.           *)
Requested(message, sequence) ==
  /\ message.type = kManagementMessage
  /\ message.action \in {"kGet", "kSet"}
  /\ CanCarry(message.id, message.data)
  /\ message.action = "kSet" => TargetSet /\ Settable(message.id, message.data)
  /\ message.octets =
       Message(kManagementMessage, m_nDomain, Machine, sequence, 127,
               CreatePayload(message.action, m_nHops, m_target.identity.octets,
                             m_target.number, CreateTlv(message.id, message.data)))

(* A Delay_Req of the local clock.                                         *)
DelayRequested(message, sequence) ==
  /\ message.type = kDelayReq /\ message.action = "kGet"
  /\ \E now \in Times :
       /\ message.data = [originTime |-> now]
       /\ message.octets = Message(kDelayReq, m_nDomain, Machine, sequence, 0, FromSecNano(now))

(* What is on the network last was made by one of the Manager's calls.     *)
AskedWell ==
  asked # None =>
    \E sequence \in SequenceIds : Requested(asked, sequence) \/ DelayRequested(asked, sequence)

(* What a Sync or a delay request pushes after its header.                 *)
LEMMA TimeOctets ==
  ASSUME NEW time \in Nat
  PROVE  Create(ptpV2Payload, [originTime |-> time]) = FromSecNano(time)
  <1>. DEFINE kind == "time"
              name == "originTime"
              width == 10
              names == {name}
              field == [name |-> name, kind |-> kind, width |-> width, weights |-> {}]
              contents == [originTime |-> time]
              octets == Encode(field, contents[field.name])
  <1>1. kind \in Kinds /\ width \in 1 .. 128 /\ name \in names /\ contents[name] = time
        /\ kind = "time"
    BY DEF Kinds
  <1>2. ptpV2Payload = <<field>>
    BY DEF ptpV2Payload, Field
  <1>3. field \in Fields(names) /\ field.name = name /\ field.kind = kind
    <2>. HIDE DEF kind, width, name, names
    <2>. QED BY <1>1 DEF Fields
  <1>. HIDE DEF kind, width, name, names, contents
  <1>4. Writable(field, contents[field.name])
    <2>1. contents[field.name] = time
      BY <1>1, <1>3
    <2>. HIDE DEF field
    <2>. QED BY <1>1, <1>3, <2>1, WritableTime
  <1>5. octets = FromSecNano(time)
    <2>1. contents[field.name] = time
      BY <1>1, <1>3
    <2>. HIDE DEF field
    <2>. QED BY <1>1, <1>3, <2>1 DEF Encode
  <1>. HIDE DEF field
  <1>6. Pushes(names, ptpV2Payload, contents, octets)
    BY <1>2, <1>3, <1>4, PushOne
  <1>. QED BY <1>5, <1>6 DEF Pushes, contents

(* At first every target is one that can be sent, and nothing has been     *)
(* asked.                                                                  *)
LEMMA ManagedInit == Init => Managed /\ AskedWell
  <1>. SUFFICES ASSUME Init
                PROVE  Managed /\ AskedWell
    OBVIOUS
  <1>1. AskedWell
    BY DEF Init, AskedWell
  <1>2. AllOnes \in Bytes /\ Len(AllOnes) <= 8
    <2>1. 255 \in Octet
      BY OctetIs
    <2>2. AllOnes \in Identities
      BY <2>1 DEF AllOnes, Identities
    <2>3. AllOnes \in Bytes /\ Len(AllOnes) = 8
      BY <2>2, IdentityBytes
    <2>. DEFINE n == Len(AllOnes)
    <2>. HIDE DEF n
    <2>4. n = 8 => n <= 8
      OBVIOUS
    <2>. QED BY <2>3, <2>4 DEF n
  <1>3. 1 \in Octet /\ 65535 \in Word
    <2>1. 65535 \in Nat /\ 65535 < 65536
      BY SMT
    <2>. QED BY <2>1, OctetIs, WordIs
  <1>. DEFINE all == AllOnes
              big == 65535
  <1>4. /\ m_nHops = 1 /\ receiving = TRUE
        /\ m_target = [identity |-> [octets |-> all, upper |-> TRUE], number |-> big]
    BY DEF Init, kTargetIdAll, kTargetNumberAll
  <1>. HIDE DEF all, big
  <1>5. all \in Bytes /\ Len(all) <= 8 /\ big \in Word
    BY <1>2, <1>3 DEF all, big
  <1>6. Managed
    BY <1>3, <1>4, <1>5 DEF Managed
  <1>. QED BY <1>1, <1>6

(* A target that ResetTarget or SetTarget gives is an identity of up to    *)
(* eight octets and a word.                                                *)
LEMMA TargetType ==
  ASSUME NEW target \in Targets
  PROVE  /\ target \in [identity : [octets : Bytes, upper : BOOLEAN], number : Word]
         /\ Len(target.identity.octets) <= 8
  BY ManagementAssumption DEF Bytes

(* Every step keeps the state of the manager as it should be.              *)
LEMMA ManagedStep == Managed /\ [Next]_vars => Managed'
  <1>. SUFFICES ASSUME Managed, [Next]_vars
                PROVE  Managed'
    OBVIOUS
  <1>. USE DEF Managed
  <1>1. CASE UNCHANGED vars
    BY <1>1 DEF vars, manager, receiver
  <1>2. ASSUME manager' = manager, receiving' = receiving
        PROVE  Managed'
    BY <1>2 DEF manager
  <1>3. ASSUME NEW nHops \in Hops, SetHops(nHops)
        PROVE  Managed'
    <2>1. nHops \in Octet
      BY ManagementAssumption
    <2>. QED BY <1>3, <2>1 DEF SetHops, Configure, receiver
  <1>4. ASSUME NEW target \in Targets, Target(target)
        PROVE  Managed'
    BY <1>4, TargetType DEF Target, Configure, receiver
  <1>5. ASSUME NEW type, NEW action, NEW id, NEW data, NEW payload, NEW interval,
               Ask(type, action, id, data, payload, interval)
        PROVE  Managed'
    BY <1>2, <1>5 DEF Ask, receiver
  <1>6. ASSUME NEW id \in enumGet, Get(id)
        PROVE  Managed'
    BY <1>5, <1>6 DEF Get, SendManagement
  <1>7. CASE SetAny
    <2>1. PICK id, data : Set(id, data)
      BY <1>7, SetAnyIsSet
    <2>. QED BY <1>5, <2>1 DEF Set, SendManagement
  <1>8. CASE Application
    BY <1>3, <1>4, <1>6, <1>7, <1>8 DEF Application
  <1>9. CASE Network
    <2>. DEFINE Same == manager' = manager /\ receiving' = receiving
    <2>1. \A device, type, tlv, setting, meant :
            Respond(device, type, tlv, setting, meant) => Same
      BY DEF Respond, receiver
    <2>2. \A device, k : AnswerGet(device, k) => Same
      <3>. HIDE DEF Same
      <3>. QED BY <2>1 DEF AnswerGet
    <2>3. \A device : AnswerSet(device) => Same
      <3>. HIDE DEF Same
      <3>. QED BY <2>1 DEF AnswerSet
    <2>4. \A device, error, text : AnswerError(device, error, text) => Same
      <3>. HIDE DEF Same
      <3>. QED BY <2>1 DEF AnswerError
    <2>5. \A device : Overhear(device) => Same
      BY DEF Overhear, receiver
    <2>6. \A now : DelayResponse(now) => Same
      BY DEF DelayResponse, receiver
    <2>7. \A type, now : SyncOrFollowUp(type, now) => Same
      BY DEF SyncOrFollowUp, receiver
    <2>8. \A announce, domain : Announced(announce, domain) => Same
      BY DEF Announced, receiver
    <2>9. Lose => Same
      BY DEF Lose, receiver
    <2>10. Same
      <3>. HIDE DEF Same
      <3>. QED BY <1>9, <2>2, <2>3, <2>4, <2>5, <2>6, <2>7, <2>8, <2>9 DEF Network
    <2>. QED BY <1>2, <2>10
  <1>10. CASE Library
    <2>1. ASSUME NEW now \in Times, SendDelayRequest(now)
          PROVE  Managed'
      BY <1>5, <2>1 DEF SendDelayRequest
    <2>2. ASSUME NEW next \in Extra, DoReceive(next)
          PROVE  Managed'
      BY <1>2, <2>2 DEF DoReceive
    <2>3. CASE Return
      BY <1>2, <2>3 DEF Return
    <2>4. CASE WaitError
      BY <2>4 DEF WaitError, manager
    <2>. QED BY <1>10, <2>1, <2>2, <2>3, <2>4 DEF Library
  <1>. QED BY <1>1, <1>8, <1>9, <1>10 DEF Next

(* A step that leaves a request alone, or ends it.                         *)
LEMMA AskedStays ==
  ASSUME AskedWell, manager' = manager, asked' = asked \/ asked' = None
  PROVE  AskedWell'
  <1>. SUFFICES ASSUME asked' # None
                PROVE  \E sequence \in SequenceIds :
                         Requested(asked, sequence)' \/ DelayRequested(asked, sequence)'
    BY DEF AskedWell
  <1>1. asked' = asked /\ asked # None /\ m_nHops' = m_nHops /\ m_target' = m_target
    BY DEF manager
  <1>2. TargetSet' <=> TargetSet
    BY <1>1 DEF TargetSet
  <1>3. PICK sequence \in SequenceIds :
          Requested(asked, sequence) \/ DelayRequested(asked, sequence)
    BY <1>1 DEF AskedWell
  <1>4. CASE Requested(asked, sequence)
    <2>1. Requested(asked, sequence)'
      BY <1>1, <1>2, <1>4 DEF Requested
    <2>. QED BY <2>1
  <1>5. CASE DelayRequested(asked, sequence)
    <2>1. DelayRequested(asked, sequence)'
      BY <1>1, <1>5 DEF DelayRequested
    <2>. QED BY <2>1
  <1>. QED BY <1>3, <1>4, <1>5

(* A Get or a Set sends a management message whose lengths count its       *)
(* octets.                                                                 *)
LEMMA ManagementIsAsked ==
  ASSUME NEW action \in {"kGet", "kSet"}, NEW id, NEW data, CanCarry(id, data),
         action = "kSet" => TargetSet /\ Settable(id, data),
         SendManagement(action, id, data)
  PROVE  AskedWell'
  <1>. DEFINE payload == CreatePayload(action, m_nHops, m_target.identity.octets,
                                       m_target.number, CreateTlv(id, data))
              octets(sequence) == Message(kManagementMessage, m_nDomain, Machine, sequence, 127,
                                          payload)
  <1>1. PICK sequence \in SequenceIds :
          asked' = [octets |-> octets(sequence), type |-> kManagementMessage,
                    action |-> action, id |-> id, data |-> data]
    BY DEF SendManagement, Ask, CreateMessage, Message, Machine
  <1>2. m_nHops' = m_nHops /\ m_target' = m_target
    BY DEF SendManagement, Ask, manager
  <1>3. TargetSet' <=> TargetSet
    BY <1>2 DEF TargetSet
  <1>. DEFINE message == asked'
  <1>4. /\ message.type = kManagementMessage /\ message.action = action /\ message.id = id
        /\ message.data = data /\ message.octets = octets(sequence)
    BY <1>1
  <1>5. octets(sequence) =
          Message(kManagementMessage, m_nDomain, Machine, sequence, 127,
               CreatePayload(message.action, m_nHops', m_target'.identity.octets,
                             m_target'.number, CreateTlv(message.id, message.data)))
    BY <1>2, <1>4
  <1>. HIDE DEF octets
  <1>6. Requested(asked, sequence)'
    BY <1>2, <1>3, <1>4, <1>5 DEF Requested
  <1>. QED BY <1>6 DEF AskedWell

(* So does every step: what was asked last is a message of this machine,   *)
(* well formed.                                                            *)
LEMMA AskedStep == Managed /\ AskedWell /\ [Next]_vars => AskedWell'
  <1>. SUFFICES ASSUME Managed, AskedWell, [Next]_vars
                PROVE  AskedWell'
    OBVIOUS
  <1>1. CASE UNCHANGED vars
    BY <1>1, AskedStays DEF vars
  <1>2. ASSUME Free, asked' = asked
        PROVE  AskedWell'
    BY <1>2 DEF Free, AskedWell
  <1>3. CASE Application
    <2>1. ASSUME NEW nHops \in Hops, SetHops(nHops)
          PROVE  AskedWell'
      BY <1>2, <2>1 DEF SetHops, Configure
    <2>2. ASSUME NEW target \in Targets, Target(target)
          PROVE  AskedWell'
      BY <1>2, <2>2 DEF Target, Configure
    <2>3. ASSUME NEW id \in enumGet, Get(id)
          PROVE  AskedWell'
      <3>1. PICK garbage \in Garbage : SendManagement("kGet", id, GetData(id, garbage))
        BY <2>3 DEF Get
      <3>2. garbage \in Nat
        BY ManagementAssumption
      <3>3. CanCarry(id, GetData(id, garbage))
        BY <3>2, GetCanCarry
      <3>. QED BY <3>1, <3>3, ManagementIsAsked
    <2>4. CASE SetAny
      <3>1. PICK id, data : Settable(id, data) /\ Set(id, data)
        BY <2>4, SetAnyIsSet
      <3>2. TargetSet /\ SendManagement("kSet", id, data)
        BY <3>1 DEF Set
      <3>. QED BY <3>1, <3>2, SettableCanCarry, ManagementIsAsked
    <2>. QED BY <1>3, <2>1, <2>2, <2>3, <2>4 DEF Application
  <1>4. CASE Network
    <2>. DEFINE Stays == manager' = manager /\ (asked' = asked \/ asked' = None)
    <2>1. \A device, type, tlv, setting, meant :
            Respond(device, type, tlv, setting, meant) => manager' = manager
      BY DEF Respond
    <2>2. \A device, k : AnswerGet(device, k) => Stays
      BY DEF AnswerGet, Respond
    <2>3. \A device : AnswerSet(device) => Stays
      BY DEF AnswerSet, Respond
    <2>4. \A device, error, text : AnswerError(device, error, text) => Stays
      BY DEF AnswerError, Respond
    <2>5. \A device : Overhear(device) => Stays
      BY DEF Overhear
    <2>6. \A now : DelayResponse(now) => Stays
      BY DEF DelayResponse
    <2>7. \A type, now : SyncOrFollowUp(type, now) => Stays
      BY DEF SyncOrFollowUp
    <2>8. \A announce, domain : Announced(announce, domain) => Stays
      BY DEF Announced
    <2>9. Lose => Stays
      BY DEF Lose
    <2>10. Stays
      <3>. HIDE DEF Stays
      <3>. QED BY <1>4, <2>2, <2>3, <2>4, <2>5, <2>6, <2>7, <2>8, <2>9 DEF Network
    <2>. QED BY <2>10, AskedStays
  <1>5. CASE Library
    <2>1. ASSUME NEW now \in Times, SendDelayRequest(now)
          PROVE  AskedWell'
      <3>. DEFINE data == [originTime |-> now]
                  octets(sequence) == Message(kDelayReq, m_nDomain, Machine, sequence, 0,
                                              FromSecNano(now))
      <3>1. now \in Nat
        BY ManagementAssumption DEF IsTime
      <3>2. Create(ptpV2Payload, data) = FromSecNano(now)
        BY <3>1, TimeOctets
      <3>. HIDE DEF data
      <3>3. Ask(kDelayReq, "kGet", None, data, Create(ptpV2Payload, data), 0)
        BY <2>1 DEF SendDelayRequest, data
      <3>4. PICK sequence \in SequenceIds :
              asked' = [octets |-> octets(sequence), type |-> kDelayReq,
                        action |-> "kGet", id |-> None, data |-> data]
        BY <3>2, <3>3 DEF Ask, CreateMessage, Message, Machine
      <3>. HIDE DEF octets
      <3>. DEFINE message == asked'
      <3>5. /\ message.type = kDelayReq /\ message.action = "kGet"
            /\ message.data = data /\ message.octets = octets(sequence)
        BY <3>4
      <3>6. DelayRequested(asked, sequence)'
        BY <3>5 DEF DelayRequested, data, octets
      <3>. QED BY <3>6 DEF AskedWell
    <2>2. ASSUME NEW next \in Extra, DoReceive(next)
          PROVE  AskedWell'
      BY <2>2, AskedStays DEF DoReceive
    <2>3. CASE Return
      BY <2>3, AskedStays DEF Return
    <2>4. CASE WaitError
      BY <2>4, AskedStays DEF WaitError
    <2>. QED BY <1>5, <2>1, <2>2, <2>3, <2>4 DEF Library
  <1>. QED BY <1>1, <1>3, <1>4, <1>5 DEF Next

(* What RequestIs says of a request on the network.                        *)
LEMMA AskedIs ==
  ASSUME Managed, NEW sequence \in SequenceIds, Requested(asked, sequence)
  PROVE  \E n \in Nat :
           /\ OfSize(asked.octets, n) /\ n <= 6500
           /\ n = 52 + IF asked.data = None THEN 2 ELSE TlvLength(asked.id, asked.data)
           /\ Holds(asked.octets, 3, 4, Octets(n, 2))
           /\ Holds(asked.octets, 21, 30, IdentityOctets(Machine))
           /\ Holds(asked.octets, 31, 32, Octets(sequence, 2))
           /\ Holds(asked.octets, 35, 42, TargetId(m_target.identity.octets, m_target.number))
           /\ Holds(asked.octets, 43, 44,
                    Octets(TargetPort(m_target.identity.octets, m_target.number), 2))
           /\ Holds(asked.octets, 51, 52, Octets(TlvLength(asked.id, asked.data), 2))
           /\ Holds(asked.octets, 53, n, TlvBody(asked.id, asked.data))
  <1>. DEFINE identity == m_target.identity.octets
              number == m_target.number
              action == asked.action
              id == asked.id
              data == asked.data
              octets == asked.octets
  <1>1. identity \in Bytes /\ number \in Word /\ m_nHops \in Octet
    BY DEF Managed
  <1>2. sequence \in Word
    BY ManagementAssumption
  <1>3. /\ action \in {"kGet", "kSet"} /\ CanCarry(id, data)
        /\ octets = Message(13, m_nDomain, Machine, sequence, 127,
                            CreatePayload(action, m_nHops, identity, number, CreateTlv(id, data)))
    BY DEF Requested, kManagementMessage
  <1>. HIDE DEF identity, number, action, id, data, octets
  <1>4. \E n \in Nat :
           /\ OfSize(octets, n) /\ n <= 6500
           /\ n = 52 + IF data = None THEN 2 ELSE TlvLength(id, data)
           /\ Holds(octets, 3, 4, Octets(n, 2))
           /\ Holds(octets, 21, 30, IdentityOctets(Machine))
           /\ Holds(octets, 31, 32, Octets(sequence, 2))
           /\ Holds(octets, 35, 42, TargetId(identity, number))
           /\ Holds(octets, 43, 44, Octets(TargetPort(identity, number), 2))
           /\ Holds(octets, 51, 52, Octets(TlvLength(id, data), 2))
           /\ Holds(octets, 53, n, TlvBody(id, data))
    BY <1>1, <1>2, <1>3, RequestIs
  <1>. QED BY <1>4 DEF identity, number, action, id, data, octets

(* The parts of a Delay_Req.                                               *)
LEMMA DelayIs ==
  ASSUME NEW message, NEW sequence \in SequenceIds, DelayRequested(message, sequence)
  PROVE  /\ OfSize(message.octets, 44)
         /\ Holds(message.octets, 3, 4, Octets(44, 2))
         /\ Holds(message.octets, 21, 30, IdentityOctets(Machine))
         /\ Holds(message.octets, 31, 32, Octets(sequence, 2))
  <1>. DEFINE octets == message.octets
              n == 10
              l == 44
  <1>1. PICK now \in Times :
          octets = Message(1, m_nDomain, Machine, sequence, 0, FromSecNano(now))
    BY DEF DelayRequested, kDelayReq
  <1>2. now \in Nat /\ sequence \in Word
    BY ManagementAssumption DEF IsTime
  <1>3. Headed(1, m_nDomain, Machine, sequence, 0)
    BY <1>2, MachineIs
  <1>4. OfSize(FromSecNano(now), n) /\ n \in Nat /\ l \in Nat /\ l = 34 + n
    BY <1>2, SizeTime
  <1>. HIDE DEF octets, n, l
  <1>5. /\ OfSize(octets, l) /\ Holds(octets, 3, 4, Octets(l, 2))
        /\ Holds(octets, 21, 30, IdentityOctets(Machine))
        /\ Holds(octets, 31, 32, Octets(sequence, 2))
    BY <1>1, <1>3, <1>4, MessageIs
  <1>. QED BY <1>5 DEF octets, l

(* In such a message the lengths are those of the octets that they count.  *)
LEMMA AskedLengths == Managed /\ AskedWell => LengthsAgree
  <1>. SUFFICES ASSUME Managed, AskedWell, asked # None
                PROVE  /\ Number(SubSeq(asked.octets, 3, 4), FALSE) = Len(asked.octets)
                       /\ asked.type = kManagementMessage =>
                            LET nLength == Number(SubSeq(asked.octets, 51, 52), FALSE)
                            IN  /\ nLength % 2 = 0
                                /\ asked.data # None => nLength = Len(asked.octets) - 52
    BY DEF LengthsAgree
  <1>1. PICK sequence \in SequenceIds : Requested(asked, sequence) \/ DelayRequested(asked, sequence)
    BY DEF AskedWell
  <1>2. CASE Requested(asked, sequence)
    <2>. DEFINE length == TlvLength(asked.id, asked.data)
                nLength == Number(SubSeq(asked.octets, 51, 52), FALSE)
    <2>1. PICK n \in Nat :
           /\ OfSize(asked.octets, n) /\ n <= 6500
           /\ n = 52 + IF asked.data = None THEN 2 ELSE length
           /\ Holds(asked.octets, 3, 4, Octets(n, 2))
           /\ Holds(asked.octets, 51, 52, Octets(length, 2))
      BY <1>2, AskedIs
    <2>2. CanCarry(asked.id, asked.data)
      BY <1>2 DEF Requested
    <2>3. length \in Nat /\ length <= 6403 /\ length % 2 = 0
      BY <2>2, CreateTlvIs
    <2>. HIDE DEF length
    <2>4. n \in Word /\ length \in Word
      BY <2>1, <2>3, SizeIsWord
    <2>11. /\ SubSeq(asked.octets, 3, 4) = Octets(n, 2)
           /\ SubSeq(asked.octets, 51, 52) = Octets(length, 2)
      BY <2>1 DEF Holds
    <2>12. Number(Octets(n, 2), FALSE) = n /\ Number(Octets(length, 2), FALSE) = length
      BY <2>4, WordOctets
    <2>5. Number(SubSeq(asked.octets, 3, 4), FALSE) = n
      BY <2>11, <2>12
    <2>8. nLength = length
      BY <2>11, <2>12
    <2>6. Len(asked.octets) = n
      BY <2>1 DEF OfSize
    <2>. HIDE DEF nLength
    <2>7. asked.data # None => length = n - 52
      BY <2>1, <2>3
    <2>9. nLength % 2 = 0 /\ (asked.data # None => nLength = Len(asked.octets) - 52)
      BY <2>3, <2>6, <2>7, <2>8
    <2>10. Number(SubSeq(asked.octets, 3, 4), FALSE) = Len(asked.octets)
      BY <2>5, <2>6
    <2>. QED BY <2>9, <2>10 DEF nLength
  <1>3. CASE DelayRequested(asked, sequence)
    <2>. DEFINE n == 44
    <2>1. OfSize(asked.octets, n) /\ Holds(asked.octets, 3, 4, Octets(n, 2))
      BY <1>3, DelayIs
    <2>2. n \in Word
      BY WordIs
    <2>. HIDE DEF n
    <2>3. Number(SubSeq(asked.octets, 3, 4), FALSE) = n
      BY <2>1, <2>2, NumberAt
    <2>4. Len(asked.octets) = n
      BY <2>1 DEF OfSize
    <2>5. asked.type # kManagementMessage
      BY <1>3 DEF DelayRequested, kDelayReq, kManagementMessage
    <2>. QED BY <2>3, <2>4, <2>5
  <1>. QED BY <1>1, <1>2, <1>3

(* Eight octets are all ones only if they are given so.                    *)
LEMMA AllOnesGiven ==
  ASSUME NEW hex \in Bytes, Len(hex) <= 8, FromHexStr(hex, 8) = AllOnes
  PROVE  hex = AllOnes
  <1>. DEFINE octets == FromHexStr(hex, 8)
              n == Len(hex)
  <1>1. octets = [i \in 1 .. 8 |-> IF i <= n THEN hex[i] ELSE 0]
    BY DEF FromHexStr
  <1>2. \A i \in 1 .. 8 : octets[i] = 255
    BY DEF AllOnes
  <1>3. n \in Nat
    BY BytesAre
  <1>10. n <= 8
    OBVIOUS
  <1>. HIDE DEF n, octets
  <1>4. \A i \in 1 .. 8 : i <= n /\ hex[i] = 255
    BY <1>1, <1>2
  <1>5. n = 8
    <2>1. 8 <= n
      BY <1>4
    <2>. QED BY <1>3, <1>10, <2>1
  <1>6. 255 \in Octet
    BY OctetIs
  <1>7. AllOnes \in Identities
    BY <1>6 DEF AllOnes, Identities
  <1>8. AllOnes \in Bytes /\ Len(AllOnes) = 8
    BY <1>7, IdentityBytes
  <1>9. \A i \in 1 .. 8 : AllOnes[i] = 255
    BY DEF AllOnes
  <1>. QED BY <1>4, <1>5, <1>8, <1>9, SameBytes DEF n

(* Such a Set names one port, unless it is for all of them.                *)
LEMMA SetsReach == Managed /\ AskedWell => SetsReachOnePort
  <1>. DEFINE reached == {device \in Ports : Accepts(device, asked.octets)}
              identity == m_target.identity.octets
              number == m_target.number
              upper == m_target.identity.upper
  <1>. SUFFICES ASSUME Managed, AskedWell, asked # None, asked.action = "kSet",
                       identity = AllOnes => upper
                PROVE  Cardinality(reached) <= 1
    BY DEF SetsReachOnePort
  <1>1. PICK sequence \in SequenceIds : Requested(asked, sequence) \/ DelayRequested(asked, sequence)
    BY DEF AskedWell
  <1>2. Requested(asked, sequence)
    BY <1>1 DEF DelayRequested
  <1>3. TargetSet
    BY <1>2 DEF Requested
  <1>4. identity \in Bytes /\ Len(identity) <= 8 /\ number \in Word /\ upper \in BOOLEAN
        /\ m_target.identity \in [octets : Bytes, upper : BOOLEAN]
    BY DEF Managed
  <1>5. number # 65535
    BY <1>3 DEF TargetSet, kTargetNumberAll
  <1>6. identity # AllOnes
    <2>1. SUFFICES ASSUME identity = AllOnes
                   PROVE  FALSE
      OBVIOUS
    <2>2. upper = TRUE
      BY <1>4, <2>1
    <2>3. m_target.identity = [octets |-> AllOnes, upper |-> TRUE]
      BY <1>4, <2>1, <2>2
    <2>. QED BY <1>3, <2>3 DEF TargetSet, kTargetIdAll
  <1>. DEFINE x == TargetId(identity, number)
              y == TargetPort(identity, number)
              z == Octets(y, 2)
  <1>7. Holds(asked.octets, 35, 42, x) /\ Holds(asked.octets, 43, 44, z)
    BY <1>2, AskedIs
  <1>8. y \in Word
    BY <1>4, PidStrIs
  <1>. HIDE DEF identity, number, upper, x, y
  <1>9. TargetOf(asked.octets) = [id |-> x, port |-> y]
    <2>1. Number(SubSeq(asked.octets, 43, 44), FALSE) = y
      BY <1>7, <1>8, NumberAt
    <2>. QED BY <1>7, <2>1 DEF TargetOf, Holds
  <1>10. \A device \in Ports : Accepts(device, asked.octets)
                                 => x \in {device.id, AllOnes} /\ y \in {device.port, 65535}
    BY <1>9 DEF Accepts, kTargetNumberAll
  <1>11. \A device \in Ports : /\ device \in [id : Identities, port : Word]
                               /\ \E i \in 2 .. 8 : device.id[i] # 0
    BY ManagementAssumption
  <1>12. CASE identity = <<>>
    <2>. DEFINE first == ((number \div 10) % 10) * 16 + (number % 10)
    <2>1. x = FromHexStr(<<first>>, 8)
      BY <1>12 DEF x, TargetId
    <2>. HIDE DEF first
    <2>2. \A i \in 2 .. 8 : x[i] = 0
      <3>1. Len(<<first>>) = 1
        OBVIOUS
      <3>2. x = [i \in 1 .. 8 |-> IF i <= 1 THEN <<first>>[i] ELSE 0]
        BY <2>1, <3>1 DEF FromHexStr
      <3>. QED BY <3>2
    <2>3. x # AllOnes
      <3>1. AllOnes[8] = 255
        BY DEF AllOnes
      <3>. QED BY <2>2, <3>1
    <2>4. reached = {}
      BY <1>10, <1>11, <2>2, <2>3
    <2>. HIDE DEF reached
    <2>. QED BY <2>4, FS_EmptySet
  <1>13. CASE identity # <<>>
    <2>1. x = FromHexStr(identity, 8) /\ y = number
      BY <1>13 DEF x, y, TargetId, TargetPort
    <2>2. x # AllOnes
      BY <1>4, <1>6, <2>1, AllOnesGiven
    <2>3. \A device \in Ports : Accepts(device, asked.octets) => device = [id |-> x, port |-> y]
      <3>1. \A device \in Ports : Accepts(device, asked.octets)
                                    => device.id = x /\ device.port = y
        BY <1>5, <1>10, <2>1, <2>2
      <3>. QED BY <1>11, <3>1
    <2>. DEFINE only == [id |-> x, port |-> y]
    <2>. HIDE DEF only
    <2>4. reached = {} \/ reached = {only}
      BY <2>3 DEF only
    <2>. HIDE DEF reached
    <2>5. Cardinality({only}) = 1 /\ Cardinality({}) = 0
      BY FS_EmptySet, FS_Singleton
    <2>. QED BY <2>4, <2>5
  <1>. QED BY <1>12, <1>13

(* In every reachable state the Manager has what its calls can give it,    *)
(* and a request on the network is made of that.                           *)
LEMMA RequestsAreMade == Spec => [](Managed /\ AskedWell)
  <1>1. Init => Managed /\ AskedWell
    BY ManagedInit
  <1>2. Managed /\ AskedWell /\ [Next]_vars => (Managed /\ AskedWell)'
    BY ManagedStep, AskedStep
  <1>. QED BY <1>1, <1>2, PTL DEF Spec

(* The lengths that CreateMessage writes into a message are those of what  *)
(* it sends, and a TLV's is even, whatever is set or asked for.            *)
THEOREM LengthsAlwaysAgree == Spec => []LengthsAgree
  BY RequestsAreMade, AskedLengths, PTL

(* Whatever Target was given, unless it is all ones with a lower case      *)
(* digit, no setting reaches two ports.                                    *)
THEOREM SetsAlwaysReachOnePort == Spec => []SetsReachOnePort
  BY RequestsAreMade, SetsReach, PTL

-----------------------------------------------------------------------------
(* What is pushed comes back: fields, then layouts, then messages.         *)

(* A value that is read as it was pushed.                                  *)
Described(value) ==
  /\ value[1] \in Bytes /\ value[2] \in Bytes /\ value = <<value[1], value[2]>>
  /\ value[1] # <<>> /\ Len(value[1]) + Len(value[2]) < MaxDescription
  /\ \A i \in 1 .. Len(value[1]) : value[1][i] # Separator
  /\ \A i \in 1 .. Len(value[2]) : value[2][i] # Separator

Suits(field, value) ==
  /\ field.kind = "unsigned" => FitsUnsigned(value, field.width)
  /\ field.kind = "signed" => FitsSigned(value, field.width)
  /\ field.kind = "nibble" => value \in Nat /\ value < 16
  /\ field.kind \in {"one", "nonzero"} => value \in {0, 1}
  /\ field.kind = "bits" => value \subseteq field.weights
  /\ field.kind = "hex" => value \in Bytes /\ Len(value) = field.width
  /\ field.kind \in TextKinds => value \in Bytes /\ Len(value) <= 255
  /\ field.kind = "name+location" => Described(value)
  /\ field.kind = "time" => value \in Nat /\ IsTime(value)

(* A field is decoded from its own octets alone.                           *)
Alone(field, own, value) ==
  \A octets, start :
    SubSeq(octets, start, (start + field.width) - 1) = own =>
      Decode(field, octets, start) = [value |-> value, next |-> start + field.width]

(* Of a field of a fixed width its octets say what is read.                *)
LEMMA AloneReads ==
  ASSUME NEW field, NEW own, NEW value, NEW width \in Nat,
         field.width = width, OfSize(own, width), Alone(field, own, value)
  PROVE  Reads(field, own, value)
  <1>. SUFFICES ASSUME NEW before \in Bytes, NEW after \in Bytes
                PROVE  Decode(field, before \o own \o after, Len(before) + 1)
                         = [value |-> value, next |-> Len(before) + Len(own) + 1]
    BY DEF Reads, OfSize
  <1>. DEFINE octets == before \o own \o after
              start == Len(before) + 1
              m == Len(before)
              n == Len(own)
  <1>1. own \in Bytes /\ n = width /\ m \in Nat /\ n \in Nat
    BY BytesAre DEF OfSize
  <1>2. SubSeq(octets, start, m + n) = own
    BY <1>1, Slice
  <1>. HIDE DEF octets, m, n
  <1>3. (start + field.width) - 1 = m + n /\ start + field.width = m + n + 1
    BY <1>1 DEF m
  <1>. HIDE DEF start
  <1>4. SubSeq(octets, start, (start + field.width) - 1) = own
    BY <1>2, <1>3
  <1>5. Decode(field, octets, start) = [value |-> value, next |-> start + field.width]
    BY <1>4 DEF Alone
  <1>. QED BY <1>3, <1>5 DEF octets, start, m, n

(* What is decoded from a number, with or without a sign.                  *)
Decoded(field, number) ==
  CASE field.kind \in {"unsigned", "signed"} -> number
    [] field.kind = "nibble"  -> number % 16
    [] field.kind = "one"     -> IF number = 1 THEN 1 ELSE 0
    [] field.kind = "nonzero" -> IF number # 0 THEN 1 ELSE 0
    [] field.kind = "bits"    -> {w \in field.weights : (number \div w) % 2 = 1}

(* A number or a set of bits is read from its own octets alone.            *)
LEMMA NumberReadsAlone ==
  ASSUME NEW field, NEW own, NEW signed, signed = (field.kind = "signed"),
         field.kind \in NumberKinds \cup {"bits"}
  PROVE  Alone(field, own, Decoded(field, Number(own, signed)))
  <1>. SUFFICES ASSUME NEW octets, NEW start,
                       SubSeq(octets, start, (start + field.width) - 1) = own
                PROVE  Decode(field, octets, start)
                         = [value |-> Decoded(field, Number(own, signed)),
                            next |-> start + field.width]
    BY DEF Alone
  <1>. DEFINE number == Number(own, signed)
              next == start + field.width
              text == ToStr(octets, next, number)
              parts == SplitString(text) \o << <<>>, <<>> >>
  <1>1. Decode(field, octets, start) =
          CASE field.kind \in {"unsigned", "signed"} -> [value |-> number, next |-> next]
            [] field.kind = "nibble"  -> [value |-> number % 16, next |-> next]
            [] field.kind = "one"     -> [value |-> IF number = 1 THEN 1 ELSE 0, next |-> next]
            [] field.kind = "nonzero" -> [value |-> IF number # 0 THEN 1 ELSE 0, next |-> next]
            [] field.kind \in {"bits", "least", "greatest", "sixteens"} ->
                 [value |-> {w \in field.weights : (number \div w) % 2 = 1}, next |-> next]
            [] field.kind = "hex"     -> [value |-> own, next |-> next]
            [] field.kind = "counted" ->
                 [value |-> SubSeq(octets, next, next + number - 1), next |-> next + number]
            [] field.kind = "text"    -> [value |-> text, next |-> next + number]
            [] field.kind = "name+location" ->
                 [value |-> <<parts[1], parts[2]>>, next |-> next + number]
            [] field.kind = "time"    -> [value |-> ToSecNano(own), next |-> next]
    BY Zenon DEF Decode
  <1>. HIDE DEF number, next, text, parts
  <1>2. CASE field.kind \in {"unsigned", "signed"}
    BY <1>1, <1>2 DEF Decoded, number, next
  <1>3. CASE field.kind = "nibble"
    BY <1>1, <1>3 DEF Decoded, number, next
  <1>4. CASE field.kind = "one"
    BY <1>1, <1>4 DEF Decoded, number, next
  <1>5. CASE field.kind = "nonzero"
    BY <1>1, <1>5 DEF Decoded, number, next
  <1>6. CASE field.kind = "bits"
    BY <1>1, <1>6 DEF Decoded, number, next
  <1>. QED BY <1>2, <1>3, <1>4, <1>5, <1>6 DEF NumberKinds

(* So are octets and a time.                                               *)
LEMMA OthersReadAlone ==
  ASSUME NEW field, NEW own
  PROVE  /\ field.kind = "hex" => Alone(field, own, own)
         /\ field.kind = "time" => Alone(field, own, ToSecNano(own))
  <1>. SUFFICES ASSUME NEW octets, NEW start,
                       SubSeq(octets, start, (start + field.width) - 1) = own
                PROVE  /\ field.kind = "hex" =>
                            Decode(field, octets, start)
                              = [value |-> own, next |-> start + field.width]
                       /\ field.kind = "time" =>
                            Decode(field, octets, start)
                              = [value |-> ToSecNano(own), next |-> start + field.width]
    BY Zenon DEF Alone
  <1>. DEFINE number == Number(own, field.kind = "signed")
              next == start + field.width
              text == ToStr(octets, next, number)
              parts == SplitString(text) \o << <<>>, <<>> >>
              time == ToSecNano(own)
  <1>1. Decode(field, octets, start) =
          CASE field.kind \in {"unsigned", "signed"} -> [value |-> number, next |-> next]
            [] field.kind = "nibble"  -> [value |-> number % 16, next |-> next]
            [] field.kind = "one"     -> [value |-> IF number = 1 THEN 1 ELSE 0, next |-> next]
            [] field.kind = "nonzero" -> [value |-> IF number # 0 THEN 1 ELSE 0, next |-> next]
            [] field.kind \in {"bits", "least", "greatest", "sixteens"} ->
                 [value |-> {w \in field.weights : (number \div w) % 2 = 1}, next |-> next]
            [] field.kind = "hex"     -> [value |-> own, next |-> next]
            [] field.kind = "counted" ->
                 [value |-> SubSeq(octets, next, next + number - 1), next |-> next + number]
            [] field.kind = "text"    -> [value |-> text, next |-> next + number]
            [] field.kind = "name+location" ->
                 [value |-> <<parts[1], parts[2]>>, next |-> next + number]
            [] field.kind = "time"    -> [value |-> time, next |-> next]
    BY Zenon DEF Decode
  <1>. HIDE DEF number, next, text, parts, time
  <1>2. field.kind = "hex" => Decode(field, octets, start) = [value |-> own, next |-> next]
    BY <1>1
  <1>3. field.kind = "time" => Decode(field, octets, start) = [value |-> time, next |-> next]
    BY <1>1
  <1>. QED BY <1>2, <1>3 DEF next, time

(* Numbers are read as they were pushed.                                   *)
LEMMA NumberComesBack ==
  ASSUME NEW names, NEW field \in Fields(names), Readable(field), NEW value,
         field.kind \in NumberKinds, Suits(field, value)
  PROVE  Reads(field, Encode(field, value), value)
  <1>. DEFINE width == field.width
              signed == (field.kind = "signed")
              own == Octets(value, width)
  <1>1. width \in Widths /\ width \in Nat
    BY DEF Readable, Widths
  <1>2. signed \in BOOLEAN
    OBVIOUS
  <1>3. value \in Int /\ IF signed THEN FitsSigned(value, width) ELSE FitsUnsigned(value, width)
    <2>1. CASE field.kind = "unsigned"
      BY <2>1 DEF Suits, FitsUnsigned
    <2>2. CASE field.kind = "signed"
      BY <2>2 DEF Suits, FitsSigned
    <2>3. CASE field.kind \in {"nibble", "one", "nonzero"}
      <3>1. value \in Nat /\ value < 16
        BY <2>3 DEF Suits
      <3>2. value <= Huge - 256
        BY <3>1, HugeIs
      <3>3. FitsUnsigned(value, width)
        BY <3>1, <3>2 DEF FitsUnsigned
      <3>. QED BY <2>3, <3>1, <3>3
    <2>. QED BY <2>1, <2>2, <2>3 DEF NumberKinds
  <1>4. Encode(field, value) = own
    BY DEF Encode, NumberKinds
  <1>5. OfSize(own, width)
    BY <1>1, <1>3, SizeOctets
  <1>6. Alone(field, own, Decoded(field, Number(own, signed)))
    <2>. HIDE DEF own
    <2>. QED BY NumberReadsAlone
  <1>7. Number(own, signed) = value
    <2>. HIDE DEF signed, width
    <2>. QED BY <1>1, <1>2, <1>3, NumberOfOctets
  <1>8. Decoded(field, value) = value
    BY DEF Decoded, Suits, NumberKinds
  <1>. HIDE DEF own, signed
  <1>9. Alone(field, own, value)
    BY <1>6, <1>7, <1>8
  <1>. HIDE DEF width
  <1>10. Reads(field, own, value)
    BY <1>1, <1>5, <1>9, AloneReads DEF width
  <1>. QED BY <1>4, <1>10

(* Flags are read as they were added up.                                   *)
LEMMA BitsRead ==
  ASSUME NEW names, NEW field \in Fields(names), Readable(field), NEW value,
         field.kind = "bits", value \subseteq field.weights
  PROVE  Reads(field, Octets(WeightSum(value), field.width), value)
  <1>. DEFINE width == field.width
              weights == field.weights
              signed == FALSE
              n == WeightSum(value)
              own == Octets(n, width)
  <1>1. weights \subseteq Weights
    BY DEF Fields
  <1>2. width \in FlagWidths /\ (width = 1 => \A w \in value : w < 256)
    BY DEF Readable, FlagKinds, FlagWidths
  <1>3. value \subseteq Weights
    BY <1>1
  <1>4. FitsUnsigned(n, width) /\ width \in Widths
    BY <1>2, <1>3, WeightsFit
  <1>5. n \in Int /\ width \in Nat
    BY <1>4 DEF FitsUnsigned, Widths
  <1>6. signed \in BOOLEAN /\ signed = (field.kind = "signed")
        /\ IF signed THEN FitsSigned(n, width) ELSE FitsUnsigned(n, width)
    BY <1>4
  <1>7. \A w \in weights : (n \div w) % 2 = 1 <=> w \in value
    BY <1>1, <1>3, WeightBits
  <1>8. {w \in weights : (n \div w) % 2 = 1} = value
    <2>. HIDE DEF n, weights
    <2>1. value \subseteq weights
      BY DEF weights
    <2>. QED BY <1>7, <2>1
  <1>. HIDE DEF n
  <1>9. OfSize(own, width)
    BY <1>5, SizeOctets
  <1>10. Number(own, signed) = n
    <2>. HIDE DEF signed, width
    <2>. QED BY <1>4, <1>5, <1>6, NumberOfOctets
  <1>11. Alone(field, own, Decoded(field, Number(own, signed)))
    <2>1. field.kind \in NumberKinds \cup {"bits"}
      OBVIOUS
    <2>. HIDE DEF own, signed
    <2>. QED BY <1>6, <2>1, NumberReadsAlone
  <1>12. Decoded(field, n) = value
    BY <1>8 DEF Decoded
  <1>. HIDE DEF own, signed
  <1>13. Alone(field, own, value)
    BY <1>10, <1>11, <1>12
  <1>. HIDE DEF width
  <1>14. Reads(field, own, value)
    BY <1>5, <1>9, <1>13, AloneReads DEF width
  <1>. QED BY <1>14 DEF own, n, width

(* Flags that are pushed as bits are read as they were.                    *)
LEMMA BitsComeBack ==
  ASSUME NEW names, NEW field \in Fields(names), Readable(field), NEW value,
         field.kind = "bits", Suits(field, value)
  PROVE  Reads(field, Encode(field, value), value)
  <1>1. value \subseteq field.weights /\ field.weights \subseteq Weights
    BY DEF Suits, Fields
  <1>2. Encode(field, value) = Octets(FoldSet(+, 0, value), field.width)
    BY DEF Encode
  <1>3. FoldSet(+, 0, value) = WeightSum(value)
    BY <1>1, FlagsAddUp
  <1>4. Reads(field, Octets(WeightSum(value), field.width), value)
    BY <1>1, BitsRead
  <1>. QED BY <1>2, <1>3, <1>4, Zenon

(* So is a string of octets as long as its field.                          *)
LEMMA HexComesBack ==
  ASSUME NEW names, NEW field \in Fields(names), NEW value,
         field.kind = "hex", Suits(field, value)
  PROVE  Reads(field, Encode(field, value), value)
  <1>. DEFINE width == field.width
  <1>1. value \in Bytes /\ Len(value) = width /\ width \in Nat
    BY DEF Suits, Fields
  <1>2. Encode(field, value) = FromHexStr(value, width)
    BY DEF Encode
  <1>3. FromHexStr(value, width) = value
    <2>. HIDE DEF width
    <2>. QED BY <1>1, HexIsItself
  <1>4. OfSize(value, width)
    BY <1>1 DEF OfSize
  <1>5. Alone(field, value, value)
    BY OthersReadAlone
  <1>. HIDE DEF width
  <1>6. Reads(field, value, value)
    BY <1>1, <1>4, <1>5, AloneReads DEF width
  <1>. QED BY <1>2, <1>3, <1>6

(* Seconds and nanoseconds make the time again.                            *)
LEMMA TimeIsRead ==
  ASSUME NEW time \in Nat, IsTime(time)
  PROVE  ToSecNano(FromSecNano(time)) = time
  <1>. DEFINE s == time \div Second
              n == time % Second
              six == 6
              four == 4
              signed == FALSE
              a == Octets(s, six)
              b == Octets(n, four)
              ab == Then(a, b)
  <1>1. /\ s \in Nat /\ s < Huge - 255 /\ n \in Nat /\ n < Second /\ time = s * Second + n
    <2>1. Second \in Nat \ {0}
      BY StructsAssumption
    <2>2. s < Huge - 255
      BY DEF IsTime
    <2>3. s \in Nat /\ n \in Nat /\ n < Second
      BY <2>1
    <2>4. time = s * Second + n
      BY <2>1, SMTT(30)
    <2>. QED BY <2>2, <2>3, <2>4
  <1>2. FitsUnsigned(s, six)
    <2>1. s <= Huge - 256
      BY <1>1, HugeIs
    <2>. QED BY <1>1, <2>1 DEF FitsUnsigned
  <1>3. FitsUnsigned(n, four)
    <2>1. Second <= 1000000000
      BY StructsAssumption
    <2>2. n <= Huge - 256
      BY <1>1, <2>1, HugeIs, StructsAssumption, SMT
    <2>. QED BY <1>1, <2>2 DEF FitsUnsigned
  <1>4. six \in Widths /\ four \in Widths /\ six \in Nat /\ four \in Nat /\ signed \in BOOLEAN
    BY DEF Widths
  <1>5. s \in Int /\ n \in Int
    BY <1>1
  <1>6. six = 6 /\ four = 4 /\ ~signed
    OBVIOUS
  <1>7. FromSecNano(time) = ab
    BY DEF FromSecNano, Then
  <1>. HIDE DEF s, n, six, four, signed
  <1>8. Number(a, signed) = s /\ Number(b, signed) = n
    <2>1. IF signed THEN FitsSigned(s, six) ELSE FitsUnsigned(s, six)
      BY <1>2, <1>6
    <2>2. IF signed THEN FitsSigned(n, four) ELSE FitsUnsigned(n, four)
      BY <1>3, <1>6
    <2>3. Number(a, signed) = s
      BY <1>4, <1>5, <2>1, NumberOfOctets
    <2>4. Number(b, signed) = n
      BY <1>4, <1>5, <2>2, NumberOfOctets
    <2>. QED BY <2>3, <2>4
  <1>9. OfSize(a, six) /\ OfSize(b, four)
    BY <1>4, <1>5, SizeOctets
  <1>. HIDE DEF a, b
  <1>10. SubSeq(ab, 1, 6) = a
    <2>1. Holds(Then(a, b), 1, six, a)
      BY <1>4, <1>9, HoldsFirst DEF OfSize
    <2>. QED BY <1>6, <2>1 DEF Holds
  <1>11. SubSeq(ab, 7, 10) = b
    <2>. DEFINE m == 7
                l == 10
    <2>1. m \in Nat /\ l \in Nat /\ m = six + 1 /\ l = six + four
      BY <1>6
    <2>. HIDE DEF m, l
    <2>2. Holds(Then(a, b), m, l, b)
      BY <1>4, <1>9, <2>1, HoldsLast
    <2>3. SubSeq(Then(a, b), m, l) = b
      BY <2>2 DEF Holds
    <2>. QED BY <2>3 DEF m, l
  <1>. HIDE DEF ab
  <1>12. ToSecNano(ab) = s * Second + n
    <2>1. signed = FALSE
      BY DEF signed
    <2>. QED BY <1>8, <1>10, <1>11, <2>1 DEF ToSecNano
  <1>. QED BY <1>1, <1>7, <1>12

(* So is a time that six octets of seconds hold.                           *)
LEMMA TimeComesBack ==
  ASSUME NEW names, NEW field \in Fields(names), Readable(field), NEW value,
         field.kind = "time", Suits(field, value)
  PROVE  Reads(field, Encode(field, value), value)
  <1>. DEFINE width == 10
              own == FromSecNano(value)
  <1>1. value \in Nat /\ IsTime(value) /\ field.width = width /\ width \in Nat
    BY DEF Suits, Readable
  <1>2. Encode(field, value) = own
    BY DEF Encode
  <1>3. OfSize(own, width)
    BY <1>1, SizeTime
  <1>4. Alone(field, own, ToSecNano(own))
    <2>. HIDE DEF own
    <2>. QED BY OthersReadAlone
  <1>5. ToSecNano(own) = value
    BY <1>1, TimeIsRead
  <1>. HIDE DEF width, own
  <1>6. Alone(field, own, value)
    BY <1>4, <1>5
  <1>7. Reads(field, own, value)
    BY <1>1, <1>3, <1>6, AloneReads
  <1>. QED BY <1>2, <1>7

(* A text is read as it was written after its length.                      *)
LEMMA TextComesBack ==
  ASSUME NEW names, NEW field \in Fields(names), Readable(field), NEW value,
         field.kind \in TextKinds, Suits(field, value)
  PROVE  Reads(field, Encode(field, value), value)
  <1>. DEFINE own == FromStr(value, field.width)
              n == Len(value)
  <1>1. value \in Bytes /\ n <= 255 /\ field.width \in {1, 2}
    BY DEF Suits, Readable
  <1>2. Encode(field, value) = own
    BY DEF Encode, TextKinds
  <1>3. own \in Bytes
    BY <1>1, FromStrType
  <1>4. ASSUME NEW before \in Bytes, NEW after \in Bytes, after # <<>>
        PROVE  Decode(field, before \o own \o after, Len(before) + 1)
                 = [value |-> value, next |-> Len(before) + Len(own) + 1]
    <2>. DEFINE octets == before \o own \o after
                start == Len(before) + 1
                next == start + field.width
    <2>1. /\ TextAt(octets, start, next, n, value)
          /\ next + n = Len(before) + Len(own) + 1
      <3>1. octets = Then(Then(before, FromStr(value, field.width)), after)
        BY Zenon DEF Then
      <3>2. n = Len(value)
        OBVIOUS
      <3>. HIDE DEF n, octets, start, next
      <3>3. start = Len(before) + 1 /\ next = start + field.width
        BY DEF start, next
      <3>4. TextAt(octets, start, next, n, value)
        BY <1>1, <1>4, <3>1, <3>2, <3>3, TextIsThere
      <3>5. next + n = Len(before) + Len(FromStr(value, field.width)) + 1
        <4>1. Len(FromStr(value, field.width)) = field.width + n
          BY <1>1, <3>2, FromStrType
        <4>2. Len(before) \in Nat /\ n \in Nat
          BY <1>1, <3>2, BytesAre
        <4>. QED BY <1>1, <3>3, <4>1, <4>2, SMTT(30)
      <3>. QED BY <3>4, <3>5
    <2>. HIDE DEF octets, start, n, own
    <2>2. ToStr(octets, next, n) = value
      BY <2>1 DEF ToStr, TextAt
    <2>3. field.kind = "text" \/ field.kind = "counted"
      BY DEF TextKinds
    <2>4. Decode(field, octets, start) = [value |-> value, next |-> next + n]
      <3>. DEFINE number == Number(SubSeq(octets, start, next - 1), field.kind = "signed")
      <3>3. number = n
        <4>1. (field.kind = "signed") = FALSE
          BY <2>3
        <4>. QED BY <2>1, <4>1, Zenon DEF TextAt
      <3>1. CASE field.kind = "text"
        <4>1. Decode(field, octets, start)
                = [value |-> ToStr(octets, next, number), next |-> next + number]
          BY <3>1 DEF Decode
        <4>. QED BY <2>2, <3>3, <4>1
      <3>2. CASE field.kind = "counted"
        <4>1. Decode(field, octets, start)
                = [value |-> SubSeq(octets, next, next + (number - 1)), next |-> next + number]
          BY <3>2 DEF Decode
        <4>2. SubSeq(octets, next, (next + n) - 1) = value /\ next + (n - 1) = (next + n) - 1
          BY <2>1 DEF TextAt
        <4>. HIDE DEF number
        <4>. QED BY <3>3, <4>1, <4>2
      <3>. QED BY <2>3, <3>1, <3>2
    <2>. QED BY <2>1, <2>4 DEF octets, start
  <1>. HIDE DEF own
  <1>5. Reads(field, own, value)
    BY <1>3, <1>4 DEF Reads
  <1>. QED BY <1>2, <1>5

(* A name and a location are read as they were given.                      *)
LEMMA DescriptionComesBack ==
  ASSUME NEW names, NEW field \in Fields(names), Readable(field), NEW value,
         field.kind = "name+location", Suits(field, value)
  PROVE  Reads(field, Encode(field, value), value)
  <1>. DEFINE name == value[1]
              location == value[2]
              m == Len(name)
              l == Len(location)
              both == value[1] \o <<Separator>> \o value[2]
              n == Len(both)
              own == FromStr(both, field.width)
  <1>1. /\ name \in Bytes /\ location \in Bytes /\ value = <<name, location>>
        /\ name # <<>> /\ m + l < MaxDescription
        /\ \A i \in 1 .. m : name[i] # Separator
        /\ \A i \in 1 .. l : location[i] # Separator
    BY DEF Suits, Described
  <1>2. m \in Nat /\ l \in Nat
    BY <1>1, BytesAre
  <1>3. m # 0
    <2>. DEFINE none == <<>>
    <2>1. none \in Bytes /\ Len(none) = 0 /\ name # none
      BY <1>1, JoinNothing
    <2>. HIDE DEF none
    <2>2. SUFFICES ASSUME m = 0
                   PROVE  FALSE
      OBVIOUS
    <2>3. Len(name) = Len(none) /\ Len(name) = 0
      BY <2>1, <2>2
    <2>4. \A i \in 1 .. Len(name) : name[i] = none[i]
      BY <2>3
    <2>5. name = none
      BY <1>1, <2>1, <2>3, <2>4, SameBytes
    <2>. QED BY <2>1, <2>5
  <1>4. IsPair(both, name, location, m, l)
    <2>1. both = Then(Then(name, <<Separator>>), location)
      BY Zenon DEF Then
    <2>. HIDE DEF both, name, location
    <2>2. m \in Nat \ {0}
      BY <1>2, <1>3
    <2>. QED BY <1>1, <1>2, <2>1, <2>2 DEF IsPair
  <1>5. Encode(field, value)
          = FromStr(SubSeq(both, 1, Min({MaxDescription, n})), field.width)
    BY DEF Encode
  <1>. HIDE DEF both, name, location
  <1>6. both \in Bytes /\ n = m + 1 + l
    BY <1>4, PairIs
  <1>. HIDE DEF m, l, n
  <1>7. n \in Nat /\ n <= MaxDescription /\ n <= 255
    <2>1. MaxDescription \in Nat /\ MaxDescription <= 255
      BY StructsAssumption
    <2>. QED BY <1>1, <1>2, <1>6, <2>1
  <1>8. Min({MaxDescription, n}) = n
    <2>. DEFINE M == Min({MaxDescription, n})
    <2>1. MaxDescription \in Nat
      BY StructsAssumption
    <2>2. \E x \in {MaxDescription, n} : \A y \in {MaxDescription, n} : x <= y
      BY <1>7, <2>1
    <2>3. M \in {MaxDescription, n} /\ \A y \in {MaxDescription, n} : M <= y
      BY <2>2, Zenon DEF Min
    <2>. HIDE DEF M
    <2>4. M = n
      BY <1>7, <2>1, <2>3
    <2>. QED BY <2>4 DEF M
  <1>9. SubSeq(both, 1, n) = both
    <2>. DEFINE none == <<>>
    <2>1. both \o none = both /\ none \in Bytes
      BY <1>6, JoinNothing
    <2>. HIDE DEF none
    <2>2. SubSeq(both \o none, 1, Len(both)) = both
      BY <1>6, <2>1, SliceStart
    <2>. QED BY <2>1, <2>2 DEF n
  <1>10. Encode(field, value) = own
    BY <1>5, <1>8, <1>9, Zenon
  <1>11. own \in Bytes /\ Len(own) = field.width + n /\ field.width \in {1, 2}
    <2>1. field.width \in {1, 2} /\ field.width \in Nat
      BY DEF Readable
    <2>2. FromStr(both, field.width) \in Bytes
          /\ Len(FromStr(both, field.width)) = field.width + Len(both)
      BY <1>6, <2>1, FromStrType
    <2>. QED BY <2>1, <2>2 DEF n
  <1>12. ASSUME NEW before \in Bytes, NEW after \in Bytes, after # <<>>
         PROVE  Decode(field, before \o own \o after, Len(before) + 1)
                  = [value |-> value, next |-> Len(before) + Len(own) + 1]
    <2>. DEFINE octets == before \o own \o after
                start == Len(before) + 1
                next == start + field.width
                number == Number(SubSeq(octets, start, next - 1), field.kind = "signed")
                text == ToStr(octets, next, number)
                parts == SplitString(text) \o << <<>>, <<>> >>
    <2>1. TextAt(octets, start, next, n, both)
      <3>1. octets = Then(Then(before, FromStr(both, field.width)), after)
        BY Zenon DEF Then
      <3>2. n = Len(both)
        BY DEF n
      <3>. HIDE DEF octets, start, next
      <3>3. start = Len(before) + 1 /\ next = start + field.width
        BY DEF start, next
      <3>. QED BY <1>6, <1>7, <1>11, <1>12, <3>1, <3>2, <3>3, TextIsThere
    <2>2. next + n = Len(before) + Len(own) + 1
      <3>1. Len(before) \in Nat
        BY BytesAre
      <3>. HIDE DEF own
      <3>. QED BY <1>7, <1>11, <3>1, SMTT(30)
    <2>3. Decode(field, octets, start)
            = [value |-> <<parts[1], parts[2]>>, next |-> next + number]
      BY DEF Decode
    <2>. HIDE DEF octets, start, own, next
    <2>4. number = n
      <3>1. (field.kind = "signed") = FALSE
        OBVIOUS
      <3>. QED BY <2>1, <3>1, Zenon DEF TextAt
    <2>. HIDE DEF number
    <2>5. text = both
      <3>1. ToStr(octets, next, n) = both
        BY <2>1 DEF ToStr, TextAt
      <3>. QED BY <2>4, <3>1
    <2>6. parts[1] = name /\ parts[2] = location
      <3>1. parts = SplitString(both) \o << <<>>, <<>> >>
        BY <2>5, Zenon
      <3>. HIDE DEF parts
      <3>. QED BY <1>4, <3>1, PairSplits
    <2>. HIDE DEF parts
    <2>7. Decode(field, octets, start) = [value |-> value, next |-> next + n]
      BY <1>1, <2>3, <2>4, <2>6
    <2>. QED BY <2>2, <2>7 DEF octets, start
  <1>. HIDE DEF own
  <1>13. Reads(field, own, value)
    BY <1>11, <1>12 DEF Reads
  <1>. QED BY <1>10, <1>13

(* Every field is read as it was pushed, if its value suits it.            *)
LEMMA FieldComesBack ==
  ASSUME NEW names, NEW field \in Fields(names), Readable(field), NEW value,
         Suits(field, value)
  PROVE  Reads(field, Encode(field, value), value)
  <1>1. field.kind \in NumberKinds \cup TextKinds \cup {"bits", "hex", "name+location", "time"}
    BY DEF Readable, Kinds, FlagKinds
  <1>. QED BY <1>1, NumberComesBack, BitsComeBack, HexComesBack, TextComesBack,
              DescriptionComesBack, TimeComesBack

(* Contents that are read as they were written in a layout, whatever comes *)
(* after them, if anything does.                                           *)
ComesBack(layout, octets, contents) ==
  /\ octets \in Bytes
  /\ \A rest \in Bytes : rest # <<>> => Read(layout, Then(octets, rest)) = contents

(* Contents are of the fields of a layout.                                 *)
ContentsOf(layout, contents) == contents = [name \in NamesOf(layout) |-> contents[name]]

AllSuit(layout, contents) ==
  \A i \in 1 .. Len(layout) : Suits(layout[i], contents[layout[i].name])

(* A message is read as it was meant when each field is, whatever layout   *)
(* pushed it.                                                              *)
LEMMA ReadAsWritten ==
  ASSUME NEW layout, Laid(layout), NEW written, NEW contents, ContentsOf(layout, contents),
         NEW n \in Nat, Len(layout) = n, DOMAIN written = 1 .. n,
         \A i \in 1 .. n : Reads(layout[i], Encode(written[i], contents[written[i].name]),
                                 contents[layout[i].name])
  PROVE  ComesBack(layout, Create(written, contents), contents)
  <1>. DEFINE names == NamesOf(layout)
              parts == Encoded(written, contents)
              octets == Create(written, contents)
  <1>1. IsLayout(layout, names, n)
    BY DEF Laid
  <1>2. /\ DOMAIN parts = 1 .. n
        /\ \A i \in 1 .. n : parts[i] = Encode(written[i], contents[written[i].name])
        /\ parts = [i \in 1 .. n |-> parts[i]]
    BY DEF Encoded
  <1>3. \A i \in 1 .. n : parts[i] \in Bytes
    BY <1>2 DEF Reads
  <1>4. octets = FlattenSeq(parts)
    BY CreateIs
  <1>. HIDE DEF parts, octets
  <1>5. parts \in Seq(Bytes) /\ Len(parts) = n
    <2>. DEFINE S == Bytes
    <2>1. \A i \in 1 .. n : parts[i] \in S
      BY <1>3
    <2>. HIDE DEF S
    <2>2. parts \in Seq(S)
      BY <1>2, <2>1
    <2>3. Len(parts) \in Nat /\ DOMAIN parts = 1 .. Len(parts)
      BY <2>2, LenProperties
    <2>4. Len(parts) = n
      BY <1>2, <2>3
    <2>. QED BY <2>2, <2>4 DEF S
  <1>6. octets \in Bytes
    <2>1. PICK flat : IsFlat(flat, parts, Octet)
      BY <1>5, FlatExists DEF Bytes
    <2>2. FlattenSeq(parts) = flat[n] /\ n \in 0 .. n
      BY <1>5, <2>1, FlattenIs DEF Bytes
    <2>3. flat[n] \in Bytes
      BY <1>5, <2>1, <2>2 DEF IsFlat, Bytes
    <2>. QED BY <1>4, <2>2, <2>3
  <1>7. \A i \in 1 .. n : Reads(layout[i], parts[i], contents[layout[i].name])
    BY <1>2
  <1>8. ASSUME NEW rest \in Bytes, rest # <<>>
        PROVE  Read(layout, Then(octets, rest)) = contents
    <2>1. Read(layout, FlattenSeq(parts) \o rest) = [name \in names |-> contents[name]]
      BY <1>1, <1>5, <1>7, <1>8, ReadBack
    <2>. QED BY <1>4, <2>1, Zenon DEF Then, ContentsOf
  <1>. QED BY <1>6, <1>8 DEF ComesBack, octets

(* A message whose fields suit it is read as it was written.               *)
LEMMA CreateComesBack ==
  ASSUME NEW layout, Laid(layout), Received(layout), NEW contents,
         ContentsOf(layout, contents), AllSuit(layout, contents)
  PROVE  ComesBack(layout, Create(layout, contents), contents)
  <1>. DEFINE names == NamesOf(layout)
              n == Len(layout)
  <1>1. layout \in Seq(Fields(names))
    BY DEF Laid, IsLayout
  <1>2. n \in Nat /\ DOMAIN layout = 1 .. n /\ \A i \in 1 .. n : layout[i] \in Fields(names)
    <2>. HIDE DEF names
    <2>. QED BY <1>1, LenProperties, ElementOfSeq
  <1>3. ASSUME NEW i \in 1 .. n
        PROVE  Reads(layout[i], Encode(layout[i], contents[layout[i].name]),
                     contents[layout[i].name])
    <2>. DEFINE field == layout[i]
                value == contents[layout[i].name]
    <2>1. field \in Fields(names) /\ Readable(field) /\ Suits(field, value)
      BY <1>2 DEF Received, AllSuit
    <2>. HIDE DEF field, value, names
    <2>2. Reads(field, Encode(field, value), value)
      BY <2>1, FieldComesBack
    <2>. QED BY <2>2 DEF field, value
  <1>. QED BY <1>2, <1>3, ReadAsWritten

(* Padding changes nothing of what is read.                                *)
LEMMA PadComesBack ==
  ASSUME NEW layout, NEW octets, NEW contents, ComesBack(layout, octets, contents)
  PROVE  ComesBack(layout, Pad(octets), contents)
  <1>1. octets \in Bytes
    BY DEF ComesBack
  <1>2. Pad(octets) \in Bytes
    BY <1>1, PadIs
  <1>3. PICK more \in Bytes : Pad(octets) = Then(octets, more)
    BY <1>1, PadIs
  <1>4. ASSUME NEW rest \in Bytes, rest # <<>>
        PROVE  Read(layout, Then(Pad(octets), rest)) = contents
    <2>. DEFINE all == Then(more, rest)
    <2>1. all \in Bytes /\ Len(all) = Len(more) + Len(rest)
      BY ThenIs
    <2>2. all # <<>>
      <3>. DEFINE none == <<>>
      <3>1. none \in Bytes /\ Len(none) = 0
        BY JoinNothing
      <3>. HIDE DEF none
      <3>2. Len(rest) = 0 => rest = none
        <4>1. ASSUME Len(rest) = 0
              PROVE  rest = none
          <5>1. Len(rest) = Len(none) /\ \A i \in 1 .. Len(rest) : rest[i] = none[i]
            BY <3>1, <4>1
          <5>. QED BY <3>1, <5>1, SameBytes
        <4>. QED BY <4>1
      <3>3. Len(rest) # 0
        BY <1>4, <3>2 DEF none
      <3>4. Len(more) \in Nat /\ Len(rest) \in Nat
        BY BytesAre
      <3>. HIDE DEF all
      <3>5. Len(all) # 0
        BY <2>1, <3>3, <3>4
      <3>. QED BY <3>1, <3>5 DEF none
    <2>3. Then(Pad(octets), rest) = Then(octets, all)
      BY <1>1, <1>3, ThenIsAssociative
    <2>. HIDE DEF all
    <2>. QED BY <2>1, <2>2, <2>3 DEF ComesBack
  <1>. QED BY <1>2, <1>4 DEF ComesBack

(* What a device has in a field, as Sample makes it.                       *)
SampleOf(field, n) ==
  CASE field.kind = "unsigned" -> n
    [] field.kind = "signed"   -> -n
    [] field.kind = "nibble"   -> n % 16
    [] field.kind \in {"one", "nonzero"} -> n % 2
    [] field.kind = "bits"     -> {w \in field.weights : w > n}
    [] field.kind = "hex"      -> [j \in 1 .. field.width |-> (n + j) % 256]
    [] field.kind \in {"counted", "text"} -> [j \in 1 .. n % 4 |-> 64 + n]
    [] field.kind = "name+location" -> << <<64, 64 + n>>, <<80 + n>> >>
    [] field.kind = "time"     -> (n * Second) + (n % Second)

(* The times of the samples are times that can be pushed.                  *)
LEMMA SampleTime ==
  ASSUME NEW n \in Nat, n < 200
  PROVE  (n * Second) + (n % Second) \in Nat /\ IsTime((n * Second) + (n % Second))
  <1>. DEFINE r == n % Second
              t == (n * Second) + r
  <1>1. Second \in Nat \ {0}
    BY StructsAssumption
  <1>2. r \in Nat /\ r < Second
    BY <1>1
  <1>. HIDE DEF r
  <1>3. t \in Nat
    BY <1>1, <1>2
  <1>4. t \div Second = n
    BY <1>1, <1>2, SMTT(30)
  <1>5. n < Huge - 255
    BY HugeIs
  <1>. QED BY <1>3, <1>4, <1>5 DEF IsTime, r

(* A sample of a field is a value that can be read again.                  *)
LEMMA SampleSuitsField ==
  ASSUME NEW names, NEW field \in Fields(names), Readable(field), NEW n \in Nat, n < 120
  PROVE  Suits(field, SampleOf(field, n))
  <1>. DEFINE value == SampleOf(field, n)
  <1>1. field.kind \in NumberKinds \cup TextKinds \cup {"bits", "hex", "name+location", "time"}
    BY DEF Readable, Kinds, FlagKinds
  <1>2. n <= Huge - 256 /\ 256 - Huge <= -n /\ -n <= Huge - 256
    BY HugeIs
  <1>3. CASE field.kind \in NumberKinds
    <2>1. CASE field.kind = "unsigned"
      <3>1. value = n
        BY <2>1 DEF SampleOf
      <3>2. FitsUnsigned(n, field.width)
        BY <1>2 DEF FitsUnsigned
      <3>. QED BY <2>1, <3>1, <3>2 DEF Suits, TextKinds
    <2>2. CASE field.kind = "signed"
      <3>1. value = -n
        BY <2>2 DEF SampleOf
      <3>2. FitsSigned(-n, field.width)
        BY <1>2 DEF FitsSigned
      <3>. QED BY <2>2, <3>1, <3>2 DEF Suits, TextKinds
    <2>3. CASE field.kind = "nibble"
      <3>1. value = n % 16
        BY <2>3 DEF SampleOf
      <3>2. n % 16 \in Nat /\ n % 16 < 16
        OBVIOUS
      <3>. QED BY <2>3, <3>1, <3>2 DEF Suits, TextKinds
    <2>4. CASE field.kind \in {"one", "nonzero"}
      <3>1. value = n % 2
        BY <2>4 DEF SampleOf
      <3>2. n % 2 \in {0, 1}
        OBVIOUS
      <3>. QED BY <2>4, <3>1, <3>2 DEF Suits, TextKinds
    <2>. QED BY <1>3, <2>1, <2>2, <2>3, <2>4 DEF NumberKinds
  <1>4. CASE field.kind = "bits"
    <2>1. value = {w \in field.weights : w > n}
      BY <1>4 DEF SampleOf
    <2>2. value \subseteq field.weights
      <3>. HIDE DEF value
      <3>. QED BY <2>1
    <2>. HIDE DEF value
    <2>3. Suits(field, value)
      BY <1>4, <2>2 DEF Suits, TextKinds
    <2>. QED BY <2>3 DEF value
  <1>5. CASE field.kind = "hex"
    <2>. DEFINE width == field.width
                at(j) == (n + j) % 256
                hex == [j \in 1 .. width |-> at(j)]
    <2>1. value = hex
      BY <1>5 DEF SampleOf
    <2>2. width \in Nat
      BY DEF Fields
    <2>3. \A j \in 1 .. width : at(j) \in Octet
      <3>1. \A j \in 1 .. width : at(j) \in Nat /\ at(j) < 256
        BY <2>2
      <3>. QED BY <3>1, OctetIs
    <2>4. hex \in Bytes /\ Len(hex) = width
      <3>. DEFINE S == Octet
      <3>. HIDE DEF at, width, S
      <3>1. \A j \in 1 .. width : at(j) \in S
        BY <2>3 DEF S
      <3>2. hex \in Seq(S) /\ Len(hex) = width
        BY <2>2, <3>1
      <3>. QED BY <3>2 DEF S, Bytes
    <2>. HIDE DEF hex, value
    <2>5. value \in Bytes /\ Len(value) = field.width
      BY <2>1, <2>4 DEF width
    <2>6. Suits(field, value)
      BY <1>5, <2>5 DEF Suits, TextKinds
    <2>. QED BY <2>6 DEF value
  <1>6. CASE field.kind \in TextKinds
    <2>. DEFINE m == n % 4
                x == 64 + n
                text == [j \in 1 .. m |-> x]
    <2>1. value = text
      BY <1>6 DEF SampleOf, TextKinds
    <2>2. m \in Nat /\ m < 4
      OBVIOUS
    <2>3. x \in Octet
      BY OctetIs
    <2>4. text \in Bytes /\ Len(text) = m
      <3>. DEFINE S == Octet
      <3>. HIDE DEF m, x
      <3>1. x \in S
        BY <2>3
      <3>. HIDE DEF S
      <3>2. text \in Seq(S) /\ Len(text) = m
        BY <2>2, <3>1
      <3>. QED BY <3>2 DEF S, Bytes
    <2>. HIDE DEF text, value, m
    <2>5. value \in Bytes /\ Len(value) <= 255
      BY <2>1, <2>2, <2>4
    <2>6. Suits(field, value)
      BY <1>6, <2>5, KindsAre DEF Suits, TextKinds
    <2>. QED BY <2>6 DEF value
  <1>7. CASE field.kind = "name+location"
    <2>. DEFINE x == 64 + n
                y == 80 + n
                s == 64
                name == <<s, x>>
                location == <<y>>
                pair == <<name, location>>
    <2>1. value = pair
      BY <1>7 DEF SampleOf
    <2>2. x \in Octet /\ y \in Octet /\ s \in Octet /\ x # 59 /\ y # 59 /\ s # 59
      BY OctetIs
    <2>. HIDE DEF x, y, s
    <2>3. name \in Bytes /\ Len(name) = 2 /\ name[1] = s /\ name[2] = x /\ name # <<>>
      <3>. DEFINE S == Octet
      <3>1. s \in S /\ x \in S
        BY <2>2
      <3>. HIDE DEF S
      <3>2. name \in Seq(S) /\ Len(name) = 2 /\ name # <<>>
        BY <3>1
      <3>. QED BY <3>2 DEF S, Bytes
    <2>4. location \in Bytes /\ Len(location) = 1 /\ location[1] = y
      BY <2>2, OneByte
    <2>5. pair[1] = name /\ pair[2] = location
      OBVIOUS
    <2>6. MaxDescription > 3
      BY StructsAssumption
    <2>7. /\ \A i \in 1 .. Len(name) : name[i] # 59
          /\ \A i \in 1 .. Len(location) : location[i] # 59
      BY <2>2, <2>3, <2>4
    <2>8. pair = <<pair[1], pair[2]>>
      OBVIOUS
    <2>. HIDE DEF name, location
    <2>9. Described(pair)
      <3>1. Len(name) + Len(location) < MaxDescription
        BY <2>3, <2>4, <2>6, StructsAssumption
      <3>. HIDE DEF pair
      <3>. QED BY <2>3, <2>4, <2>5, <2>7, <2>8, <3>1 DEF Described, Separator
    <2>. HIDE DEF pair, value
    <2>10. Suits(field, value)
      BY <1>7, <2>1, <2>9 DEF Suits, TextKinds
    <2>. QED BY <2>10 DEF value
  <1>8. CASE field.kind = "time"
    <2>1. value = (n * Second) + (n % Second)
      BY <1>8 DEF SampleOf
    <2>2. value \in Nat /\ IsTime(value)
      BY <2>1, SampleTime
    <2>. HIDE DEF value
    <2>3. Suits(field, value)
      BY <1>8, <2>2 DEF Suits, TextKinds
    <2>. QED BY <2>3 DEF value
  <1>. QED BY <1>1, <1>3, <1>4, <1>5, <1>6, <1>7, <1>8

(* A sample is of the fields of its layout, and suits every one of them.   *)
LEMMA SampleSuits ==
  ASSUME NEW layout, TlvRead(layout), NEW k \in Nat, k < 100
  PROVE  ContentsOf(layout, Sample(layout, k)) /\ AllSuit(layout, Sample(layout, k))
  <1>. DEFINE names == NamesOf(layout)
              n == Len(layout)
              at(name) == CHOOSE i \in DOMAIN layout : layout[i].name = name
              sample == Sample(layout, k)
  <1>1. IsLayout(layout, names, n) /\ SizeOf(layout) <= 16 /\ Received(layout)
    BY DEF TlvRead, Laid
  <1>2. n \in Nat /\ DOMAIN layout = 1 .. n /\ n <= 16
        /\ \A i \in 1 .. n : layout[i] \in Fields(names)
    <2>1. layout \in Seq(Fields(names))
      BY <1>1 DEF IsLayout
    <2>2. n <= 16
      BY <1>1 DEF SizeOf
    <2>. HIDE DEF names
    <2>. QED BY <2>1, <2>2, LenProperties, ElementOfSeq
  <1>3. \A i, j \in 1 .. n : layout[i].name = layout[j].name => i = j
    BY <1>1 DEF IsLayout
  <1>4. sample = [name \in {layout[i].name : i \in DOMAIN layout} |->
                    SampleOf(layout[at(name)], k + at(name))]
    BY Zenon DEF Sample, SampleOf
  <1>5. names = {layout[i].name : i \in DOMAIN layout}
    BY <1>2 DEF NamesOf
  <1>. HIDE DEF at, sample, names, n
  <1>6. sample = [name \in names |-> SampleOf(layout[at(name)], k + at(name))]
    BY <1>4, <1>5, Zenon
  <1>7. ContentsOf(layout, sample)
    BY <1>6 DEF ContentsOf, names
  <1>8. ASSUME NEW i \in 1 .. n
        PROVE  Suits(layout[i], sample[layout[i].name])
    <2>. DEFINE name == layout[i].name
                field == layout[i]
    <2>1. name \in names
      BY DEF names, n, NamesOf
    <2>2. at(name) = i
      <3>1. at(name) \in 1 .. n /\ layout[at(name)].name = name
        BY <1>2 DEF at
      <3>. QED BY <1>3, <3>1
    <2>3. sample[name] = SampleOf(field, k + i)
      BY <1>6, <2>1, <2>2
    <2>4. field \in Fields(names) /\ Readable(field)
      BY <1>1, <1>2 DEF Received, n
    <2>5. k + i \in Nat /\ k + i < 120
      BY <1>2
    <2>. HIDE DEF field
    <2>6. Suits(field, SampleOf(field, k + i))
      BY <2>4, <2>5, SampleSuitsField
    <2>. QED BY <2>3, <2>6 DEF field
  <1>. QED BY <1>7, <1>8 DEF AllSuit, sample, n

(* What a device answers to a Get is read as the device has it.            *)
LEMMA SampleComesBack ==
  ASSUME NEW id \in DOMAIN Layouts, NEW k \in Nat, k < 100
  PROVE  ComesBack(Layouts[id], Pad(Create(Layouts[id], Sample(Layouts[id], k))),
                   Sample(Layouts[id], k))
  <1>. DEFINE layout == Layouts[id]
              sample == Sample(layout, k)
  <1>1. TlvRead(layout)
    BY AllLayouts
  <1>. HIDE DEF layout
  <1>2. ContentsOf(layout, sample) /\ AllSuit(layout, sample)
    BY <1>1, SampleSuits
  <1>. HIDE DEF sample
  <1>3. ComesBack(layout, Create(layout, sample), sample)
    BY <1>1, <1>2, CreateComesBack DEF TlvRead
  <1>4. ComesBack(layout, Pad(Create(layout, sample)), sample)
    BY <1>3, PadComesBack
  <1>. QED BY <1>4 DEF layout, sample

(* A layout, or a part of one, whose fields suit the contents.             *)
Suited(names, layout, contents) ==
  layout \in Seq(Fields(names)) /\ AllSuit(layout, contents)

(* Of two parts one after the other.                                       *)
LEMMA SuitedJoin ==
  ASSUME NEW names, NEW contents, NEW a, NEW b,
         Suited(names, a, contents), Suited(names, b, contents)
  PROVE  Suited(names, a \o b, contents)
  <1>. DEFINE S == Fields(names)
              m == Len(a)
              n == Len(b)
              ab == a \o b
  <1>1. a \in Seq(S) /\ b \in Seq(S)
    BY DEF Suited
  <1>. HIDE DEF S
  <1>2. /\ ab \in Seq(S) /\ Len(ab) = m + n /\ m \in Nat /\ n \in Nat
        /\ \A i \in 1 .. m : ab[i] = a[i]
        /\ \A i \in 1 .. n : ab[m + i] = b[i]
    BY <1>1, ConcatProperties
  <1>3. /\ \A i \in 1 .. m : Suits(a[i], contents[a[i].name])
        /\ \A i \in 1 .. n : Suits(b[i], contents[b[i].name])
    BY DEF Suited, AllSuit
  <1>. HIDE DEF ab, m, n
  <1>4. \A i \in 1 .. m + n : i \in 1 .. m \/ (i - m \in 1 .. n /\ i = m + (i - m))
    BY <1>2
  <1>5. \A i \in 1 .. m + n : (i \in 1 .. m /\ ab[i] = a[i])
                              \/ (\E j \in 1 .. n : i = m + j /\ ab[i] = b[j])
    BY <1>2, <1>4
  <1>6. \A i \in 1 .. m + n : Suits(ab[i], contents[ab[i].name])
    BY <1>3, <1>5
  <1>7. AllSuit(ab, contents)
    BY <1>2, <1>6 DEF AllSuit
  <1>. QED BY <1>2, <1>7 DEF Suited, S, ab

(* Of a single field.                                                      *)
LEMMA SuitedField ==
  ASSUME NEW names, NEW name \in names, NEW kind \in Kinds, NEW width \in 1 .. 128,
         NEW weights, weights \subseteq Weights, NEW contents, NEW field,
         field = [name |-> name, kind |-> kind, width |-> width, weights |-> weights],
         NEW layout, layout = <<field>>, Suits(field, contents[name])
  PROVE  Suited(names, layout, contents)
  <1>1. field \in Fields(names)
    BY DEF Fields
  <1>2. field.name = name
    OBVIOUS
  <1>3. layout \in Seq(Fields(names)) /\ Len(layout) = 1 /\ 1 .. 1 = {1} /\ layout[1] = field
    BY <1>1
  <1>4. AllSuit(layout, contents)
    BY <1>2, <1>3 DEF AllSuit
  <1>. QED BY <1>3, <1>4 DEF Suited

(* Of a number.                                                            *)
LEMMA SuitedNumber ==
  ASSUME NEW names, NEW name \in names, NEW width \in 1 .. 128, NEW contents
  PROVE  /\ FitsUnsigned(contents[name], width) => Suited(names, U(name, width), contents)
         /\ FitsSigned(contents[name], width) => Suited(names, I(name, width), contents)
         /\ contents[name] \in Nat /\ contents[name] < 16
              => Suited(names, Field(name, "nibble", width), contents)
         /\ contents[name] \in {0, 1} => Suited(names, Field(name, "one", width), contents)
  <1>. DEFINE value == contents[name]
              Of(kind) == [name |-> name, kind |-> kind, width |-> width, weights |-> {}]
              Part(kind) == Field(name, kind, width)
  <1>1. \A kind : Of(kind).kind = kind /\ Of(kind).width = width
    OBVIOUS
  <1>2. \A kind : Part(kind) = <<Of(kind)>>
    BY DEF Field
  <1>3. ASSUME NEW kind \in NumberKinds, Suits(Of(kind), value)
        PROVE  Suited(names, Part(kind), contents)
    <2>1. kind \in Kinds
      BY DEF Kinds
    <2>2. Part(kind) = <<Of(kind)>>
      BY <1>2
    <2>. DEFINE layout == Part(kind)
                field == Of(kind)
    <2>. HIDE DEF layout
    <2>3. Suited(names, layout, contents)
      <3>1. layout = <<field>> /\ Suits(field, contents[name])
        BY <1>3, <2>2 DEF layout
      <3>. QED BY <2>1, <3>1, SuitedField
    <2>. QED BY <2>3 DEF layout
  <1>. HIDE DEF value, Of, Part
  <1>4. FitsUnsigned(value, width) => Suits(Of("unsigned"), value)
    BY <1>1 DEF Suits, TextKinds
  <1>5. FitsSigned(value, width) => Suits(Of("signed"), value)
    BY <1>1 DEF Suits, TextKinds
  <1>6. value \in Nat /\ value < 16 => Suits(Of("nibble"), value)
    BY <1>1 DEF Suits, TextKinds
  <1>7. value \in {0, 1} => Suits(Of("one"), value)
    BY <1>1 DEF Suits, TextKinds
  <1>8. /\ "unsigned" \in NumberKinds /\ "signed" \in NumberKinds /\ "nibble" \in NumberKinds
        /\ "one" \in NumberKinds
    BY DEF NumberKinds
  <1>9. U(name, width) = Part("unsigned") /\ I(name, width) = Part("signed")
    BY DEF U, I, Part
  <1>10. /\ FitsUnsigned(value, width) => Suited(names, Part("unsigned"), contents)
         /\ FitsSigned(value, width) => Suited(names, Part("signed"), contents)
         /\ value \in Nat /\ value < 16 => Suited(names, Part("nibble"), contents)
         /\ value \in {0, 1} => Suited(names, Part("one"), contents)
    BY <1>3, <1>4, <1>5, <1>6, <1>7, <1>8
  <1>. QED BY <1>9, <1>10, Zenon DEF Part, value

(* Of octets, a text, a description and a time.                            *)
LEMMA SuitedHex ==
  ASSUME NEW names, NEW name \in names, NEW width \in 1 .. 128, NEW contents,
         OfSize(contents[name], width)
  PROVE  Suited(names, Hex(name, width), contents)
  <1>. DEFINE kind == "hex"
              field == [name |-> name, kind |-> kind, width |-> width, weights |-> {}]
              layout == Hex(name, width)
              value == contents[name]
  <1>1. kind \in Kinds /\ kind \notin TextKinds /\ kind = "hex"
    BY DEF Kinds, TextKinds
  <1>2. layout = <<field>>
    BY DEF Hex, Field
  <1>3. field.kind = kind /\ field.width = width
    OBVIOUS
  <1>. HIDE DEF kind, layout
  <1>4. Suits(field, value)
    <2>1. value \in Bytes /\ Len(value) = width
      BY DEF OfSize
    <2>. HIDE DEF field, value
    <2>. QED BY <1>1, <1>3, <2>1 DEF Suits
  <1>5. Suited(names, layout, contents)
    BY <1>1, <1>2, <1>4, SuitedField
  <1>. QED BY <1>5 DEF layout

(* Of a text.                                                              *)
LEMMA SuitedText ==
  ASSUME NEW names, NEW name \in names, NEW contents,
         contents[name] \in Bytes, Len(contents[name]) <= 255
  PROVE  Suited(names, Text(name), contents)
  <1>. DEFINE kind == "text"
              width == 1
              field == [name |-> name, kind |-> kind, width |-> width, weights |-> {}]
              layout == Text(name)
              value == contents[name]
  <1>1. kind \in Kinds /\ kind = "text" /\ width \in 1 .. 128
    BY DEF Kinds, TextKinds
  <1>2. layout = <<field>>
    BY DEF Text, Field
  <1>3. field.kind = kind
    OBVIOUS
  <1>. HIDE DEF kind, width, layout
  <1>4. Suits(field, value)
    <2>1. value \in Bytes /\ Len(value) <= 255
      OBVIOUS
    <2>. HIDE DEF field, value
    <2>. QED BY <1>1, <1>3, <2>1 DEF Suits
  <1>5. Suited(names, layout, contents)
    BY <1>1, <1>2, <1>4, SuitedField
  <1>. QED BY <1>5 DEF layout

(* Of the name and the location of a device.                               *)
LEMMA SuitedDescription ==
  ASSUME NEW names, NEW name \in names, NEW contents, Described(contents[name])
  PROVE  Suited(names, Field(name, "name+location", 1), contents)
  <1>. DEFINE kind == "name+location"
              width == 1
              field == [name |-> name, kind |-> kind, width |-> width, weights |-> {}]
              layout == Field(name, kind, width)
              value == contents[name]
  <1>1. kind \in Kinds /\ kind \notin TextKinds /\ kind = "name+location" /\ width \in 1 .. 128
    BY DEF Kinds, TextKinds
  <1>2. layout = <<field>>
    BY DEF Field
  <1>3. field.kind = kind
    OBVIOUS
  <1>. HIDE DEF kind, width, layout
  <1>4. Suits(field, value)
    <2>1. Described(value)
      OBVIOUS
    <2>. HIDE DEF field, value
    <2>. QED BY <1>1, <1>3, <2>1 DEF Suits
  <1>5. Suited(names, layout, contents)
    BY <1>1, <1>2, <1>4, SuitedField
  <1>. QED BY <1>5 DEF layout, kind, width

(* Of a time.                                                              *)
LEMMA SuitedTime ==
  ASSUME NEW names, NEW name \in names, NEW contents, IsTime(contents[name])
  PROVE  Suited(names, Field(name, "time", 10), contents)
  <1>. DEFINE kind == "time"
              width == 10
              field == [name |-> name, kind |-> kind, width |-> width, weights |-> {}]
              layout == Field(name, kind, width)
              value == contents[name]
  <1>1. kind \in Kinds /\ kind \notin TextKinds /\ kind = "time" /\ width \in 1 .. 128
    BY DEF Kinds, TextKinds
  <1>2. layout = <<field>>
    BY DEF Field
  <1>3. field.kind = kind
    OBVIOUS
  <1>. HIDE DEF kind, width, layout
  <1>4. Suits(field, value)
    <2>1. value \in Nat /\ IsTime(value)
      BY DEF IsTime
    <2>. HIDE DEF field, value
    <2>. QED BY <1>1, <1>3, <2>1 DEF Suits
  <1>5. Suited(names, layout, contents)
    BY <1>1, <1>2, <1>4, SuitedField
  <1>. QED BY <1>5 DEF layout, kind, width

(* Of flags, each a boolean.                                               *)
LEMMA SuitedFlags ==
  ASSUME NEW names, NEW name \in names, NEW contents, contents[name] \subseteq AllFlags
  PROVE  Suited(names, Flags(name, "bits", 1, AllFlags), contents)
  <1>. DEFINE kind == "bits"
              width == 1
              weights == AllFlags
              field == [name |-> name, kind |-> kind, width |-> width, weights |-> weights]
              layout == Flags(name, kind, width, weights)
              value == contents[name]
  <1>1. kind \in Kinds /\ kind = "bits" /\ kind \notin TextKinds /\ width \in 1 .. 128
        /\ weights \subseteq Weights
    BY FlagsAreWeights DEF Kinds, FlagKinds, TextKinds
  <1>2. layout = <<field>>
    BY DEF Flags
  <1>3. field.kind = kind /\ field.weights = weights
    OBVIOUS
  <1>4. value \subseteq weights
    OBVIOUS
  <1>. HIDE DEF kind, width, layout, weights
  <1>5. Suits(field, value)
    <2>. HIDE DEF field, value
    <2>. QED BY <1>1, <1>3, <1>4 DEF Suits
  <1>6. Suited(names, layout, contents)
    BY <1>1, <1>2, <1>5, SuitedField
  <1>. QED BY <1>6 DEF layout, kind, width, weights

(* What suits a layout comes back.                                         *)
LEMMA SuitedComesBack ==
  ASSUME NEW names, NEW layout, TlvRead(layout), NEW contents, Suited(names, layout, contents),
         NamesOf(layout) = names, contents = [name \in names |-> contents[name]]
  PROVE  ComesBack(layout, Create(layout, contents), contents)
  BY CreateComesBack DEF TlvRead, Suited, ContentsOf

(* What a call that sets a number gives.                                   *)
LEMMA BasicSuits ==
  ASSUME NEW data \in BasicData
  PROVE  /\ Suited({"nValue", "nReserved"}, tlvBasic, data)
         /\ data.nValue < 16 => Suited({"nValue", "nReserved"}, tlvVersion, data)
         /\ data = [name \in {"nValue", "nReserved"} |-> data[name]]
  <1>. DEFINE names == {"nValue", "nReserved"}
              one == 1
              a == U("nValue", one)
              b == U("nReserved", one)
              c == Field("nValue", "nibble", one)
  <1>1. data["nValue"] \in Octet /\ data["nReserved"] \in Octet
    BY DEF BasicData
  <1>2. "nValue" \in names /\ "nReserved" \in names /\ one \in 1 .. 128 /\ one \in Widths
    BY DEF Widths
  <1>3. data = [name \in names |-> data[name]]
    BY DEF BasicData
  <1>4. tlvBasic = a \o b /\ tlvVersion = c \o b
    BY UsTwo DEF tlvBasic, tlvVersion
  <1>. HIDE DEF names, one
  <1>5. FitsUnsigned(data["nValue"], one) /\ FitsUnsigned(data["nReserved"], one)
    BY <1>1, <1>2, OctetFits
  <1>6. Suited(names, a, data) /\ Suited(names, b, data)
    BY <1>2, <1>5, SuitedNumber
  <1>7. data["nValue"] < 16 => Suited(names, c, data)
    <2>1. data["nValue"] \in Nat
      BY <1>1, OctetIs
    <2>. QED BY <1>2, <2>1, SuitedNumber
  <1>. HIDE DEF a, b, c
  <1>8. /\ Suited(names, a \o b, data)
        /\ data["nValue"] < 16 => Suited(names, c \o b, data)
    BY <1>6, <1>7, SuitedJoin
  <1>. QED BY <1>3, <1>4, <1>8 DEF names

(* The name of an alternate offset.                                        *)
LEMMA NameSuits ==
  ASSUME NEW data \in NameData, Len(data.sName) <= 10
  PROVE  /\ Suited({"nKeyField", "sName"}, tlvAlternateTimeOffsetName, data)
         /\ data = [name \in {"nKeyField", "sName"} |-> data[name]]
  <1>. DEFINE names == {"nKeyField", "sName"}
              one == 1
              a == U("nKeyField", one)
              b == Text("sName")
  <1>1. data["nKeyField"] \in Octet /\ data["sName"] \in Bytes
    BY DEF NameData
  <1>2. "nKeyField" \in names /\ "sName" \in names /\ one \in 1 .. 128 /\ one \in Widths
    BY DEF Widths
  <1>3. data = [name \in names |-> data[name]]
    BY DEF NameData
  <1>4. tlvAlternateTimeOffsetName = a \o b
    BY DEF tlvAlternateTimeOffsetName
  <1>5. Len(data["sName"]) <= 255
    <2>1. Len(data["sName"]) \in Nat
      BY <1>1, BytesAre
    <2>. QED BY <2>1
  <1>. HIDE DEF names, one
  <1>6. FitsUnsigned(data["nKeyField"], one)
    BY <1>1, <1>2, OctetFits
  <1>7. Suited(names, a, data) /\ Suited(names, b, data)
    BY <1>1, <1>2, <1>5, <1>6, SuitedNumber, SuitedText
  <1>. HIDE DEF a, b
  <1>8. Suited(names, a \o b, data)
    BY <1>7, SuitedJoin
  <1>. QED BY <1>3, <1>4, <1>8 DEF names

(* The settings of a port.                                                 *)
LEMMA PortSuits ==
  ASSUME NEW data \in PortData
  PROVE  /\ Suited({"neighbourPropDelayThresh", "bCapable"}, tlvPortDataSetNP, data)
         /\ data = [name \in {"neighbourPropDelayThresh", "bCapable"} |-> data[name]]
  <1>. DEFINE names == {"neighbourPropDelayThresh", "bCapable"}
              four == 4
              a == U("neighbourPropDelayThresh", four)
              b == Field("bCapable", "one", four)
  <1>1. /\ data["neighbourPropDelayThresh"] \in Nat /\ data["bCapable"] \in {0, 1}
        /\ IsThreshold(data["neighbourPropDelayThresh"])
    BY DEF PortData
  <1>2. /\ "neighbourPropDelayThresh" \in names /\ "bCapable" \in names
        /\ four \in 1 .. 128 /\ four \in Widths
    BY DEF Widths
  <1>3. data = [name \in names |-> data[name]]
    BY DEF PortData
  <1>4. tlvPortDataSetNP = a \o b
    BY DEF tlvPortDataSetNP
  <1>. HIDE DEF names, four
  <1>5. FitsUnsigned(data["neighbourPropDelayThresh"], four)
    BY <1>1, HugeIs, SMT DEF FitsUnsigned, IsThreshold, four
  <1>6. Suited(names, a, data) /\ Suited(names, b, data)
    BY <1>1, <1>2, <1>5, SuitedNumber
  <1>. HIDE DEF a, b
  <1>7. Suited(names, a \o b, data)
    BY <1>6, SuitedJoin
  <1>. QED BY <1>3, <1>4, <1>7 DEF names

(* A description that can be carried, and a time.                          *)
LEMMA DescriptionSuits ==
  ASSUME NEW data \in DescriptionData, Carried("kUserDescription", data)
  PROVE  /\ Suited({"sName_sLocation"}, tlvUserDescription, data)
         /\ data = [name \in {"sName_sLocation"} |-> data[name]]
  <1>. DEFINE names == {"sName_sLocation"}
              both == data["sName_sLocation"]
  <1>1. data = [name \in names |-> data[name]]
    BY DEF DescriptionData
  <1>2. both \in Bytes \X Bytes
    BY DEF DescriptionData
  <1>3. /\ both[1] # <<>>
        /\ \A i \in {1, 2} : Separator \notin Range(both[i])
        /\ Len(both[1]) + Len(both[2]) < MaxDescription
    BY DEF Carried
  <1>. HIDE DEF both
  <1>4. both[1] \in Bytes /\ both[2] \in Bytes /\ both = <<both[1], both[2]>>
    BY <1>2
  <1>5. ASSUME NEW text \in Bytes, Separator \notin Range(text)
        PROVE  \A i \in 1 .. Len(text) : text[i] # Separator
    <2>1. DOMAIN text = 1 .. Len(text)
      BY BytesAre
    <2>2. \A i \in DOMAIN text : text[i] \in Range(text)
      BY DEF Range
    <2>. QED BY <1>5, <2>1, <2>2
  <1>6. Described(both)
    BY <1>3, <1>4, <1>5 DEF Described
  <1>7. "sName_sLocation" \in names
    OBVIOUS
  <1>. HIDE DEF names
  <1>8. Suited(names, Field("sName_sLocation", "name+location", 1), data)
    BY <1>6, <1>7, SuitedDescription DEF both
  <1>. QED BY <1>1, <1>8 DEF names, tlvUserDescription

(* A time.                                                                 *)
LEMMA TimeSuits ==
  ASSUME NEW data \in TimeData, IsTime(data.timestamp)
  PROVE  /\ Suited({"timestamp"}, tlvTime, data)
         /\ data = [name \in {"timestamp"} |-> data[name]]
  <1>. DEFINE names == {"timestamp"}
  <1>1. data = [name \in names |-> data[name]]
    BY DEF TimeData
  <1>2. "timestamp" \in names
    OBVIOUS
  <1>. HIDE DEF names
  <1>3. Suited(names, Field("timestamp", "time", 10), data)
    BY <1>2, SuitedTime
  <1>. QED BY <1>1, <1>3 DEF names, tlvTime

(* Of a set of one flag at most the conditional expressions write the sum. *)
LEMMA PushedFlags ==
  ASSUME NEW names, NEW name \in names, NEW contents, contents[name] \subseteq AllFlags,
         Cardinality(contents[name]) <= 1, NEW kind \in {"least", "bits"}
  PROVE  Pushes(names, Flags(name, kind, 1, AllFlags), contents,
                Octets(WeightSum(contents[name]), 1))
  <1>. DEFINE width == 1
              weights == AllFlags
              value == contents[name]
              field == [name |-> name, kind |-> kind, width |-> width, weights |-> weights]
              layout == Flags(name, kind, width, weights)
  <1>1. kind \in Kinds /\ kind \in FlagKinds /\ width \in 1 .. 128 /\ weights \subseteq Weights
    BY FlagsAreWeights DEF Kinds, FlagKinds
  <1>2. layout = <<field>>
    BY DEF Flags
  <1>3. field.name = name /\ field.kind = kind /\ field.width = width /\ field \in Fields(names)
    BY <1>1 DEF Fields
  <1>4. value \subseteq Weights /\ Cardinality(value) <= 1
    BY FlagsAreWeights
  <1>. HIDE DEF width, layout, weights, value
  <1>5. Writable(field, value)
    <2>. HIDE DEF field
    <2>. QED BY <1>1, <1>3, <1>4, WritableFlags
  <1>6. Encode(field, value) = Octets(WeightSum(value), width)
    <2>. HIDE DEF field
    <2>1. CASE kind = "least"
      <3>1. Encode(field, value) = Octets(IF value = {} THEN 0 ELSE Min(value), field.width)
        BY <1>3, <2>1 DEF Encode
      <3>2. (IF value = {} THEN 0 ELSE Min(value)) = WeightSum(value)
        BY <1>4, LeastIsSum
      <3>. QED BY <1>3, <3>1, <3>2
    <2>2. CASE kind = "bits"
      <3>1. Encode(field, value) = Octets(FoldSet(+, 0, value), field.width)
        BY <1>3, <2>2 DEF Encode
      <3>2. FoldSet(+, 0, value) = WeightSum(value)
        BY <1>4, FlagsAddUp
      <3>. QED BY <1>3, <3>1, <3>2
    <2>. QED BY <2>1, <2>2
  <1>7. Pushes(names, layout, contents, Encode(field, contents[field.name]))
    <2>1. Writable(field, contents[field.name])
      BY <1>3, <1>5 DEF value
    <2>. HIDE DEF field
    <2>. QED BY <1>2, <1>3, <2>1, PushOne
  <1>8. Encode(field, contents[field.name]) = Octets(WeightSum(value), width)
    BY <1>3, <1>6 DEF value
  <1>. HIDE DEF field
  <1>. QED BY <1>7, <1>8 DEF layout, width, weights, value

(* The settings of a grandmaster are written as they are read, if there is *)
(* one flag at most.                                                       *)
LEMMA SettingsSuit ==
  ASSUME NEW data \in SettingsData, Cardinality(data.flags) <= 1
  PROVE  /\ ComesBack(tlvGrandmasterSettingsNP("bits"),
                      Create(tlvGrandmasterSettingsNP("least"), data), data)
  <1>. DEFINE names == {"nClass", "eAccuracy", "nOffsetScaledLogVariance", "nUtcOffset", "flags",
                        "eTimeSource"}
              one == 1
              two == 2
              f1 == U("nClass", one)
              f2 == U("eAccuracy", one)
              f3 == U("nOffsetScaledLogVariance", two)
              f4 == I("nUtcOffset", two)
              f5 == Flags("flags", "bits", 1, AllFlags)
              g5 == Flags("flags", "least", 1, AllFlags)
              f6 == U("eTimeSource", one)
              x5 == Octets(WeightSum(data["flags"]), 1)
              read == tlvGrandmasterSettingsNP("bits")
              written == tlvGrandmasterSettingsNP("least")
  <1>1. /\ data["nClass"] \in Octet /\ data["eAccuracy"] \in Octet
        /\ data["nOffsetScaledLogVariance"] \in Word
        /\ data["nUtcOffset"] \in SignedWord
        /\ data["flags"] \subseteq AllFlags /\ data["eTimeSource"] \in Octet
    BY DEF SettingsData
  <1>2. /\ data["nClass"] \in Int /\ data["eAccuracy"] \in Int
        /\ data["nOffsetScaledLogVariance"] \in Int /\ data["nUtcOffset"] \in Int
        /\ data["eTimeSource"] \in Int
    BY <1>1, OctetIs, WordIs, SignedWordIs
  <1>3. /\ "nClass" \in names /\ "eAccuracy" \in names /\ "nOffsetScaledLogVariance" \in names
        /\ "nUtcOffset" \in names /\ "flags" \in names /\ "eTimeSource" \in names
        /\ one \in 1 .. 128 /\ two \in 1 .. 128 /\ one \in Widths /\ two \in Widths
    BY DEF Widths
  <1>4. /\ read = (f1 \o f2 \o f3) \o f4 \o f5 \o f6
        /\ written = (f1 \o f2 \o f3) \o f4 \o g5 \o f6
    BY UsTwo DEF tlvGrandmasterSettingsNP, clockQuality
  <1>5. data = [name \in names |-> data[name]]
    BY DEF SettingsData
  <1>6. "bits" \in FlagKinds /\ "least" \in FlagKinds
    BY DEF FlagKinds
  <1>7. TlvRead(read) /\ NamesOf(read) = names
    BY <1>6, GrandmasterSettingsLaid DEF TlvRead
  <1>8. FitsSigned(data["nUtcOffset"], two)
    <2>. DEFINE n == data["nUtcOffset"]
    <2>1. n \in Int /\ -32768 <= n /\ n <= 32767
      BY <1>1, SignedWordIs
    <2>. HIDE DEF n
    <2>2. FitsSigned(n, two)
      BY <2>1, HugeIs, SMT DEF FitsSigned
    <2>. QED BY <2>2 DEF n
  <1>. HIDE DEF names, one, two, read, written
  <1>9. /\ FitsUnsigned(data["nClass"], one) /\ FitsUnsigned(data["eAccuracy"], one)
        /\ FitsUnsigned(data["nOffsetScaledLogVariance"], two)
        /\ FitsUnsigned(data["eTimeSource"], one)
    <2>1. FitsUnsigned(data["nOffsetScaledLogVariance"], two)
      BY <1>1, WordFits DEF two
    <2>. QED BY <1>1, <1>3, <2>1, OctetFits
  <1>10. /\ Suited(names, f1, data) /\ Suited(names, f2, data) /\ Suited(names, f3, data)
         /\ Suited(names, f4, data) /\ Suited(names, f6, data)
    BY <1>3, <1>8, <1>9, SuitedNumber
  <1>11. Suited(names, f5, data)
    BY <1>1, <1>3, SuitedFlags
  <1>12. PICK x1, x2, x3, x4, x6 :
           /\ Pushes(names, f1, data, x1) /\ Pushes(names, f2, data, x2)
           /\ Pushes(names, f3, data, x3) /\ Pushes(names, f4, data, x4)
           /\ Pushes(names, f6, data, x6)
    BY <1>2, <1>3, PushU, PushI
  <1>13. Pushes(names, f5, data, x5) /\ Pushes(names, g5, data, x5)
    <2>1. Cardinality(data["flags"]) <= 1
      OBVIOUS
    <2>. QED BY <1>1, <1>3, <2>1, PushedFlags
  <1>. HIDE DEF f1, f2, f3, f4, f5, g5, f6, x5
  <1>14. Suited(names, read, data)
    <2>1. Suited(names, f1 \o f2, data)
      BY <1>10, SuitedJoin
    <2>2. Suited(names, (f1 \o f2) \o f3, data)
      BY <1>10, <2>1, SuitedJoin
    <2>3. Suited(names, ((f1 \o f2) \o f3) \o f4, data)
      BY <1>10, <2>2, SuitedJoin
    <2>4. Suited(names, (((f1 \o f2) \o f3) \o f4) \o f5, data)
      BY <1>11, <2>3, SuitedJoin
    <2>5. Suited(names, ((((f1 \o f2) \o f3) \o f4) \o f5) \o f6, data)
      BY <1>10, <2>4, SuitedJoin
    <2>. QED BY <1>4, <2>5
  <1>15. ComesBack(read, Create(read, data), data)
    BY <1>5, <1>7, <1>14, SuitedComesBack
  <1>16. Create(written, data) = Create(read, data)
    <2>. DEFINE y2 == Then(x1, x2)
                y3 == Then(y2, x3)
                y4 == Then(y3, x4)
                y5 == Then(y4, x5)
                y6 == Then(y5, x6)
                s == ((f1 \o f2) \o f3) \o f4
    <2>1. Pushes(names, f1 \o f2, data, y2)
      BY <1>12, PushJoin
    <2>2. Pushes(names, (f1 \o f2) \o f3, data, y3)
      BY <1>12, <2>1, PushJoin
    <2>3. Pushes(names, s, data, y4)
      BY <1>12, <2>2, PushJoin
    <2>4. read = (s \o f5) \o f6 /\ written = (s \o g5) \o f6
      BY <1>4
    <2>. HIDE DEF s, y4
    <2>5. Pushes(names, s \o f5, data, y5) /\ Pushes(names, s \o g5, data, y5)
      BY <1>13, <2>3, PushJoin
    <2>. HIDE DEF y5
    <2>6. Pushes(names, (s \o f5) \o f6, data, y6) /\ Pushes(names, (s \o g5) \o f6, data, y6)
      BY <1>12, <2>5, PushJoin
    <2>. HIDE DEF y6
    <2>7. Create((s \o f5) \o f6, data) = y6 /\ Create((s \o g5) \o f6, data) = y6
      BY <2>6 DEF Pushes
    <2>. QED BY <2>4, <2>7
  <1>. QED BY <1>15, <1>16 DEF read, written

(* What is said of a layout and of contents that suit it.                  *)
Apt(layout, contents) ==
  /\ TlvRead(layout) /\ ContentsOf(layout, contents)
  /\ Suited(NamesOf(layout), layout, contents)

(* What suits a layout comes back.                                         *)
LEMMA AptComesBack ==
  ASSUME NEW layout, NEW contents, Apt(layout, contents)
  PROVE  ComesBack(layout, Create(layout, contents), contents)
  BY CreateComesBack DEF Apt, TlvRead, Suited

(* Data that suit a layout with their names are apt for it.                *)
LEMMA AptIs ==
  ASSUME NEW names, NEW layout, TlvRead(layout), NEW contents, Suited(names, layout, contents),
         NamesOf(layout) = names, contents = [name \in names |-> contents[name]]
  PROVE  Apt(layout, contents)
  BY DEF Apt, ContentsOf

(* The data of the calls that set something suit their layouts.            *)
LEMMA SettableIsApt ==
  ASSUME NEW data
  PROVE  /\ data \in BasicData => Apt(tlvBasic, data)
         /\ data \in BasicData /\ data.nValue < 16 => Apt(tlvVersion, data)
         /\ data \in NameData /\ Len(data.sName) <= 10 => Apt(tlvAlternateTimeOffsetName, data)
         /\ data \in PortData => Apt(tlvPortDataSetNP, data)
         /\ data \in DescriptionData /\ Carried("kUserDescription", data)
              => Apt(tlvUserDescription, data)
         /\ data \in TimeData /\ IsTime(data.timestamp) => Apt(tlvTime, data)
  <1>1. ASSUME data \in BasicData
       PROVE  Apt(tlvBasic, data)
    <2>. DEFINE names == {"nValue", "nReserved"}
    <2>1. Suited(names, tlvBasic, data) /\ data = [name \in names |-> data[name]]
      BY <1>1, BasicSuits
    <2>2. TlvRead(tlvBasic) /\ NamesOf(tlvBasic) = names
      BY BasicLaid DEF TlvRead
    <2>. HIDE DEF names
    <2>. QED BY <2>1, <2>2, AptIs
  <1>2. ASSUME data \in BasicData, data.nValue < 16
       PROVE  Apt(tlvVersion, data)
    <2>. DEFINE names == {"nValue", "nReserved"}
    <2>1. Suited(names, tlvVersion, data) /\ data = [name \in names |-> data[name]]
      BY <1>2, BasicSuits
    <2>2. TlvRead(tlvVersion) /\ NamesOf(tlvVersion) = names
      BY VersionLaid DEF TlvRead
    <2>. HIDE DEF names
    <2>. QED BY <2>1, <2>2, AptIs
  <1>3. ASSUME data \in NameData, Len(data.sName) <= 10
       PROVE  Apt(tlvAlternateTimeOffsetName, data)
    <2>. DEFINE names == {"nKeyField", "sName"}
    <2>1. Suited(names, tlvAlternateTimeOffsetName, data) /\ data = [name \in names |-> data[name]]
      BY <1>3, NameSuits
    <2>2. TlvRead(tlvAlternateTimeOffsetName) /\ NamesOf(tlvAlternateTimeOffsetName) = names
      BY OffsetNameLaid DEF TlvRead
    <2>. HIDE DEF names
    <2>. QED BY <2>1, <2>2, AptIs
  <1>4. ASSUME data \in PortData
       PROVE  Apt(tlvPortDataSetNP, data)
    <2>. DEFINE names == {"neighbourPropDelayThresh", "bCapable"}
    <2>1. Suited(names, tlvPortDataSetNP, data) /\ data = [name \in names |-> data[name]]
      BY <1>4, PortSuits
    <2>2. TlvRead(tlvPortDataSetNP) /\ NamesOf(tlvPortDataSetNP) = names
      BY PortDataSetNPLaid DEF TlvRead
    <2>. HIDE DEF names
    <2>. QED BY <2>1, <2>2, AptIs
  <1>5. ASSUME data \in DescriptionData, Carried("kUserDescription", data)
       PROVE  Apt(tlvUserDescription, data)
    <2>. DEFINE names == {"sName_sLocation"}
    <2>1. Suited(names, tlvUserDescription, data) /\ data = [name \in names |-> data[name]]
      BY <1>5, DescriptionSuits
    <2>2. TlvRead(tlvUserDescription) /\ NamesOf(tlvUserDescription) = names
      BY UserDescriptionLaid DEF TlvRead
    <2>. HIDE DEF names
    <2>. QED BY <2>1, <2>2, AptIs
  <1>6. ASSUME data \in TimeData, IsTime(data.timestamp)
       PROVE  Apt(tlvTime, data)
    <2>. DEFINE names == {"timestamp"}
    <2>1. Suited(names, tlvTime, data) /\ data = [name \in names |-> data[name]]
      BY <1>6, TimeSuits
    <2>2. TlvRead(tlvTime) /\ NamesOf(tlvTime) = names
      BY TimeLaid DEF TlvRead
    <2>. HIDE DEF names
    <2>. QED BY <2>1, <2>2, AptIs
  <1>. QED BY <1>1, <1>2, <1>3, <1>4, <1>5, <1>6

(* A setting that a message can carry comes back as it was given.          *)
LEMMA SettableComesBack ==
  ASSUME NEW id, NEW data, Settable(id, data), Carried(id, data),
         id # "kAlternateTimeOffsetProperties"
  PROVE  /\ id \in DOMAIN Layouts
         /\ ComesBack(Layouts[id], Pad(Create(Written[id], data)), data)
  <1>1. id \in BasicIds \cup {"kVersionNumber", "kAlternateTimeOffsetName",
                              "kGrandmasterSettingsNp", "kPortDataSetNp", "kUserDescription",
                              "kTime"}
    BY DEF Settable
  <1>2. id \in DOMAIN Layouts
    BY <1>1, SetLayouts
  <1>. SUFFICES ComesBack(Layouts[id], Create(Written[id], data), data)
    BY <1>2, PadComesBack
  <1>3. ASSUME NEW layout, Apt(layout, data), Layouts[id] = layout, Written[id] = layout
        PROVE  ComesBack(Layouts[id], Create(Written[id], data), data)
    BY <1>3, AptComesBack
  <1>4. CASE id \in BasicIds /\ data \in BasicData
    <2>1. Layouts[id] = tlvBasic /\ Written[id] = tlvBasic
      BY <1>4, SetLayouts
    <2>3. Apt(tlvBasic, data)
      BY <1>4, SettableIsApt
    <2>. QED BY <1>3, <2>1, <2>3
  <1>5. CASE id = "kVersionNumber" /\ data \in BasicData
    <2>1. Layouts[id] = tlvVersion /\ Written[id] = tlvVersion
      BY <1>5, SetLayouts
    <2>2. data.nValue < 16
      BY <1>5 DEF Carried
    <2>3. Apt(tlvVersion, data)
      BY <1>5, <2>2, SettableIsApt
    <2>. QED BY <1>3, <2>1, <2>3
  <1>6. CASE id = "kAlternateTimeOffsetName" /\ data \in NameData /\ Len(data.sName) <= 10
    <2>1. Layouts[id] = tlvAlternateTimeOffsetName /\ Written[id] = tlvAlternateTimeOffsetName
      BY <1>6, SetLayouts
    <2>3. Apt(tlvAlternateTimeOffsetName, data)
      BY <1>6, SettableIsApt
    <2>. QED BY <1>3, <2>1, <2>3
  <1>7. CASE id = "kPortDataSetNp" /\ data \in PortData
    <2>1. Layouts[id] = tlvPortDataSetNP /\ Written[id] = tlvPortDataSetNP
      BY <1>7, SetLayouts
    <2>3. Apt(tlvPortDataSetNP, data)
      BY <1>7, SettableIsApt
    <2>. QED BY <1>3, <2>1, <2>3
  <1>8. CASE id = "kUserDescription" /\ data \in DescriptionData
    <2>1. Layouts[id] = tlvUserDescription /\ Written[id] = tlvUserDescription
      BY <1>8, SetLayouts
    <2>2. Carried("kUserDescription", data)
      BY <1>8 DEF Carried
    <2>3. Apt(tlvUserDescription, data)
      BY <1>8, <2>2, SettableIsApt
    <2>. QED BY <1>3, <2>1, <2>3
  <1>9. CASE id = "kTime" /\ data \in TimeData /\ IsTime(data.timestamp)
    <2>1. Layouts[id] = tlvTime /\ Written[id] = tlvTime
      BY <1>9, SetLayouts
    <2>3. Apt(tlvTime, data)
      BY <1>9, SettableIsApt
    <2>. QED BY <1>3, <2>1, <2>3
  <1>10. CASE id = "kGrandmasterSettingsNp" /\ data \in SettingsData
    <2>1. /\ Layouts[id] = tlvGrandmasterSettingsNP("bits")
          /\ Written[id] = tlvGrandmasterSettingsNP("least")
      BY <1>10, SetLayouts
    <2>2. Cardinality(data.flags) <= 1
      BY <1>10 DEF Carried
    <2>3. ComesBack(tlvGrandmasterSettingsNP("bits"),
                    Create(tlvGrandmasterSettingsNP("least"), data), data)
      BY <1>10, <2>2, SettingsSuit
    <2>. QED BY <2>1, <2>3
  <1>11. \/ id \in BasicIds /\ data \in BasicData
         \/ id = "kVersionNumber" /\ data \in BasicData
         \/ id = "kAlternateTimeOffsetName" /\ data \in NameData /\ Len(data.sName) <= 10
         \/ id = "kGrandmasterSettingsNp" /\ data \in SettingsData
         \/ id = "kPortDataSetNp" /\ data \in PortData
         \/ id = "kUserDescription" /\ data \in DescriptionData
         \/ id = "kTime" /\ data \in TimeData /\ IsTime(data.timestamp)
    BY DEF Settable
  <1>. QED BY <1>4, <1>5, <1>6, <1>7, <1>8, <1>9, <1>10, <1>11

(* Numbers of a width one after the other.                                 *)
LEMMA SuitedUs ==
  ASSUME NEW names, NEW own \in Seq(names), NEW width \in 1 .. 128, NEW contents,
         \A i \in 1 .. Len(own) : FitsUnsigned(contents[own[i]], width)
  PROVE  Suited(names, Us(own, width), contents)
  <1>. DEFINE n == Len(own)
              layout == Us(own, width)
  <1>1. n \in Nat /\ \A i \in 1 .. n : own[i] \in names
    BY LenProperties, ElementOfSeq
  <1>2. layout = [i \in 1 .. n |-> UnsignedOf(own[i], width)]
    BY UsIs
  <1>3. "unsigned" \in Kinds /\ "unsigned" \notin TextKinds
    BY DEF Kinds, NumberKinds, TextKinds
  <1>4. ASSUME NEW name \in names
        PROVE  /\ UnsignedOf(name, width) \in Fields(names)
               /\ UnsignedOf(name, width).name = name
               /\ FitsUnsigned(contents[name], width)
                    => Suits(UnsignedOf(name, width), contents[name])
    <2>. DEFINE field == UnsignedOf(name, width)
                value == contents[name]
    <2>1. /\ field = [name |-> name, kind |-> "unsigned", width |-> width, weights |-> {}]
          /\ field.name = name /\ field.kind = "unsigned" /\ field.width = width
      BY DEF UnsignedOf
    <2>2. field \in Fields(names)
      BY <1>3, <2>1 DEF Fields
    <2>. HIDE DEF field, value
    <2>3. FitsUnsigned(value, width) => Suits(field, value)
      BY <1>3, <2>1 DEF Suits
    <2>. QED BY <2>1, <2>2, <2>3 DEF field, value
  <1>. HIDE DEF layout
  <1>5. layout \in Seq(Fields(names)) /\ Len(layout) = n
        /\ \A i \in 1 .. n : layout[i] = UnsignedOf(own[i], width)
    <2>. DEFINE S == Fields(names)
    <2>1. \A i \in 1 .. n : UnsignedOf(own[i], width) \in S
      BY <1>1, <1>4
    <2>. HIDE DEF S, n
    <2>2. layout \in Seq(S) /\ Len(layout) = n
      BY <1>1, <1>2, <2>1
    <2>. QED BY <1>2, <2>2 DEF S
  <1>6. \A i \in 1 .. n : Suits(layout[i], contents[layout[i].name])
    <2>1. ASSUME NEW i \in 1 .. n
          PROVE  Suits(layout[i], contents[layout[i].name])
      <3>1. layout[i] = UnsignedOf(own[i], width) /\ layout[i].name = own[i]
        BY <1>1, <1>4, <1>5
      <3>2. FitsUnsigned(contents[own[i]], width)
        OBVIOUS
      <3>3. Suits(UnsignedOf(own[i], width), contents[own[i]])
        BY <1>1, <1>4, <3>2
      <3>. QED BY <3>1, <3>3
    <2>. QED BY <2>1
  <1>7. AllSuit(layout, contents)
    BY <1>5, <1>6 DEF AllSuit
  <1>. QED BY <1>5, <1>7 DEF Suited, layout

(* The time of a Sync, a Follow_Up or a Delay_Req comes back.              *)
LEMMA TimestampComesBack ==
  ASSUME NEW now, IsTime(now)
  PROVE  ComesBack(ptpV2Payload, FromSecNano(now), [originTime |-> now])
  <1>. DEFINE names == {"originTime"}
              contents == [originTime |-> now]
  <1>1. contents["originTime"] = now /\ "originTime" \in names
        /\ contents = [name \in names |-> contents[name]]
    OBVIOUS
  <1>2. TlvRead(ptpV2Payload) /\ NamesOf(ptpV2Payload) = names
    BY PayloadLaid DEF TlvRead
  <1>3. now \in Nat
    BY DEF IsTime
  <1>4. Create(ptpV2Payload, contents) = FromSecNano(now)
    BY <1>3, TimeOctets
  <1>. HIDE DEF names, contents
  <1>5. Suited(names, ptpV2Payload, contents)
    BY <1>1, SuitedTime DEF ptpV2Payload
  <1>6. ComesBack(ptpV2Payload, Create(ptpV2Payload, contents), contents)
    BY <1>1, <1>2, <1>5, SuitedComesBack
  <1>. QED BY <1>4, <1>6 DEF contents

(* What a Delay_Resp says comes back.                                      *)
LEMMA DelayResponseComesBack ==
  ASSUME NEW now, IsTime(now), NEW source, OfSize(source.id, 8), source.port \in Word
  PROVE  ComesBack(ptpDelayResponse, Then(FromSecNano(now), IdentityOctets(source)),
                   [originTime |-> now, nRequestId |-> source.id, nRequestPort |-> source.port])
  <1>. DEFINE names == {"originTime", "nRequestId", "nRequestPort"}
              id == source.id
              port == source.port
              contents == [originTime |-> now, nRequestId |-> id, nRequestPort |-> port]
              eight == 8
              two == 2
              a == ptpV2Payload
              b == Hex("nRequestId", eight)
              c == U("nRequestPort", two)
              x == FromSecNano(now)
              y == FromHexStr(id, eight)
              z == Octets(port, two)
  <1>1. /\ contents["originTime"] = now /\ contents["nRequestId"] = id
        /\ contents["nRequestPort"] = port
        /\ contents = [name \in names |-> contents[name]]
        /\ "originTime" \in names /\ "nRequestId" \in names /\ "nRequestPort" \in names
        /\ eight \in 1 .. 128 /\ two \in 1 .. 128
    OBVIOUS
  <1>2. TlvRead(ptpDelayResponse) /\ NamesOf(ptpDelayResponse) = names
    BY DelayResponseLaid DEF TlvRead
  <1>3. ptpDelayResponse = a \o (b \o c)
    BY DEF ptpDelayResponse, Pid
  <1>4. OfSize(id, eight) /\ FitsUnsigned(port, two) /\ id \in Bytes /\ port \in Int /\ now \in Nat
    BY WordFits, WordOctets DEF OfSize, IsTime
  <1>5. IdentityOctets(source) = Then(y, z)
    BY DEF IdentityOctets
  <1>. HIDE DEF names, id, port, contents, eight, two
  <1>6. /\ Suited(names, a, contents) /\ Suited(names, b, contents) /\ Suited(names, c, contents)
    BY <1>1, <1>4, SuitedTime, SuitedHex, SuitedNumber DEF ptpV2Payload
  <1>7. Pushes(names, b, contents, y) /\ Pushes(names, c, contents, z)
    BY <1>1, <1>4, PushHex, PushU
  <1>8. Pushes(names, a, contents, x)
    <2>. DEFINE field == [name |-> "originTime", kind |-> "time", width |-> 10, weights |-> {}]
    <2>1. a = <<field>>
      BY DEF ptpV2Payload, Field
    <2>2. field \in Fields(names) /\ field.name = "originTime" /\ field.kind = "time"
      BY <1>1 DEF Fields, Kinds
    <2>. HIDE DEF field, a
    <2>3. Writable(field, contents[field.name])
      BY <1>1, <1>4, <2>2, WritableTime
    <2>4. Encode(field, contents[field.name]) = x
      BY <1>1, <2>2 DEF Encode
    <2>. QED BY <2>1, <2>2, <2>3, <2>4, PushOne
  <1>. HIDE DEF a, b, c, x, y, z
  <1>9. Suited(names, a \o (b \o c), contents)
    BY <1>6, SuitedJoin
  <1>10. Pushes(names, a \o (b \o c), contents, Then(x, Then(y, z)))
    BY <1>7, <1>8, PushJoin
  <1>11. Create(ptpDelayResponse, contents) = Then(x, Then(y, z))
    BY <1>3, <1>10 DEF Pushes
  <1>12. ComesBack(ptpDelayResponse, Create(ptpDelayResponse, contents), contents)
    BY <1>1, <1>2, <1>3, <1>9, SuitedComesBack
  <1>. QED BY <1>5, <1>11, <1>12 DEF x, contents, id, port

(* What is announced comes back.                                           *)
LEMMA AnnounceComesBack ==
  ASSUME NEW announce \in Announcements, IsTime(announce.originTime)
  PROVE  ComesBack(ptpAnnounce, Create(ptpAnnounce, announce), announce)
  <1>. DEFINE names == {"originTime", "nUtcOffset", "reserved", "nGrandmasterPriority1",
                        "nGrandmasterClass", "eGrandmasterAccuracy", "nGrandmasterVariance",
                        "nGrandmasterPriority2", "sGrandmasterClockId", "nStepsRemoved",
                        "eTimeSource"}
              own == <<"nGrandmasterPriority1", "nGrandmasterClass", "eGrandmasterAccuracy">>
              one == 1
              two == 2
              eight == 8
              f1 == ptpV2Payload
              f2 == U("nUtcOffset", two)
              f3 == Hex("reserved", one)
              f4 == Us(own, one)
              f5 == U("nGrandmasterVariance", two)
              f6 == U("nGrandmasterPriority2", one)
              f7 == Hex("sGrandmasterClockId", eight)
              f8 == U("nStepsRemoved", two)
              f9 == U("eTimeSource", one)
  <1>1. announce = [name \in names |-> announce[name]]
    BY DEF Announcements
  <1>2. /\ announce["nUtcOffset"] \in Word /\ announce["nGrandmasterVariance"] \in Word
        /\ announce["nStepsRemoved"] \in Word
        /\ announce["nGrandmasterPriority1"] \in Octet /\ announce["nGrandmasterClass"] \in Octet
        /\ announce["eGrandmasterAccuracy"] \in Octet
        /\ announce["nGrandmasterPriority2"] \in Octet /\ announce["eTimeSource"] \in Octet
    BY DEF Announcements
  <1>3. OfSize(announce["reserved"], one) /\ OfSize(announce["sGrandmasterClockId"], eight)
    <2>1. announce["reserved"] \in [1 .. 1 -> Octet]
      BY DEF Announcements
    <2>2. announce["sGrandmasterClockId"] \in [1 .. 8 -> Octet]
      BY DEF Announcements, Identities
    <2>3. \A n \in {1, 8} : \A x \in [1 .. n -> Octet] : OfSize(x, n)
      <3>. DEFINE S == Octet
      <3>. HIDE DEF S
      <3>1. \A n \in Nat : \A x \in [1 .. n -> S] : x \in Seq(S) /\ Len(x) = n
        OBVIOUS
      <3>. QED BY <3>1 DEF OfSize, Bytes, S
    <2>. QED BY <2>1, <2>2, <2>3
  <1>4. /\ "originTime" \in names /\ "nUtcOffset" \in names /\ "reserved" \in names
        /\ "nGrandmasterVariance" \in names /\ "nGrandmasterPriority2" \in names
        /\ "sGrandmasterClockId" \in names /\ "nStepsRemoved" \in names
        /\ "eTimeSource" \in names
        /\ one \in 1 .. 128 /\ two \in 1 .. 128 /\ eight \in 1 .. 128 /\ one \in Widths
    BY DEF Widths
  <1>5. own \in Seq(names) /\ Len(own) = 3 /\ own[1] = "nGrandmasterPriority1"
        /\ own[2] = "nGrandmasterClass" /\ own[3] = "eGrandmasterAccuracy"
    OBVIOUS
  <1>6. TlvRead(ptpAnnounce) /\ NamesOf(ptpAnnounce) = names
    BY AnnounceLaid DEF TlvRead
  <1>7. ptpAnnounce = f1 \o f2 \o f3 \o f4 \o f5 \o f6 \o f7 \o f8 \o f9
    BY DEF ptpAnnounce
  <1>. HIDE DEF names, own, one, two, eight
  <1>8. \A i \in 1 .. Len(own) : FitsUnsigned(announce[own[i]], one)
    <2>1. \A i \in 1 .. 3 : i = 1 \/ i = 2 \/ i = 3
      OBVIOUS
    <2>2. \A i \in 1 .. Len(own) : announce[own[i]] \in Octet
      BY <1>2, <1>5, <2>1
    <2>. QED BY <1>4, <2>2, OctetFits
  <1>9. /\ FitsUnsigned(announce["nUtcOffset"], two)
        /\ FitsUnsigned(announce["nGrandmasterVariance"], two)
        /\ FitsUnsigned(announce["nStepsRemoved"], two)
    BY <1>2, WordFits DEF two
  <1>10. /\ FitsUnsigned(announce["nGrandmasterPriority2"], one)
         /\ FitsUnsigned(announce["eTimeSource"], one)
    BY <1>2, <1>4, OctetFits
  <1>11. Suited(names, f1, announce)
    BY <1>4, SuitedTime DEF ptpV2Payload
  <1>12. Suited(names, f2, announce) /\ Suited(names, f5, announce) /\ Suited(names, f8, announce)
    BY <1>4, <1>9, SuitedNumber
  <1>13. Suited(names, f6, announce) /\ Suited(names, f9, announce)
    BY <1>4, <1>10, SuitedNumber
  <1>14. Suited(names, f3, announce) /\ Suited(names, f7, announce)
    BY <1>3, <1>4, SuitedHex
  <1>15. Suited(names, f4, announce)
    BY <1>4, <1>5, <1>8, SuitedUs
  <1>. HIDE DEF f1, f2, f3, f4, f5, f6, f7, f8, f9
  <1>16. Suited(names, ptpAnnounce, announce)
    <2>1. Suited(names, f1 \o f2, announce)
      BY <1>11, <1>12, SuitedJoin
    <2>2. Suited(names, (f1 \o f2) \o f3, announce)
      BY <1>14, <2>1, SuitedJoin
    <2>. DEFINE s3 == (f1 \o f2) \o f3
                s4 == s3 \o f4
                s5 == s4 \o f5
                s6 == s5 \o f6
                s7 == s6 \o f7
                s8 == s7 \o f8
                s9 == s8 \o f9
    <2>3. ptpAnnounce = s9
      BY <1>7
    <2>. HIDE DEF s3
    <2>4. Suited(names, s4, announce)
      BY <1>15, <2>2, SuitedJoin DEF s3
    <2>. HIDE DEF s4
    <2>5. Suited(names, s5, announce)
      BY <1>12, <2>4, SuitedJoin
    <2>. HIDE DEF s5
    <2>6. Suited(names, s6, announce)
      BY <1>13, <2>5, SuitedJoin
    <2>. HIDE DEF s6
    <2>7. Suited(names, s7, announce)
      BY <1>14, <2>6, SuitedJoin
    <2>. HIDE DEF s7
    <2>8. Suited(names, s8, announce)
      BY <1>12, <2>7, SuitedJoin
    <2>. HIDE DEF s8
    <2>9. Suited(names, s9, announce)
      BY <1>13, <2>8, SuitedJoin
    <2>. QED BY <2>3, <2>9
  <1>. QED BY <1>1, <1>6, <1>16, SuitedComesBack

(* An error comes back with its text.                                      *)
LEMMA ErrorComesBack ==
  ASSUME NEW error \in Word, NEW id \in Word, NEW text \in Bytes, Len(text) <= 255
  PROVE  LET status == [eError |-> error, eId |-> id, nReserved |-> 0, sError |-> text]
         IN  ComesBack(ErrorStatus, Pad(Create(ErrorStatus, status)), status)
  <1>. DEFINE zero == 0
              status == [eError |-> error, eId |-> id, nReserved |-> zero, sError |-> text]
              names == {"eError", "eId", "nReserved", "sError"}
              own == <<"eError", "eId">>
              two == 2
              four == 4
              f1 == Us(own, two)
              f2 == U("nReserved", four)
              f3 == Text("sError")
  <1>1. /\ status["eError"] = error /\ status["eId"] = id /\ status["nReserved"] = zero
        /\ status["sError"] = text /\ status = [name \in names |-> status[name]]
        /\ "eError" \in names /\ "eId" \in names /\ "nReserved" \in names /\ "sError" \in names
        /\ two \in 1 .. 128 /\ four \in 1 .. 128 /\ two = 2 /\ four \in Widths
    BY DEF Widths
  <1>2. own \in Seq(names) /\ Len(own) = 2 /\ own[1] = "eError" /\ own[2] = "eId"
    OBVIOUS
  <1>3. TlvRead(ErrorStatus) /\ NamesOf(ErrorStatus) = names
    BY ErrorStatusLaid DEF TlvRead
  <1>4. ErrorStatus = (f1 \o f2) \o f3
    BY DEF ErrorStatus
  <1>5. zero \in Octet
    BY OctetIs
  <1>. HIDE DEF zero, status, names, own, two, four
  <1>6. \A i \in 1 .. Len(own) : FitsUnsigned(status[own[i]], two)
    <2>1. \A i \in 1 .. 2 : i = 1 \/ i = 2
      OBVIOUS
    <2>2. \A i \in 1 .. Len(own) : status[own[i]] \in Word
      BY <1>1, <1>2, <2>1
    <2>. QED BY <1>1, <2>2, WordFits
  <1>7. Suited(names, f1, status)
    BY <1>1, <1>2, <1>6, SuitedUs
  <1>8. FitsUnsigned(status["nReserved"], four)
    BY <1>1, <1>5, OctetFits
  <1>9. Suited(names, f2, status)
    BY <1>1, <1>8, SuitedNumber
  <1>10. Suited(names, f3, status)
    BY <1>1, SuitedText
  <1>. HIDE DEF f1, f2, f3
  <1>11. Suited(names, f1 \o f2, status)
    BY <1>7, <1>9, SuitedJoin
  <1>12. Suited(names, ErrorStatus, status)
    BY <1>4, <1>10, <1>11, SuitedJoin
  <1>13. ComesBack(ErrorStatus, Create(ErrorStatus, status), status)
    BY <1>1, <1>3, <1>12, SuitedComesBack
  <1>14. ComesBack(ErrorStatus, Pad(Create(ErrorStatus, status)), status)
    BY <1>13, PadComesBack
  <1>. QED BY <1>14 DEF status, zero

(* A type, and the other fields of a header that a receiver reads again.   *)
HeaderFits(type, length, domain, source, sequence, interval) ==
  /\ type \in Nat /\ type < 16 /\ length \in Word /\ domain \in Octet
  /\ OfSize(source.id, 8) /\ source.port \in Word
  /\ sequence \in Word /\ interval \in 0 .. 127

HeaderContents(type, length, domain, source, sequence, interval) ==
  [nType |-> type, nVersion |-> 2, nMessageLength |-> length, nDomain |-> domain,
   reserved1 |-> HexNothing(1), nFlags |-> Flags16, nCorrection |-> HexNothing(8),
   reserved2 |-> HexNothing(4), nSourceId |-> source.id, nSourcePort |-> source.port,
   nSequenceId |-> sequence, nControl |-> 1, nInterval |-> interval]

HeaderOctets(type, length, domain, source, sequence, interval) ==
  Then(Then(HeaderStart(type, length, domain), IdentityOctets(source)),
       HeaderEnd(sequence, interval))

(* What HeaderFits means for the fields.                                   *)
LEMMA HeaderNumbers ==
  ASSUME NEW type, NEW length, NEW domain, NEW source, NEW sequence, NEW interval,
         HeaderFits(type, length, domain, source, sequence, interval)
  PROVE  /\ type \in Int /\ length \in Int /\ domain \in Int /\ sequence \in Int
         /\ interval \in Int /\ source.id \in Bytes /\ source.port \in Int
         /\ FitsUnsigned(length, 2) /\ FitsUnsigned(Flags16, 2) /\ FitsUnsigned(source.port, 2)
         /\ FitsUnsigned(sequence, 2) /\ FitsUnsigned(domain, 1) /\ FitsUnsigned(1, 1)
         /\ FitsSigned(interval, 1)
  <1>1. /\ type \in Int /\ length \in Word /\ domain \in Octet /\ sequence \in Word
        /\ interval \in 0 .. 127 /\ source.port \in Word /\ OfSize(source.id, 8)
    BY DEF HeaderFits
  <1>2. domain \in Int /\ 1 \in Octet
    BY <1>1, OctetIs
  <1>3. Flags16 \in Word
    BY WordIs, SMT DEF Flags16
  <1>4. 1 \in Widths
    BY DEF Widths
  <1>5. /\ FitsUnsigned(length, 2) /\ FitsUnsigned(Flags16, 2) /\ FitsUnsigned(source.port, 2)
        /\ FitsUnsigned(sequence, 2)
    BY <1>1, <1>3, WordFits
  <1>6. FitsUnsigned(domain, 1) /\ FitsUnsigned(1, 1)
    BY <1>1, <1>2, <1>4, OctetFits
  <1>7. FitsSigned(interval, 1)
    BY <1>1, HugeIs, SMT DEF FitsSigned
  <1>8. length \in Int /\ sequence \in Int /\ source.port \in Int
    BY <1>1, WordIs
  <1>9. source.id \in Bytes
    BY <1>1 DEF OfSize
  <1>. QED BY <1>1, <1>2, <1>5, <1>6, <1>7, <1>8, <1>9

(* A header comes back.                                                    *)
LEMMA HeaderComesBack ==
  ASSUME NEW type, NEW length, NEW domain, NEW source, NEW sequence, NEW interval,
         HeaderFits(type, length, domain, source, sequence, interval)
  PROVE  ComesBack(ptpV2Header,
                   HeaderOctets(type, length, domain, source, sequence, interval),
                   HeaderContents(type, length, domain, source, sequence, interval))
  <1>. DEFINE contents == HeaderContents(type, length, domain, source, sequence, interval)
              names == HeaderNames
              one == 1
              two == 2
              four == 4
              eight == 8
              f1 == Field("nType", "nibble", one)
              f2 == Field("nVersion", "nibble", one)
              f3 == U("nMessageLength", two)
              f4 == U("nDomain", one)
              f5 == Hex("reserved1", one)
              f6 == U("nFlags", two)
              f7 == Hex("nCorrection", eight)
              f8 == Hex("reserved2", four)
              f9 == Hex("nSourceId", eight)
              f10 == U("nSourcePort", two)
              f11 == U("nSequenceId", two)
              f12 == U("nControl", one)
              f13 == I("nInterval", one)
  <1>1. /\ contents["nType"] = type /\ contents["nVersion"] = 2
        /\ contents["nMessageLength"] = length /\ contents["nDomain"] = domain
        /\ contents["reserved1"] = HexNothing(one) /\ contents["nFlags"] = Flags16
        /\ contents["nCorrection"] = HexNothing(eight)
        /\ contents["reserved2"] = HexNothing(four)
        /\ contents["nSourceId"] = source.id /\ contents["nSourcePort"] = source.port
        /\ contents["nSequenceId"] = sequence /\ contents["nControl"] = 1
        /\ contents["nInterval"] = interval
        /\ contents = [name \in names |-> contents[name]]
    BY DEF HeaderContents, HeaderNames
  <1>2. /\ "nType" \in names /\ "nVersion" \in names /\ "nMessageLength" \in names
        /\ "nDomain" \in names /\ "reserved1" \in names /\ "nFlags" \in names
        /\ "nCorrection" \in names /\ "reserved2" \in names /\ "nSourceId" \in names
        /\ "nSourcePort" \in names /\ "nSequenceId" \in names /\ "nControl" \in names
        /\ "nInterval" \in names
    BY DEF HeaderNames
  <1>3. /\ one \in 1 .. 128 /\ two \in 1 .. 128 /\ four \in 1 .. 128 /\ eight \in 1 .. 128
        /\ one \in Nat /\ four \in Nat /\ eight \in Nat
    OBVIOUS
  <1>4. TlvRead(ptpV2Header) /\ NamesOf(ptpV2Header) = names
    BY HeaderLaid DEF TlvRead, HeaderNames
  <1>5. ptpV2Header = f1 \o f2 \o f3 \o f4 \o f5 \o f6 \o f7 \o f8 \o (f9 \o f10)
                        \o f11 \o f12 \o f13
    BY DEF ptpV2Header, Pid
  <1>6. /\ type \in Int /\ length \in Int /\ domain \in Int /\ sequence \in Int
        /\ interval \in Int /\ source.id \in Bytes /\ source.port \in Int
        /\ FitsUnsigned(length, two) /\ FitsUnsigned(Flags16, two)
        /\ FitsUnsigned(source.port, two) /\ FitsUnsigned(sequence, two)
        /\ FitsUnsigned(domain, one) /\ FitsUnsigned(1, one) /\ FitsSigned(interval, one)
    BY HeaderNumbers
  <1>7. type \in Nat /\ type < 16 /\ 2 \in Nat /\ 2 < 16 /\ OfSize(source.id, eight)
    BY DEF HeaderFits
  <1>8. /\ OfSize(HexNothing(one), one) /\ OfSize(HexNothing(eight), eight)
        /\ OfSize(HexNothing(four), four)
    BY <1>3, HexNothingIs
  <1>9. IsHeader(contents, type, length, domain, source, sequence, interval)
    <2>1. /\ contents["reserved1"] \in Bytes
          /\ FromHexStr(contents["reserved1"], 1) = HexNothing(1)
          /\ contents["nCorrection"] \in Bytes
          /\ FromHexStr(contents["nCorrection"], 8) = HexNothing(8)
          /\ contents["reserved2"] \in Bytes
          /\ FromHexStr(contents["reserved2"], 4) = HexNothing(4)
      BY <1>1, HexNothingIs
    <2>. HIDE DEF contents
    <2>. QED BY <1>1, <2>1, Zenon DEF IsHeader
  <1>. HIDE DEF names, one, two, four, eight, contents
  <1>10. Create(ptpV2Header, contents)
           = HeaderOctets(type, length, domain, source, sequence, interval)
    BY <1>6, <1>9, HeaderPushed DEF HeaderOctets
  <1>11. Suited(names, f1, contents) /\ Suited(names, f2, contents)
    BY <1>1, <1>2, <1>3, <1>7, SuitedNumber
  <1>12. Suited(names, f3, contents) /\ Suited(names, f4, contents)
    BY <1>1, <1>2, <1>3, <1>6, SuitedNumber
  <1>13. Suited(names, f5, contents) /\ Suited(names, f7, contents) /\ Suited(names, f8, contents)
    BY <1>1, <1>2, <1>3, <1>8, SuitedHex
  <1>14. Suited(names, f9, contents)
    BY <1>1, <1>2, <1>3, <1>7, SuitedHex
  <1>15. Suited(names, f6, contents) /\ Suited(names, f10, contents)
    BY <1>1, <1>2, <1>3, <1>6, SuitedNumber
  <1>16. Suited(names, f11, contents) /\ Suited(names, f12, contents)
    BY <1>1, <1>2, <1>3, <1>6, SuitedNumber
  <1>17. Suited(names, f13, contents)
    BY <1>1, <1>2, <1>3, <1>6, SuitedNumber
  <1>. HIDE DEF f1, f2, f3, f4, f5, f6, f7, f8, f9, f10, f11, f12, f13
  <1>18. Suited(names, ptpV2Header, contents)
    <2>. DEFINE s4 == f1 \o f2 \o f3 \o f4
                s8 == s4 \o f5 \o f6 \o f7 \o f8
                s10 == s8 \o (f9 \o f10)
                s13 == s10 \o f11 \o f12 \o f13
    <2>1. ASSUME NEW a, NEW b, Suited(names, a, contents), Suited(names, b, contents)
          PROVE  Suited(names, a \o b, contents)
      BY <2>1, SuitedJoin
    <2>2. ptpV2Header = s13
      BY <1>5
    <2>3. Suited(names, s4, contents)
      <3>1. Suited(names, f1 \o f2, contents)
        BY <1>11, <2>1
      <3>2. Suited(names, f1 \o f2 \o f3, contents)
        BY <1>12, <2>1, <3>1
      <3>. QED BY <1>12, <2>1, <3>2
    <2>. HIDE DEF s4
    <2>4. Suited(names, s8, contents)
      <3>1. Suited(names, s4 \o f5, contents)
        BY <1>13, <2>1, <2>3
      <3>2. Suited(names, s4 \o f5 \o f6, contents)
        BY <1>15, <2>1, <3>1
      <3>3. Suited(names, s4 \o f5 \o f6 \o f7, contents)
        BY <1>13, <2>1, <3>2
      <3>. QED BY <1>13, <2>1, <3>3
    <2>. HIDE DEF s8
    <2>5. Suited(names, s10, contents)
      <3>1. Suited(names, f9 \o f10, contents)
        BY <1>14, <1>15, <2>1
      <3>. QED BY <2>1, <2>4, <3>1
    <2>. HIDE DEF s10
    <2>6. Suited(names, s13, contents)
      <3>1. Suited(names, s10 \o f11, contents)
        BY <1>16, <2>1, <2>5
      <3>2. Suited(names, s10 \o f11 \o f12, contents)
        BY <1>16, <2>1, <3>1
      <3>. QED BY <1>17, <2>1, <3>2
    <2>. QED BY <2>2, <2>6
  <1>19. ComesBack(ptpV2Header, Create(ptpV2Header, contents), contents)
    BY <1>1, <1>4, <1>18, SuitedComesBack
  <1>. QED BY <1>10, <1>19 DEF contents

PidFields == Pid("nTargetId", "nTargetPort") \o MessageFields

PidFieldsContents(target, hops, action) ==
  [nTargetId |-> target.id, nTargetPort |-> target.port, nStartingBoundaryHops |-> hops,
   nBoundaryHops |-> hops, eAction |-> action, reserved |-> HexNothing(1)]

(* The fields of a management message before its TLV come back.            *)
LEMMA PidFieldsComeBack ==
  ASSUME NEW target, OfSize(target.id, 8), target.port \in Word, NEW hops \in Octet,
         NEW action \in Nat, action < 16
  PROVE  ComesBack(PidFields, Then(IdentityOctets(target), FieldsOctets(hops, action)),
                   PidFieldsContents(target, hops, action))
  <1>. DEFINE id == target.id
              port == target.port
              contents == PidFieldsContents(target, hops, action)
              names == {"nTargetId", "nTargetPort", "nStartingBoundaryHops",
                        "nBoundaryHops", "eAction", "reserved"}
              one == 1
              two == 2
              eight == 8
              a == Hex("nTargetId", eight)
              b == U("nTargetPort", two)
              f1 == U("nStartingBoundaryHops", one)
              f2 == U("nBoundaryHops", one)
              f3 == Field("eAction", "nibble", one)
              f4 == Hex("reserved", one)
              y == FromHexStr(id, eight)
              z == Octets(port, two)
              fields == FieldsOctets(hops, action)
  <1>1. /\ contents["nTargetId"] = id /\ contents["nTargetPort"] = port
        /\ contents["nStartingBoundaryHops"] = hops /\ contents["nBoundaryHops"] = hops
        /\ contents["eAction"] = action /\ contents["reserved"] = HexNothing(one)
        /\ contents = [name \in names |-> contents[name]]
    BY DEF PidFieldsContents
  <1>2. /\ "nTargetId" \in names /\ "nTargetPort" \in names
        /\ "nStartingBoundaryHops" \in names /\ "nBoundaryHops" \in names
        /\ "eAction" \in names /\ "reserved" \in names
        /\ one \in 1 .. 128 /\ two \in 1 .. 128 /\ eight \in 1 .. 128 /\ one \in Widths
        /\ one \in Nat
    BY DEF Widths
  <1>3. TlvRead(PidFields) /\ NamesOf(PidFields) = names
    <2>. DEFINE P == Pid("nTargetId", "nTargetPort")
                m == MessageFields
                N == {"nTargetId", "nTargetPort"}
                F == {"nStartingBoundaryHops", "nBoundaryHops", "eAction", "reserved"}
    <2>1. Laid(P) /\ Received(P) /\ NamesOf(P) = N /\ SizeOf(P) = 2
      BY LaidPid
    <2>2. Laid(m) /\ Received(m) /\ SizeOf(m) = 4 /\ NamesOf(m) = F
      BY MessageFieldsLaid
    <2>3. N \cap F = {} /\ N \cup F = names
      OBVIOUS
    <2>4. PidFields = P \o m
      BY DEF PidFields
    <2>. HIDE DEF P, m, N, F, names
    <2>5. Laid(P \o m) /\ Received(P \o m) /\ SizeOf(P \o m) = 6 /\ NamesOf(P \o m) = names
      BY <2>1, <2>2, <2>3, LaidJoin, SMTT(30)
    <2>. QED BY <2>4, <2>5 DEF TlvRead
  <1>4. PidFields = (a \o b) \o (f1 \o f2 \o f3 \o f4)
    BY UsTwo DEF PidFields, Pid, MessageFields
  <1>5. /\ OfSize(id, eight) /\ FitsUnsigned(port, two) /\ id \in Bytes /\ port \in Int
        /\ hops \in Int /\ action \in Int
    <2>1. OfSize(id, eight) /\ id \in Bytes
      BY DEF OfSize
    <2>2. FitsUnsigned(port, two)
      BY WordFits
    <2>3. port \in Int
      BY WordIs
    <2>4. hops \in Int
      BY OctetIs
    <2>5. action \in Int
      OBVIOUS
    <2>. QED BY <2>1, <2>2, <2>3, <2>4, <2>5
  <1>6. IdentityOctets(target) = Then(y, z)
    BY DEF IdentityOctets
  <1>7. OfSize(HexNothing(one), one)
    BY <1>2, HexNothingIs
  <1>8. contents["reserved"] \in Bytes /\ FromHexStr(contents["reserved"], 1) = HexNothing(1)
    BY <1>1, HexNothingIs
  <1>9. PidFields = (a \o b) \o MessageFields
    BY DEF PidFields, Pid
  <1>. HIDE DEF names, id, port, contents, one, two, eight, fields
  <1>10. Suited(names, a, contents) /\ Suited(names, b, contents)
    BY <1>1, <1>2, <1>5, SuitedHex, SuitedNumber
  <1>11. Suited(names, f1, contents) /\ Suited(names, f2, contents)
    BY <1>1, <1>2, OctetFits, SuitedNumber
  <1>12. Suited(names, f3, contents) /\ Suited(names, f4, contents)
    BY <1>1, <1>2, <1>7, SuitedNumber, SuitedHex
  <1>13. Pushes(names, a, contents, y) /\ Pushes(names, b, contents, z)
    BY <1>1, <1>2, <1>5, PushHex, PushU
  <1>14. Pushes(names, MessageFields, contents, fields)
    BY <1>1, <1>2, <1>5, <1>8, FieldsPushed DEF fields
  <1>. HIDE DEF a, b, f1, f2, f3, f4, y, z
  <1>15. Suited(names, PidFields, contents)
    <2>1. ASSUME NEW m, NEW n, Suited(names, m, contents), Suited(names, n, contents)
          PROVE  Suited(names, m \o n, contents)
      BY <2>1, SuitedJoin
    <2>2. Suited(names, a \o b, contents) /\ Suited(names, f1 \o f2, contents)
      BY <1>10, <1>11, <2>1
    <2>3. Suited(names, f1 \o f2 \o f3, contents)
      BY <1>12, <2>1, <2>2
    <2>4. Suited(names, f1 \o f2 \o f3 \o f4, contents)
      BY <1>12, <2>1, <2>3
    <2>. QED BY <1>4, <2>1, <2>2, <2>4
  <1>16. Pushes(names, (a \o b) \o MessageFields, contents, Then(Then(y, z), fields))
    <2>1. Pushes(names, a \o b, contents, Then(y, z))
      BY <1>13, PushJoin
    <2>. QED BY <1>14, <2>1, PushJoin
  <1>17. Create(PidFields, contents) = Then(Then(y, z), fields)
    BY <1>9, <1>16 DEF Pushes
  <1>18. ComesBack(PidFields, Create(PidFields, contents), contents)
    BY <1>1, <1>3, <1>15, SuitedComesBack
  <1>. QED BY <1>6, <1>17, <1>18 DEF contents, fields

(* What comes back does so with an octet after it.                         *)
LEMMA ComesBackFollowed ==
  ASSUME NEW layout, NEW octets, NEW contents, ComesBack(layout, octets, contents),
         NEW next \in Octet
  PROVE  Read(layout, Followed(octets, next)) = contents /\ octets \in Bytes
  <1>1. <<next>> \in Bytes /\ <<next>> # <<>>
    BY OneByte
  <1>. QED BY <1>1 DEF ComesBack, Followed

(* Every TLV comes back: whatever its fields hold, if only each field can   *)
(* hold it, the constructor of its type reads what CreateMessage pushed for *)
(* them.  Something has to follow, as NativeReceive always adds an octet.   *)
THEOREM EveryTlvComesBack ==
  ASSUME NEW id \in DOMAIN Layouts, NEW contents, ContentsOf(Layouts[id], contents),
         AllSuit(Layouts[id], contents), NEW rest \in Bytes, rest # <<>>
  PROVE  Read(Layouts[id], Create(Layouts[id], contents) \o rest) = contents
  <1>. DEFINE layout == Layouts[id]
  <1>1. Laid(layout) /\ Received(layout)
    BY AllLayouts DEF TlvRead
  <1>2. ContentsOf(layout, contents) /\ AllSuit(layout, contents)
    OBVIOUS
  <1>. HIDE DEF layout
  <1>3. Read(layout, Then(Create(layout, contents), rest)) = contents
    BY <1>1, <1>2, CreateComesBack DEF ComesBack
  <1>. QED BY <1>3, Zenon DEF Then, layout

-----------------------------------------------------------------------------
(* What a handler is told of a message.                                    *)

(* What the parser makes of a message, with the octet after it.            *)
Parsed(octets, next) == ParseMessage(NativeReceive(octets, next))

HeaderFound(octets, next) == Read(ptpV2Header, Followed(octets, next))

PayloadFound(octets, next) ==
  SubSeq(Followed(octets, next), HeaderSize + 1, Len(Followed(octets, next)))

(* A message with a payload is parsed with the octet after it, or not.     *)
LEMMA ParsedIs ==
  ASSUME NEW octets \in Bytes, Len(octets) > HeaderSize, NEW next, NEW m,
         m = Parsed(octets, next), m # None, NEW header, header = HeaderFound(octets, next),
         NEW payload, payload = PayloadFound(octets, next)
  PROVE  /\ m.header = header
         /\ header.nDomain = m_nDomain =>
              /\ header.nType \in {0, 1, 8} => m.payload = Read(ptpV2Payload, payload)
              /\ header.nType = 9 => m.payload = Read(ptpDelayResponse, payload)
              /\ header.nType = 11 => m.payload = Read(ptpAnnounce, payload)
              /\ header.nType = 13 => m.payload = ptpManagement(payload)
         /\ header.nDomain # m_nDomain => FALSE
  <1>. DEFINE whole == Followed(octets, next)
              message == ParseV2(whole)
  <1>1. NativeReceive(octets, next) = whole
    BY DEF NativeReceive, Then, Followed
  <1>2. m = ParseMessage(whole)
    BY <1>1 DEF Parsed
  <1>3. message.payload # None /\ m = message
    BY <1>2, Zenon DEF ParseMessage
  <1>4. message.header = header
    BY DEF ParseV2, HeaderFound
  <1>5. header.nDomain # m_nDomain => message.payload = None
    BY <1>4 DEF ParseV2, HeaderFound
  <1>6. ASSUME header.nDomain = m_nDomain
        PROVE  message.payload =
                 CASE header.nType \in {kSync, kDelayReq, kFollowUp} -> Read(ptpV2Payload, payload)
                   [] header.nType = kDelayResp -> Read(ptpDelayResponse, payload)
                   [] header.nType = kAnnounce  -> Read(ptpAnnounce, payload)
                   [] header.nType = kManagementMessage -> ptpManagement(payload)
                   [] OTHER -> None
    BY <1>6 DEF ParseV2, HeaderFound, PayloadFound
  <1>. HIDE DEF message, whole
  <1>7. ASSUME header.nDomain = m_nDomain
        PROVE  /\ header.nType \in {0, 1, 8} => message.payload = Read(ptpV2Payload, payload)
               /\ header.nType = 9 => message.payload = Read(ptpDelayResponse, payload)
               /\ header.nType = 11 => message.payload = Read(ptpAnnounce, payload)
               /\ header.nType = 13 => message.payload = ptpManagement(payload)
    <2>. DEFINE type == header.nType
                x == Read(ptpV2Payload, payload)
                y == Read(ptpDelayResponse, payload)
                z == Read(ptpAnnounce, payload)
                w == ptpManagement(payload)
    <2>1. message.payload = CASE type \in {0, 1, 8} -> x [] type = 9 -> y [] type = 11 -> z
                              [] type = 13 -> w [] OTHER -> None
      BY <1>6, <1>7 DEF kSync, kDelayReq, kFollowUp, kDelayResp, kAnnounce, kManagementMessage
    <2>. HIDE DEF type, x, y, z, w
    <2>2. /\ type \in {0, 1, 8} => message.payload = x
          /\ type = 9 => message.payload = y
          /\ type = 11 => message.payload = z
          /\ type = 13 => message.payload = w
      BY <2>1
    <2>. QED BY <2>2 DEF type, x, y, z, w
  <1>. QED BY <1>3, <1>4, <1>5, <1>7

(* The header of a message, and what follows it, are found where they are. *)
LEMMA MessageFound ==
  ASSUME NEW type, NEW domain, NEW source, NEW sequence, NEW interval, NEW n \in Nat, n # 0,
         NEW payload, OfSize(payload, n), NEW l \in Nat, l = 34 + n,
         HeaderFits(type, l, domain, source, sequence, interval),
         NEW octets, octets = Message(type, domain, source, sequence, interval, payload),
         NEW next \in Octet
  PROVE  /\ octets \in Bytes /\ Len(octets) > HeaderSize
         /\ HeaderFound(octets, next)
              = HeaderContents(type, l, domain, source, sequence, interval)
         /\ PayloadFound(octets, next) = Followed(payload, next)
  <1>. DEFINE header == HeaderOctets(type, l, domain, source, sequence, interval)
              contents == HeaderContents(type, l, domain, source, sequence, interval)
              made == CreateHeader(type, l, domain, source, sequence, interval)
              after == Followed(payload, next)
  <1>1. payload \in Bytes /\ Len(payload) = n
    BY DEF OfSize
  <1>2. /\ type \in Int /\ l \in Int /\ domain \in Int /\ sequence \in Int /\ interval \in Int
        /\ source.id \in Bytes /\ source.port \in Int
    BY HeaderNumbers
  <1>3. made = header
    BY <1>2, HeaderIs DEF HeaderOctets
  <1>4. octets = Then(made, payload)
    BY <1>1 DEF Message, Then, HeaderSize
  <1>5. OfSize(header, 34)
    <2>. DEFINE x == HeaderStart(type, l, domain)
                y == IdentityOctets(source)
                z == HeaderEnd(sequence, interval)
    <2>1. OfSize(x, 20) /\ OfSize(y, 10) /\ OfSize(z, 4)
      BY <1>2, HeaderStartIs, IdentityIs, HeaderEndIs
    <2>2. header = Then(Then(x, y), z)
      BY DEF HeaderOctets
    <2>. HIDE DEF x, y, z, header
    <2>3. OfSize(Then(x, y), 30)
      BY <2>1, SizeThen
    <2>4. OfSize(Then(Then(x, y), z), 34)
      BY <2>1, <2>3, SizeThen
    <2>. QED BY <2>2, <2>4
  <1>6. ComesBack(ptpV2Header, header, contents)
    BY HeaderComesBack
  <1>. HIDE DEF header, contents, made
  <1>7. header \in Bytes /\ Len(header) = 34
    BY <1>5 DEF OfSize
  <1>8. octets \in Bytes /\ Len(octets) = 34 + n
    BY <1>1, <1>3, <1>4, <1>7, ThenIs
  <1>9. /\ after \in Bytes /\ Len(after) = n + 1 /\ after # <<>>
        /\ Followed(octets, next) = Then(header, after)
    BY <1>1, <1>3, <1>4, <1>7, FollowedIs
  <1>. HIDE DEF after
  <1>10. Read(ptpV2Header, Then(header, after)) = contents
    BY <1>6, <1>9 DEF ComesBack
  <1>11. SubSeq(Then(header, after), Len(header) + 1, Len(Then(header, after))) = after
    BY <1>7, <1>9, SliceSuffix
  <1>12. HeaderFound(octets, next) = contents
    BY <1>9, <1>10 DEF HeaderFound
  <1>13. PayloadFound(octets, next) = after
    BY <1>7, <1>9, <1>11, Zenon DEF PayloadFound, HeaderSize
  <1>. QED BY <1>8, <1>12, <1>13 DEF contents, after, HeaderSize

(* What a handler is told of a message that is parsed.                     *)
Told(m) ==
  [sequence |-> m.header.nSequenceId,
   contents |-> IF m.header.nType = kManagementMessage THEN m.payload.pTlv ELSE m.payload]

(* A message carries the setting it confirms, if any.                      *)
Carries(setting) == setting = {} \/ \E s \in setting : Carried(s.id, s.data)

(* It is what was meant, if a message carries it.                          *)
AsMeant(setting, understood, meant) == Carries(setting) => understood = meant

(* An announce confirms nothing.                                           *)
WellMeant(message) ==
  /\ message.octets \in Bytes
  /\ \A next \in Extra :
       LET m == Parsed(message.octets, next)
       IN  m # None => /\ AsMeant(message.setting, Told(m), message.meant)
                       /\ m.header.nType = kAnnounce => message.setting = {}

Layout(type) ==
  CASE type = 9 -> ptpDelayResponse [] type = 11 -> ptpAnnounce [] OTHER -> ptpV2Payload

(* A message with a time, of any domain, is understood.                    *)
LEMMA TimedIsMeant ==
  ASSUME NEW type \in {0, 1, 8, 9, 11}, NEW domain, NEW source, NEW sequence, NEW interval,
         NEW n \in Nat, n # 0, NEW payload, OfSize(payload, n), NEW l \in Nat, l = 34 + n,
         HeaderFits(type, l, domain, source, sequence, interval),
         NEW contents, ComesBack(Layout(type), payload, contents), NEW message,
         message.octets = Message(type, domain, source, sequence, interval, payload),
         message.setting = {}, message.meant = [sequence |-> sequence, contents |-> contents]
  PROVE  WellMeant(message)
  <1>1. message.octets \in Bytes
    <2>1. 0 \in Octet
      BY OctetIs
    <2>. QED BY <2>1, MessageFound
  <1>2. ASSUME NEW next \in Extra, NEW m, m = Parsed(message.octets, next), m # None
        PROVE  Told(m) = message.meant
    <2>. DEFINE header == HeaderContents(type, l, domain, source, sequence, interval)
                after == Followed(payload, next)
                octets == message.octets
                layout == Layout(type)
    <2>1. next \in Octet
      BY ManagementAssumption
    <2>2. /\ octets \in Bytes /\ Len(octets) > HeaderSize
          /\ HeaderFound(octets, next) = header /\ PayloadFound(octets, next) = after
      BY <2>1, MessageFound
    <2>3. header.nType = type /\ header.nSequenceId = sequence /\ header.nDomain = domain
      BY DEF HeaderContents
    <2>. HIDE DEF header, octets
    <2>4. /\ m.header = header
          /\ header.nDomain = m_nDomain =>
               /\ header.nType \in {0, 1, 8} => m.payload = Read(ptpV2Payload, after)
               /\ header.nType = 9 => m.payload = Read(ptpDelayResponse, after)
               /\ header.nType = 11 => m.payload = Read(ptpAnnounce, after)
          /\ header.nDomain # m_nDomain => FALSE
      <3>1. m = Parsed(octets, next)
        BY <1>2 DEF octets
      <3>. HIDE DEF after
      <3>. QED BY <1>2, <2>2, <3>1, ParsedIs
    <2>5. Read(layout, after) = contents
      BY <2>1, ComesBackFollowed
    <2>6. m.payload = Read(layout, after)
      <3>. HIDE DEF after
      <3>. QED BY <2>3, <2>4 DEF Layout
    <2>7. type # 13
      OBVIOUS
    <2>. QED BY <2>3, <2>4, <2>5, <2>6, <2>7 DEF Told, kManagementMessage
  <1>. QED BY <1>1, <1>2 DEF WellMeant, AsMeant

(* Every id has a number of its own.                                       *)
LEMMA IdsDiffer ==
  \A a, b \in DOMAIN Layouts : enumId[a] = enumId[b] => a = b
  BY SMT DEF Layouts, enumId

(* Only a response has a TLV, which is what follows the fields.            *)
LEMMA ManagementFound ==
  ASSUME NEW target, OfSize(target.id, 8), target.port \in Word, NEW hops \in Octet,
         NEW action \in {0, 1, 2}, NEW k \in Nat, NEW tlv, OfSize(tlv, k), NEW next \in Octet,
         NEW payload, payload = Followed(PayloadOf(IdentityOctets(target), hops, action, tlv), next)
  PROVE  /\ action # 2 => ptpManagement(payload).pTlv = None
         /\ action = 2 /\ k > 4 =>
              ptpManagement(payload).pTlv = managementTlvResponse(Followed(tlv, next))
  <1>. DEFINE start == Then(IdentityOctets(target), FieldsOctets(hops, action))
              after == Followed(tlv, next)
              contents == PidFieldsContents(target, hops, action)
              n == 14
              m == 15
  <1>1. OfSize(start, n)
    <2>. DEFINE x == IdentityOctets(target)
                y == FieldsOctets(hops, action)
    <2>1. target.id \in Bytes /\ target.port \in Int /\ hops \in Int /\ action \in Int
      BY WordIs, OctetIs DEF OfSize
    <2>2. OfSize(x, 10) /\ OfSize(y, 4)
      BY <2>1, IdentityIs, FieldsSize
    <2>. HIDE DEF x, y
    <2>3. OfSize(Then(x, y), 14)
      BY <2>2, SizeThen
    <2>. QED BY <2>3 DEF x, y
  <1>2. n \in Nat /\ m \in Nat /\ m = n + 1 /\ n = 14 /\ m = 15
    OBVIOUS
  <1>3. payload = Followed(Then(start, tlv), next)
    BY DEF PayloadOf
  <1>4. ComesBack(PidFields, start, contents)
    BY PidFieldsComeBack
  <1>5. contents.eAction = action
    BY DEF PidFieldsContents
  <1>6. tlv \in Bytes /\ Len(tlv) = k
    BY DEF OfSize
  <1>. HIDE DEF start, contents, n, m
  <1>7. /\ SubSeq(payload, m, Len(payload)) = after
        /\ Len(payload) = n + Len(tlv) + 1 /\ payload = Then(start, after)
    <2>1. n \in Nat /\ m \in Nat /\ m = n + 1
      BY <1>2
    <2>2. tlv \in Bytes
      BY <1>6
    <2>3. SubSeq(payload, m, Len(payload)) = Followed(tlv, next)
      <3>1. Remains(payload, m, Followed(tlv, next))
        BY <1>1, <1>3, <2>1, <2>2, RemainsIs
      <3>. QED BY <3>1 DEF Remains
    <2>4. Len(payload) = n + Len(tlv) + 1
      BY <1>1, <1>3, <2>1, <2>2, RemainsIs
    <2>5. payload = Then(start, Followed(tlv, next))
      BY <1>1, <1>3, <2>1, <2>2, RemainsIs
    <2>. QED BY <2>3, <2>4, <2>5 DEF after
  <1>8. after \in Bytes /\ after # <<>>
    BY <1>6, FollowedIs
  <1>. HIDE DEF after
  <1>9. Read(PidFields, payload) = contents
    BY <1>4, <1>7, <1>8 DEF ComesBack
  <1>10. ptpManagement(payload).pTlv =
           IF Len(payload) > 19 /\ contents.eAction = enumAction.kResponse
           THEN managementTlvResponse(SubSeq(payload, 15, Len(payload))) ELSE None
    BY <1>9 DEF ptpManagement, PidFields
  <1>11. enumAction.kResponse = 2
    BY DEF enumAction
  <1>12. k > 4 => Len(payload) > 19
    BY <1>2, <1>6, <1>7
  <1>13. SubSeq(payload, 15, Len(payload)) = after
    BY <1>2, <1>7
  <1>. QED BY <1>5, <1>10, <1>11, <1>12, <1>13, Zenon DEF after

(* The data of a TLV is read as it was written.                            *)
LEMMA TlvIsParsed ==
  ASSUME NEW id \in DOMAIN Layouts, NEW data, NEW contents,
         ComesBack(Layouts[id], data, contents), NEW length \in Int, NEW next \in Octet
  PROVE  managementTlvResponse(
           Followed(Tlv(1, length, Then(Octets(enumId[id], 2), data)), next))
             = [eId |-> enumId[id], pData |-> contents]
  <1>. DEFINE number == enumId[id]
              type == 1
              o1 == Octets(type, 2)
              o2 == Octets(length, 2)
              o3 == Octets(number, 2)
              start == Then(Then(o1, o2), o3)
              tlv == Tlv(type, length, Then(o3, data))
              whole == Followed(tlv, next)
              after == Followed(data, next)
  <1>1. number \in Word /\ type \in Word
    <2>1. id \in DOMAIN enumId
      BY SMT DEF Layouts, enumId
    <2>2. type \in Word
      BY WordIs
    <2>. QED BY <2>1, <2>2, IdsAreWords
  <1>2. number \in Int /\ type \in Int
    BY <1>1, WordIs
  <1>3. data \in Bytes
    BY DEF ComesBack
  <1>. HIDE DEF number, type
  <1>4. OfSize(o1, 2) /\ OfSize(o2, 2) /\ OfSize(o3, 2)
    BY <1>2, SizeOctets
  <1>. HIDE DEF o1, o2, o3
  <1>5. o1 \in Bytes /\ o2 \in Bytes /\ o3 \in Bytes
    BY <1>4 DEF OfSize
  <1>6. OfSize(Then(o1, o2), 4) /\ Then(o1, o2) \in Bytes
    <2>1. OfSize(Then(o1, o2), 4)
      BY <1>4, SizeThen
    <2>. QED BY <2>1 DEF OfSize
  <1>7. OfSize(start, 6)
    BY <1>4, <1>6, SizeThen
  <1>8. tlv = Then(start, data)
    <2>1. tlv = Then(Then(o1, o2), Then(o3, data))
      BY DEF Tlv, o1, o2
    <2>. QED BY <1>3, <1>5, <1>6, <2>1, ThenIsAssociative
  <1>9. Holds(start, 1, 2, o1) /\ Holds(start, 5, 6, o3)
    <2>2. Holds(Then(o1, o2), 1, 2, o1)
      BY <1>4, <1>5, HoldsFirst
    <2>3. Holds(start, 1, 2, o1)
      BY <1>5, <1>6, <2>2, HoldsThen
    <2>4. Holds(start, 5, 6, o3)
      BY <1>4, <1>6, HoldsLast
    <2>. QED BY <2>3, <2>4
  <1>. HIDE DEF start
  <1>10. whole = Then(start, after) /\ Remains(whole, 7, after)
    BY <1>3, <1>7, <1>8, RemainsIs
  <1>11. after \in Bytes /\ after # <<>>
    BY <1>3, FollowedIs
  <1>12. Read(Layouts[id], Followed(data, next)) = contents
    BY ComesBackFollowed
  <1>13. Read(Layouts[id], after) = contents
    BY <1>12
  <1>. HIDE DEF after, whole, tlv
  <1>14. Holds(whole, 1, 2, o1) /\ Holds(whole, 5, 6, o3)
    <2>1. Holds(Then(start, after), 1, 2, o1)
      BY <1>7, <1>9, <1>11, HoldsThen
    <2>2. Holds(Then(start, after), 5, 6, o3)
      BY <1>7, <1>9, <1>11, HoldsThen
    <2>. QED BY <1>10, <2>1, <2>2
  <1>15. Number(SubSeq(whole, 1, 2), FALSE) = type
    BY <1>1, <1>14, NumberAt DEF o1
  <1>16. Number(SubSeq(whole, 5, 6), FALSE) = number
    BY <1>1, <1>14, NumberAt DEF o3
  <1>17. managementTlvResponse(whole) = ParseTlv(whole)
    <2>1. type = kManagement /\ type # kManagementErrorStatus
      BY DEF type, kManagementErrorStatus, kManagement
    <2>. HIDE DEF type
    <2>. QED BY <1>15, <2>1 DEF managementTlvResponse
  <1>18. {i \in DOMAIN Layouts : enumId[i] = number} = {id}
    BY IdsDiffer DEF number
  <1>19. ParseTlv(whole) = [eId |-> number, pData |-> Read(Layouts[id], SubSeq(whole, 7, Len(whole)))]
    <2>. DEFINE ids == {i \in DOMAIN Layouts : enumId[i] = number}
    <2>1. ids = {id}
      BY <1>18
    <2>2. ParseTlv(whole) =
            [eId |-> number,
             pData |-> IF ids = {} THEN None
                       ELSE Read(Layouts[CHOOSE i \in ids : TRUE],
                                 SubSeq(whole, 7, Len(whole)))]
      BY <1>16, Zenon DEF ParseTlv
    <2>. HIDE DEF ids
    <2>3. ids # {} /\ (CHOOSE i \in ids : TRUE) = id
      BY <2>1
    <2>. QED BY <2>2, <2>3, Zenon
  <1>20. managementTlvResponse(whole) = [eId |-> number, pData |-> contents]
    BY <1>10, <1>13, <1>17, <1>19 DEF Remains
  <1>. QED BY <1>20 DEF whole, tlv, type, o3, number

(* So is an error.                                                         *)
LEMMA ErrorIsParsed ==
  ASSUME NEW data, NEW contents, ComesBack(ErrorStatus, data, contents),
         NEW length \in Int, NEW next \in Octet
  PROVE  managementTlvResponse(Followed(Tlv(2, length, data), next)) = contents
  <1>. DEFINE type == 2
              o1 == Octets(type, 2)
              o2 == Octets(length, 2)
              start == Then(o1, o2)
              tlv == Tlv(type, length, data)
              whole == Followed(tlv, next)
              after == Followed(data, next)
  <1>1. type \in Word
    BY WordIs
  <1>2. type \in Int
    OBVIOUS
  <1>3. data \in Bytes
    BY DEF ComesBack
  <1>. HIDE DEF type
  <1>4. OfSize(o1, 2) /\ OfSize(o2, 2)
    BY <1>2, SizeOctets
  <1>. HIDE DEF o1, o2
  <1>5. o1 \in Bytes /\ o2 \in Bytes
    BY <1>4 DEF OfSize
  <1>6. OfSize(start, 4)
    BY <1>4, SizeThen
  <1>7. Holds(start, 1, 2, o1)
    BY <1>4, <1>5, HoldsFirst
  <1>8. tlv = Then(start, data)
    BY DEF Tlv, o1, o2
  <1>. HIDE DEF start
  <1>9. whole = Then(start, after) /\ Remains(whole, 5, after)
    BY <1>3, <1>6, <1>8, RemainsIs
  <1>11. Read(ErrorStatus, after) = contents
    BY ComesBackFollowed
  <1>12. after \in Bytes
    BY <1>3, FollowedIs
  <1>. HIDE DEF after, whole, tlv
  <1>13. Holds(Then(start, after), 1, 2, o1)
    BY <1>6, <1>7, <1>12, HoldsThen
  <1>14. Holds(whole, 1, 2, o1)
    BY <1>9, <1>13
  <1>15. Number(SubSeq(whole, 1, 2), FALSE) = type
    BY <1>1, <1>14, NumberAt DEF o1
  <1>16. managementTlvResponse(whole) = Read(ErrorStatus, SubSeq(whole, 5, Len(whole)))
    <2>1. type = kManagementErrorStatus /\ type # kManagement
      BY DEF type, kManagementErrorStatus, kManagement
    <2>. HIDE DEF type
    <2>. QED BY <1>15, <2>1 DEF managementTlvResponse
  <1>17. managementTlvResponse(whole) = contents
    BY <1>9, <1>11, <1>16 DEF Remains
  <1>. QED BY <1>17 DEF whole, tlv, type

(* A value that comes back can be written.                                 *)
LEMMA SuitsIsWritable ==
  ASSUME NEW names, NEW field \in Fields(names), Readable(field), NEW value, Suits(field, value)
  PROVE  Writable(field, value)
  <1>. DEFINE kind == field.kind
  <1>1. /\ kind \in {"unsigned", "signed", "nibble", "one", "nonzero"} \cup TextKinds
                      \cup {"bits", "hex", "name+location", "time"}
        /\ field.weights \subseteq Weights
    BY DEF Readable, Kinds, NumberKinds, FlagKinds, Fields
  <1>2. CASE kind = "unsigned"
    <2>1. value \in Int
      BY <1>2 DEF Suits, FitsUnsigned
    <2>. QED BY <1>2, <2>1, WritableNumber DEF NumberKinds
  <1>3. CASE kind = "signed"
    <2>1. value \in Int
      BY <1>3 DEF Suits, FitsSigned
    <2>. QED BY <1>3, <2>1, WritableNumber DEF NumberKinds
  <1>4. CASE kind \in {"nibble", "one", "nonzero"}
    <2>1. value \in Int
      BY <1>4 DEF Suits
    <2>. QED BY <1>4, <2>1, WritableNumber DEF NumberKinds
  <1>5. CASE kind \in TextKinds
    BY <1>5, WritableText DEF Suits
  <1>6. CASE kind = "bits"
    BY <1>1, <1>6, WritableFlags DEF Suits, FlagKinds
  <1>7. CASE kind = "hex"
    BY <1>7, WritableHex DEF Suits
  <1>8. CASE kind = "name+location"
    BY <1>8, WritableDescription DEF Suits, Described
  <1>9. CASE kind = "time"
    BY <1>9, WritableTime DEF Suits
  <1>. HIDE DEF kind
  <1>. QED BY <1>1, <1>2, <1>3, <1>4, <1>5, <1>6, <1>7, <1>8, <1>9

(* What is written of it is no longer than this.                           *)
LEMMA SuitedSize ==
  ASSUME NEW layout, TlvRead(layout), NEW contents, AllSuit(layout, contents)
  PROVE  /\ CanWrite(layout, contents)
         /\ Pad(Create(layout, contents)) \in Bytes
         /\ Len(Pad(Create(layout, contents))) <= 6401
  <1>. DEFINE names == NamesOf(layout)
              octets == Create(layout, contents)
              n == Len(layout)
  <1>1. Laid(layout) /\ Received(layout) /\ SizeOf(layout) <= 16
    BY DEF TlvRead
  <1>2. layout \in Seq(Fields(names)) /\ n <= 16 /\ n \in Nat
    BY <1>1 DEF Laid, IsLayout, SizeOf
  <1>3. DOMAIN layout = 1 .. n /\ \A i \in 1 .. n : layout[i] \in Fields(names)
    <2>. HIDE DEF names
    <2>. QED BY <1>2, LenProperties, ElementOfSeq
  <1>4. ASSUME NEW i \in 1 .. n
        PROVE  Writable(layout[i], contents[layout[i].name])
    <2>. DEFINE field == layout[i]
                value == contents[layout[i].name]
    <2>1. field \in Fields(names) /\ Readable(field) /\ Suits(field, value)
      BY <1>1, <1>3 DEF Received, AllSuit
    <2>. HIDE DEF field, value, names
    <2>2. Writable(field, value)
      BY <2>1, SuitsIsWritable
    <2>. QED BY <2>2 DEF field, value
  <1>5. CanWrite(layout, contents)
    BY <1>4 DEF CanWrite
  <1>6. octets \in Bytes /\ Len(octets) <= FieldSize * n
    <2>. HIDE DEF names
    <2>. QED BY <1>2, <1>5, CreateType
  <1>. HIDE DEF octets
  <1>7. Len(octets) <= 6400
    <2>. DEFINE l == Len(octets)
    <2>1. l \in Nat /\ l <= FieldSize * n
      BY <1>6, BytesAre
    <2>. HIDE DEF l, n
    <2>2. l <= 6400
      BY <1>2, <2>1 DEF FieldSize
    <2>. QED BY <2>2 DEF l
  <1>8. Pad(octets) \in Bytes /\ Len(Pad(octets)) <= Len(octets) + 1
    BY <1>6, PadIs
  <1>9. Len(octets) \in Nat /\ Len(Pad(octets)) \in Nat
    BY <1>6, <1>8, BytesAre
  <1>10. Len(Pad(octets)) <= 6401
    BY <1>7, <1>8, <1>9
  <1>. QED BY <1>5, <1>8, <1>10 DEF octets

-----------------------------------------------------------------------------
(* What devices send, of their own or in response to a request.            *)

(* The identity of a port of the network fits a header.                    *)
LEMMA DeviceIs ==
  ASSUME NEW device \in Ports
  PROVE  /\ OfSize(device.id, 8) /\ device.port \in Word
         /\ device = [id |-> device.id, port |-> device.port]
  <1>1. device \in [id : Identities, port : Word \ {65535}]
    BY ManagementAssumption
  <1>2. device.id \in Identities /\ device.port \in Word
    BY <1>1
  <1>3. OfSize(device.id, 8)
    BY <1>2, IdentityBytes DEF OfSize
  <1>4. device = [id |-> device.id, port |-> device.port]
    BY <1>1
  <1>. QED BY <1>2, <1>3, <1>4

(* So does the identity of this machine.                                   *)
LEMMA MachineFits ==
  OfSize(Machine.id, 8) /\ Machine.port \in Word
  <1>1. Machine.id \in Identities /\ Machine.port = 1
    BY ManagementAssumption DEF Machine
  <1>2. OfSize(Machine.id, 8)
    BY <1>1, IdentityBytes DEF OfSize
  <1>. QED BY <1>1, <1>2, WordIs

(* The header of a message of this domain, or of another.                  *)
LEMMA FitsHeader ==
  ASSUME NEW type \in {0, 1, 8, 9, 11, 13}, NEW l \in Nat, l <= 6600, NEW domain \in Domains,
         NEW source, OfSize(source.id, 8), source.port \in Word, NEW sequence \in Word,
         NEW interval \in {0, 127}
  PROVE  HeaderFits(type, l, domain, source, sequence, interval)
  <1>1. l \in Word
    BY WordIs, SMT
  <1>2. domain \in Octet
    BY ManagementAssumption
  <1>3. type \in Nat /\ type < 16 /\ interval \in 0 .. 127
    BY SMT
  <1>. QED BY <1>1, <1>2, <1>3 DEF HeaderFits

(* A header whose parts fit can be pushed.                                 *)
LEMMA FitsHeaded ==
  ASSUME NEW type, NEW l, NEW domain, NEW source, NEW sequence, NEW interval,
         HeaderFits(type, l, domain, source, sequence, interval)
  PROVE  Headed(type, domain, source, sequence, interval)
  BY HeaderNumbers DEF Headed

ReadAs(tlv, contents) ==
  \A next \in Octet : managementTlvResponse(Followed(tlv, next)) = contents

ResponseOctets(type, k, tlv) == PayloadOf(IdentityOctets(Machine), 1, 2, Tlv(type, k, tlv))

IsResponse(message, device, sequence, type, k, tlv, contents) ==
  /\ message.octets = Message(13, m_nDomain, device, sequence, 0, ResponseOctets(type, k, tlv))
  /\ message.meant = [sequence |-> sequence, contents |-> contents]
  /\ Carries(message.setting) => ReadAs(Tlv(type, k, tlv), contents)

(* How long a response with a TLV of some size is.                         *)
LEMMA ResponseSize ==
  ASSUME NEW type \in Int, NEW k \in Nat, NEW tlv, OfSize(tlv, k),
         NEW size \in Nat, size = 4 + k, NEW n \in Nat, n = 14 + size
  PROVE  OfSize(ResponseOctets(type, k, tlv), n)
  <1>. DEFINE one == 1
              two == 2
              pid == IdentityOctets(Machine)
              whole == Tlv(type, k, tlv)
  <1>1. OfSize(pid, 10)
    <2>1. Machine.id \in Bytes /\ Machine.port \in Int
      BY MachineFits, WordIs DEF OfSize
    <2>. QED BY <2>1, IdentityIs
  <1>2. OfSize(whole, size)
    BY TlvIs
  <1>3. one \in Int /\ two \in Int /\ ResponseOctets(type, k, tlv) = PayloadOf(pid, one, two, whole)
    BY DEF ResponseOctets
  <1>. HIDE DEF one, two, pid, whole
  <1>4. OfSize(PayloadOf(pid, one, two, whole), n)
    BY <1>1, <1>2, <1>3, PayloadIs
  <1>. QED BY <1>3, <1>4

(* What a response of a device means, if that is what its TLV is read as.  *)
LEMMA ResponseIsMeant ==
  ASSUME NEW device \in Ports, NEW sequence \in Word, NEW type \in Int,
         NEW k \in Nat, k # 0, k <= 6500, NEW tlv, OfSize(tlv, k), NEW message, NEW contents,
         IsResponse(message, device, sequence, type, k, tlv, contents)
  PROVE  WellMeant(message)
  <1>. DEFINE whole == Tlv(type, k, tlv)
              size == 4 + k
              payload == ResponseOctets(type, k, tlv)
              n == 14 + size
              l == 34 + n
              octets == message.octets
              header == HeaderContents(13, l, m_nDomain, device, sequence, 0)
  <1>1. /\ size \in Nat /\ n \in Nat /\ l \in Nat /\ n # 0 /\ l = 34 + n /\ n = 14 + size
        /\ size = 4 + k /\ size > 4
    OBVIOUS
  <1>2. HeaderFits(13, l, m_nDomain, device, sequence, 0)
    <2>1. l <= 6600 /\ l \in Nat
      BY <1>1
    <2>2. m_nDomain \in Domains
      BY ManagementAssumption
    <2>3. OfSize(device.id, 8) /\ device.port \in Word
      BY DeviceIs
    <2>. HIDE DEF l
    <2>. QED BY <2>1, <2>2, <2>3, FitsHeader
  <1>. HIDE DEF size, n, l
  <1>3. OfSize(whole, size)
    BY <1>1, TlvIs
  <1>4. OfSize(payload, n)
    BY <1>1, ResponseSize
  <1>5. octets = Message(13, m_nDomain, device, sequence, 0, payload)
    BY DEF IsResponse
  <1>. HIDE DEF whole, header, octets, payload
  <1>6. ASSUME NEW next \in Octet
        PROVE  /\ octets \in Bytes /\ Len(octets) > HeaderSize
               /\ HeaderFound(octets, next) = header
               /\ PayloadFound(octets, next) = Followed(payload, next)
    <2>. DEFINE type13 == 13
                none == 0
    <2>1. n \in Nat /\ n # 0 /\ l \in Nat /\ l = 34 + n
      BY <1>1
    <2>2. /\ HeaderFits(type13, l, m_nDomain, device, sequence, none)
          /\ octets = Message(type13, m_nDomain, device, sequence, none, payload)
          /\ header = HeaderContents(type13, l, m_nDomain, device, sequence, none)
      BY <1>2, <1>5 DEF header
    <2>. HIDE DEF type13, none
    <2>. QED BY <1>4, <2>1, <2>2, MessageFound
  <1>7. octets \in Bytes
    <2>1. \E next : next \in Octet
      <3>1. 0 \in Octet
        BY OctetIs
      <3>. QED BY <3>1
    <2>2. PICK next : next \in Octet
      BY <2>1
    <2>. QED BY <1>6, <2>2
  <1>8. ASSUME NEW next \in Extra, NEW m, m = Parsed(octets, next), m # None
        PROVE  /\ Told(m) = [sequence |-> sequence,
                             contents |-> managementTlvResponse(Followed(whole, next))]
               /\ m.header.nType = 13
    <2>. DEFINE after == Followed(payload, next)
    <2>1. next \in Octet
      BY ManagementAssumption
    <2>2. /\ octets \in Bytes /\ Len(octets) > HeaderSize
          /\ HeaderFound(octets, next) = header /\ PayloadFound(octets, next) = after
      BY <1>6, <2>1
    <2>3. header.nType = 13 /\ header.nSequenceId = sequence /\ header.nDomain = m_nDomain
      BY DEF HeaderContents, header
    <2>. HIDE DEF after
    <2>4. m.header = header /\ m.payload = ptpManagement(after)
      BY <1>8, <2>2, <2>3, ParsedIs
    <2>5. ptpManagement(after).pTlv = managementTlvResponse(Followed(whole, next))
      <3>. DEFINE one == 1
                  two == 2
      <3>1. one \in Octet /\ two \in {0, 1, 2} /\ two = 2
        BY OctetIs
      <3>2. after = Followed(PayloadOf(IdentityOctets(Machine), one, two, whole), next)
        BY DEF after, whole, payload, ResponseOctets
      <3>. HIDE DEF one, two
      <3>. QED BY <1>1, <1>3, <2>1, <3>1, <3>2, MachineFits, ManagementFound
    <2>. QED BY <2>3, <2>4, <2>5 DEF Told, kManagementMessage
  <1>9. ASSUME NEW next \in Extra, NEW m, m = Parsed(message.octets, next), m # None
        PROVE  /\ AsMeant(message.setting, Told(m), message.meant)
               /\ m.header.nType = kAnnounce => message.setting = {}
    <2>1. /\ Told(m) = [sequence |-> sequence,
                        contents |-> managementTlvResponse(Followed(whole, next))]
          /\ m.header.nType = 13
      BY <1>8, <1>9 DEF octets
    <2>2. next \in Octet
      BY ManagementAssumption
    <2>3. Carries(message.setting) => Told(m) = message.meant
      BY <2>1, <2>2 DEF whole, ReadAs, IsResponse
    <2>. QED BY <2>1, <2>3 DEF AsMeant, kAnnounce
  <1>. QED BY <1>7, <1>9 DEF WellMeant, octets

(* A message that arrives, by what it is, confirms and means.              *)
Arrives(type, domain, source, sequence, payload, setting, contents) ==
  /\ arriving'.octets = Message(type, domain, source, sequence, 0, payload)
  /\ arriving'.setting = setting
  /\ arriving'.meant = [sequence |-> sequence, contents |-> contents]

(* What arrives is a message of the device that sends it.                  *)
LEMMA ArriveIs ==
  ASSUME NEW device, NEW type, NEW domain, NEW sequence, NEW payload, NEW setting, NEW meant,
         Arrive(device, type, domain, sequence, payload, setting, meant)
  PROVE  Arrives(type, domain, device, sequence, payload, setting, meant)
  BY DEF Arrive, Arrives, Message

(* What this machine asked for is of this type, and one of its requests.   *)
LEMMA RequestWasSent ==
  ASSUME Managed, AskedWell, asked # None, asked.type = kManagementMessage
  PROVE  \E sequence \in SequenceIds : Requested(asked, sequence)
  BY DEF AskedWell, DelayRequested, kDelayReq, kManagementMessage

(* A delay request that was asked is one that SendDelayRequest sent.       *)
LEMMA DelayWasSent ==
  ASSUME AskedWell, asked # None, asked.type = kDelayReq
  PROVE  \E sequence \in SequenceIds : DelayRequested(asked, sequence)
  BY DEF AskedWell, Requested, kDelayReq, kManagementMessage

(* A device puts what it answers in a response to the request it got.      *)
LEMMA RespondIs ==
  ASSUME Managed, AskedWell, asked # None, NEW device \in Ports, NEW type \in Int,
         NEW k \in Nat, NEW tlv, OfSize(tlv, k), NEW setting, NEW meant,
         Respond(device, type, tlv, setting, meant)
  PROVE  \E sequence \in SequenceIds :
           Arrives(13, m_nDomain, device, sequence, ResponseOctets(type, k, tlv), setting, meant)
  <1>1. asked.type = kManagementMessage
    BY DEF Respond
  <1>2. PICK sequence \in SequenceIds : Requested(asked, sequence)
    BY <1>1, RequestWasSent
  <1>. DEFINE octets == asked.octets
              pid == IdentityOctets(Machine)
              one == 1
              two == 2
              fields == FieldsOctets(one, two)
              o1 == Octets(type, 2)
              o2 == Octets(Len(tlv), 2)
              payload == SubSeq(octets, 21, 30)
                           \o Create(MessageFields, [nStartingBoundaryHops |-> one,
                                                     nBoundaryHops |-> one,
                                                     eAction |-> enumAction.kResponse,
                                                     reserved |-> <<>>])
                           \o o1 \o o2 \o tlv
  <1>3. /\ SubSeq(octets, 21, 30) = pid /\ Holds(octets, 31, 32, Octets(sequence, 2))
    BY <1>2, AskedIs DEF Holds
  <1>4. sequence \in Word /\ Len(tlv) = k /\ tlv \in Bytes /\ one \in Int /\ two \in Int
    BY ManagementAssumption DEF OfSize
  <1>5. SequenceOf(octets) = sequence
    BY <1>3, <1>4, NumberAt DEF SequenceOf
  <1>6. Create(MessageFields, [nStartingBoundaryHops |-> one, nBoundaryHops |-> one,
                               eAction |-> enumAction.kResponse, reserved |-> <<>>]) = fields
    <2>1. enumAction.kResponse = two
      BY DEF enumAction
    <2>. HIDE DEF one, two
    <2>. QED BY <1>4, <2>1, FieldsIs
  <1>7. payload = pid \o fields \o o1 \o o2 \o tlv
    BY <1>3, <1>6, Zenon
  <1>8. pid \in Bytes /\ fields \in Bytes /\ o1 \in Bytes /\ o2 \in Bytes
    <2>1. OfSize(pid, 10)
      <3>1. Machine.id \in Bytes /\ Machine.port \in Int
        BY MachineFits, WordIs DEF OfSize
      <3>. QED BY <3>1, IdentityIs
    <2>2. OfSize(fields, 4)
      <3>. HIDE DEF one, two
      <3>. QED BY <1>4, FieldsSize
    <2>3. OfSize(o1, 2) /\ OfSize(o2, 2)
      BY <1>4, SizeOctets
    <2>. HIDE DEF pid, fields, o1, o2
    <2>. QED BY <2>1, <2>2, <2>3 DEF OfSize
  <1>9. payload = ResponseOctets(type, k, tlv)
    <2>1. ResponseOctets(type, k, tlv) = Then(Then(pid, fields), Then(Then(o1, o2), tlv))
      BY <1>4 DEF ResponseOctets, PayloadOf, Tlv
    <2>. HIDE DEF payload, pid, fields, o1, o2
    <2>2. payload = Then(Then(Then(Then(pid, fields), o1), o2), tlv)
      BY <1>7 DEF Then
    <2>. DEFINE start == Then(pid, fields)
    <2>3. start \in Bytes /\ Then(o1, o2) \in Bytes
      BY <1>8, ThenIs
    <2>. HIDE DEF start
    <2>4. Then(Then(start, o1), o2) = Then(start, Then(o1, o2))
      BY <1>8, <2>3, ThenIsAssociative
    <2>5. Then(Then(start, Then(o1, o2)), tlv) = Then(start, Then(Then(o1, o2), tlv))
      BY <1>4, <2>3, ThenIsAssociative
    <2>6. payload = Then(start, Then(Then(o1, o2), tlv))
      BY <2>2, <2>4, <2>5 DEF start
    <2>. QED BY <2>1, <2>6 DEF start
  <1>10. Arrive(device, kManagementMessage, m_nDomain, SequenceOf(octets), payload, setting, meant)
    BY Zenon DEF Respond
  <1>. HIDE DEF payload, octets
  <1>11. Arrive(device, 13, m_nDomain, sequence, ResponseOctets(type, k, tlv), setting, meant)
    BY <1>5, <1>9, <1>10 DEF kManagementMessage
  <1>12. Arrives(13, m_nDomain, device, sequence, ResponseOctets(type, k, tlv), setting, meant)
    BY <1>11, ArriveIs
  <1>. QED BY <1>12

(* It is understood if its TLV is read as what it means.                   *)
LEMMA ResponseUnderstood ==
  ASSUME Managed, AskedWell, asked # None, NEW device \in Ports, NEW type \in Int,
         NEW k \in Nat, k # 0, k <= 6500, NEW tlv, OfSize(tlv, k), NEW setting, NEW meant,
         Respond(device, type, tlv, setting, meant),
         Carries(setting) => ReadAs(Tlv(type, k, tlv), meant)
  PROVE  WellMeant(arriving')
  <1>1. PICK sequence \in SequenceIds :
          Arrives(13, m_nDomain, device, sequence, ResponseOctets(type, k, tlv), setting, meant)
    BY RespondIs
  <1>. DEFINE message == arriving'
  <1>2. IsResponse(message, device, sequence, type, k, tlv, meant)
    BY <1>1 DEF IsResponse, Arrives
  <1>3. sequence \in Word
    BY ManagementAssumption
  <1>. HIDE DEF message
  <1>4. WellMeant(message)
    BY <1>2, <1>3, ResponseIsMeant
  <1>. QED BY <1>4 DEF message

(* The number of an id, which begins the TLV, and its data.                *)
Numbered(id, data) == Then(Octets(enumId[id], 2), data)

(* The id and the data of a TLV are between one octet and 6500.            *)
LEMMA NumberedIs ==
  ASSUME NEW id \in DOMAIN enumId, NEW data \in Bytes, Len(data) <= 6401
  PROVE  \E k \in Nat : k # 0 /\ k <= 6500 /\ OfSize(Numbered(id, data), k)
  <1>. DEFINE number == Octets(enumId[id], 2)
              k == 2 + Len(data)
  <1>1. Len(data) \in Nat
    BY BytesAre
  <1>2. k \in Nat /\ k # 0 /\ k <= 6500
    BY <1>1, SMT
  <1>3. OfSize(number, 2)
    <2>1. enumId[id] \in Int
      BY IdsAreWords, WordIs
    <2>. QED BY <2>1, SizeOctets
  <1>4. OfSize(data, Len(data))
    BY <1>1 DEF OfSize
  <1>. HIDE DEF number
  <1>5. OfSize(Then(number, data), k)
    BY <1>1, <1>2, <1>3, <1>4, SizeThen
  <1>. QED BY <1>2, <1>5 DEF Numbered, number

(* What a device has comes back.                                           *)
LEMMA GetIsUnderstood ==
  ASSUME Managed, AskedWell, NEW device \in Ports, NEW k \in Devices, AnswerGet(device, k)
  PROVE  WellMeant(arriving')
  <1>. DEFINE id == asked.id
              sample == Sample(Layouts[id], k)
              data == Pad(Create(Layouts[id], sample))
              tlv == Octets(enumId[id], 2) \o data
              meant == [eId |-> enumId[id], pData |-> sample]
  <1>1. /\ asked # None /\ id \in DOMAIN Layouts
        /\ Respond(device, kManagement, tlv, {}, meant)
    BY DEF AnswerGet
  <1>2. k \in Nat /\ k < 100
    BY ManagementAssumption, SMT
  <1>3. TlvRead(Layouts[id])
    BY <1>1, AllLayouts
  <1>4. ComesBack(Layouts[id], data, sample)
    BY <1>1, <1>2, SampleComesBack
  <1>5. data \in Bytes /\ Len(data) <= 6401
    BY <1>2, <1>3, SampleSuits, SuitedSize
  <1>6. id \in DOMAIN enumId
    <2>1. DOMAIN Layouts = DOMAIN enumId \ {"kSubscribeEventsNp"}
      BY DEF Layouts
    <2>. QED BY <1>1, <2>1
  <1>7. tlv = Numbered(id, data)
    BY DEF Numbered, Then
  <1>. HIDE DEF data, sample, tlv
  <1>8. PICK n \in Nat : n # 0 /\ n <= 6500 /\ OfSize(Numbered(id, data), n)
    BY <1>5, <1>6, NumberedIs
  <1>9. ReadAs(Tlv(1, n, Numbered(id, data)), meant)
    BY <1>1, <1>4, TlvIsParsed DEF ReadAs, Numbered
  <1>. DEFINE type == 1
              nothing == {}
  <1>10. Respond(device, type, tlv, nothing, meant)
    BY <1>1 DEF kManagement
  <1>11. type \in Int /\ OfSize(tlv, n) /\ ReadAs(Tlv(type, n, tlv), meant)
    BY <1>7, <1>8, <1>9
  <1>. HIDE DEF type, nothing, meant
  <1>. QED BY <1>1, <1>8, <1>10, <1>11, ResponseUnderstood

(* What a device has set comes back, if a message carries it.              *)
LEMMA SetIsUnderstood ==
  ASSUME Managed, AskedWell, NEW device \in Ports, AnswerSet(device)
  PROVE  WellMeant(arriving')
  <1>. DEFINE id == asked.id
              data == asked.data
              octets == asked.octets
              tlv == SubSeq(octets, HeaderSize + 19, Len(octets))
              setting == {[id |-> id, data |-> data]}
              meant == [eId |-> enumId[id], pData |-> data]
  <1>1. /\ asked # None /\ asked.action = "kSet" /\ Len(octets) > 54
        /\ Respond(device, kManagement, tlv, setting, meant)
    BY DEF AnswerSet, HeaderSize
  <1>2. asked.type = kManagementMessage
    BY <1>1 DEF Respond
  <1>3. PICK sequence \in SequenceIds : Requested(asked, sequence)
    BY <1>1, <1>2, RequestWasSent
  <1>4. Settable(id, data) /\ CanCarry(id, data)
    BY <1>1, <1>3 DEF Requested
  <1>5. PICK n \in Nat :
          /\ OfSize(octets, n) /\ n <= 6500
          /\ n = 52 + IF data = None THEN 2 ELSE TlvLength(id, data)
          /\ Holds(octets, 53, n, TlvBody(id, data))
    BY <1>3, AskedIs
  <1>6. Len(octets) = n
    BY <1>5 DEF OfSize
  <1>7. tlv = TlvBody(id, data)
    BY <1>5, <1>6 DEF Holds, HeaderSize
  <1>8. data # None
    BY <1>1, <1>5, <1>6
  <1>9. TlvBody(id, data) = Numbered(id, TlvData(id, data))
    BY <1>8 DEF TlvBody, Numbered
  <1>10. /\ TlvData(id, data) \in Bytes /\ Len(TlvData(id, data)) <= 6401
         /\ id \in DOMAIN enumId /\ id \in DOMAIN Written
    BY <1>4, <1>8, TlvDataIs DEF CanCarry
  <1>11. id # "kAlternateTimeOffsetProperties"
    <2>. SUFFICES ASSUME id = "kAlternateTimeOffsetProperties" PROVE FALSE
      OBVIOUS
    <2>1. Written[id] = <<>>
      BY SetLayouts
    <2>2. Len(TlvData(id, data)) = 0
      <3>. DEFINE nothing == <<>>
                  names == {}
                  octs == Create(nothing, data)
      <3>1. nothing \in Seq(Fields(names)) /\ Len(nothing) = 0
        OBVIOUS
      <3>2. CanWrite(nothing, data)
        BY <3>1 DEF CanWrite
      <3>. HIDE DEF nothing, names
      <3>3. octs \in Bytes /\ Len(octs) <= FieldSize * Len(nothing)
        BY <3>1, <3>2, CreateType
      <3>4. TlvData(id, data) = Pad(octs)
        BY <2>1 DEF TlvData, nothing
      <3>. HIDE DEF octs
      <3>5. Len(octs) \in Nat
        BY <3>3, BytesAre
      <3>6. Len(octs) = 0
        BY <3>1, <3>3, <3>5 DEF FieldSize
      <3>7. Pad(octs) = octs
        BY <3>6 DEF Pad
      <3>. QED BY <3>4, <3>6, <3>7
    <2>3. TlvLength(id, data) = 2
      BY <1>8, <2>2 DEF TlvLength
    <2>. QED BY <1>1, <1>5, <1>6, <1>8, <2>3
  <1>. DEFINE body == TlvData(id, data)
              whole == Numbered(id, body)
  <1>12. PICK k \in Nat : k # 0 /\ k <= 6500 /\ OfSize(whole, k)
    BY <1>10, NumberedIs
  <1>13. ASSUME Carries(setting)
         PROVE  ReadAs(Tlv(1, k, whole), meant)
    <2>1. Carried(id, data)
      <3>. DEFINE one == [id |-> id, data |-> data]
      <3>1. one.id = id /\ one.data = data
        OBVIOUS
      <3>2. setting = {one}
        OBVIOUS
      <3>. HIDE DEF one, setting, id, data
      <3>. QED BY <1>13, <3>1, <3>2 DEF Carries
    <2>2. id \in DOMAIN Layouts /\ ComesBack(Layouts[id], body, data)
      BY <1>4, <1>11, <2>1, SettableComesBack DEF TlvData
    <2>. QED BY <2>2, TlvIsParsed DEF ReadAs, Numbered
  <1>. DEFINE type == 1
  <1>14. Respond(device, type, tlv, setting, meant) /\ type \in Int
    BY <1>1 DEF kManagement
  <1>15. tlv = whole
    BY <1>7, <1>9
  <1>. HIDE DEF tlv, whole
  <1>16. OfSize(tlv, k)
    BY <1>12, <1>15
  <1>17. Carries(setting) => ReadAs(Tlv(type, k, tlv), meant)
    BY <1>13, <1>15
  <1>. HIDE DEF type, setting, meant
  <1>. QED BY <1>1, <1>12, <1>14, <1>16, <1>17, ResponseUnderstood

(* An error has octets, and not too many of them.                          *)
LEMMA ErrorSize ==
  ASSUME NEW error \in Word, NEW id \in Word, NEW text \in Bytes, Len(text) <= 255
  PROVE  LET status == [eError |-> error, eId |-> id, nReserved |-> 0, sError |-> text]
         IN  \E k \in Nat : k # 0 /\ k <= 6500 /\ OfSize(Pad(Create(ErrorStatus, status)), k)
  <1>. DEFINE zero == 0
              status == [eError |-> error, eId |-> id, nReserved |-> zero, sError |-> text]
              names == {"eError", "eId", "nReserved", "sError"}
              two == 2
              four == 4
              a == U("eError", two)
              b == U("eId", two)
              c == U("nReserved", four)
              d == Text("sError")
              octets == Create(ErrorStatus, status)
  <1>1. /\ status["eError"] = error /\ status["eId"] = id /\ status["nReserved"] = zero
        /\ status["sError"] = text
        /\ "eError" \in names /\ "eId" \in names /\ "nReserved" \in names /\ "sError" \in names
        /\ two \in 1 .. 128 /\ four \in 1 .. 128 /\ two = 2 /\ zero \in Int
    OBVIOUS
  <1>2. error \in Int /\ id \in Int
    BY WordIs
  <1>3. ErrorStatus = ((a \o b) \o c) \o d
    BY UsTwo DEF ErrorStatus
  <1>4. \E e \in Bytes : Pushes(names, d, status, e) /\ Len(e) <= 400
    <2>. DEFINE field == [name |-> "sError", kind |-> "text", width |-> 1, weights |-> {}]
                e == Encode(field, status[field.name])
    <2>1. d = <<field>>
      BY DEF Text, Field
    <2>2. field \in Fields(names) /\ field.name = "sError" /\ field.kind = "text"
      BY DEF Fields, Kinds, TextKinds
    <2>. HIDE DEF field, d, status, names
    <2>3. Writable(field, status[field.name])
      BY <1>1, <2>2, WritableText DEF TextKinds
    <2>4. Pushes(names, d, status, e)
      BY <2>1, <2>2, <2>3, PushOne
    <2>5. e \in Bytes /\ Len(e) <= 400
      BY <2>2, <2>3, EncodeType DEF FieldSize
    <2>. HIDE DEF e
    <2>. QED BY <2>4, <2>5
  <1>5. PICK e \in Bytes : Pushes(names, d, status, e) /\ Len(e) <= 400
    BY <1>4
  <1>. HIDE DEF status, names, two, four, zero
  <1>6. Pushes(names, a, status, Octets(error, two)) /\ Pushes(names, b, status, Octets(id, two))
    BY <1>1, <1>2, PushU
  <1>7. Pushes(names, c, status, Octets(zero, four))
    BY <1>1, PushU
  <1>. DEFINE x == Octets(error, two)
              y == Octets(id, two)
              z == Octets(zero, four)
  <1>8. OfSize(x, 2) /\ OfSize(y, 2) /\ OfSize(z, 4)
    BY <1>1, <1>2, SizeOctets DEF two, four
  <1>. HIDE DEF a, b, c, d, x, y, z
  <1>9. octets = Then(Then(Then(x, y), z), e)
    <2>1. Pushes(names, a \o b, status, Then(x, y))
      BY <1>6, PushJoin DEF x, y
    <2>2. Pushes(names, (a \o b) \o c, status, Then(Then(x, y), z))
      BY <1>7, <2>1, PushJoin DEF z
    <2>3. Pushes(names, ((a \o b) \o c) \o d, status, Then(Then(Then(x, y), z), e))
      BY <1>5, <2>2, PushJoin
    <2>. QED BY <1>3, <2>3 DEF Pushes
  <1>10. OfSize(Then(Then(x, y), z), 8)
    <2>1. OfSize(Then(x, y), 4)
      BY <1>8, SizeThen
    <2>. QED BY <1>8, <2>1, SizeThen
  <1>. DEFINE start == Then(Then(x, y), z)
              l == Len(e)
              k == 8 + l
              padded == Pad(octets)
              n == Len(padded)
  <1>11. l \in Nat /\ l <= 400
    BY <1>5, BytesAre
  <1>12. octets \in Bytes /\ Len(octets) = k
    <2>1. start \in Bytes /\ Len(start) = 8
      BY <1>10 DEF OfSize
    <2>. HIDE DEF start, octets
    <2>2. octets \in Bytes /\ Len(octets) = Len(start) + Len(e)
      BY <1>9, <2>1, ThenIs DEF start
    <2>. QED BY <2>1, <2>2
  <1>. HIDE DEF octets, l
  <1>13. /\ padded \in Bytes /\ Len(padded) <= Len(octets) + 1
         /\ \E more \in Bytes : padded = Then(octets, more)
    BY <1>12, PadIs
  <1>14. n \in Nat
    BY <1>13, BytesAre
  <1>. HIDE DEF padded
  <1>15. n # 0
    <2>1. PICK more \in Bytes : padded = Then(octets, more)
      BY <1>13
    <2>2. Len(padded) = Len(octets) + Len(more) /\ Len(more) \in Nat
      BY <1>12, <2>1, ThenIs, BytesAre
    <2>. QED BY <1>11, <1>12, <2>2
  <1>16. n <= 6500
    BY <1>11, <1>12, <1>13, <1>14
  <1>17. OfSize(padded, n)
    BY <1>13, <1>14 DEF OfSize
  <1>. HIDE DEF n
  <1>. QED BY <1>14, <1>15, <1>16, <1>17 DEF padded, octets, status, zero

(* What a device answers instead comes back.                               *)
LEMMA ErrorIsUnderstood ==
  ASSUME Managed, AskedWell, NEW device \in Ports, NEW error \in Errors, NEW text \in Texts,
         AnswerError(device, error, text)
  PROVE  WellMeant(arriving')
  <1>. DEFINE id == enumId[asked.id]
              status == [eError |-> error, eId |-> id, nReserved |-> 0, sError |-> text]
              tlv == Pad(Create(ErrorStatus, status))
              nothing == {}
              type == 2
  <1>1. asked # None /\ Respond(device, type, tlv, nothing, status)
    BY DEF AnswerError, kManagementErrorStatus
  <1>2. asked.type = kManagementMessage
    BY <1>1 DEF Respond
  <1>3. PICK sequence \in SequenceIds : Requested(asked, sequence)
    BY <1>1, <1>2, RequestWasSent
  <1>4. asked.id \in DOMAIN enumId
    BY <1>3 DEF Requested, CanCarry
  <1>5. id \in Word
    BY <1>4, IdsAreWords
  <1>6. error \in Word /\ text \in Bytes /\ Len(text) <= 255
    BY ManagementAssumption DEF Bytes
  <1>7. ComesBack(ErrorStatus, tlv, status)
    <2>. HIDE DEF id
    <2>. QED BY <1>5, <1>6, ErrorComesBack
  <1>8. \E k \in Nat : k # 0 /\ k <= 6500 /\ OfSize(tlv, k)
    <2>. HIDE DEF id
    <2>. QED BY <1>5, <1>6, ErrorSize
  <1>9. PICK k \in Nat : k # 0 /\ k <= 6500 /\ OfSize(tlv, k)
    BY <1>8
  <1>10. type \in Int
    OBVIOUS
  <1>. HIDE DEF tlv, status, nothing
  <1>11. ReadAs(Tlv(type, k, tlv), status)
    BY <1>7, ErrorIsParsed DEF ReadAs
  <1>. HIDE DEF type
  <1>. QED BY <1>1, <1>9, <1>10, <1>11, ResponseUnderstood

(* The identity of a device, as CreateMessage has it.                      *)
LEMMA DevicePid ==
  ASSUME NEW device \in Ports
  PROVE  Create(Pid("id", "port"), device) = IdentityOctets(device)
  <1>. DEFINE names == {"id", "port"}
              two == 2
              eight == 8
              a == Hex("id", eight)
              b == U("port", two)
              x == FromHexStr(device.id, eight)
              y == Octets(device.port, two)
  <1>1. /\ device["id"] = device.id /\ device["port"] = device.port
        /\ "id" \in names /\ "port" \in names /\ two \in 1 .. 128 /\ eight \in 1 .. 128
    OBVIOUS
  <1>2. device.id \in Bytes /\ device.port \in Int
    BY DeviceIs, WordIs DEF OfSize
  <1>3. Pid("id", "port") = a \o b /\ IdentityOctets(device) = Then(x, y)
    BY DEF Pid, IdentityOctets
  <1>. HIDE DEF names, two, eight
  <1>4. Pushes(names, a, device, x) /\ Pushes(names, b, device, y)
    BY <1>1, <1>2, PushHex, PushU
  <1>. HIDE DEF a, b, x, y
  <1>5. Pushes(names, a \o b, device, Then(x, y))
    BY <1>4, PushJoin
  <1>. QED BY <1>3, <1>5 DEF Pushes

(* A message with the identity of another sender.                          *)
WithSource(octets, other) ==
  SubSeq(octets, 1, 20) \o IdentityOctets(other) \o SubSeq(octets, 31, Len(octets))

(* It is the message that the other would have sent.                       *)
LEMMA AnotherSource ==
  ASSUME NEW type, NEW domain, NEW source, NEW sequence, NEW interval,
         Headed(type, domain, source, sequence, interval),
         NEW other, other.id \in Bytes, other.port \in Int,
         NEW n \in Nat, NEW payload, OfSize(payload, n),
         NEW octets, octets = Message(type, domain, source, sequence, interval, payload)
  PROVE  /\ WithSource(octets, other)
              = Message(type, domain, other, sequence, interval, payload)
         /\ Holds(octets, 31, 32, Octets(sequence, 2))
  <1>. DEFINE l == 34 + n
              start == HeaderStart(type, l, domain)
              rest == After(sequence, interval, payload)
              identity == IdentityOctets(other)
              m == 4 + n
  <1>1. l \in Nat /\ l = 34 + n /\ m \in Nat /\ m = 4 + n
    OBVIOUS
  <1>2. /\ type \in Int /\ domain \in Int /\ sequence \in Int /\ interval \in Int /\ l \in Int
    BY DEF Headed
  <1>3. Headed(type, domain, other, sequence, interval)
    BY DEF Headed
  <1>4. Message(type, domain, other, sequence, interval, payload)
          = Then(start, Then(identity, rest))
    BY <1>3, MessageParts
  <1>5. OfSize(identity, 10)
    BY IdentityIs
  <1>. HIDE DEF l, m
  <1>6. OfSize(start, 20) /\ OfSize(rest, m)
    BY <1>1, <1>2, HeaderStartIs, AfterIs
  <1>7. /\ OfSize(octets, l) /\ Holds(octets, 1, 20, start) /\ Holds(octets, 31, l, rest)
        /\ Holds(octets, 31, 32, Octets(sequence, 2))
    BY <1>1, MessageIs
  <1>. HIDE DEF start, rest, identity
  <1>8. SubSeq(octets, 1, 20) = start /\ SubSeq(octets, 31, Len(octets)) = rest
    BY <1>7 DEF Holds, OfSize
  <1>9. start \in Bytes /\ identity \in Bytes /\ rest \in Bytes
    BY <1>5, <1>6 DEF OfSize
  <1>10. Then(Then(start, identity), rest) = Then(start, Then(identity, rest))
    BY <1>9, ThenIsAssociative
  <1>11. SubSeq(octets, 1, 20) \o identity \o SubSeq(octets, 31, Len(octets))
           = Then(Then(start, identity), rest)
    BY <1>8, Zenon DEF Then
  <1>. QED BY <1>4, <1>7, <1>10, <1>11 DEF identity, WithSource

(* The payload of a request, with a target read as the port of a device.   *)
LEMMA RequestPayload ==
  ASSUME NEW action \in {"kGet", "kSet"}, NEW hops \in Octet, NEW identity \in Bytes,
         NEW number \in Word, NEW id, NEW data, CanCarry(id, data), NEW tlv,
         tlv = CreateTlv(id, data), NEW target,
         target = [id |-> TargetId(identity, number), port |-> TargetPort(identity, number)]
  PROVE  /\ OfSize(target.id, 8) /\ target.port \in Word
         /\ \E k \in Nat, code \in {0, 1} :
              /\ k <= 6500 /\ OfSize(tlv, k)
              /\ CreatePayload(action, hops, identity, number, tlv)
                   = PayloadOf(IdentityOctets(target), hops, code, tlv)
  <1>. DEFINE x == TargetId(identity, number)
              port == TargetPort(identity, number)
              y == Octets(port, 2)
              pid == FromPidStr(identity, number)
  <1>1. /\ x \in Bytes /\ port \in Word /\ OfSize(x, 8) /\ pid = Then(x, y)
    BY PidParts
  <1>2. target.id = x /\ target.port = port
    OBVIOUS
  <1>3. IdentityOctets(target) = pid
    <2>1. FromHexStr(x, 8) = x
      <3>. DEFINE eight == 8
      <3>1. Len(x) = eight /\ x \in Bytes /\ eight \in Nat
        BY <1>1 DEF OfSize
      <3>. HIDE DEF eight, x
      <3>2. FromHexStr(x, eight) = x
        BY <3>1, HexIsItself
      <3>. QED BY <3>2 DEF eight
    <2>. HIDE DEF x, y, pid
    <2>. QED BY <1>1, <1>2, <2>1 DEF IdentityOctets, y
  <1>4. hops \in Int
    BY OctetIs
  <1>5. CreatePayload(action, hops, identity, number, tlv)
          = PayloadOf(pid, hops, enumAction[action], tlv)
    BY <1>4, CreatePayloadIs
  <1>6. enumAction[action] \in {0, 1}
    BY ActionsAre
  <1>. DEFINE length == TlvLength(id, data)
              body == TlvBody(id, data)
              b == Len(body)
              k == 4 + b
              one == 1
  <1>7. /\ tlv = Tlv(one, length, body) /\ length \in Nat /\ length <= 6403
        /\ OfSize(body, b) /\ b = IF data = None THEN 2 ELSE length
    BY CreateTlvIs
  <1>. HIDE DEF length, body, b
  <1>8. b \in Nat /\ k \in Nat /\ k = 4 + b /\ k <= 6500 /\ one \in Int /\ length \in Int
    BY <1>7
  <1>. HIDE DEF k, one
  <1>9. OfSize(Tlv(one, length, body), k)
    BY <1>7, <1>8, TlvIs
  <1>10. OfSize(tlv, k)
    BY <1>7, <1>9
  <1>. HIDE DEF x, port, pid
  <1>. QED BY <1>1, <1>2, <1>3, <1>5, <1>6, <1>8, <1>10

(* A timing message or an announce that arrives is understood if its       *)
(* payload is read as what it means.                                       *)
LEMMA TimedUnderstood ==
  ASSUME NEW type \in {0, 1, 8, 9, 11}, NEW domain \in Domains,
         NEW source, OfSize(source.id, 8), source.port \in Word, NEW sequence \in Word,
         NEW n \in Nat, n # 0, n <= 6500, NEW payload, OfSize(payload, n),
         NEW contents, ComesBack(Layout(type), payload, contents),
         Arrives(type, domain, source, sequence, payload, {}, contents)
  PROVE  WellMeant(arriving')
  <1>. DEFINE l == 34 + n
              zero == 0
              message == arriving'
  <1>1. l \in Nat /\ l <= 6600 /\ l = 34 + n /\ zero \in {0, 127}
    OBVIOUS
  <1>2. /\ message.octets = Message(type, domain, source, sequence, zero, payload)
        /\ message.setting = {} /\ message.meant = [sequence |-> sequence, contents |-> contents]
    BY DEF Arrives
  <1>. HIDE DEF l, zero, message
  <1>3. HeaderFits(type, l, domain, source, sequence, zero)
    <2>1. type \in {0, 1, 8, 9, 11, 13}
      OBVIOUS
    <2>. QED BY <1>1, <2>1, FitsHeader
  <1>4. WellMeant(message)
    BY <1>1, <1>2, <1>3, TimedIsMeant
  <1>. QED BY <1>4 DEF message

(* The time of the master comes back.                                      *)
LEMMA SyncIsUnderstood ==
  ASSUME NEW type \in {kSync, kFollowUp}, NEW now \in Times, SyncOrFollowUp(type, now)
  PROVE  WellMeant(arriving')
  <1>. DEFINE payload == FromSecNano(now)
              contents == [originTime |-> now]
              n == 10
              zero == 0
  <1>1. IsTime(now) /\ now \in Nat
    BY ManagementAssumption DEF IsTime
  <1>2. type \in {0, 1, 8, 9, 11} /\ type \in {0, 8}
    BY DEF kSync, kFollowUp
  <1>3. ComesBack(Layout(type), payload, contents)
    BY <1>1, <1>2, TimestampComesBack DEF Layout
  <1>4. OfSize(payload, n) /\ n \in Nat /\ n # 0 /\ n <= 6500
    BY <1>1, SizeTime
  <1>5. zero \in Word
    BY WordIs
  <1>6. Arrive(Master, type, m_nDomain, zero, payload, {}, contents)
    BY DEF SyncOrFollowUp
  <1>. HIDE DEF payload, contents, n, zero
  <1>7. Arrives(type, m_nDomain, Master, zero, payload, {}, contents)
    BY <1>6, ArriveIs
  <1>8. m_nDomain \in Domains /\ Master \in Ports
    BY ManagementAssumption
  <1>9. OfSize(Master.id, 8) /\ Master.port \in Word
    BY <1>8, DeviceIs
  <1>. QED BY <1>2, <1>3, <1>4, <1>5, <1>7, <1>8, <1>9, TimedUnderstood

(* The answer to a Delay_Req comes back, with who asked and when.          *)
LEMMA DelayIsUnderstood ==
  ASSUME AskedWell, NEW now \in Times, DelayResponse(now)
  PROVE  WellMeant(arriving')
  <1>. DEFINE time == FromSecNano(now)
              pid == IdentityOctets(Machine)
              payload == Then(time, pid)
              contents == [originTime |-> now, nRequestId |-> Self, nRequestPort |-> 1]
              octets == asked.octets
              type == 9
              n == 20
  <1>1. asked # None /\ asked.type = kDelayReq
    BY DEF DelayResponse
  <1>2. PICK sequence \in SequenceIds : DelayRequested(asked, sequence)
    BY <1>1, DelayWasSent
  <1>3. IsTime(now) /\ now \in Nat /\ sequence \in Word
    BY ManagementAssumption DEF IsTime
  <1>4. Holds(octets, 21, 30, pid) /\ Holds(octets, 31, 32, Octets(sequence, 2))
    BY <1>2, DelayIs
  <1>5. SequenceOf(octets) = sequence
    BY <1>3, <1>4, NumberAt DEF SequenceOf
  <1>6. Arrive(Master, kDelayResp, m_nDomain, SequenceOf(octets),
               time \o SubSeq(octets, 21, 30), {}, contents)
    BY Zenon DEF DelayResponse
  <1>7. time \o SubSeq(octets, 21, 30) = payload
    <2>1. SubSeq(octets, 21, 30) = pid
      BY <1>4 DEF Holds
    <2>. QED BY <2>1, Zenon DEF Then
  <1>8. ComesBack(Layout(type), payload, contents)
    <2>1. contents = [originTime |-> now, nRequestId |-> Machine.id, nRequestPort |-> Machine.port]
      BY DEF Machine
    <2>2. Layout(type) = ptpDelayResponse
      BY DEF Layout
    <2>. HIDE DEF contents
    <2>. QED BY <1>3, <2>1, <2>2, MachineFits, DelayResponseComesBack
  <1>9. OfSize(payload, n) /\ n \in Nat /\ n # 0 /\ n <= 6500
    <2>1. OfSize(time, 10)
      BY <1>3, SizeTime
    <2>2. OfSize(pid, 10)
      <3>1. Machine.id \in Bytes /\ Machine.port \in Int
        BY MachineFits, WordIs DEF OfSize
      <3>. QED BY <3>1, IdentityIs
    <2>. HIDE DEF time, pid
    <2>. QED BY <2>1, <2>2, SizeThen
  <1>10. type \in {0, 1, 8, 9, 11} /\ type = kDelayResp
    BY DEF kDelayResp
  <1>. HIDE DEF payload, contents, n, type, octets, time
  <1>11. Arrive(Master, type, m_nDomain, sequence, payload, {}, contents)
    BY <1>5, <1>6, <1>7, <1>10
  <1>12. Arrives(type, m_nDomain, Master, sequence, payload, {}, contents)
    BY <1>11, ArriveIs
  <1>13. m_nDomain \in Domains /\ Master \in Ports
    BY ManagementAssumption
  <1>14. OfSize(Master.id, 8) /\ Master.port \in Word
    BY <1>13, DeviceIs
  <1>. QED BY <1>3, <1>8, <1>9, <1>10, <1>12, <1>13, <1>14, TimedUnderstood

(* What a field suits can be pushed, if it can be read.                    *)
LEMMA SuitedCanPush ==
  ASSUME NEW names, NEW layout, NEW contents, Suited(names, layout, contents), Received(layout)
  PROVE  CanPush(names, layout, contents)
  <1>. DEFINE n == Len(layout)
  <1>1. layout \in Seq(Fields(names)) /\ AllSuit(layout, contents)
    BY DEF Suited
  <1>2. DOMAIN layout = 1 .. n /\ \A i \in 1 .. n : layout[i] \in Fields(names)
    BY <1>1, LenProperties, ElementOfSeq
  <1>3. ASSUME NEW i \in 1 .. n
        PROVE  Writable(layout[i], contents[layout[i].name])
    <2>. DEFINE field == layout[i]
                value == contents[layout[i].name]
    <2>1. field \in Fields(names) /\ Readable(field) /\ Suits(field, value)
      BY <1>1, <1>2 DEF Received, AllSuit
    <2>. HIDE DEF field, value
    <2>2. Writable(field, value)
      BY <2>1, SuitsIsWritable
    <2>. QED BY <2>2 DEF field, value
  <1>. QED BY <1>1, <1>3 DEF CanPush, CanWrite

(* What is pushed is ten octets at least, as a time is.                    *)
Long(names, layout, contents) ==
  \E octets \in Bytes : Pushes(names, layout, contents, octets) /\ Len(octets) >= 10

(* A message that is long enough stays so with more in it.                 *)
LEMMA LongJoin ==
  ASSUME NEW names, NEW contents, NEW a, NEW b, Long(names, a, contents),
         CanPush(names, b, contents)
  PROVE  Long(names, a \o b, contents)
  <1>. DEFINE y == Create(b, contents)
  <1>1. PICK x \in Bytes : Pushes(names, a, contents, x) /\ Len(x) >= 10
    BY DEF Long
  <1>2. y \in Bytes
    BY CreateType DEF CanPush
  <1>3. Pushes(names, b, contents, y)
    BY <1>2 DEF Pushes
  <1>. HIDE DEF y
  <1>4. Pushes(names, a \o b, contents, Then(x, y))
    BY <1>1, <1>3, PushJoin
  <1>5. Then(x, y) \in Bytes /\ Len(Then(x, y)) = Len(x) + Len(y)
    BY <1>2, ThenIs
  <1>6. Len(x) \in Nat /\ Len(y) \in Nat
    BY <1>2, BytesAre
  <1>7. Len(Then(x, y)) >= 10
    BY <1>1, <1>5, <1>6
  <1>. QED BY <1>4, <1>5, <1>7 DEF Long

(* A message with a timestamp is long enough.                              *)
LEMMA LongTime ==
  ASSUME NEW names, "originTime" \in names, NEW contents, contents["originTime"] \in Nat
  PROVE  Long(names, ptpV2Payload, contents)
  <1>. DEFINE time == contents["originTime"]
              x == FromSecNano(time)
              field == [name |-> "originTime", kind |-> "time", width |-> 10, weights |-> {}]
  <1>1. ptpV2Payload = <<field>>
    BY DEF ptpV2Payload, Field
  <1>2. field \in Fields(names) /\ field.name = "originTime" /\ field.kind = "time"
    BY DEF Fields, Kinds
  <1>3. OfSize(x, 10)
    BY SizeTime
  <1>4. contents[field.name] = time
    BY <1>2
  <1>. HIDE DEF field
  <1>5. Writable(field, contents[field.name])
    BY <1>2, <1>4, WritableTime
  <1>6. Encode(field, contents[field.name]) = x
    BY <1>2, <1>4 DEF Encode
  <1>. HIDE DEF x
  <1>7. Pushes(names, ptpV2Payload, contents, x)
    BY <1>1, <1>2, <1>5, <1>6, PushOne
  <1>8. x \in Bytes /\ Len(x) >= 10
    BY <1>3 DEF OfSize
  <1>. QED BY <1>7, <1>8 DEF Long

(* An announce has octets, and not too many of them.                       *)
LEMMA AnnounceSize ==
  ASSUME NEW announce \in Announcements, IsTime(announce.originTime)
  PROVE  \E n \in Nat : n # 0 /\ n <= 6500 /\ OfSize(Create(ptpAnnounce, announce), n)
  <1>. DEFINE names == {"originTime", "nUtcOffset", "reserved", "nGrandmasterPriority1",
                        "nGrandmasterClass", "eGrandmasterAccuracy", "nGrandmasterVariance",
                        "nGrandmasterPriority2", "sGrandmasterClockId", "nStepsRemoved",
                        "eTimeSource"}
              own == <<"nGrandmasterPriority1", "nGrandmasterClass", "eGrandmasterAccuracy">>
              one == 1
              two == 2
              eight == 8
              f1 == ptpV2Payload
              f2 == U("nUtcOffset", two)
              f3 == Hex("reserved", one)
              f4 == Us(own, one)
              f5 == U("nGrandmasterVariance", two)
              f6 == U("nGrandmasterPriority2", one)
              f7 == Hex("sGrandmasterClockId", eight)
              f8 == U("nStepsRemoved", two)
              f9 == U("eTimeSource", one)
              octets == Create(ptpAnnounce, announce)
  <1>1. /\ announce["nUtcOffset"] \in Word /\ announce["nGrandmasterVariance"] \in Word
        /\ announce["nStepsRemoved"] \in Word
        /\ announce["nGrandmasterPriority1"] \in Octet /\ announce["nGrandmasterClass"] \in Octet
        /\ announce["eGrandmasterAccuracy"] \in Octet
        /\ announce["nGrandmasterPriority2"] \in Octet /\ announce["eTimeSource"] \in Octet
    BY DEF Announcements
  <1>2. /\ announce["nUtcOffset"] \in Int /\ announce["nGrandmasterVariance"] \in Int
        /\ announce["nStepsRemoved"] \in Int /\ announce["nGrandmasterPriority2"] \in Int
        /\ announce["eTimeSource"] \in Int
    BY <1>1, WordIs, OctetIs
  <1>3. announce["reserved"] \in Bytes /\ announce["sGrandmasterClockId"] \in Bytes
    <2>1. announce["reserved"] \in [1 .. 1 -> Octet]
      BY DEF Announcements
    <2>2. announce["sGrandmasterClockId"] \in [1 .. 8 -> Octet]
      BY DEF Announcements, Identities
    <2>3. \A n \in {1, 8} : \A x \in [1 .. n -> Octet] : x \in Bytes
      <3>. DEFINE S == Octet
      <3>. HIDE DEF S
      <3>1. \A n \in Nat : \A x \in [1 .. n -> S] : x \in Seq(S)
        OBVIOUS
      <3>. QED BY <3>1 DEF Bytes, S
    <2>. QED BY <2>1, <2>2, <2>3
  <1>4. /\ "originTime" \in names /\ "nUtcOffset" \in names /\ "reserved" \in names
        /\ "nGrandmasterVariance" \in names /\ "nGrandmasterPriority2" \in names
        /\ "sGrandmasterClockId" \in names /\ "nStepsRemoved" \in names
        /\ "eTimeSource" \in names
        /\ one \in 1 .. 128 /\ two \in 1 .. 128 /\ eight \in 1 .. 128 /\ one \in Widths
    BY DEF Widths
  <1>5. own \in Seq(names) /\ Len(own) = 3 /\ own[1] = "nGrandmasterPriority1"
        /\ own[2] = "nGrandmasterClass" /\ own[3] = "eGrandmasterAccuracy"
    OBVIOUS
  <1>6. announce["originTime"] \in Nat
    BY DEF IsTime
  <1>7. ptpAnnounce = f1 \o f2 \o f3 \o f4 \o f5 \o f6 \o f7 \o f8 \o f9
    BY DEF ptpAnnounce
  <1>8. Received(f4)
    BY LaidUs3 DEF Widths
  <1>9. TlvRead(ptpAnnounce)
    BY AnnounceLaid DEF TlvRead
  <1>. HIDE DEF names, own, one, two, eight
  <1>10. \A i \in 1 .. Len(own) : FitsUnsigned(announce[own[i]], one)
    <2>1. \A i \in 1 .. 3 : i = 1 \/ i = 2 \/ i = 3
      OBVIOUS
    <2>2. \A i \in 1 .. Len(own) : announce[own[i]] \in Octet
      BY <1>1, <1>5, <2>1
    <2>. QED BY <1>4, <2>2, OctetFits
  <1>11. CanPush(names, f4, announce)
    <2>1. Suited(names, f4, announce)
      BY <1>4, <1>5, <1>10, SuitedUs
    <2>. HIDE DEF f4
    <2>. QED BY <1>8, <2>1, SuitedCanPush
  <1>12. /\ CanPush(names, f2, announce) /\ CanPush(names, f5, announce)
         /\ CanPush(names, f6, announce) /\ CanPush(names, f8, announce)
         /\ CanPush(names, f9, announce)
    BY <1>2, <1>4, CanPushNumber
  <1>13. CanPush(names, f3, announce) /\ CanPush(names, f7, announce)
    BY <1>3, <1>4, PushHex DEF Pushes
  <1>14. Long(names, f1, announce)
    BY <1>4, <1>6, LongTime
  <1>. HIDE DEF f1, f2, f3, f4, f5, f6, f7, f8, f9
  <1>. DEFINE s2 == f1 \o f2
              s3 == s2 \o f3
              s4 == s3 \o f4
              s5 == s4 \o f5
              s6 == s5 \o f6
              s7 == s6 \o f7
              s8 == s7 \o f8
              s9 == s8 \o f9
  <1>15. ptpAnnounce = s9
    BY <1>7
  <1>16. Long(names, s2, announce)
    BY <1>12, <1>14, LongJoin
  <1>. HIDE DEF s2
  <1>17. Long(names, s3, announce)
    BY <1>13, <1>16, LongJoin
  <1>. HIDE DEF s3
  <1>18. Long(names, s4, announce)
    BY <1>11, <1>17, LongJoin
  <1>. HIDE DEF s4
  <1>19. Long(names, s5, announce)
    BY <1>12, <1>18, LongJoin
  <1>. HIDE DEF s5
  <1>20. Long(names, s6, announce)
    BY <1>12, <1>19, LongJoin
  <1>. HIDE DEF s6
  <1>21. Long(names, s7, announce)
    BY <1>13, <1>20, LongJoin
  <1>. HIDE DEF s7
  <1>22. Long(names, s8, announce)
    BY <1>12, <1>21, LongJoin
  <1>. HIDE DEF s8
  <1>23. Long(names, s9, announce)
    BY <1>12, <1>22, LongJoin
  <1>. DEFINE n == Len(octets)
  <1>24. octets \in Bytes /\ n >= 10
    BY <1>15, <1>23 DEF Long, Pushes
  <1>25. n <= 6400
    <2>. DEFINE all == NamesOf(ptpAnnounce)
    <2>1. ptpAnnounce \in Seq(Fields(all))
      BY AnnounceLaid DEF Laid, IsLayout
    <2>2. CanWrite(ptpAnnounce, announce)
      BY <1>15, <1>23 DEF Long, Pushes, CanPush
    <2>3. Len(ptpAnnounce) = 11
      BY AnnounceLaid DEF SizeOf
    <2>. HIDE DEF all, octets
    <2>4. Len(octets) <= FieldSize * Len(ptpAnnounce)
      BY <2>1, <2>2, CreateType DEF octets
    <2>5. n \in Nat
      BY <1>24, BytesAre
    <2>. QED BY <2>3, <2>4, <2>5 DEF FieldSize
  <1>26. n \in Nat
    BY <1>24, BytesAre
  <1>27. OfSize(octets, n)
    BY <1>24, <1>26 DEF OfSize
  <1>. HIDE DEF n, octets
  <1>. QED BY <1>24, <1>25, <1>26, <1>27 DEF octets

(* An announce comes back.                                                 *)
LEMMA AnnounceIsUnderstood ==
  ASSUME NEW announce \in Announces, NEW domain \in Domains, Announced(announce, domain)
  PROVE  WellMeant(arriving')
  <1>. DEFINE payload == Create(ptpAnnounce, announce)
              zero == 0
              type == 11
  <1>1. announce \in Announcements /\ IsTime(announce.originTime)
    BY ManagementAssumption
  <1>2. PICK n \in Nat : n # 0 /\ n <= 6500 /\ OfSize(payload, n)
    BY <1>1, AnnounceSize
  <1>3. ComesBack(Layout(type), payload, announce)
    BY <1>1, AnnounceComesBack DEF Layout
  <1>4. zero \in Word /\ type \in {0, 1, 8, 9, 11} /\ type = kAnnounce
    BY WordIs DEF kAnnounce
  <1>5. Arrive(Master, kAnnounce, domain, zero, payload, {}, announce)
    BY DEF Announced
  <1>. HIDE DEF payload, zero, type
  <1>6. Arrives(type, domain, Master, zero, payload, {}, announce)
    BY <1>4, <1>5, ArriveIs
  <1>7. OfSize(Master.id, 8) /\ Master.port \in Word
    BY ManagementAssumption, DeviceIs
  <1>. QED BY <1>2, <1>3, <1>4, <1>6, <1>7, TimedUnderstood

(* What is overheard is what was asked, with the identity of the other.    *)
LEMMA OverheardIs ==
  ASSUME NEW device \in Ports, Overhear(device),
         NEW type \in Int, NEW sequence \in Word, NEW interval \in Int,
         NEW n \in Nat, NEW payload, OfSize(payload, n),
         asked.octets = Message(type, m_nDomain, Machine, sequence, interval, payload)
  PROVE  /\ arriving'.octets = Message(type, m_nDomain, device, sequence, interval, payload)
         /\ arriving'.setting = {}
         /\ arriving'.meant = [sequence |-> sequence,
                               contents |-> IF asked.type = kDelayReq THEN asked.data ELSE None]
  <1>. DEFINE octets == asked.octets
              heard == WithSource(octets, device)
  <1>1. Headed(type, m_nDomain, Machine, sequence, interval)
    BY MachineIs
  <1>2. device.id \in Bytes /\ device.port \in Int
    BY DeviceIs, WordIs DEF OfSize
  <1>3. Create(Pid("id", "port"), device) = IdentityOctets(device)
    BY DevicePid
  <1>4. /\ arriving'.octets = heard /\ arriving'.setting = {}
        /\ arriving'.meant = [sequence |-> SequenceOf(octets),
                              contents |-> IF asked.type = kDelayReq THEN asked.data ELSE None]
    BY <1>3 DEF Overhear, WithSource
  <1>. HIDE DEF octets
  <1>5. /\ heard = Message(type, m_nDomain, device, sequence, interval, payload)
        /\ Holds(octets, 31, 32, Octets(sequence, 2))
    <2>1. octets = Message(type, m_nDomain, Machine, sequence, interval, payload)
      BY DEF octets
    <2>. QED BY <1>1, <1>2, <2>1, AnotherSource
  <1>. HIDE DEF heard
  <1>6. SequenceOf(octets) = sequence
    BY <1>5, NumberAt DEF SequenceOf
  <1>. QED BY <1>4, <1>5, <1>6

(* A Delay_Req of another machine is understood.                           *)
LEMMA OverheardDelay ==
  ASSUME NEW device \in Ports, Overhear(device), NEW sequence \in SequenceIds,
         DelayRequested(asked, sequence)
  PROVE  WellMeant(arriving')
  <1>. DEFINE type == 1
              zero == 0
              n == 10
  <1>1. PICK now \in Times :
          /\ asked.data = [originTime |-> now]
          /\ asked.octets = Message(kDelayReq, m_nDomain, Machine, sequence, 0, FromSecNano(now))
    BY DEF DelayRequested
  <1>. DEFINE payload == FromSecNano(now)
              contents == [originTime |-> now]
  <1>2. asked.type = kDelayReq /\ asked.data = contents
        /\ asked.octets = Message(type, m_nDomain, Machine, sequence, zero, payload)
    BY <1>1 DEF DelayRequested, kDelayReq
  <1>3. IsTime(now) /\ now \in Nat /\ sequence \in Word
    BY ManagementAssumption DEF IsTime
  <1>4. ComesBack(Layout(type), payload, contents)
    BY <1>3, TimestampComesBack DEF Layout
  <1>5. OfSize(payload, n)
    BY <1>3, SizeTime
  <1>6. n \in Nat /\ n # 0 /\ n <= 6500 /\ type \in Int /\ type \in {0, 1, 8, 9, 11} /\ zero \in Int
        /\ zero = 0
    OBVIOUS
  <1>. HIDE DEF payload, contents, n, zero, type
  <1>7. /\ arriving'.octets = Message(type, m_nDomain, device, sequence, zero, payload)
        /\ arriving'.setting = {}
        /\ arriving'.meant = [sequence |-> sequence, contents |-> contents]
    BY <1>2, <1>3, <1>5, <1>6, OverheardIs
  <1>8. Arrives(type, m_nDomain, device, sequence, payload, {}, contents)
    BY <1>6, <1>7 DEF Arrives
  <1>9. m_nDomain \in Domains /\ OfSize(device.id, 8) /\ device.port \in Word
    BY ManagementAssumption, DeviceIs
  <1>. QED BY <1>3, <1>4, <1>5, <1>6, <1>8, <1>9, TimedUnderstood

(* A request of another machine is no response, and has no data.           *)
LEMMA OverheardRequest ==
  ASSUME Managed, NEW device \in Ports, Overhear(device), NEW sequence \in SequenceIds,
         Requested(asked, sequence)
  PROVE  WellMeant(arriving')
  <1>. DEFINE identity == m_target.identity.octets
              number == m_target.number
              action == asked.action
              id == asked.id
              data == asked.data
              tlv == CreateTlv(id, data)
              target == [id |-> TargetId(identity, number), port |-> TargetPort(identity, number)]
              made == CreatePayload(action, m_nHops, identity, number, tlv)
              type == 13
              interval == 127
  <1>1. identity \in Bytes /\ number \in Word /\ m_nHops \in Octet /\ sequence \in Word
    BY ManagementAssumption DEF Managed
  <1>2. /\ action \in {"kGet", "kSet"} /\ CanCarry(id, data) /\ asked.type # kDelayReq
        /\ asked.octets = Message(type, m_nDomain, Machine, sequence, interval, made)
    BY DEF Requested, kManagementMessage, kDelayReq
  <1>. HIDE DEF identity, number, action, id, data
  <1>3. /\ OfSize(target.id, 8) /\ target.port \in Word
        /\ \E k \in Nat, code \in {0, 1} :
             /\ k <= 6500 /\ OfSize(tlv, k)
             /\ made = PayloadOf(IdentityOctets(target), m_nHops, code, tlv)
    BY <1>1, <1>2, RequestPayload
  <1>. HIDE DEF tlv, target, made
  <1>4. PICK k \in Nat, code \in {0, 1} :
          /\ k <= 6500 /\ OfSize(tlv, k)
          /\ made = PayloadOf(IdentityOctets(target), m_nHops, code, tlv)
    BY <1>3
  <1>. DEFINE n == 14 + k
              l == 34 + n
              message == arriving'
              octets == message.octets
              header == HeaderContents(type, l, m_nDomain, device, sequence, interval)
  <1>5. n \in Nat /\ n = 14 + k /\ n # 0 /\ l \in Nat /\ l = 34 + n /\ l <= 6600
    BY <1>4
  <1>6. /\ type \in Int /\ interval \in Int /\ interval \in {0, 127}
        /\ type \in {0, 1, 8, 9, 11, 13} /\ type = 13
    OBVIOUS
  <1>7. m_nHops \in Int /\ code \in Int /\ code \in {0, 1, 2} /\ code # 2
    BY <1>1, OctetIs
  <1>. HIDE DEF n, l, type, interval
  <1>8. OfSize(made, n)
    <2>. DEFINE pid == IdentityOctets(target)
    <2>1. OfSize(pid, 10)
      <3>1. target.id \in Bytes /\ target.port \in Int
        BY <1>3, WordIs DEF OfSize
      <3>. QED BY <3>1, IdentityIs
    <2>2. OfSize(tlv, k) /\ n \in Nat /\ n = 14 + k /\ m_nHops \in Int /\ code \in Int
      BY <1>4, <1>5, <1>7
    <2>. HIDE DEF pid
    <2>3. OfSize(PayloadOf(pid, m_nHops, code, tlv), n)
      BY <2>1, <2>2, PayloadIs
    <2>. QED BY <1>4, <2>3 DEF pid
  <1>9. /\ octets = Message(type, m_nDomain, device, sequence, interval, made)
        /\ message.setting = {} /\ message.meant = [sequence |-> sequence, contents |-> None]
    BY <1>1, <1>2, <1>5, <1>6, <1>8, OverheardIs
  <1>10. HeaderFits(type, l, m_nDomain, device, sequence, interval)
    <2>1. m_nDomain \in Domains /\ OfSize(device.id, 8) /\ device.port \in Word
      BY ManagementAssumption, DeviceIs
    <2>. QED BY <1>1, <1>5, <1>6, <2>1, FitsHeader
  <1>. HIDE DEF message, octets
  <1>11. ASSUME NEW next \in Octet
         PROVE  /\ octets \in Bytes /\ Len(octets) > HeaderSize
                /\ HeaderFound(octets, next) = header
                /\ PayloadFound(octets, next) = Followed(made, next)
    <2>1. n \in Nat /\ n # 0 /\ l \in Nat /\ l = 34 + n
      BY <1>5
    <2>2. /\ OfSize(made, n) /\ octets = Message(type, m_nDomain, device, sequence, interval, made)
          /\ header = HeaderContents(type, l, m_nDomain, device, sequence, interval)
      BY <1>8, <1>9
    <2>. HIDE DEF header
    <2>. QED BY <1>10, <2>1, <2>2, MessageFound
  <1>12. header.nType = 13 /\ header.nSequenceId = sequence /\ header.nDomain = m_nDomain
    BY <1>6 DEF HeaderContents
  <1>. HIDE DEF header
  <1>13. octets \in Bytes
    <2>1. 0 \in Octet
      BY OctetIs
    <2>. QED BY <1>11, <2>1
  <1>14. ASSUME NEW next \in Extra, NEW m, m = Parsed(octets, next), m # None
         PROVE  /\ Told(m) = [sequence |-> sequence, contents |-> None]
                /\ m.header.nType = 13
    <2>. DEFINE after == Followed(made, next)
    <2>1. next \in Octet
      BY ManagementAssumption
    <2>2. /\ octets \in Bytes /\ Len(octets) > HeaderSize
          /\ HeaderFound(octets, next) = header /\ PayloadFound(octets, next) = after
      BY <1>11, <2>1
    <2>3. after = Followed(PayloadOf(IdentityOctets(target), m_nHops, code, tlv), next)
      BY <1>4
    <2>. HIDE DEF after
    <2>4. m.header = header /\ m.payload = ptpManagement(after)
      BY <1>12, <1>14, <2>2, ParsedIs
    <2>5. ptpManagement(after).pTlv = None
      BY <1>1, <1>3, <1>4, <1>7, <2>1, <2>3, ManagementFound
    <2>. QED BY <1>12, <2>4, <2>5 DEF Told, kManagementMessage
  <1>15. ASSUME NEW next \in Extra, NEW m, m = Parsed(message.octets, next), m # None
         PROVE  /\ AsMeant(message.setting, Told(m), message.meant)
                /\ m.header.nType = kAnnounce => message.setting = {}
    BY <1>9, <1>14, <1>15 DEF AsMeant, octets
  <1>16. WellMeant(message)
    BY <1>13, <1>15 DEF WellMeant, octets
  <1>. QED BY <1>16 DEF message

(* A message that a device sends unasked is meant as it is read.           *)
LEMMA OverheardIsUnderstood ==
  ASSUME Managed, AskedWell, NEW device \in Ports, Overhear(device)
  PROVE  WellMeant(arriving')
  <1>1. PICK sequence \in SequenceIds : Requested(asked, sequence) \/ DelayRequested(asked, sequence)
    BY DEF AskedWell, Overhear
  <1>. QED BY <1>1, OverheardDelay, OverheardRequest

-----------------------------------------------------------------------------
(* What is on its way is understood, and so is what is told.               *)

(* Whatever is on its way will be understood.                              *)
Understood == arriving # None => WellMeant(arriving)

(* Whatever a handler is told is what was meant, if a message can carry it.*)
ToldWell == told # None => AsMeant(told.setting, told.read, told.meant)

(* What this machine asks, configures or is done with brings nothing.      *)
LEMMA NothingArrives ==
  ASSUME Understood, arriving' = arriving \/ arriving' = None
  PROVE  Understood'
  BY DEF Understood

(* What a device sends is understood.                                      *)
LEMMA DeviceIsUnderstood ==
  ASSUME Managed, AskedWell, NEW device \in Ports,
         \/ \E k \in Devices : AnswerGet(device, k)
         \/ AnswerSet(device)
         \/ Overhear(device)
         \/ \E error \in Errors, text \in Texts : AnswerError(device, error, text)
  PROVE  WellMeant(arriving')
  <1>1. ASSUME NEW k \in Devices, AnswerGet(device, k)
        PROVE  WellMeant(arriving')
    BY <1>1, GetIsUnderstood
  <1>2. CASE AnswerSet(device)
    BY <1>2, SetIsUnderstood
  <1>3. CASE Overhear(device)
    BY <1>3, OverheardIsUnderstood
  <1>4. ASSUME NEW error \in Errors, NEW text \in Texts, AnswerError(device, error, text)
        PROVE  WellMeant(arriving')
    BY <1>4, ErrorIsUnderstood
  <1>. QED BY <1>1, <1>2, <1>3, <1>4

(* Every message that comes is understood.                                 *)
LEMMA UnderstoodStep == Managed /\ AskedWell /\ Understood /\ [Next]_vars => Understood'
  <1>. SUFFICES ASSUME Managed, AskedWell, Understood, [Next]_vars
                PROVE  Understood'
    OBVIOUS
  <1>1. CASE UNCHANGED vars
    BY <1>1, NothingArrives DEF vars
  <1>2. CASE Application
    <2>1. \A nHops : SetHops(nHops) => arriving' = arriving
      BY DEF SetHops, Configure
    <2>2. \A target : Target(target) => arriving' = arriving
      BY DEF Target, Configure
    <2>3. \A id : Get(id) => arriving' = arriving
      BY DEF Get, SendManagement, Ask
    <2>4. SetAny => arriving' = arriving
      <3>1. SetAny => \E id, data : Set(id, data)
        BY SetAnyIsSet
      <3>. QED BY <3>1 DEF Set, SendManagement, Ask
    <2>. QED BY <1>2, <2>1, <2>2, <2>3, <2>4, NothingArrives DEF Application
  <1>3. ASSUME WellMeant(arriving')
        PROVE  Understood'
    BY <1>3 DEF Understood
  <1>4. CASE Network
    <2>1. ASSUME NEW device \in Ports,
                 \/ \E k \in Devices : AnswerGet(device, k)
                 \/ AnswerSet(device)
                 \/ Overhear(device)
                 \/ \E error \in Errors, text \in Texts : AnswerError(device, error, text)
          PROVE  Understood'
      BY <1>3, <2>1, DeviceIsUnderstood
    <2>2. ASSUME NEW now \in Times, DelayResponse(now)
          PROVE  Understood'
      BY <1>3, <2>2, DelayIsUnderstood
    <2>3. ASSUME NEW now \in Times, NEW type \in {kSync, kFollowUp}, SyncOrFollowUp(type, now)
          PROVE  Understood'
      BY <1>3, <2>3, SyncIsUnderstood
    <2>4. ASSUME NEW announce \in Announces, NEW domain \in Domains, Announced(announce, domain)
          PROVE  Understood'
      BY <1>3, <2>4, AnnounceIsUnderstood
    <2>5. CASE Lose
      BY <2>5, NothingArrives DEF Lose
    <2>. QED BY <1>4, <2>1, <2>2, <2>3, <2>4, <2>5 DEF Network
  <1>5. CASE Library
    <2>1. \A now : SendDelayRequest(now) => arriving' = arriving
      BY DEF SendDelayRequest, Ask
    <2>2. \A next : DoReceive(next) => arriving' = None
      BY DEF DoReceive
    <2>3. Return \/ WaitError => arriving' = arriving
      BY DEF Return, WaitError
    <2>. QED BY <1>5, <2>1, <2>2, <2>3, NothingArrives DEF Library
  <1>. QED BY <1>1, <1>2, <1>4, <1>5 DEF Next

(* Only DoReceive tells a handler anything, or changes what is known.      *)
LEMMA OnlyReceivedIsTold ==
  ASSUME Next, \A next \in Extra : ~DoReceive(next)
  PROVE  details' = details /\ reported' = reported /\ (told' = told \/ told' = None)
  <1>. DEFINE Same == UNCHANGED receiver
  <1>1. CASE Application
    <2>1. \A nHops : SetHops(nHops) => Same
      BY DEF SetHops, Configure
    <2>2. \A target : Target(target) => Same
      BY DEF Target, Configure
    <2>3. \A id : Get(id) => Same
      BY DEF Get, SendManagement, Ask
    <2>4. SetAny => Same
      <3>1. SetAny => \E id, data : Set(id, data)
        BY SetAnyIsSet
      <3>. QED BY <3>1 DEF Set, SendManagement, Ask
    <2>5. Same
      <3>. HIDE DEF Same
      <3>. QED BY <1>1, <2>1, <2>2, <2>3, <2>4 DEF Application
    <2>. QED BY <2>5 DEF receiver
  <1>2. CASE Network
    <2>1. \A device, type, tlv, setting, meant :
            Respond(device, type, tlv, setting, meant) => Same
      BY DEF Respond
    <2>2. \A device, k : AnswerGet(device, k) => Same
      <3>. HIDE DEF Same
      <3>. QED BY <2>1 DEF AnswerGet
    <2>3. \A device : AnswerSet(device) => Same
      <3>. HIDE DEF Same
      <3>. QED BY <2>1 DEF AnswerSet
    <2>4. \A device, error, text : AnswerError(device, error, text) => Same
      <3>. HIDE DEF Same
      <3>. QED BY <2>1 DEF AnswerError
    <2>5. \A device : Overhear(device) => Same
      BY DEF Overhear
    <2>6. \A now : DelayResponse(now) => Same
      BY DEF DelayResponse
    <2>7. \A type, now : SyncOrFollowUp(type, now) => Same
      BY DEF SyncOrFollowUp
    <2>8. \A announce, domain : Announced(announce, domain) => Same
      BY DEF Announced
    <2>9. Lose => Same
      BY DEF Lose
    <2>10. Same
      <3>. HIDE DEF Same
      <3>. QED BY <1>2, <2>2, <2>3, <2>4, <2>5, <2>6, <2>7, <2>8, <2>9 DEF Network
    <2>. QED BY <2>10 DEF receiver
  <1>3. CASE Library
    <2>1. ASSUME NEW now \in Times, SendDelayRequest(now)
          PROVE  Same
      BY <2>1 DEF SendDelayRequest, Ask
    <2>2. CASE Return
      BY <2>2 DEF Return
    <2>3. CASE WaitError
      BY <2>3 DEF WaitError
    <2>4. Same \/ Return \/ WaitError
      <3>. HIDE DEF Same
      <3>. QED BY <1>3, <2>1 DEF Library
    <2>. QED BY <2>2, <2>3, <2>4 DEF receiver
  <1>. QED BY <1>1, <1>2, <1>3 DEF Next

(* What DoReceive tells a handler.                                         *)
LEMMA ReceivedIsTold ==
  ASSUME Understood, NEW next \in Extra, DoReceive(next), NEW message,
         message = Parsed(arriving.octets, next), message # None
  PROVE  /\ HandleParsedMessage(message)
         /\ told'.type = message.header.nType /\ told'.setting = arriving.setting
         /\ told'.meant = arriving.meant /\ told'.read = Told(message)
         /\ told'.first = (details = None)
         /\ AsMeant(arriving.setting, Told(message), arriving.meant)
         /\ message.header.nType = kAnnounce => arriving.setting = {}
  <1>1. HandleParsedMessage(message) /\ arriving # None
    BY DEF DoReceive, Parsed
  <1>2. /\ told'.type = message.header.nType /\ told'.setting = arriving.setting
        /\ told'.meant = arriving.meant /\ told'.read = Told(message)
        /\ told'.first = (details = None)
    BY <1>1 DEF HandleParsedMessage, Told
  <1>3. WellMeant(arriving)
    BY <1>1 DEF Understood
  <1>. QED BY <1>1, <1>2, <1>3 DEF WellMeant

(* A datagram that is no message tells nothing.                            *)
LEMMA NothingIsTold ==
  ASSUME NEW next \in Extra, DoReceive(next), Parsed(arriving.octets, next) = None
  PROVE  details' = details /\ reported' = reported /\ told' = told
  BY DEF DoReceive, Parsed

(* Whatever a step tells the handlers of is what arrived.                  *)
LEMMA ToldStep == Understood /\ ToldWell /\ [Next]_vars => ToldWell'
  <1>. SUFFICES ASSUME Understood, ToldWell, [Next]_vars
                PROVE  ToldWell'
    OBVIOUS
  <1>1. ASSUME told' = told \/ told' = None
        PROVE  ToldWell'
    BY <1>1 DEF ToldWell
  <1>2. CASE UNCHANGED vars
    BY <1>1, <1>2 DEF vars, receiver
  <1>3. ASSUME NEW next \in Extra, DoReceive(next)
        PROVE  ToldWell'
    <2>. DEFINE message == Parsed(arriving.octets, next)
    <2>1. CASE message = None
      BY <1>1, <1>3, <2>1, NothingIsTold
    <2>2. CASE message # None
      <3>. HIDE DEF message
      <3>1. /\ told'.setting = arriving.setting /\ told'.meant = arriving.meant
            /\ told'.read = Told(message)
            /\ AsMeant(arriving.setting, Told(message), arriving.meant)
        BY <1>3, <2>2, ReceivedIsTold DEF message
      <3>. QED BY <3>1 DEF ToldWell
    <2>. QED BY <2>1, <2>2
  <1>4. ASSUME Next, \A next \in Extra : ~DoReceive(next)
        PROVE  ToldWell'
    BY <1>1, <1>4, OnlyReceivedIsTold
  <1>. QED BY <1>2, <1>3, <1>4

(* What an announce that is understood changes is reported.                *)
LEMMA AnnounceIsReported ==
  ASSUME reported = details, NEW message, message.header.nType = kAnnounce,
         HandleParsedMessage(message), NEW meant, message.payload = meant
  PROVE  /\ reported' = details'
         /\ \A field \in Compared : details'.announced[field] = meant[field]
         /\ details # None => details'.sGrandmasterClockId = meant.sGrandmasterClockId
  <1>1. Announce(message)
    BY DEF HandleParsedMessage
  <1>. DEFINE known(gm, isMaster) == Describe(message, gm, isMaster)
  <1>2. ASSUME NEW gm, NEW isMaster
        PROVE  /\ known(gm, isMaster).sGrandmasterClockId = gm
               /\ \A field \in Compared : known(gm, isMaster).announced[field] = meant[field]
    BY DEF Describe
  <1>. HIDE DEF known
  <1>3. CASE details = None
    <2>. DEFINE first == PtpV2Clock(message)
    <2>1. details' = first /\ reported' = first
      BY <1>1, <1>3 DEF Announce
    <2>2. \A field \in Compared : first.announced[field] = meant[field]
      BY DEF PtpV2Clock, Describe
    <2>. HIDE DEF first
    <2>. QED BY <1>3, <2>1, <2>2
  <1>4. CASE details # None
    <2>. DEFINE gm == message.payload.sGrandmasterClockId
                isMaster == IF gm = details.sGrandmasterClockId THEN details.m_bGrandMaster
                            ELSE gm = UpToColon(message.header.nSourceId)
    <2>1. /\ details' = known(gm, isMaster)
          /\ reported' = IF known(gm, isMaster) # details THEN known(gm, isMaster) ELSE reported
      BY <1>1, <1>4 DEF Announce, UpdateAnnounce, known
    <2>2. gm = meant.sGrandmasterClockId
      OBVIOUS
    <2>. HIDE DEF gm, isMaster
    <2>3. reported' = details'
      BY <2>1
    <2>. QED BY <1>2, <2>1, <2>2, <2>3
  <1>. QED BY <1>3, <1>4

(* Every step that changes what is known of a master reports it.           *)
LEMMA ReportedStep ==
  Understood /\ ChangesAreReported /\ [Next]_vars => ChangesAreReported'
  <1>. SUFFICES ASSUME Understood, ChangesAreReported, [Next]_vars
                PROVE  ChangesAreReported'
    OBVIOUS
  <1>1. ASSUME details' = details, reported' = reported, told' = told \/ told' = None
        PROVE  ChangesAreReported'
    BY <1>1 DEF ChangesAreReported
  <1>2. CASE UNCHANGED vars
    BY <1>1, <1>2 DEF vars, receiver
  <1>3. ASSUME NEW next \in Extra, DoReceive(next)
        PROVE  ChangesAreReported'
    <2>. DEFINE message == Parsed(arriving.octets, next)
    <2>1. CASE message = None
      BY <1>1, <1>3, <2>1, NothingIsTold
    <2>2. CASE message # None
      <3>. HIDE DEF message
      <3>1. /\ HandleParsedMessage(message)
            /\ told'.type = message.header.nType /\ told'.setting = arriving.setting
            /\ told'.meant = arriving.meant /\ told'.first = (details = None)
            /\ AsMeant(arriving.setting, Told(message), arriving.meant)
            /\ message.header.nType = kAnnounce => arriving.setting = {}
        BY <1>3, <2>2, ReceivedIsTold DEF message
      <3>2. reported = details
        BY DEF ChangesAreReported
      <3>3. CASE message.header.nType = kAnnounce
        <4>1. Told(message) = arriving.meant
          BY <3>1, <3>3 DEF AsMeant, Carries
        <4>2. message.payload = told'.meant.contents
          BY <3>1, <3>3, <4>1 DEF Told, kAnnounce, kManagementMessage
        <4>. DEFINE meant == told'.meant.contents
        <4>. HIDE DEF meant
        <4>3. /\ reported' = details'
              /\ \A field \in Compared : details'.announced[field] = meant[field]
              /\ details # None => details'.sGrandmasterClockId = meant.sGrandmasterClockId
          BY <3>1, <3>2, <3>3, <4>2, AnnounceIsReported DEF meant
        <4>. QED BY <3>1, <4>3 DEF ChangesAreReported, meant
      <3>4. CASE message.header.nType # kAnnounce
        <4>1. details' = details /\ reported' = reported
          BY <3>1, <3>4 DEF HandleParsedMessage
        <4>. QED BY <3>1, <3>2, <3>4, <4>1 DEF ChangesAreReported
      <3>. QED BY <3>3, <3>4
    <2>. QED BY <2>1, <2>2
  <1>4. ASSUME Next, \A next \in Extra : ~DoReceive(next)
        PROVE  ChangesAreReported'
    BY <1>1, <1>4, OnlyReceivedIsTold
  <1>. QED BY <1>2, <1>3, <1>4

(* Before anything happens there is nothing to be understood.              *)
LEMMA NothingAtFirst == Init => Understood /\ ToldWell /\ ChangesAreReported
  BY DEF Init, Understood, ToldWell, ChangesAreReported

(* What is asked, what is on its way and what is told, in every state.     *)
THEOREM MessagesAreUnderstood ==
  Spec => [](Managed /\ AskedWell /\ Understood /\ ToldWell /\ ChangesAreReported)
  <1>. DEFINE Inv == Managed /\ AskedWell /\ Understood /\ ToldWell /\ ChangesAreReported
  <1>1. Init => Inv
    BY ManagedInit, NothingAtFirst
  <1>2. Inv /\ [Next]_vars => Inv'
    BY ManagedStep, AskedStep, UnderstoodStep, ToldStep, ReportedStep
  <1>. QED BY <1>1, <1>2, PTL DEF Spec

(* The octets of messages on the network are octets.                       *)
LEMMA MessagesAreOctets == Managed /\ AskedWell /\ Understood => TypeOK
  <1>. SUFFICES ASSUME Managed, AskedWell, Understood
                PROVE  TypeOK
    OBVIOUS
  <1>1. /\ m_nHops \in Octet /\ receiving \in BOOLEAN
        /\ m_target.identity.octets \in Seq(Octet) /\ m_target.number \in Word
    BY DEF Managed, Bytes
  <1>2. ASSUME asked # None
        PROVE  asked.octets \in Seq(Octet)
    <2>1. PICK sequence \in SequenceIds :
            Requested(asked, sequence) \/ DelayRequested(asked, sequence)
      BY <1>2 DEF AskedWell
    <2>2. CASE Requested(asked, sequence)
      <3>1. \E n \in Nat : OfSize(asked.octets, n)
        BY <2>2, AskedIs
      <3>. QED BY <3>1 DEF OfSize, Bytes
    <2>3. CASE DelayRequested(asked, sequence)
      <3>1. OfSize(asked.octets, 44)
        BY <2>3, DelayIs
      <3>. QED BY <3>1 DEF OfSize, Bytes
    <2>. QED BY <2>1, <2>2, <2>3
  <1>3. ASSUME arriving # None
        PROVE  arriving.octets \in Seq(Octet)
    BY <1>3 DEF Understood, WellMeant, Bytes
  <1>. QED BY <1>1, <1>2, <1>3 DEF TypeOK

(* TypeOK is an invariant: what the Manager is given and what the devices  *)
(* send makes nothing but octets of the messages, whatever the sizes.      *)
THEOREM TypeCorrect == Spec => []TypeOK
  BY MessagesAreUnderstood, MessagesAreOctets, PTL

(* SettingsComeBack is an invariant: what a device confirms of a setting   *)
(* is read as the caller gave it, if the message can carry it.             *)
THEOREM SettingsAlwaysComeBack == Spec => []SettingsComeBack
  <1>1. ToldWell => SettingsComeBack
    <2>. SUFFICES ASSUME ToldWell, told # None, NEW setting \in told.setting,
                         Carried(setting.id, setting.data)
                  PROVE  told.read = told.meant
      BY DEF SettingsComeBack
    <2>. QED BY DEF ToldWell, AsMeant, Carries
  <1>. QED BY <1>1, MessagesAreUnderstood, PTL

(* AnswersAreUnderstood is an invariant: what handlers are told of a       *)
(* message is what the device that sent it means.                          *)
THEOREM AnswersAreAlwaysUnderstood == Spec => []AnswersAreUnderstood
  <1>1. ToldWell => AnswersAreUnderstood
    BY DEF ToldWell, AnswersAreUnderstood, AsMeant, Carries
  <1>. QED BY <1>1, MessagesAreUnderstood, PTL

(* ChangesAreReported is an invariant: the event handler knows the master  *)
(* as the registry does, and that is as it last announced itself.          *)
THEOREM ChangesAreAlwaysReported == Spec => []ChangesAreReported
  BY MessagesAreUnderstood, PTL
=============================================================================
