----------------------------- MODULE PtpStructs -----------------------------
(***************************************************************************)
(* The messages of source/ptpstructs.cpp, as octets.                       *)
(*                                                                         *)
(* A CreateMessage pushes its fields one after the other, and the          *)
(* constructor for received messages reads them one after the other.  Both *)
(* are a layout, the sequence of the fields with what is pushed or read    *)
(* for each, and one layout where the two agree.  The contents of a        *)
(* message are a function from the names of its fields to their values:    *)
(*   "unsigned", "signed"        a number;                                 *)
(*   "nibble"                    a number whose low four bits are read;    *)
(*   "one", "nonzero"            0 or 1, a boolean;                        *)
(*   "bits" and the three after  the set of weights of the booleans that   *)
(*                               are true;                                 *)
(*   "hex"                       the octets of a string in hexadecimal;    *)
(*   "counted"                   octets, or characters, after their number;*)
(*   "text"                      the same, read by ToStr;                  *)
(*   "name+location"             a pair of texts;                          *)
(*   "time"                      seconds and nanoseconds, as nanoseconds.  *)
(* No text holds a NUL, at which SplitString would end it.                 *)
(***************************************************************************)
EXTENDS PtpFields

CONSTANTS
  Second,           (* nanoseconds in a second: 10^9 in the code           *)
  MaxDescription    (* longest user description: 128 in the code           *)

ASSUME StructsAssumption ==
  /\ Second \in Nat \ {0} /\ Second <= 1000000000
  /\ MaxDescription \in 4 .. 255

FromSecNano(time) == Octets(time \div Second, 6) \o Octets(time % Second, 4)

ToSecNano(octets) ==
  Number(SubSeq(octets, 1, 6), FALSE) * Second + Number(SubSeq(octets, 7, 10), FALSE)

\* What CreateMessage pushes for a field.
Encode(field, value) ==
  CASE field.kind \in {"unsigned", "signed", "nibble", "one", "nonzero"} ->
         Octets(value, field.width)
    [] field.kind = "bits"     -> Octets(FoldSet(+, 0, value), field.width)
    [] field.kind = "least"    -> Octets(IF value = {} THEN 0 ELSE Min(value), field.width)
    [] field.kind = "greatest" -> Octets(IF value = {} THEN 0 ELSE Max(value), field.width)
    [] field.kind = "sixteens" -> Octets(16 * Cardinality(value), field.width)
    [] field.kind = "hex"      -> FromHexStr(value, field.width)
    [] field.kind \in {"counted", "text"} -> FromStr(value, field.width)
    [] field.kind = "name+location" ->
         LET both == value[1] \o <<Separator>> \o value[2]
         IN  FromStr(SubSeq(both, 1, Min({MaxDescription, Len(both)})), field.width)
    [] field.kind = "time"     -> FromSecNano(value)

\* What the constructor reads, and where it goes on.
Decode(field, octets, start) ==
  LET next   == start + field.width
      own    == SubSeq(octets, start, next - 1)
      number == Number(own, field.kind = "signed")
      text   == ToStr(octets, next, number)
      parts  == SplitString(text) \o << <<>>, <<>> >>
  IN  CASE field.kind \in {"unsigned", "signed"} -> [value |-> number, next |-> next]
        [] field.kind = "nibble"  -> [value |-> number % 16, next |-> next]
        [] field.kind = "one"     -> [value |-> IF number = 1 THEN 1 ELSE 0, next |-> next]
        [] field.kind = "nonzero" -> [value |-> IF number # 0 THEN 1 ELSE 0, next |-> next]
        [] field.kind \in {"bits", "least", "greatest", "sixteens"} ->
             [value |-> {w \in field.weights : (number \div w) % 2 = 1}, next |-> next]
        [] field.kind = "hex"     -> [value |-> own, next |-> next]
        [] field.kind = "counted" ->
             [value |-> SubSeq(octets, next, next + number - 1), next |-> next + number]
        [] field.kind = "text"    -> [value |-> text, next |-> next + number]
        [] field.kind = "name+location" ->
             [value |-> <<parts[1], parts[2]>>, next |-> next + number]
        [] field.kind = "time"    -> [value |-> ToSecNano(own), next |-> next]

Create(layout, contents) ==
  FlattenSeq([i \in DOMAIN layout |-> Encode(layout[i], contents[layout[i].name])])

Read(layout, octets) ==
  LET at[i \in 0 .. Len(layout)] ==
        IF i = 0 THEN [next |-> 1, contents |-> <<>>]
        ELSE LET before == at[i - 1]
                 field  == Decode(layout[i], octets, before.next)
             IN  [next |-> field.next,
                  contents |-> [name \in {layout[i].name} \cup DOMAIN before.contents |->
                                  IF name = layout[i].name THEN field.value
                                  ELSE before.contents[name]]]
  IN  at[Len(layout)].contents
-----------------------------------------------------------------------------
ptpV2Header ==
  Field("nType", "nibble", 1) \o Field("nVersion", "nibble", 1)
    \o U("nMessageLength", 2) \o U("nDomain", 1) \o Hex("reserved1", 1)
    \o U("nFlags", 2) \o Hex("nCorrection", 8) \o Hex("reserved2", 4)
    \o Pid("nSourceId", "nSourcePort") \o U("nSequenceId", 2)
    \o U("nControl", 1) \o I("nInterval", 1)

HeaderSize == 34

ptpV2Payload == Field("originTime", "time", 10)

ptpDelayResponse == ptpV2Payload \o Pid("nRequestId", "nRequestPort")

ptpAnnounce ==
  ptpV2Payload \o U("nUtcOffset", 2) \o Hex("reserved", 1)
    \o Us(<<"nGrandmasterPriority1", "nGrandmasterClass", "eGrandmasterAccuracy">>, 1)
    \o U("nGrandmasterVariance", 2) \o U("nGrandmasterPriority2", 1)
    \o Hex("sGrandmasterClockId", 8) \o U("nStepsRemoved", 2) \o U("eTimeSource", 1)
=============================================================================
