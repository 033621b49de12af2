------------------------------ MODULE PtpFields ------------------------------
(***************************************************************************)
(* The fields that the messages of source/ptpstructs.cpp consist of, and   *)
(* the conversions between a value and its octets that every message uses. *)
(***************************************************************************)
EXTENDS Integers, SequencesExt

Octet == 0 .. 255
Word == 0 .. 65535
SignedWord == -32768 .. 32767

\* What stands for every number too large for this module.
Huge == 2147483647

\* Faulty: the octets are not masked.
Octets_Unmasked(n, width) ==
  LET shifted[i \in 0 .. width] == IF i = 0 THEN n ELSE shifted[i - 1] \div 256
  IN  [k \in 1 .. width |-> shifted[width - k]]

\* Shifts and masks, from the least octet up; also of a negative number.
Octets(n, width) ==
  LET shifted[i \in 0 .. width] == IF i = 0 THEN n ELSE shifted[i - 1] \div 256
  IN  [k \in 1 .. width |-> shifted[width - k] % 256]

Number(octets, signed) ==
  LET read[i \in 0 .. Len(octets)] ==
        IF i = 0 THEN IF signed /\ octets[1] >= 128 THEN -1 ELSE 0
        ELSE LET high == read[i - 1]
             IN  IF high > Huge \div 256 - 1 THEN Huge ELSE high * 256 + octets[i]
  IN  read[Len(octets)]

Separator == 59

\* The parts between separators; empty ones are dropped.
SplitString(text) ==
  LET starts == {i \in DOMAIN text : text[i] # Separator
                                     /\ (i = 1 \/ text[i - 1] = Separator)}
      end(i) == Max({j \in i .. Len(text) : \A k \in i .. j : text[k] # Separator})
      start(k) == CHOOSE i \in starts : Cardinality({j \in starts : j < i}) = k - 1
  IN  [k \in 1 .. Cardinality(starts) |-> SubSeq(text, start(k), end(start(k)))]

\* Faulty: the number of characters loses its high bits.
FromStr_Narrow(text, width) == Octets(Len(text) % 8, width) \o text

FromStr(text, width) == Octets(Len(text), width) \o text

\* The text from a position on, or "?" unless there is more after it.
ToStr(octets, start, length) ==
  IF start + length <= Len(octets) THEN SubSeq(octets, start, start + length - 1)
                                   ELSE <<63>>

FromHexStr(hex, width) ==
  [i \in 1 .. width |-> IF i <= Len(hex) THEN hex[i] ELSE 0]

(* "<identity>-<number>": without an identity the number is the first part *)
(* and its digits are read as hexadecimal, and no number means all ports.  *)
FromPidStr(identity, number) ==
  IF identity = <<>>
  THEN FromHexStr(<<((number \div 10) % 10) * 16 + (number % 10)>>, 8) \o <<255, 255>>
  ELSE FromHexStr(identity, 8) \o Octets(number, 2)
-----------------------------------------------------------------------------
Field(name, kind, width) ==
  << [name |-> name, kind |-> kind, width |-> width, weights |-> {}] >>

Flags(name, kind, width, weights) ==
  << [name |-> name, kind |-> kind, width |-> width, weights |-> weights] >>

U(name, width)    == Field(name, "unsigned", width)
I(name, width)    == Field(name, "signed", width)
Hex(name, width)  == Field(name, "hex", width)
Text(name)        == Field(name, "text", 1)
Us(names, width)  == FlattenSeq([i \in DOMAIN names |-> U(names[i], width)])
Pid(id, port)     == Hex(id, 8) \o U(port, 2)
\* Six octets of nanoseconds, which are read without a sign.
SubNano(nano, sub) == U(nano, 6) \o U(sub, 2)
=============================================================================
