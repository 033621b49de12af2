---------------------------- MODULE CommonLemmas ----------------------------
(***************************************************************************)
(* Lemmas that have no constants and are cited by the proofs of several    *)
(* components.                                                             *)
(*                                                                         *)
(* First, induction over the natural numbers, and what it says of the      *)
(* folds of the community modules and of recursive functions.  The         *)
(* induction theorems of the library range over predicates; here a         *)
(* predicate is the set of the numbers it holds of, which a first-order    *)
(* prover can instantiate.                                                 *)
(*                                                                         *)
(* Then, by this induction, what the conversions of PtpFields make of      *)
(* numbers, flags and texts, and how the octets of a message are taken to  *)
(* pieces.                                                                 *)
(***************************************************************************)
EXTENDS PtpFields, SequenceTheorems, FiniteSetTheorems, WellFoundedInduction, TLAPS

(* A set of natural numbers that is not empty has a least element.         *)
LEMMA LeastNatural ==
  ASSUME NEW T, T \subseteq Nat, T # {}
  PROVE  \E least \in T : \A n \in T : least <= n
  <1>. DEFINE R == OpToRel(<, Nat)
  <1>1. IsWellFoundedOn(R, Nat)
    BY NatLessThanWellFounded
  <1>2. \A m, n \in Nat : m < n => <<m, n>> \in R
    BY DEF OpToRel
  <1>. HIDE DEF R
  <1>3. PICK least \in T : \A n \in T : ~(<<n, least>> \in R)
    BY <1>1, WFMin
  <1>4. least \in Nat
    OBVIOUS
  <1>5. ASSUME NEW n \in T
        PROVE  least <= n
    <2>1. n \in Nat /\ ~(n < least)
      BY <1>2, <1>3, <1>4
    <2>. QED BY <2>1, <1>4
  <1>. QED BY <1>5

(* A set with zero, and with the successor of each number in it, holds all. *)
LEMMA Induction ==
  ASSUME NEW T, 0 \in T, \A n \in Nat : n \in T => n + 1 \in T
  PROVE  Nat \subseteq T
  <1>. SUFFICES ASSUME Nat \ T # {}
                PROVE  FALSE
    OBVIOUS
  <1>1. PICK least \in Nat \ T : \A n \in Nat \ T : least <= n
    BY LeastNatural
  <1>2. least - 1 \in Nat /\ least - 1 \in T
    BY <1>1
  <1>. QED BY <1>1, <1>2

(* The same up to a number.                                                *)
LEMMA InductionUpTo ==
  ASSUME NEW n \in Nat, NEW T, 0 \in T, \A k \in 1 .. n : k - 1 \in T => k \in T
  PROVE  0 .. n \subseteq T
  <1>. DEFINE Reached == {k \in Nat : k <= n => k \in T}
  <1>1. 0 \in Reached
    OBVIOUS
  <1>2. ASSUME NEW k \in Nat, k \in Reached
        PROVE  k + 1 \in Reached
    <2>1. k + 1 <= n => k + 1 \in 1 .. n /\ k \in T /\ (k + 1) - 1 = k
      BY <1>2
    <2>. QED BY <2>1
  <1>. HIDE DEF Reached
  <1>3. Nat \subseteq Reached
    BY <1>1, <1>2, Induction
  <1>. QED BY <1>3 DEF Reached

(* A set of positive numbers up to n that is not empty has a greatest one.  *)
LEMMA GreatestIndex ==
  ASSUME NEW n \in Nat, NEW s \in SUBSET (1 .. n), s # {}
  PROVE  \E greatest \in s : \A i \in s : greatest >= i
  <1>. DEFINE T == {k \in Nat : \E i \in s : k = n - i}
  <1>1. PICK i \in s : TRUE
    OBVIOUS
  <1>2. n - i \in T
    OBVIOUS
  <1>3. T \subseteq Nat /\ T # {}
    BY <1>2
  <1>4. \A k \in T : \E j \in s : k = n - j
    OBVIOUS
  <1>5. \A j \in s : n - j \in T
    OBVIOUS
  <1>. HIDE DEF T
  <1>6. PICK least \in T : \A k \in T : least <= k
    BY <1>3, LeastNatural
  <1>7. PICK greatest \in s : least = n - greatest
    BY <1>4
  <1>8. ASSUME NEW j \in s
        PROVE  greatest >= j
    <2>1. n - greatest <= n - j
      BY <1>5, <1>6, <1>7
    <2>. QED BY <2>1
  <1>. QED BY <1>8

(* FoldLeft is a function on the sets of indices that takes off the last   *)
(* index of a set and applies a step to what it makes of the rest.         *)
IsLast(last, n) ==
  /\ last \in [(SUBSET (1 .. n)) \ {{}} -> 1 .. n]
  /\ \A s \in DOMAIN last : last[s] \in s /\ \A i \in s : last[s] >= i

IsFold(iter, n, values, base, step, last) ==
  /\ iter \in [SUBSET (1 .. n) -> values]
  /\ \A s \in SUBSET (1 .. n) :
       iter[s] = IF s = {} THEN base ELSE step[<<last[s], iter[s \ {last[s]}]>>]

(* There is such a function, for any step within a set of values.          *)
LEMMA FoldExists ==
  ASSUME NEW n \in Nat, NEW values, NEW base \in values,
         NEW step \in [(1 .. n) \X values -> values],
         NEW last, IsLast(last, n)
  PROVE  \E iter : IsFold(iter, n, values, base, step, last)
  <1>. DEFINE Folds(k, iter) == IsFold(iter, k, values, base, step, last)
              T == {k \in 0 .. n : \E iter : Folds(k, iter)}
  <1>1. 0 \in T
    <2>. DEFINE iter == [s \in SUBSET (1 .. 0) |-> base]
    <2>1. 1 .. 0 = {}
      OBVIOUS
    <2>2. Folds(0, iter)
      BY <2>1 DEF IsFold
    <2>. HIDE DEF iter, Folds
    <2>. QED BY <2>2
  <1>2. ASSUME NEW k \in 1 .. n, k - 1 \in T
        PROVE  k \in T
    <2>1. PICK iter : Folds(k - 1, iter)
      BY <1>2
    <2>. DEFINE next == [s \in SUBSET (1 .. k) |->
                           IF k \in s THEN step[<<k, iter[s \ {k}]>>] ELSE iter[s]]
    <2>2. \A s \in SUBSET (1 .. k) : s \ {k} \in SUBSET (1 .. k - 1)
      OBVIOUS
    <2>3. \A s \in SUBSET (1 .. k) : k \notin s => s \in SUBSET (1 .. k - 1)
      OBVIOUS
    <2>4. \A s \in SUBSET (1 .. k) : s \in SUBSET (1 .. n)
      OBVIOUS
    <2>5. next \in [SUBSET (1 .. k) -> values]
      BY <2>1, <2>2, <2>3 DEF IsFold
    <2>6. ASSUME NEW s \in SUBSET (1 .. k)
          PROVE  next[s] = IF s = {} THEN base ELSE step[<<last[s], next[s \ {last[s]}]>>]
      <3>1. CASE k \in s
        <4>1. last[s] = k
          BY <2>4, <3>1 DEF IsLast
        <4>2. s \ {k} \in SUBSET (1 .. k) /\ k \notin s \ {k}
          OBVIOUS
        <4>3. next[s \ {k}] = iter[s \ {k}]
          BY <4>2
        <4>4. next[s] = step[<<k, iter[s \ {k}]>>]
          BY <3>1
        <4>. HIDE DEF next
        <4>. QED BY <3>1, <4>1, <4>3, <4>4
      <3>2. CASE k \notin s
        <4>1. s \in SUBSET (1 .. k - 1)
          BY <3>2
        <4>2. next[s] = iter[s]
          BY <3>2
        <4>3. next[s \ {last[s]}] = iter[s \ {last[s]}]
          BY <3>2
        <4>. HIDE DEF next
        <4>. QED BY <2>1, <4>1, <4>2, <4>3 DEF IsFold
      <3>. QED BY <3>1, <3>2
    <2>7. Folds(k, next)
      BY <2>5, <2>6 DEF IsFold
    <2>. HIDE DEF next, Folds
    <2>. QED BY <2>7
  <1>3. n \in T
    <2>. HIDE DEF T
    <2>. QED BY <1>1, <1>2, InductionUpTo
  <1>. QED BY <1>3

(* A run of the step through the indices, from first to last.              *)
IsRun(run, n, values, base, step) ==
  /\ run \in [0 .. n -> values]
  /\ run[0] = base
  /\ \A k \in 1 .. n : run[k] = step[<<k, run[k - 1]>>]

(* A function on sets of indices that applies the step to each prefix.     *)
FoldsPrefixes(iter, n, values, base, step) ==
  /\ iter[{}] = base
  /\ \A k \in 1 .. n :
       iter[1 .. k - 1] \in values => iter[1 .. k] = step[<<k, iter[1 .. k - 1]>>]

(* What it makes of the prefixes is a run.                                 *)
RunOfFolds(iter, n) == [k \in 0 .. n |-> iter[1 .. k]]

LEMMA FoldRuns ==
  ASSUME NEW n \in Nat, NEW values, NEW base \in values,
         NEW step \in [(1 .. n) \X values -> values],
         NEW iter, FoldsPrefixes(iter, n, values, base, step)
  PROVE  IsRun(RunOfFolds(iter, n), n, values, base, step)
  <1>. DEFINE run == RunOfFolds(iter, n)
              T == {k \in 0 .. n : iter[1 .. k] \in values}
  <1>1. 1 .. 0 = {}
    OBVIOUS
  <1>2. 0 .. n \subseteq T
    <2>1. 0 \in T
      BY <1>1 DEF FoldsPrefixes
    <2>2. ASSUME NEW k \in 1 .. n, k - 1 \in T
          PROVE  k \in T
      <3>1. iter[1 .. k - 1] \in values /\ k \in 0 .. n
        BY <2>2
      <3>2. <<k, iter[1 .. k - 1]>> \in (1 .. n) \X values
        BY <3>1
      <3>. QED BY <3>1, <3>2 DEF FoldsPrefixes
    <2>. HIDE DEF T
    <2>. QED BY <2>1, <2>2, InductionUpTo
  <1>3. run \in [0 .. n -> values] /\ run[0] = base
    BY <1>1, <1>2 DEF FoldsPrefixes, RunOfFolds
  <1>4. \A k \in 1 .. n : k \in 0 .. n /\ k - 1 \in 0 .. n
    OBVIOUS
  <1>5. ASSUME NEW k \in 1 .. n
        PROVE  run[k] = step[<<k, run[k - 1]>>]
    <2>1. iter[1 .. k - 1] \in values
      BY <1>2, <1>4
    <2>. QED BY <1>4, <2>1 DEF FoldsPrefixes, RunOfFolds
  <1>. HIDE DEF run
  <1>. QED BY <1>3, <1>5 DEF IsRun, run

(* There is a run of any step within a set of values.                      *)
LEMMA RunExists ==
  ASSUME NEW n \in Nat, NEW values, NEW base \in values,
         NEW step \in [(1 .. n) \X values -> values]
  PROVE  \E run : IsRun(run, n, values, base, step)
  <1>. DEFINE T == {k \in 0 .. n : \E run : IsRun(run, k, values, base, step)}
  <1>1. 0 \in T
    <2>. DEFINE run == [i \in 0 .. 0 |-> base]
    <2>1. run \in [0 .. 0 -> values] /\ run[0] = base /\ 1 .. 0 = {}
      OBVIOUS
    <2>. HIDE DEF run
    <2>. QED BY <2>1 DEF IsRun
  <1>2. ASSUME NEW k \in 1 .. n, k - 1 \in T
        PROVE  k \in T
    <2>1. PICK run : IsRun(run, k - 1, values, base, step)
      BY <1>2
    <2>2. run[k - 1] \in values
      BY <2>1 DEF IsRun
    <2>. DEFINE last == step[<<k, run[k - 1]>>]
                next == [i \in 0 .. k |-> IF i = k THEN last ELSE run[i]]
    <2>3. last \in values
      BY <2>2
    <2>. HIDE DEF last
    <2>4. \A i \in 0 .. k : i # k => i \in 0 .. k - 1
      OBVIOUS
    <2>5. next \in [0 .. k -> values]
      BY <2>1, <2>3, <2>4 DEF IsRun
    <2>6. next[k] = last /\ \A i \in 0 .. k - 1 : next[i] = run[i]
      OBVIOUS
    <2>. HIDE DEF next
    <2>7. next[0] = base
      BY <2>1, <2>6 DEF IsRun
    <2>8. ASSUME NEW i \in 1 .. k
          PROVE  next[i] = step[<<i, next[i - 1]>>]
      <3>1. i - 1 \in 0 .. k - 1 /\ (i = k \/ i \in 1 .. k - 1)
        OBVIOUS
      <3>2. next[i - 1] = run[i - 1]
        BY <2>6, <3>1
      <3>3. CASE i = k
        BY <2>6, <3>2, <3>3 DEF last
      <3>4. CASE i \in 1 .. k - 1
        BY <2>1, <2>6, <3>2, <3>4 DEF IsRun
      <3>. QED BY <3>1, <3>3, <3>4
    <2>9. IsRun(next, k, values, base, step)
      BY <2>5, <2>7, <2>8 DEF IsRun
    <2>. QED BY <2>9
  <1>3. n \in T
    <2>. HIDE DEF T
    <2>1. 0 .. n \subseteq T
      BY <1>1, <1>2, InductionUpTo
    <2>. QED BY <2>1
  <1>. QED BY <1>3

(* A function that makes the steps of a run, whatever its values are.       *)
Runs(f, n, base, step) ==
  f[0] = base /\ \A i \in 1 .. n : f[i] = step[<<i, f[i - 1]>>]

(* A recursive function that starts and steps as a run does is the run.    *)
LEMMA RunIsUnique ==
  ASSUME NEW n \in Nat, NEW values, NEW base, NEW step,
         NEW run, IsRun(run, n, values, base, step),
         NEW f, Runs(f, n, base, step)
  PROVE  \A i \in 0 .. n : f[i] = run[i]
  <1>. DEFINE T == {i \in 0 .. n : f[i] = run[i]}
  <1>1. 0 \in T
    BY DEF IsRun, Runs
  <1>2. ASSUME NEW i \in 1 .. n, i - 1 \in T
        PROVE  i \in T
    <2>1. f[i - 1] = run[i - 1] /\ i \in 0 .. n
      BY <1>2
    <2>2. f[i] = step[<<i, run[i - 1]>>]
      BY <2>1 DEF Runs
    <2>3. run[i] = step[<<i, run[i - 1]>>]
      BY DEF IsRun
    <2>. QED BY <2>1, <2>2, <2>3
  <1>. HIDE DEF T
  <1>3. 0 .. n \subseteq T
    BY <1>1, <1>2, InductionUpTo
  <1>. QED BY <1>3 DEF T
-----------------------------------------------------------------------------
(* Octets, and numbers in so many of them.                                 *)

(* An interval of integers, whatever its bounds.                           *)
LEMMA InInterval ==
  ASSUME NEW a \in Int, NEW b \in Int
  PROVE  \A n : n \in a .. b <=> n \in Int /\ a <= n /\ n <= b
  OBVIOUS

(* An octet is a natural number below 256.                                 *)
LEMMA OctetIs == \A n : n \in Octet <=> n \in Nat /\ n < 256
  <1>. DEFINE max == 255
  <1>1. 0 \in Int /\ max \in Int /\ Octet = 0 .. max
    BY DEF Octet
  <1>2. max = 255
    OBVIOUS
  <1>. HIDE DEF max
  <1>. QED BY <1>1, <1>2, InInterval

(* A word of two octets is a natural number below 65536.                   *)
LEMMA WordIs == \A n : n \in Word <=> n \in Nat /\ n < 65536
  <1>. DEFINE max == 65535
  <1>1. Word = 0 .. max
    BY DEF Word
  <1>2. max \in Int
    BY SMT
  <1>3. max = 65535
    OBVIOUS
  <1>. HIDE DEF max
  <1>4. \A n : n \in 0 .. max <=> n \in Int /\ 0 <= n /\ n <= max
    BY <1>2, InInterval, SMT
  <1>5. \A n : n \in Word <=> n \in Int /\ 0 <= n /\ n <= max
    BY <1>1, <1>4
  <1>. QED BY <1>3, <1>5, SMT

(* A signed number of two octets.                                          *)
LEMMA SignedWordIs == \A n \in SignedWord : n \in Int /\ -32768 <= n /\ n <= 32767
  <1>. DEFINE min == -32768
              max == 32767
  <1>1. SignedWord = min .. max
    BY DEF SignedWord
  <1>2. min \in Int /\ max \in Int
    BY SMT
  <1>3. min = -32768 /\ max = 32767
    OBVIOUS
  <1>. HIDE DEF min, max
  <1>4. \A n : n \in min .. max <=> n \in Int /\ min <= n /\ n <= max
    BY <1>2, InInterval, SMT
  <1>5. \A n \in SignedWord : n \in Int /\ min <= n /\ n <= max
    BY <1>1, <1>4
  <1>. QED BY <1>3, <1>5

(* What Number saturates at is beyond any number of three octets, and so   *)
(* is a 256th of it of two.                                                *)
LEMMA HugeIs ==
  /\ Huge \in Nat /\ Huge > 2000000000
  /\ Huge \div 256 - 1 \in Nat /\ Huge \div 256 - 1 = 8388606
  BY SMT DEF Huge

(* A number shifted by eight bits at a time.                               *)
IsShifted(shifted, n, width) ==
  /\ shifted \in [0 .. width -> Int]
  /\ shifted[0] = n
  /\ \A i \in 1 .. width : shifted[i] = shifted[i - 1] \div 256

(* Octets takes its octets from such shifts.                               *)
LEMMA OctetsShift ==
  ASSUME NEW n \in Int, NEW width \in Nat
  PROVE  \E shifted : /\ IsShifted(shifted, n, width)
                      /\ Octets(n, width) = [k \in 1 .. width |-> shifted[width - k] % 256]
  <1>. DEFINE step == [p \in (1 .. width) \X Int |-> p[2] \div 256]
              Fixed(f) == f = [i \in 0 .. width |-> IF i = 0 THEN n ELSE f[i - 1] \div 256]
              shifted == CHOOSE f : Fixed(f)
  <1>1. step \in [(1 .. width) \X Int -> Int]
    OBVIOUS
  <1>2. \A i \in 1 .. width, v \in Int : step[<<i, v>>] = v \div 256
    OBVIOUS
  <1>. HIDE DEF step
  <1>3. PICK run : IsRun(run, width, Int, n, step)
    <2>1. \E run : IsRun(run, width, Int, n, step)
      BY <1>1, RunExists
    <2>. QED BY <2>1
  <1>4. IsShifted(run, n, width)
    <2>1. run \in [0 .. width -> Int] /\ run[0] = n
      BY <1>3 DEF IsRun
    <2>2. ASSUME NEW i \in 1 .. width
          PROVE  run[i] = run[i - 1] \div 256
      <3>1. i - 1 \in 0 .. width
        OBVIOUS
      <3>2. run[i - 1] \in Int
        BY <2>1, <3>1
      <3>3. run[i] = step[<<i, run[i - 1]>>]
        BY <1>3 DEF IsRun
      <3>. QED BY <1>2, <3>2, <3>3
    <2>. QED BY <2>1, <2>2 DEF IsShifted
  <1>5. run = [i \in 0 .. width |-> IF i = 0 THEN n ELSE run[i - 1] \div 256]
    <2>1. run = [i \in 0 .. width |-> run[i]]
      BY <1>4 DEF IsShifted
    <2>2. \A i \in 0 .. width : run[i] = IF i = 0 THEN n ELSE run[i - 1] \div 256
      BY <1>4 DEF IsShifted
    <2>. QED BY <2>1, <2>2
  <1>6. Fixed(shifted)
    <2>1. Fixed(run)
      BY <1>5
    <2>. HIDE DEF Fixed
    <2>. QED BY <2>1, Zenon
  <1>7. Octets(n, width) = [k \in 1 .. width |-> shifted[width - k] % 256]
    BY Zenon DEF Octets
  <1>. HIDE DEF shifted
  <1>8. \A i \in 0 .. width : shifted[i] = run[i]
    <2>. DEFINE Z == {i \in 0 .. width : shifted[i] = run[i]}
    <2>1. 0 \in Z
      BY <1>4, <1>6 DEF IsShifted
    <2>2. ASSUME NEW i \in 1 .. width, i - 1 \in Z
          PROVE  i \in Z
      <3>1. shifted[i] = shifted[i - 1] \div 256
        BY <1>6
      <3>. QED BY <1>4, <2>2, <3>1 DEF IsShifted
    <2>. HIDE DEF Z
    <2>3. 0 .. width \subseteq Z
      BY <2>1, <2>2, InductionUpTo
    <2>. QED BY <2>3 DEF Z
  <1>9. Octets(n, width) = [k \in 1 .. width |-> run[width - k] % 256]
    <2>1. \A k \in 1 .. width : width - k \in 0 .. width
      OBVIOUS
    <2>. HIDE DEF Fixed
    <2>. QED BY <1>7, <1>8, <2>1
  <1>. QED BY <1>4, <1>9

(* Octets gives as many octets as asked for.                               *)
LEMMA OctetsType ==
  ASSUME NEW n \in Int, NEW width \in Nat
  PROVE  /\ Octets(n, width) \in Seq(Octet)
         /\ Len(Octets(n, width)) = width
  <1>1. PICK shifted : /\ IsShifted(shifted, n, width)
                       /\ Octets(n, width) = [k \in 1 .. width |-> shifted[width - k] % 256]
    BY OctetsShift
  <1>2. ASSUME NEW k \in 1 .. width
        PROVE  shifted[width - k] % 256 \in Octet
    <2>1. width - k \in 0 .. width
      OBVIOUS
    <2>2. shifted[width - k] \in Int
      BY <1>1, <2>1 DEF IsShifted
    <2>. QED BY <2>2 DEF Octet
  <1>3. Octets(n, width) \in [1 .. width -> Octet]
    BY <1>1, <1>2
  <1>. QED BY <1>3

(* What Number makes of the octets read so far and the next one.           *)
Shift(high, octet) == IF high > Huge \div 256 - 1 THEN Huge ELSE high * 256 + octet

Sign(octets, signed) == IF signed /\ octets[1] >= 128 THEN -1 ELSE 0

IsRead(read, octets, signed) ==
  /\ read \in [0 .. Len(octets) -> Int]
  /\ read[0] = Sign(octets, signed)
  /\ \A i \in 1 .. Len(octets) : read[i] = Shift(read[i - 1], octets[i])

(* Number goes through the octets.                                         *)
LEMMA NumberReads ==
  ASSUME NEW octets \in Seq(Octet), NEW signed \in BOOLEAN
  PROVE  \E read : IsRead(read, octets, signed) /\ Number(octets, signed) = read[Len(octets)]
  <1>. DEFINE n == Len(octets)
              sign == Sign(octets, signed)
              step == [p \in (1 .. n) \X Int |-> Shift(p[2], octets[p[1]])]
              Fixed(f) == f = [i \in 0 .. n |->
                                 IF i = 0 THEN sign ELSE Shift(f[i - 1], octets[i])]
              read == CHOOSE f : Fixed(f)
  <1>1. n \in Nat /\ \A i \in 1 .. n : octets[i] \in Int
    BY ElementOfSeq, OctetIs
  <1>2. sign \in Int
    BY DEF Sign
  <1>3. Number(octets, signed) = read[n]
    BY Zenon DEF Number, Shift, Sign
  <1>4. \A i \in 1 .. n, v \in Int : Shift(v, octets[i]) \in Int
    BY <1>1 DEF Shift, Huge
  <1>5. /\ step \in [(1 .. n) \X Int -> Int]
        /\ \A i \in 1 .. n, v \in Int : step[<<i, v>>] = Shift(v, octets[i])
    <2>. HIDE DEF n
    <2>. QED BY <1>4
  <1>. HIDE DEF n, step, sign
  <1>6. PICK run : IsRun(run, n, Int, sign, step)
    <2>1. \E run : IsRun(run, n, Int, sign, step)
      BY <1>1, <1>2, <1>5, RunExists
    <2>. QED BY <2>1
  <1>7. /\ run \in [0 .. n -> Int] /\ run[0] = sign
        /\ \A i \in 1 .. n : run[i] = Shift(run[i - 1], octets[i])
    <2>1. run \in [0 .. n -> Int] /\ run[0] = sign
      BY <1>6 DEF IsRun
    <2>2. ASSUME NEW i \in 1 .. n
          PROVE  run[i] = Shift(run[i - 1], octets[i])
      <3>1. i - 1 \in 0 .. n
        BY <1>1
      <3>2. run[i - 1] \in Int
        BY <2>1, <3>1
      <3>3. run[i] = step[<<i, run[i - 1]>>]
        BY <1>6 DEF IsRun
      <3>. QED BY <1>5, <3>2, <3>3
    <2>. QED BY <2>1, <2>2
  <1>8. Fixed(read)
    <2>1. run = [i \in 0 .. n |-> run[i]]
      BY <1>7
    <2>2. \A i \in 0 .. n : run[i] = IF i = 0 THEN sign ELSE Shift(run[i - 1], octets[i])
      BY <1>1, <1>7
    <2>3. Fixed(run)
      BY <2>1, <2>2, Zenon
    <2>. HIDE DEF Fixed
    <2>. QED BY <2>3, Zenon
  <1>. HIDE DEF read
  <1>9. read[0] = sign /\ \A i \in 1 .. n : read[i] = Shift(read[i - 1], octets[i])
    BY <1>1, <1>8
  <1>10. \A i \in 0 .. n : read[i] = run[i]
    <2>1. \A i \in 1 .. n : read[i] = step[<<i, read[i - 1]>>]
      <3>. DEFINE Z == {i \in 0 .. n : read[i] \in Int}
      <3>1. 0 \in Z
        BY <1>1, <1>2, <1>9
      <3>2. ASSUME NEW i \in 1 .. n, i - 1 \in Z
            PROVE  i \in Z
        <4>1. read[i - 1] \in Int /\ i \in 0 .. n
          BY <3>2
        <4>. QED BY <1>4, <1>9, <4>1
      <3>. HIDE DEF Z
      <3>3. 0 .. n \subseteq Z
        BY <1>1, <3>1, <3>2, InductionUpTo
      <3>4. \A i \in 1 .. n : i - 1 \in 0 .. n
        BY <1>1
      <3>5. \A i \in 1 .. n : read[i - 1] \in Int
        BY <3>3, <3>4 DEF Z
      <3>. HIDE DEF Fixed
      <3>. QED BY <1>5, <1>9, <3>5
    <2>. DEFINE values == Int
    <2>2. /\ sign \in values /\ step \in [(1 .. n) \X values -> values]
          /\ IsRun(run, n, values, sign, step)
      BY <1>2, <1>5, <1>6
    <2>. HIDE DEF Fixed, values
    <2>3. n \in Nat /\ Runs(read, n, sign, step)
      BY <1>1, <1>9, <2>1 DEF Runs
    <2>. QED BY <2>2, <2>3, RunIsUnique
  <1>11. IsRead(run, octets, signed)
    BY <1>7 DEF IsRead, n, sign
  <1>12. Number(octets, signed) = run[n]
    BY <1>1, <1>3, <1>10
  <1>. QED BY <1>11, <1>12 DEF n

(* Numbers are integers.                                                   *)
LEMMA NumberType ==
  ASSUME NEW octets \in Seq(Octet), NEW signed \in BOOLEAN
  PROVE  Number(octets, signed) \in Int
  <1>1. PICK read : IsRead(read, octets, signed) /\ Number(octets, signed) = read[Len(octets)]
    BY NumberReads
  <1>2. Len(octets) \in 0 .. Len(octets)
    OBVIOUS
  <1>. QED BY <1>1, <1>2 DEF IsRead

Widths == {1, 2, 4, 6, 8}

(* The numbers that a field of a width can carry, and this model tells     *)
(* apart.                                                                  *)
FitsUnsigned(n, width) ==
  /\ n \in Nat /\ n <= Huge - 256
  /\ width = 1 => n < 256
  /\ width = 2 => n < 65536

FitsSigned(n, width) ==
  /\ n \in Int /\ 256 - Huge <= n /\ n <= Huge - 256
  /\ width = 1 => -128 <= n /\ n <= 127
  /\ width = 2 => -32768 <= n /\ n <= 32767

(* What is left of a number after some shifts.                             *)
LEMMA ShiftsEnd ==
  ASSUME NEW width \in Widths, NEW n \in Int, 256 - Huge <= n, n <= Huge - 256,
         NEW shifted, IsShifted(shifted, n, width)
  PROVE  /\ \A i \in 1 .. width : shifted[i] <= Huge \div 256 - 1
         /\ FitsUnsigned(n, width) => shifted[width] = 0
         /\ FitsSigned(n, width) =>
              /\ shifted[width] = IF n < 0 THEN -1 ELSE 0
              /\ (shifted[width - 1] % 256 >= 128) <=> n < 0
  <1>. DEFINE left == IF n < 0 THEN -1 ELSE 0
  <1>1. width \in Nat /\ n \in Int
    BY DEF Widths
  <1>2. \A i \in 1 .. width : i - 1 \in 0 .. width /\ shifted[i] = shifted[i - 1] \div 256
    BY <1>1, SMT DEF IsShifted
  <1>3. shifted[0] = n /\ \A i \in 0 .. width : shifted[i] \in Int
    BY SMT DEF IsShifted
  <1>4. 1 <= width =>
          /\ shifted[1] = n \div 256
          /\ shifted[1] \in Int /\ -8388607 <= shifted[1] /\ shifted[1] <= 8388606
    BY <1>1, <1>2, <1>3, HugeIs, SMT
  <1>5. 2 <= width =>
          /\ shifted[2] = shifted[1] \div 256
          /\ shifted[2] \in Int /\ -32768 <= shifted[2] /\ shifted[2] <= 32767
    BY <1>1, <1>2, <1>3, <1>4, SMT
  <1>6. 3 <= width =>
          /\ shifted[3] = shifted[2] \div 256
          /\ shifted[3] \in Int /\ -128 <= shifted[3] /\ shifted[3] <= 127
    BY <1>1, <1>2, <1>3, <1>5, SMT
  <1>7. 4 <= width => shifted[4] = shifted[3] \div 256 /\ shifted[4] \in -1 .. 0
    BY <1>1, <1>2, <1>3, <1>6, SMT
  <1>8. \A i \in 1 .. width : (shifted[i] < 0) <=> n < 0
    <2>. DEFINE Z == {i \in 0 .. width : (shifted[i] < 0) <=> n < 0}
    <2>1. 0 \in Z
      BY <1>1, <1>3, SMT
    <2>2. ASSUME NEW i \in 1 .. width, i - 1 \in Z
          PROVE  i \in Z
      <3>1. shifted[i - 1] \in Int /\ shifted[i] = shifted[i - 1] \div 256
        BY <1>2, <1>3, SMT
      <3>2. (shifted[i] < 0) <=> shifted[i - 1] < 0
        BY <3>1, SMT
      <3>. QED BY <2>2, <3>2, SMT
    <2>. HIDE DEF Z
    <2>3. 0 .. width \subseteq Z
      BY <1>1, <2>1, <2>2, InductionUpTo
    <2>. QED BY <2>3, SMT DEF Z
  <1>9. \A i \in 4 .. width : shifted[i] = left
    <2>. DEFINE Z == {i \in 0 .. width : i >= 4 => shifted[i] = left}
    <2>1. 0 \in Z
      BY <1>1, SMT
    <2>2. ASSUME NEW i \in 1 .. width, i - 1 \in Z
          PROVE  i \in Z
      <3>1. i >= 5 => shifted[i - 1] = left /\ shifted[i] = shifted[i - 1] \div 256
        BY <1>2, <2>2, SMT
      <3>2. i = 4 => shifted[i] = left
        BY <1>7, <1>8, SMT
      <3>. QED BY <3>1, <3>2, SMT
    <2>. HIDE DEF Z
    <2>3. 0 .. width \subseteq Z
      BY <1>1, <2>1, <2>2, InductionUpTo
    <2>4. \A i \in 4 .. width : i \in 0 .. width /\ i >= 4
      BY <1>1, SMT
    <2>. QED BY <2>3, <2>4, SMT DEF Z
  <1>10. \A i \in 1 .. width : shifted[i] <= 8388606
    <2>1. \A i \in 1 .. width : i = 1 \/ i = 2 \/ i = 3 \/ i \in 4 .. width
      BY <1>1, SMT
    <2>. QED BY <1>1, <1>4, <1>5, <1>6, <1>9, <2>1, SMT
  <1>11. FitsUnsigned(n, width) => shifted[width] = 0
    <2>1. CASE width = 1
      BY <1>3, <1>4, <2>1, SMT DEF FitsUnsigned
    <2>2. CASE width = 2
      BY <1>3, <1>4, <1>5, <2>2, SMT DEF FitsUnsigned
    <2>3. CASE width \in {4, 6, 8}
      BY <1>9, <2>3, SMT DEF FitsUnsigned
    <2>. QED BY <2>1, <2>2, <2>3, SMT DEF Widths
  <1>12. ASSUME FitsSigned(n, width)
         PROVE  /\ shifted[width] = left
                /\ (shifted[width - 1] % 256 >= 128) <=> n < 0
    <2>1. CASE width = 1
      BY <1>3, <1>4, <1>12, <2>1, SMT DEF FitsSigned
    <2>2. CASE width = 2
      <3>1. shifted[1] \in Int /\ -128 <= shifted[1] /\ shifted[1] <= 127
        BY <1>3, <1>4, <1>12, <2>2, SMT DEF FitsSigned
      <3>. QED BY <1>5, <1>8, <2>2, <3>1, SMT
    <2>3. CASE width = 4
      BY <1>6, <1>8, <1>9, <2>3, SMT
    <2>4. CASE width \in {6, 8}
      <3>1. width \in 4 .. width /\ width - 1 \in 4 .. width
        BY <2>4, SMT
      <3>. QED BY <1>9, <3>1, SMT
    <2>. QED BY <2>1, <2>2, <2>3, <2>4, SMT DEF Widths
  <1>. QED BY <1>10, <1>11, <1>12, HugeIs, SMT

(* Number reads what Octets has written, of each width a field has.        *)
LEMMA NumberOfOctets ==
  ASSUME NEW width \in Widths, NEW n \in Int, NEW signed \in BOOLEAN,
         IF signed THEN FitsSigned(n, width) ELSE FitsUnsigned(n, width)
  PROVE  Number(Octets(n, width), signed) = n
  <1>. DEFINE octets == Octets(n, width)
  <1>1. width \in Nat \ {0} /\ n \in Int /\ 256 - Huge <= n /\ n <= Huge - 256
    BY HugeIs, SMT DEF Widths, FitsSigned, FitsUnsigned
  <1>2. octets \in Seq(Octet) /\ Len(octets) = width
    BY <1>1, OctetsType
  <1>3. PICK shifted : /\ IsShifted(shifted, n, width)
                       /\ octets = [k \in 1 .. width |-> shifted[width - k] % 256]
    BY <1>1, OctetsShift
  <1>4. \A i \in 1 .. width : octets[i] = shifted[width - i] % 256
    BY <1>3
  <1>. HIDE DEF octets
  <1>5. PICK read : IsRead(read, octets, signed) /\ Number(octets, signed) = read[width]
    BY <1>2, NumberReads
  <1>6. /\ \A i \in 1 .. width : shifted[i] <= Huge \div 256 - 1
        /\ FitsUnsigned(n, width) => shifted[width] = 0
        /\ FitsSigned(n, width) =>
             /\ shifted[width] = IF n < 0 THEN -1 ELSE 0
             /\ (shifted[width - 1] % 256 >= 128) <=> n < 0
    BY <1>1, <1>3, ShiftsEnd
  <1>7. read[0] = shifted[width]
    <2>1. octets[1] = shifted[width - 1] % 256
      BY <1>1, <1>4
    <2>. QED BY <1>5, <1>6, <2>1 DEF IsRead, Sign
  <1>. DEFINE Z == {i \in 0 .. width : read[i] = shifted[width - i]}
  <1>8. 0 \in Z
    BY <1>1, <1>7
  <1>9. ASSUME NEW i \in 1 .. width, i - 1 \in Z
        PROVE  i \in Z
    <2>. DEFINE j == width - i
    <2>1. j + 1 \in 1 .. width /\ j \in 0 .. width /\ width - (i - 1) = j + 1 /\ (j + 1) - 1 = j
      BY <1>1
    <2>. HIDE DEF j
    <2>2. shifted[j] \in Int /\ shifted[j + 1] = shifted[j] \div 256
      BY <1>3, <2>1 DEF IsShifted
    <2>3. read[i - 1] = shifted[j + 1] /\ octets[i] = shifted[j] % 256
      BY <1>4, <1>9, <2>1 DEF j
    <2>4. read[i] = Shift(shifted[j + 1], shifted[j] % 256)
      BY <1>2, <1>5, <2>3 DEF IsRead
    <2>5. shifted[j + 1] <= Huge \div 256 - 1
      BY <1>6, <2>1
    <2>6. read[i] = shifted[j]
      BY <2>2, <2>4, <2>5 DEF Shift, Huge
    <2>. QED BY <2>6 DEF j
  <1>10. 0 .. width \subseteq Z
    <2>. HIDE DEF Z
    <2>. QED BY <1>1, <1>8, <1>9, InductionUpTo
  <1>11. read[width] = shifted[0]
    BY <1>1, <1>10
  <1>. QED BY <1>3, <1>5, <1>11 DEF IsShifted, octets

-----------------------------------------------------------------------------
(* What FlattenSeq makes of the parts of a message.                        *)

(* The parts of a sequence of sequences one after the other.               *)
IsFlat(flat, parts, S) ==
  /\ flat \in [0 .. Len(parts) -> Seq(S)]
  /\ flat[0] = <<>>
  /\ \A i \in 1 .. Len(parts) : flat[i] = flat[i - 1] \o parts[i]

JoinStep(parts, S) == [p \in (1 .. Len(parts)) \X Seq(S) |-> p[2] \o parts[p[1]]]

(* The step that appends the next part.                                    *)
LEMMA JoinStepIs ==
  ASSUME NEW S, NEW parts \in Seq(Seq(S))
  PROVE  /\ JoinStep(parts, S) \in [(1 .. Len(parts)) \X Seq(S) -> Seq(S)]
         /\ \A i \in 1 .. Len(parts), s \in Seq(S) :
              JoinStep(parts, S)[<<i, s>>] = s \o parts[i]
  <1>. DEFINE n == Len(parts)
  <1>1. n \in Nat /\ \A i \in 1 .. n : parts[i] \in Seq(S)
    BY ElementOfSeq
  <1>2. \A i \in 1 .. n, s \in Seq(S) : s \o parts[i] \in Seq(S)
    BY <1>1, ConcatProperties
  <1>. HIDE DEF n
  <1>3. [p \in (1 .. n) \X Seq(S) |-> p[2] \o parts[p[1]]] \in [(1 .. n) \X Seq(S) -> Seq(S)]
    BY <1>2
  <1>. QED BY <1>3 DEF JoinStep, n

(* A function that is empty at first and takes on one part after another.  *)
LEMMA FlatExists ==
  ASSUME NEW S, NEW parts \in Seq(Seq(S))
  PROVE  \E flat : IsFlat(flat, parts, S)
  <1>. DEFINE n == Len(parts)
              step == JoinStep(parts, S)
  <1>1. n \in Nat /\ <<>> \in Seq(S)
    OBVIOUS
  <1>2. step \in [(1 .. n) \X Seq(S) -> Seq(S)]
        /\ \A i \in 1 .. n, s \in Seq(S) : step[<<i, s>>] = s \o parts[i]
    BY JoinStepIs
  <1>. HIDE DEF n, step
  <1>3. PICK run : IsRun(run, n, Seq(S), <<>>, step)
    <2>1. \E run : IsRun(run, n, Seq(S), <<>>, step)
      BY <1>1, <1>2, RunExists
    <2>. QED BY <2>1
  <1>4. run \in [0 .. n -> Seq(S)] /\ run[0] = <<>>
    BY <1>3 DEF IsRun
  <1>5. ASSUME NEW i \in 1 .. n
        PROVE  run[i] = run[i - 1] \o parts[i]
    <2>1. i - 1 \in 0 .. n
      BY <1>1
    <2>2. run[i - 1] \in Seq(S)
      BY <1>4, <2>1
    <2>3. run[i] = step[<<i, run[i - 1]>>]
      BY <1>3 DEF IsRun
    <2>4. step[<<i, run[i - 1]>>] = run[i - 1] \o parts[i]
      BY <1>2, <2>2
    <2>. QED BY <2>3, <2>4
  <1>6. IsFlat(run, parts, S)
    BY <1>4, <1>5 DEF IsFlat, n
  <1>. QED BY <1>6

TakesOn(f, before, parts) ==
  f[0] = before /\ \A i \in 1 .. Len(parts) : f[i] = f[i - 1] \o parts[i]

(* Whatever takes on one part after another from a beginning on is what    *)
(* FlattenSeq makes of them after that beginning.                          *)
LEMMA FlatIsUnique ==
  ASSUME NEW S, NEW parts \in Seq(Seq(S)), NEW flat, IsFlat(flat, parts, S),
         NEW before \in Seq(S), NEW f, TakesOn(f, before, parts)
  PROVE  \A i \in 0 .. Len(parts) : f[i] = before \o flat[i]
  <1>. DEFINE n == Len(parts)
              Z == {i \in 0 .. n : f[i] = before \o flat[i]}
  <1>1. n \in Nat /\ \A i \in 1 .. n : parts[i] \in Seq(S)
    BY ElementOfSeq
  <1>2. 0 \in Z
    <2>1. flat[0] = <<>>
      BY DEF IsFlat
    <2>2. before \o <<>> = before
      BY ConcatEmptySeq
    <2>3. f[0] = before
      BY DEF TakesOn
    <2>. QED BY <1>1, <2>1, <2>2, <2>3
  <1>3. ASSUME NEW i \in 1 .. n, i - 1 \in Z
        PROVE  i \in Z
    <2>1. i \in 0 .. n /\ i - 1 \in 0 .. n
      BY <1>1
    <2>2. flat[i - 1] \in Seq(S) /\ parts[i] \in Seq(S)
      BY <1>1, <2>1 DEF IsFlat
    <2>3. flat[i] = flat[i - 1] \o parts[i]
      BY DEF IsFlat
    <2>4. f[i] = f[i - 1] \o parts[i] /\ f[i - 1] = before \o flat[i - 1]
      BY <1>3 DEF TakesOn
    <2>. DEFINE middle == flat[i - 1]
                part   == parts[i]
    <2>8. middle \in Seq(S) /\ part \in Seq(S)
      BY <2>2
    <2>. HIDE DEF middle, part
    <2>5. f[i] = (before \o flat[i - 1]) \o parts[i]
      BY <2>4, Zenon
    <2>9. (before \o middle) \o part = before \o (middle \o part)
      BY <2>8, ConcatAssociative, SMTT(30)
    <2>6. (before \o flat[i - 1]) \o parts[i] = before \o (flat[i - 1] \o parts[i])
      BY <2>9 DEF middle, part
    <2>7. f[i] = before \o flat[i]
      BY <2>3, <2>5, <2>6, Zenon
    <2>. QED BY <2>1, <2>7
  <1>. HIDE DEF Z, n
  <1>4. 0 .. n \subseteq Z
    BY <1>1, <1>2, <1>3, InductionUpTo
  <1>. QED BY <1>4 DEF Z, n

(* FlattenSeq goes through its parts.                                      *)
LEMMA FlattenIs ==
  ASSUME NEW S, NEW parts \in Seq(Seq(S)), NEW flat, IsFlat(flat, parts, S)
  PROVE  FlattenSeq(parts) = flat[Len(parts)] /\ FlattenSeq(parts) \in Seq(S)
  <1>. DEFINE n == Len(parts)
              Fixed(f) == f = [i \in 1 .. n |-> IF i = 1 THEN parts[i] ELSE f[i - 1] \o parts[i]]
              joined == CHOOSE f : Fixed(f)
              g == [i \in 0 .. n |-> IF i = 0 THEN <<>> ELSE joined[i]]
  <1>1. n \in Nat /\ \A i \in 1 .. n : parts[i] \in Seq(S)
    BY ElementOfSeq
  <1>2. n # 0 => FlattenSeq(parts) = joined[n]
    BY Zenon DEF FlattenSeq
  <1>3. n = 0 => FlattenSeq(parts) = <<>>
    BY DEF FlattenSeq
  <1>. HIDE DEF n
  <1>4. \A i \in 1 .. n : flat[i] = IF i = 1 THEN parts[i] ELSE flat[i - 1] \o parts[i]
    <2>1. \A i \in 1 .. n : <<>> \o parts[i] = parts[i]
      BY <1>1, ConcatEmptySeq
    <2>2. flat[0] = <<>> /\ \A i \in 1 .. n : flat[i] = flat[i - 1] \o parts[i]
      BY DEF IsFlat, n
    <2>3. 1 - 1 = 0
      OBVIOUS
    <2>. QED BY <2>1, <2>2, <2>3, Zenon
  <1>5. Fixed(joined)
    <2>. DEFINE f == [i \in 1 .. n |-> flat[i]]
    <2>1. \A i \in 1 .. n : i # 1 => f[i - 1] = flat[i - 1]
      BY <1>1
    <2>2. \A i \in 1 .. n : f[i] = IF i = 1 THEN parts[i] ELSE f[i - 1] \o parts[i]
      BY <1>4, <2>1
    <2>3. f = [i \in 1 .. n |-> f[i]]
      OBVIOUS
    <2>. HIDE DEF f
    <2>4. Fixed(f)
      BY <2>2, <2>3
    <2>. HIDE DEF Fixed
    <2>. QED BY <2>4, Zenon
  <1>. HIDE DEF joined
  <1>6. \A i \in 1 .. n : joined[i] = IF i = 1 THEN parts[i] ELSE joined[i - 1] \o parts[i]
    BY <1>5
  <1>. HIDE DEF Fixed
  <1>7. g[0] = <<>> /\ \A i \in 1 .. n : g[i] = joined[i] /\ g[i] = g[i - 1] \o parts[i]
    <2>1. g[0] = <<>> /\ \A i \in 1 .. n : g[i] = joined[i]
      BY <1>1
    <2>. HIDE DEF g
    <2>2. ASSUME NEW i \in 1 .. n
          PROVE  g[i] = g[i - 1] \o parts[i]
      <3>1. CASE i = 1
        <4>1. i - 1 = 0
          BY <3>1
        <4>2. <<>> \o parts[i] = parts[i]
          BY <1>1, ConcatEmptySeq
        <4>. QED BY <1>6, <2>1, <3>1, <4>1, <4>2
      <3>2. CASE i # 1
        <4>1. i - 1 \in 1 .. n
          BY <1>1, <3>2
        <4>. QED BY <1>6, <2>1, <3>2, <4>1
      <3>. QED BY <3>1, <3>2
    <2>. QED BY <2>1, <2>2
  <1>. HIDE DEF g
  <1>8. \A i \in 0 .. n : g[i] = <<>> \o flat[i]
    <2>. DEFINE before == <<>>
    <2>1. before \in Seq(S)
      OBVIOUS
    <2>2. TakesOn(g, before, parts)
      BY <1>7 DEF TakesOn, n
    <2>. HIDE DEF before
    <2>3. \A i \in 0 .. Len(parts) : g[i] = before \o flat[i]
      BY <2>1, <2>2, FlatIsUnique
    <2>. QED BY <2>3 DEF n, before
  <1>9. flat[n] \in Seq(S) /\ flat[0] = <<>> /\ n \in 0 .. n
    BY <1>1 DEF IsFlat, n
  <1>10. <<>> \o flat[n] = flat[n]
    BY <1>9, ConcatEmptySeq
  <1>11. g[n] = flat[n]
    BY <1>8, <1>9, <1>10
  <1>12. FlattenSeq(parts) = flat[n]
    <2>1. CASE n = 0
      BY <1>3, <1>9, <2>1
    <2>2. CASE n # 0
      <3>1. n \in 1 .. n
        BY <1>1, <2>2
      <3>. QED BY <1>2, <1>7, <1>11, <2>2, <3>1
    <2>. QED BY <2>1, <2>2
  <1>. QED BY <1>9, <1>12 DEF n

(* Flattening a concatenation concatenates what is flattened.              *)
LEMMA FlattenConcat ==
  ASSUME NEW S, NEW a \in Seq(Seq(S)), NEW b \in Seq(Seq(S))
  PROVE  /\ FlattenSeq(a \o b) = FlattenSeq(a) \o FlattenSeq(b)
         /\ FlattenSeq(a) \in Seq(S) /\ FlattenSeq(b) \in Seq(S)
  <1>. DEFINE both == a \o b
              m == Len(a)
              n == Len(b)
  <1>1. both \in Seq(Seq(S)) /\ Len(both) = m + n /\ m \in Nat /\ n \in Nat
    BY ConcatProperties
  <1>2. \A i \in 1 .. m + n : both[i] = IF i <= m THEN a[i] ELSE b[i - m]
    BY ConcatProperties
  <1>. HIDE DEF both, m, n
  <1>3. PICK flat : IsFlat(flat, both, S)
    BY <1>1, FlatExists
  <1>4. PICK flatA : IsFlat(flatA, a, S)
    BY FlatExists
  <1>5. PICK flatB : IsFlat(flatB, b, S)
    BY FlatExists
  <1>6. /\ FlattenSeq(both) = flat[m + n] /\ FlattenSeq(a) = flatA[m]
        /\ FlattenSeq(b) = flatB[n]
        /\ FlattenSeq(a) \in Seq(S) /\ FlattenSeq(b) \in Seq(S)
    BY <1>1, <1>3, <1>4, <1>5, FlattenIs DEF m, n
  <1>7. flat[m] = flatA[m]
    <2>1. \A i \in 1 .. m : i \in 1 .. m + n /\ i <= m
      BY <1>1
    <2>2. \A i \in 1 .. m : flat[i] = flat[i - 1] \o a[i]
      BY <1>1, <1>2, <1>3, <2>1 DEF IsFlat
    <2>3. flat[0] = <<>> /\ <<>> \in Seq(S)
      BY <1>3 DEF IsFlat
    <2>7. TakesOn(flat, <<>>, a)
      BY <2>2, <2>3 DEF TakesOn, m
    <2>4. \A i \in 0 .. m : flat[i] = <<>> \o flatA[i]
      <3>. DEFINE before == <<>>
      <3>1. before \in Seq(S) /\ TakesOn(flat, before, a)
        BY <2>3, <2>7
      <3>. HIDE DEF before
      <3>2. \A i \in 0 .. Len(a) : flat[i] = before \o flatA[i]
        BY <1>4, <3>1, FlatIsUnique
      <3>. QED BY <3>2 DEF m, before
    <2>5. m \in 0 .. m /\ flatA[m] \in Seq(S)
      BY <1>6, <1>1, FlattenIs
    <2>6. <<>> \o flatA[m] = flatA[m]
      BY <2>5, ConcatEmptySeq
    <2>. QED BY <2>4, <2>5, <2>6
  <1>. DEFINE f == [i \in 0 .. n |-> flat[m + i]]
  <1>8. f[0] = flat[m] /\ f[n] = flat[m + n]
    BY <1>1
  <1>9. ASSUME NEW i \in 1 .. n
        PROVE  f[i] = f[i - 1] \o b[i]
    <2>1. /\ m + i \in 1 .. m + n /\ ~(m + i <= m) /\ (m + i) - m = i
          /\ (m + i) - 1 = m + (i - 1) /\ i \in 0 .. n /\ i - 1 \in 0 .. n
      BY <1>1
    <2>2. flat[m + i] = flat[m + (i - 1)] \o both[m + i]
      BY <1>1, <1>3, <2>1 DEF IsFlat
    <2>3. both[m + i] = b[i]
      BY <1>2, <2>1
    <2>4. f[i] = flat[m + i] /\ f[i - 1] = flat[m + (i - 1)]
      BY <2>1
    <2>. HIDE DEF f
    <2>. QED BY <2>2, <2>3, <2>4, Zenon
  <1>. HIDE DEF f
  <1>10. flat[m] \in Seq(S)
    BY <1>6, <1>7
  <1>11. \A i \in 0 .. n : f[i] = flat[m] \o flatB[i]
    <2>1. f[0] = flat[m]
      BY <1>8
    <2>2. TakesOn(f, flat[m], b)
      BY <1>9, <2>1 DEF TakesOn, n
    <2>. DEFINE before == flat[m]
    <2>4. before \in Seq(S) /\ TakesOn(f, before, b)
      BY <1>10, <2>2
    <2>. HIDE DEF before
    <2>3. \A i \in 0 .. Len(b) : f[i] = before \o flatB[i]
      BY <1>5, <2>4, FlatIsUnique
    <2>. QED BY <2>3 DEF n, before
  <1>12. f[n] = flat[m] \o flatB[n]
    <2>1. n \in 0 .. n
      BY <1>1
    <2>. QED BY <1>11, <2>1, Zenon
  <1>13. FlattenSeq(both) = FlattenSeq(a) \o FlattenSeq(b)
    BY <1>6, <1>7, <1>8, <1>12, Zenon
  <1>. QED BY <1>6, <1>13 DEF both

(* Flattening one part gives that part, and flattening none gives nothing. *)
LEMMA FlattenOne ==
  ASSUME NEW S, NEW part \in Seq(S)
  PROVE  FlattenSeq(<<part>>) = part /\ FlattenSeq(<<>>) = <<>>
  <1>. DEFINE parts == <<part>>
              flat == [i \in 0 .. 1 |-> IF i = 0 THEN <<>> ELSE part]
  <1>1. parts \in Seq(Seq(S)) /\ Len(parts) = 1 /\ parts[1] = part
    OBVIOUS
  <1>2. flat \in [0 .. 1 -> Seq(S)] /\ flat[0] = <<>> /\ flat[1] = part
    OBVIOUS
  <1>3. <<>> \o part = part
    BY ConcatEmptySeq
  <1>. HIDE DEF parts, flat
  <1>4. \A i \in 1 .. 1 : i = 1 /\ i - 1 = 0
    OBVIOUS
  <1>5. IsFlat(flat, parts, S)
    BY <1>1, <1>2, <1>3, <1>4 DEF IsFlat
  <1>6. FlattenSeq(parts) = part
    BY <1>1, <1>2, <1>5, FlattenIs
  <1>7. FlattenSeq(<<>>) = <<>>
    BY DEF FlattenSeq
  <1>. QED BY <1>6, <1>7 DEF parts

-----------------------------------------------------------------------------
(* Booleans pushed as the sum of their weights, and read as its bits.      *)

Weights == {1, 2, 4, 8, 16, 32, 2048, 4096, 8192, 16384, 32768}

WeightIn(w, s) == IF w \in s THEN w ELSE 0

WeightSum(s) ==
  WeightIn(1, s) + WeightIn(2, s) + WeightIn(4, s) + WeightIn(8, s) + WeightIn(16, s)
    + WeightIn(32, s) + WeightIn(2048, s) + WeightIn(4096, s) + WeightIn(8192, s)
    + WeightIn(16384, s) + WeightIn(32768, s)

(* A weight that is taken out of a set of weights counts once.             *)
LEMMA WeightSumStep ==
  ASSUME NEW s, s \subseteq Weights
  PROVE  /\ WeightSum(s) \in Nat
         /\ s = {} => WeightSum(s) = 0
         /\ \A x \in s : WeightSum(s) = x + WeightSum(s \ {x}) /\ x \in Nat \ {0}
  <1>1. WeightSum(s) \in Nat
    BY DEF WeightSum, WeightIn
  <1>2. s = {} => WeightSum(s) = 0
    BY DEF WeightSum, WeightIn
  <1>3. ASSUME NEW x \in s
        PROVE  WeightSum(s) = x + WeightSum(s \ {x}) /\ x \in Nat \ {0}
    <2>. DEFINE t == s \ {x}
    <2>1. x \in Weights /\ x \in Nat /\ x \in Nat \ {0}
      BY DEF Weights
    <2>2. \A w : w # x => (w \in t <=> w \in s)
      OBVIOUS
    <2>3. x \notin t /\ x \in s
      OBVIOUS
    <2>. HIDE DEF t
    <2>4. \A w \in Weights : w # x => WeightIn(w, t) = WeightIn(w, s)
      BY <2>2 DEF WeightIn
    <2>5. WeightIn(x, s) = x /\ WeightIn(x, t) = 0
      BY <2>3 DEF WeightIn
    <2>6. \A w \in Weights : WeightIn(w, s) \in Nat /\ WeightIn(w, t) \in Nat
      BY DEF WeightIn, Weights
    <2>7. WeightSum(s) = x + WeightSum(t)
      BY <2>1, <2>4, <2>5, <2>6, SMTT(30) DEF WeightSum, Weights
    <2>. QED BY <2>1, <2>7 DEF t
  <1>. QED BY <1>1, <1>2, <1>3

(* The booleans of a field add up to the sum of their weights.             *)
LEMMA FlagsAddUp ==
  ASSUME NEW value, value \subseteq Weights
  PROVE  FoldSet(+, 0, value) = WeightSum(value)
  <1>. DEFINE one(s) == CHOOSE x \in s : TRUE
              Fixed(f) == f = [s \in SUBSET value |->
                                 IF s = {} THEN 0 ELSE one(s) + f[s \ {one(s)}]]
              iter == CHOOSE f : Fixed(f)
  <1>1. FoldSet(+, 0, value) = iter[value]
    BY Zenon DEF FoldSet, MapThenFoldSet
  <1>2. \A s : s # {} => one(s) \in s
    BY Zenon
  <1>. HIDE DEF one
  <1>3. ASSUME NEW s \in SUBSET value
        PROVE  /\ WeightSum(s) \in Nat
               /\ s = {} => WeightSum(s) = 0
               /\ s # {} => /\ one(s) \in Nat \ {0}
                            /\ s \ {one(s)} \in SUBSET value
                            /\ WeightSum(s) = one(s) + WeightSum(s \ {one(s)})
    <2>. DEFINE x == one(s)
    <2>1. s \subseteq Weights
      OBVIOUS
    <2>2. s # {} => x \in s
      BY <1>2
    <2>. HIDE DEF x
    <2>3. /\ WeightSum(s) \in Nat
          /\ s = {} => WeightSum(s) = 0
          /\ \A y \in s : WeightSum(s) = y + WeightSum(s \ {y}) /\ y \in Nat \ {0}
      BY <2>1, WeightSumStep
    <2>. QED BY <2>2, <2>3 DEF x
  <1>4. Fixed(iter)
    <2>. DEFINE f == [s \in SUBSET value |-> WeightSum(s)]
    <2>1. \A s \in SUBSET value : f[s] = IF s = {} THEN 0 ELSE one(s) + f[s \ {one(s)}]
      BY <1>3
    <2>2. f = [s \in SUBSET value |-> f[s]]
      OBVIOUS
    <2>. HIDE DEF f
    <2>3. Fixed(f)
      BY <2>1, <2>2
    <2>. HIDE DEF Fixed
    <2>. QED BY <2>3, Zenon
  <1>. HIDE DEF iter
  <1>5. \A s \in SUBSET value : iter[s] = IF s = {} THEN 0 ELSE one(s) + iter[s \ {one(s)}]
    BY <1>4
  <1>. HIDE DEF Fixed
  <1>6. \A s \in SUBSET value : iter[s] = WeightSum(s)
    <2>. DEFINE T == {n \in Nat : \E s \in SUBSET value : WeightSum(s) = n /\ iter[s] # n}
    <2>1. T = {}
      <3>. SUFFICES ASSUME T # {}
                    PROVE  FALSE
        OBVIOUS
      <3>1. \E least \in T : \A n \in T : least <= n
        BY LeastNatural
      <3>2. PICK least \in T : \A n \in T : least <= n
        BY <3>1
      <3>3. PICK s \in SUBSET value : WeightSum(s) = least /\ iter[s] # least
        BY <3>2
      <3>4. s # {}
        BY <1>3, <1>5, <3>3
      <3>. DEFINE x == one(s)
                  rest == s \ {x}
      <3>5. /\ x \in Nat \ {0} /\ rest \in SUBSET value
            /\ WeightSum(s) = x + WeightSum(rest) /\ iter[s] = x + iter[rest]
        BY <1>3, <1>5, <3>4
      <3>. HIDE DEF x, rest
      <3>6. WeightSum(rest) \in Nat /\ WeightSum(rest) < least
        <4>1. WeightSum(rest) \in Nat
          BY <1>3, <3>5
        <4>2. x \in Nat \ {0} /\ least = x + WeightSum(rest)
          BY <3>3, <3>5
        <4>. QED BY <4>1, <4>2
      <3>7. WeightSum(rest) \notin T
        BY <3>2, <3>6
      <3>8. iter[rest] = WeightSum(rest)
        BY <3>5, <3>6, <3>7
      <3>. QED BY <3>3, <3>5, <3>8
    <2>. QED BY <1>3, <2>1
  <1>. QED BY <1>1, <1>6

-----------------------------------------------------------------------------
(* Sequences of octets, and their parts.                                   *)

(* Sequences of octets.                                                    *)
Bytes == Seq(Octet)

(* Of what a sequence of octets consists.                                  *)
LEMMA BytesAre ==
  ASSUME NEW a \in Bytes
  PROVE  /\ Len(a) \in Nat /\ DOMAIN a = 1 .. Len(a)
         /\ \A i \in 1 .. Len(a) : a[i] \in Octet
  <1>1. a \in Seq(Octet)
    BY DEF Bytes
  <1>. DEFINE S == Octet
  <1>. HIDE DEF S
  <1>2. a \in Seq(S)
    BY <1>1 DEF S
  <1>3. \A i \in 1 .. Len(a) : a[i] \in S
    BY <1>2, ElementOfSeq
  <1>4. Len(a) \in Nat /\ DOMAIN a = 1 .. Len(a)
    BY <1>2, LenProperties
  <1>. QED BY <1>3, <1>4 DEF S

(* Sequences of octets of one length with the same octets are equal.       *)
LEMMA SameBytes ==
  ASSUME NEW a \in Bytes, NEW b \in Bytes, Len(a) = Len(b),
         \A i \in 1 .. Len(a) : a[i] = b[i]
  PROVE  a = b
  <1>1. a \in Seq(Octet) /\ b \in Seq(Octet)
    BY DEF Bytes
  <1>. QED BY <1>1, SeqEqual

(* What two sequences of octets one after the other are.                   *)
LEMMA Join ==
  ASSUME NEW a \in Bytes, NEW b \in Bytes
  PROVE  /\ a \o b \in Bytes
         /\ Len(a \o b) = Len(a) + Len(b)
         /\ \A i \in 1 .. Len(a) : (a \o b)[i] = a[i]
         /\ \A i \in 1 .. Len(b) : (a \o b)[Len(a) + i] = b[i]
  <1>. DEFINE S == Octet
              ab == a \o b
              m == Len(a)
              n == Len(b)
  <1>1. a \in Seq(S) /\ b \in Seq(S)
    BY DEF Bytes
  <1>2. m \in Nat /\ n \in Nat
    BY BytesAre
  <1>. HIDE DEF S
  <1>3. /\ ab \in Seq(S) /\ Len(ab) = m + n
        /\ \A i \in 1 .. m + n : ab[i] = IF i <= m THEN a[i] ELSE b[i - m]
    BY <1>1, ConcatProperties
  <1>. HIDE DEF m, n, ab
  <1>4. \A i \in 1 .. m : ab[i] = a[i]
    <2>1. \A i \in 1 .. m : i \in 1 .. m + n /\ i <= m
      BY <1>2
    <2>. QED BY <1>3, <2>1
  <1>5. \A i \in 1 .. n : ab[m + i] = b[i]
    <2>1. \A i \in 1 .. n : m + i \in 1 .. m + n /\ ~(m + i <= m) /\ (m + i) - m = i
      BY <1>2
    <2>. QED BY <1>3, <2>1
  <1>. QED BY <1>3, <1>4, <1>5 DEF S, ab, m, n, Bytes

(* It does not matter which two of three sequences are joined first.       *)
LEMMA JoinIsAssociative ==
  ASSUME NEW a \in Bytes, NEW b \in Bytes, NEW c \in Bytes
  PROVE  (a \o b) \o c = a \o (b \o c)
  <1>1. a \in Seq(Octet) /\ b \in Seq(Octet) /\ c \in Seq(Octet)
    BY DEF Bytes
  <1>. QED BY <1>1, ConcatAssociative

(* The empty sequence adds nothing.                                        *)
LEMMA JoinNothing ==
  /\ <<>> \in Bytes /\ Len(<<>>) = 0
  /\ \A a \in Bytes : a \o <<>> = a /\ <<>> \o a = a
  <1>1. <<>> \in Bytes /\ Len(<<>>) = 0
    BY DEF Bytes
  <1>2. ASSUME NEW a \in Bytes
        PROVE  a \o <<>> = a /\ <<>> \o a = a
    <2>1. a \in Seq(Octet)
      BY DEF Bytes
    <2>. QED BY <2>1, ConcatEmptySeq
  <1>. QED BY <1>1, <1>2

(* A single octet is a sequence of one octet.                              *)
LEMMA OneByte ==
  ASSUME NEW x \in Octet
  PROVE  <<x>> \in Bytes /\ Len(<<x>>) = 1 /\ <<x>>[1] = x
  BY DEF Bytes

(* A part of a sequence is what its octets are.                            *)
LEMMA SliceIs ==
  ASSUME NEW a \in Bytes, NEW m \in Nat \ {0}, NEW n \in Nat, m <= n + 1, n <= Len(a)
  PROVE  /\ SubSeq(a, m, n) \in Bytes
         /\ Len(SubSeq(a, m, n)) = (n - m) + 1
         /\ \A i \in 1 .. (n - m) + 1 : SubSeq(a, m, n)[i] = a[(m + i) - 1]
  <1>. DEFINE S == Octet
              part == SubSeq(a, m, n)
  <1>1. \A i \in m .. n : i \in 1 .. Len(a)
    BY BytesAre
  <1>2. \A i \in 1 .. Len(a) : a[i] \in S
    BY BytesAre
  <1>3. \A i \in m .. n : a[i] \in S
    BY <1>1, <1>2
  <1>. HIDE DEF S
  <1>4. /\ part \in Seq(S)
        /\ Len(part) = IF m <= n THEN n - m + 1 ELSE 0
        /\ \A i \in 1 .. n - m + 1 : part[i] = a[m + i - 1]
    BY <1>3, SubSeqProperties
  <1>. HIDE DEF part
  <1>5. Len(part) = (n - m) + 1
    BY <1>4
  <1>6. part \in Bytes
    BY <1>4 DEF Bytes, S
  <1>. QED BY <1>4, <1>5, <1>6 DEF part

(* The middle of three sequences, its beginning and its end.               *)
LEMMA Slice ==
  ASSUME NEW a \in Bytes, NEW b \in Bytes, NEW c \in Bytes
  PROVE  SubSeq(a \o b \o c, Len(a) + 1, Len(a) + Len(b)) = b
  <1>. DEFINE m == Len(a)
              n == Len(b)
              ab == a \o b
              abc == ab \o c
              part == SubSeq(abc, m + 1, m + n)
  <1>1. m \in Nat /\ n \in Nat /\ Len(c) \in Nat
    BY BytesAre
  <1>2. /\ ab \in Bytes /\ Len(ab) = m + n
        /\ \A i \in 1 .. n : ab[m + i] = b[i]
    BY Join
  <1>. HIDE DEF ab
  <1>3. /\ abc \in Bytes /\ Len(abc) = (m + n) + Len(c)
        /\ \A i \in 1 .. m + n : abc[i] = ab[i]
    <2>1. /\ abc \in Bytes /\ Len(abc) = Len(ab) + Len(c)
          /\ \A i \in 1 .. Len(ab) : abc[i] = ab[i]
      BY <1>2, Join
    <2>. HIDE DEF abc, m, n
    <2>. QED BY <1>2, <2>1
  <1>. HIDE DEF abc, m, n
  <1>4. /\ m + 1 \in Nat \ {0} /\ m + n \in Nat /\ m + 1 <= (m + n) + 1 /\ m + n <= Len(abc)
        /\ ((m + n) - (m + 1)) + 1 = n
    BY <1>1, <1>3
  <1>5. /\ part \in Bytes /\ Len(part) = n
        /\ \A i \in 1 .. n : part[i] = abc[((m + 1) + i) - 1]
    <2>. DEFINE p == m + 1
                q == m + n
    <2>1. p \in Nat \ {0} /\ q \in Nat /\ p <= q + 1 /\ q <= Len(abc) /\ (q - p) + 1 = n
      BY <1>4
    <2>. HIDE DEF p, q
    <2>2. /\ SubSeq(abc, p, q) \in Bytes
          /\ Len(SubSeq(abc, p, q)) = (q - p) + 1
          /\ \A i \in 1 .. (q - p) + 1 : SubSeq(abc, p, q)[i] = abc[(p + i) - 1]
      BY <1>3, <2>1, SliceIs
    <2>. QED BY <2>1, <2>2 DEF p, q
  <1>. HIDE DEF part
  <1>6. \A i \in 1 .. n : part[i] = b[i]
    <2>1. \A i \in 1 .. n : ((m + 1) + i) - 1 = m + i /\ m + i \in 1 .. m + n
      BY <1>1
    <2>. QED BY <1>2, <1>3, <1>5, <2>1
  <1>7. part = b
    BY <1>5, <1>6, SameBytes DEF n
  <1>. QED BY <1>7 DEF part, abc, ab, m, n

(* The beginning of two sequences is the first of them.                    *)
LEMMA SliceStart ==
  ASSUME NEW a \in Bytes, NEW b \in Bytes
  PROVE  SubSeq(a \o b, 1, Len(a)) = a
  <1>. DEFINE none == <<>>
  <1>1. none \in Bytes /\ Len(none) = 0 /\ none \o a = a
    BY JoinNothing
  <1>2. Len(a) \in Nat
    BY BytesAre
  <1>. HIDE DEF none
  <1>3. SubSeq(none \o a \o b, Len(none) + 1, Len(none) + Len(a)) = a
    BY <1>1, Slice
  <1>4. Len(none) + 1 = 1 /\ Len(none) + Len(a) = Len(a)
    BY <1>1, <1>2
  <1>. QED BY <1>1, <1>3, <1>4

(* The end of two sequences is the second of them.                         *)
LEMMA SliceEnd ==
  ASSUME NEW a \in Bytes, NEW b \in Bytes
  PROVE  SubSeq(a \o b, Len(a) + 1, Len(a \o b)) = b
  <1>. DEFINE none == <<>>
              ab == a \o b
  <1>1. ab \in Bytes /\ Len(ab) = Len(a) + Len(b)
    BY Join
  <1>. HIDE DEF ab
  <1>2. none \in Bytes /\ ab \o none = ab
    BY <1>1, JoinNothing
  <1>. HIDE DEF none
  <1>3. SubSeq(a \o b \o none, Len(a) + 1, Len(a) + Len(b)) = b
    BY <1>2, Slice
  <1>. QED BY <1>1, <1>2, <1>3 DEF ab

-----------------------------------------------------------------------------
(* Fields and their layouts: what is asked of them for what is pushed to   *)
(* be read again.                                                          *)

NumberKinds == {"unsigned", "signed", "nibble", "one", "nonzero"}

FlagKinds   == {"bits", "least", "greatest", "sixteens"}

TextKinds   == {"counted", "text"}

Kinds       == NumberKinds \cup FlagKinds \cup TextKinds \cup {"hex", "name+location", "time"}

Fields(names) == [name : names, kind : Kinds, width : 1 .. 128, weights : SUBSET Weights]

(* Values that can be pushed, though not all of them can be read again.    *)
Writable(field, value) ==
  /\ field.kind \in NumberKinds => value \in Int
  /\ field.kind \in FlagKinds => value \subseteq Weights
  /\ field.kind = "hex" => value \in Bytes
  /\ field.kind \in TextKinds => value \in Bytes /\ Len(value) <= 255
  /\ field.kind = "name+location" => value[1] \in Bytes /\ value[2] \in Bytes
  /\ field.kind = "time" => value \in Nat

(* No field takes more octets than this.                                   *)
FieldSize == 400

(* Octets pushes as many octets as the field is wide.                      *)
LEMMA OctetsBytes ==
  ASSUME NEW n \in Int, NEW width \in Nat
  PROVE  Octets(n, width) \in Bytes /\ Len(Octets(n, width)) = width
  BY OctetsType DEF Bytes

(* FromHexStr pushes as many octets as the field is wide, whatever the     *)
(* string holds.                                                           *)
LEMMA FromHexStrType ==
  ASSUME NEW hex \in Bytes, NEW width \in Nat
  PROVE  FromHexStr(hex, width) \in Bytes /\ Len(FromHexStr(hex, width)) = width
  <1>1. \A i \in 1 .. width : (IF i <= Len(hex) THEN hex[i] ELSE 0) \in Octet
    <2>1. \A i \in 1 .. width : i <= Len(hex) => i \in 1 .. Len(hex)
      BY BytesAre
    <2>2. \A i \in 1 .. Len(hex) : hex[i] \in Octet
      BY BytesAre
    <2>3. 0 \in Octet
      BY OctetIs
    <2>. QED BY <2>1, <2>2, <2>3
  <1>. QED BY <1>1 DEF FromHexStr, Bytes

(* A text that is not too long is written after its length.                *)
LEMMA FromStrType ==
  ASSUME NEW text \in Bytes, NEW width \in Nat
  PROVE  FromStr(text, width) \in Bytes /\ Len(FromStr(text, width)) = width + Len(text)
  <1>. DEFINE n == Len(text)
              length == Octets(n, width)
  <1>1. n \in Int
    BY BytesAre
  <1>. HIDE DEF n
  <1>2. length \in Bytes /\ Len(length) = width
    BY <1>1, OctetsBytes
  <1>. HIDE DEF length
  <1>3. length \o text \in Bytes /\ Len(length \o text) = Len(length) + Len(text)
    BY <1>2, Join
  <1>. QED BY <1>2, <1>3 DEF FromStr, length, n

(* Every set of weights that is not empty has a least and a greatest.      *)
LEMMA WeightsRange ==
  ASSUME NEW value, value \subseteq Weights, value # {}
  PROVE  Min(value) \in value /\ Max(value) \in value
  <1>1. value \subseteq Nat
    BY DEF Weights
  <1>2. \E least \in value : \A n \in value : least <= n
    BY <1>1, LeastNatural
  <1>3. \E greatest \in value : \A i \in value : greatest >= i
    <2>. DEFINE n == 40000
    <2>1. n \in Nat /\ \A w \in Weights : w \in Nat /\ 1 <= w /\ w <= n
      BY SMT DEF Weights
    <2>. HIDE DEF n
    <2>2. value \in SUBSET (1 .. n)
      BY <2>1
    <2>. QED BY <2>1, <2>2, GreatestIndex
  <1>4. Min(value) \in value
    BY <1>2, Zenon DEF Min
  <1>5. Max(value) \in value
    BY <1>3, Zenon DEF Max
  <1>. QED BY <1>4, <1>5

(* A set of flags has a finite number of them.                             *)
LEMMA WeightsCount ==
  ASSUME NEW value, value \subseteq Weights
  PROVE  Cardinality(value) \in Nat
  <1>. DEFINE n == 40000
  <1>3. n \in Nat /\ \A w \in Weights : w \in Nat /\ 1 <= w /\ w <= n
    BY SMT DEF Weights
  <1>. HIDE DEF n
  <1>1. n \in Nat /\ value \subseteq 1 .. n
    BY <1>3
  <1>2. IsFiniteSet(1 .. n)
    BY <1>1, FS_Interval
  <1>4. IsFiniteSet(value)
    BY <1>1, <1>2, FS_Subset
  <1>. QED BY <1>4, FS_CardinalityType

(* A sequence of n fields with different names.                            *)
IsLayout(layout, names, n) ==
  /\ layout \in Seq(Fields(names)) /\ Len(layout) = n /\ n \in Nat
  /\ \A i, j \in 1 .. n : layout[i].name = layout[j].name => i = j
  /\ \A name \in names : \E i \in 1 .. n : layout[i].name = name

CanWrite(layout, contents) ==
  \A i \in 1 .. Len(layout) : Writable(layout[i], contents[layout[i].name])

(* Apart from \o, which the provers take to pieces in an equation.         *)
Then(x, y) == x \o y

CanPush(names, layout, contents) ==
  layout \in Seq(Fields(names)) /\ CanWrite(layout, contents)

(* What has been read after some of the fields.                            *)
Upto(layout, flat, values, i) ==
  [next     |-> Len(flat[i]) + 1,
   contents |-> [name \in {layout[j].name : j \in 1 .. i} |-> values[name]]]

(* Before the first field nothing has been read, and reading starts at the *)
(* first octet.                                                            *)
LEMMA ReadStarts ==
  ASSUME NEW layout, NEW flat, NEW values, flat[0] = <<>>
  PROVE  Upto(layout, flat, values, 0) = [next |-> 1, contents |-> <<>>]
  <1>1. {layout[j].name : j \in 1 .. 0} = {}
    OBVIOUS
  <1>. DEFINE e == [name \in {} |-> values[name]]
              s == <<>>
  <1>2. e = s
    <2>1. DOMAIN e = {} /\ e = [x \in DOMAIN e |-> e[x]]
      OBVIOUS
    <2>2. s \in [1 .. 0 -> {}]
      OBVIOUS
    <2>3. DOMAIN s = {} /\ s = [x \in DOMAIN s |-> s[x]]
      BY <2>2
    <2>. QED BY <2>1, <2>3
  <1>3. Len(flat[0]) + 1 = 1
    OBVIOUS
  <1>. QED BY <1>1, <1>2, <1>3 DEF Upto

Follows(flat, n, rest, i) ==
  \E after \in Bytes : after # <<>> /\ flat[n] \o rest = flat[i] \o after

(* Whatever is pushed after some of the parts, something follows.          *)
LEMMA SomethingFollows ==
  ASSUME NEW n \in Nat, NEW parts \in Seq(Bytes), Len(parts) = n,
         NEW flat, IsFlat(flat, parts, Octet),
         NEW rest \in Bytes, rest # <<>>
  PROVE  \A i \in 0 .. n : Follows(flat, n, rest, i)
  <1>. DEFINE octets == flat[n] \o rest
              Z == {k \in 0 .. n : Follows(flat, n, rest, n - k)}
  <1>1. 0 \in Z
    <2>1. Follows(flat, n, rest, n)
      BY Zenon DEF Follows
    <2>2. n - 0 = n /\ 0 \in 0 .. n
      OBVIOUS
    <2>. QED BY <2>1, <2>2
  <1>2. ASSUME NEW k \in 1 .. n, k - 1 \in Z
        PROVE  k \in Z
    <2>. DEFINE i == n - k
                a == flat[i]
                b == parts[i + 1]
    <2>1. i \in 0 .. n /\ i + 1 \in 1 .. n /\ (i + 1) - 1 = i /\ n - (k - 1) = i + 1
          /\ k \in 0 .. n
      OBVIOUS
    <2>. HIDE DEF i
    <2>2. Follows(flat, n, rest, i + 1)
      BY <1>2, <2>1
    <2>3. flat[i + 1] = a \o b /\ a \in Bytes /\ b \in Bytes
      <3>1. \A j \in 1 .. n : flat[j] = flat[j - 1] \o parts[j]
        BY DEF IsFlat
      <3>2. \A j \in 0 .. n : flat[j] \in Bytes
        BY DEF IsFlat, Bytes
      <3>3. \A j \in 1 .. n : parts[j] \in Bytes
        BY ElementOfSeq
      <3>. QED BY <2>1, <3>1, <3>2, <3>3
    <2>4. PICK after \in Bytes : after # <<>> /\ octets = flat[i + 1] \o after
      BY <2>2, Zenon DEF Follows
    <2>. HIDE DEF a, b, octets
    <2>. DEFINE more == b \o after
    <2>5. (a \o b) \o after = a \o (b \o after)
      BY <2>3, <2>4, JoinIsAssociative
    <2>6. more \in Bytes /\ more # <<>>
      <3>1. more \in Bytes /\ Len(more) = Len(b) + Len(after)
        BY <2>3, <2>4, Join
      <3>2. Len(after) # 0
        <4>1. Len(after) \in Nat
          BY <2>4, BytesAre
        <4>2. Len(after) = 0 => after = <<>>
          <5>. DEFINE none == <<>>
          <5>1. none \in Bytes /\ Len(none) = 0
            BY JoinNothing
          <5>. HIDE DEF none
          <5>2. Len(after) = 0 => after = none
            BY <2>4, <5>1, SameBytes
          <5>. QED BY <5>2 DEF none
        <4>. QED BY <2>4, <4>2
      <3>3. Len(b) \in Nat /\ Len(after) \in Nat /\ Len(<<>>) = 0
        BY <2>3, <2>4, BytesAre
      <3>. HIDE DEF more
      <3>4. Len(more) # 0
        BY <3>1, <3>2, <3>3
      <3>. QED BY <3>1, <3>3, <3>4
    <2>7. octets = flat[i] \o more
      BY <2>3, <2>4, <2>5 DEF a
    <2>. HIDE DEF more
    <2>8. Follows(flat, n, rest, i)
      <3>1. flat[n] \o rest = flat[i] \o more
        BY <2>7 DEF octets
      <3>. QED BY <2>6, <3>1, Zenon DEF Follows
    <2>. QED BY <2>1, <2>8 DEF i
  <1>. HIDE DEF Z
  <1>3. 0 .. n \subseteq Z
    BY <1>1, <1>2, InductionUpTo
  <1>4. ASSUME NEW i \in 0 .. n
        PROVE  Follows(flat, n, rest, i)
    <2>. DEFINE k == n - i
    <2>1. k \in 0 .. n /\ n - k = i
      OBVIOUS
    <2>. HIDE DEF k, octets
    <2>. QED BY <1>3, <2>1 DEF Z
  <1>. QED BY <1>4

\* The weights that have a bit within so many octets.
FlagWidths == {1, 2}

(* Fields that the constructor reads as something was pushed for them.     *)
Readable(field) ==
  /\ field.kind \in Kinds \ {"least", "greatest", "sixteens"}
  /\ field.kind \in NumberKinds => field.width \in Widths
  /\ field.kind \in TextKinds \cup {"name+location"} => field.width \in {1, 2}
  /\ field.kind \in FlagKinds => field.width = 1 \/ field.width = 2
  /\ field.kind \in FlagKinds => \A w \in field.weights : field.width = 1 => w < 256
  /\ field.kind = "time" => field.width = 10

(* What a field with a name of its own in Blank is.                        *)
SuitsBlank(field) ==
  /\ field.name \in {"eDelayMechanism", "nValue", "nKeyField"} => field.kind \in NumberKinds
  /\ field.name = "sInterface" => field.kind = "text"

NamesOf(layout) == {layout[i].name : i \in 1 .. Len(layout)}

MembersOf(layout) == {layout[i] : i \in 1 .. Len(layout)}

(* Apart from Len, which the provers simplify.                             *)
SizeOf(layout) == Len(layout)

(* Layouts with as many names as fields, each of which suits Blank and     *)
(* Create.                                                                 *)
Laid(layout) ==
  /\ IsLayout(layout, NamesOf(layout), Len(layout))
  /\ \A i \in 1 .. Len(layout) : SuitsBlank(layout[i])

(* Layouts that are read as they are written.                              *)
Received(layout) == \A i \in 1 .. Len(layout) : Readable(layout[i])

(* Of layouts without a name in common one after the other.                *)
LEMMA LaidJoin ==
  ASSUME NEW a, NEW b, Laid(a), Laid(b), NamesOf(a) \cap NamesOf(b) = {}
  PROVE  /\ Laid(a \o b) /\ NamesOf(a \o b) = NamesOf(a) \cup NamesOf(b)
         /\ SizeOf(a \o b) = SizeOf(a) + SizeOf(b)
         /\ MembersOf(a \o b) = MembersOf(a) \cup MembersOf(b)
         /\ Received(a) /\ Received(b) => Received(a \o b)
  <1>. DEFINE A == NamesOf(a)
              B == NamesOf(b)
              S == Fields(A \cup B)
              m == Len(a)
              n == Len(b)
              ab == a \o b
  <1>1. a \in Seq(S) /\ b \in Seq(S)
    <2>1. Fields(A) \subseteq S /\ Fields(B) \subseteq S
      BY DEF Fields
    <2>2. a \in Seq(Fields(A)) /\ b \in Seq(Fields(B))
      BY DEF Laid, IsLayout
    <2>. HIDE DEF S, A, B
    <2>. QED BY <2>1, <2>2
  <1>. HIDE DEF S
  <1>2. /\ ab \in Seq(S) /\ Len(ab) = m + n /\ m \in Nat /\ n \in Nat
        /\ \A i \in 1 .. m : ab[i] = a[i]
        /\ \A i \in 1 .. n : ab[m + i] = b[i]
    BY <1>1, ConcatProperties
  <1>. HIDE DEF ab, m, n
  <1>3. \A i \in 1 .. m + n : i \in 1 .. m \/ (i - m \in 1 .. n /\ i = m + (i - m))
    BY <1>2
  <1>4. /\ \A i \in 1 .. m : i \in 1 .. m + n
        /\ \A i \in 1 .. n : m + i \in 1 .. m + n
    BY <1>2
  <1>5. \A i \in 1 .. m + n : (i \in 1 .. m /\ ab[i] = a[i])
                              \/ (\E j \in 1 .. n : i = m + j /\ ab[i] = b[j])
    BY <1>2, <1>3
  <1>6. MembersOf(ab) = MembersOf(a) \cup MembersOf(b)
    <2>1. \A i \in 1 .. m + n : ab[i] \in MembersOf(a) \cup MembersOf(b)
      BY <1>5 DEF MembersOf, m, n
    <2>2. \A i \in 1 .. m : a[i] \in MembersOf(ab)
      BY <1>2, <1>4 DEF MembersOf
    <2>3. \A i \in 1 .. n : b[i] \in MembersOf(ab)
      BY <1>2, <1>4 DEF MembersOf
    <2>4. MembersOf(ab) = {ab[i] : i \in 1 .. m + n}
      BY <1>2 DEF MembersOf
    <2>5. MembersOf(a) = {a[i] : i \in 1 .. m} /\ MembersOf(b) = {b[i] : i \in 1 .. n}
      BY DEF MembersOf, m, n
    <2>. QED BY <2>1, <2>2, <2>3, <2>4, <2>5
  <1>7. NamesOf(ab) = A \cup B
    <2>1. \A i \in 1 .. m + n : ab[i].name \in A \cup B
      BY <1>5 DEF NamesOf, m, n
    <2>2. \A i \in 1 .. m : a[i].name \in NamesOf(ab)
      BY <1>2, <1>4 DEF NamesOf
    <2>3. \A i \in 1 .. n : b[i].name \in NamesOf(ab)
      BY <1>2, <1>4 DEF NamesOf
    <2>4. NamesOf(ab) = {ab[i].name : i \in 1 .. m + n}
      BY <1>2 DEF NamesOf
    <2>5. A = {a[i].name : i \in 1 .. m} /\ B = {b[i].name : i \in 1 .. n}
      BY DEF NamesOf, m, n
    <2>. QED BY <2>1, <2>2, <2>3, <2>4, <2>5
  <1>8. \A i \in 1 .. m : a[i].name \in A
    BY DEF NamesOf, m
  <1>9. \A j \in 1 .. n : b[j].name \in B
    BY DEF NamesOf, n
  <1>10. A \cap B = {}
    OBVIOUS
  <1>11. /\ \A i, j \in 1 .. m : a[i].name = a[j].name => i = j
         /\ \A i, j \in 1 .. n : b[i].name = b[j].name => i = j
    BY DEF Laid, IsLayout, m, n
  <1>. HIDE DEF A, B
  <1>12. ASSUME NEW i \in 1 .. m + n, NEW j \in 1 .. m + n, ab[i].name = ab[j].name
         PROVE  i = j
    <2>. DEFINE x == ab[i].name
                y == ab[j].name
    <2>5. i \in 1 .. m => x \in A
      BY <1>2, <1>8
    <2>6. i \notin 1 .. m => x \in B
      BY <1>5, <1>9
    <2>7. j \in 1 .. m => y \in A
      BY <1>2, <1>8
    <2>8. j \notin 1 .. m => y \in B
      BY <1>5, <1>9
    <2>9. x = y
      BY <1>12
    <2>1. CASE i \in 1 .. m /\ j \in 1 .. m
      BY <1>2, <1>11, <1>12, <2>1
    <2>2. CASE i \in 1 .. m /\ j \notin 1 .. m
      <3>. HIDE DEF x, y
      <3>. QED BY <1>10, <2>2, <2>5, <2>8, <2>9
    <2>3. CASE i \notin 1 .. m /\ j \in 1 .. m
      <3>. HIDE DEF x, y
      <3>. QED BY <1>10, <2>3, <2>6, <2>7, <2>9
    <2>4. CASE i \notin 1 .. m /\ j \notin 1 .. m
      BY <1>5, <1>11, <1>12, <2>4
    <2>. QED BY <2>1, <2>2, <2>3, <2>4
  <1>13. \A i \in 1 .. m + n : SuitsBlank(ab[i])
    <2>1. /\ \A i \in 1 .. m : SuitsBlank(a[i])
          /\ \A i \in 1 .. n : SuitsBlank(b[i])
      BY DEF Laid, m, n
    <2>. QED BY <1>5, <2>1
  <1>14. \A name \in A \cup B : \E i \in 1 .. m + n : ab[i].name = name
    <2>1. /\ \A name \in A : \E i \in 1 .. m : a[i].name = name
          /\ \A name \in B : \E i \in 1 .. n : b[i].name = name
      BY DEF A, B, NamesOf, m, n
    <2>2. ASSUME NEW name \in A
          PROVE  \E i \in 1 .. m + n : ab[i].name = name
      <3>1. PICK i \in 1 .. m : a[i].name = name
        BY <2>1
      <3>2. i \in 1 .. m + n /\ ab[i] = a[i]
        BY <1>2, <1>4
      <3>. QED BY <3>1, <3>2
    <2>3. ASSUME NEW name \in B
          PROVE  \E i \in 1 .. m + n : ab[i].name = name
      <3>1. PICK i \in 1 .. n : b[i].name = name
        BY <2>1
      <3>2. m + i \in 1 .. m + n /\ ab[m + i] = b[i]
        BY <1>2, <1>4
      <3>. QED BY <3>1, <3>2
    <2>. QED BY <2>2, <2>3
  <1>15. IsLayout(ab, A \cup B, m + n)
    BY <1>2, <1>12, <1>14 DEF IsLayout, S
  <1>16. Laid(ab)
    BY <1>2, <1>7, <1>13, <1>15 DEF Laid
  <1>17. Received(a) /\ Received(b) => Received(ab)
    BY <1>2, <1>5 DEF Received, m, n
  <1>18. SizeOf(ab) = SizeOf(a) + SizeOf(b)
    BY <1>2 DEF SizeOf, m, n
  <1>. QED BY <1>6, <1>7, <1>16, <1>17, <1>18 DEF ab, A, B

(* Of a field.                                                             *)
LEMMA LaidOne ==
  ASSUME NEW field, NEW names, field \in Fields(names), names = {field.name}, SuitsBlank(field),
         NEW layout, layout = <<field>>
  PROVE  /\ Laid(layout) /\ NamesOf(layout) = names /\ SizeOf(layout) = 1
         /\ MembersOf(layout) = {field}
         /\ Readable(field) => Received(layout)
  <1>1. layout \in Seq(Fields(names)) /\ Len(layout) = 1 /\ 1 .. 1 = {1} /\ layout[1] = field
    OBVIOUS
  <1>2. NamesOf(layout) = names /\ MembersOf(layout) = {field}
    BY <1>1 DEF NamesOf, MembersOf
  <1>3. Laid(layout)
    BY <1>1, <1>2 DEF Laid, IsLayout
  <1>4. Readable(field) => Received(layout)
    BY <1>1 DEF Received
  <1>. QED BY <1>1, <1>2, <1>3, <1>4 DEF SizeOf

UnsignedOf(name, width) ==
  [name |-> name, kind |-> "unsigned", width |-> width, weights |-> {}]

(* Several numbers one after the other.                                    *)
LEMMA UsIs ==
  ASSUME NEW S, NEW names \in Seq(S), NEW width
  PROVE  Us(names, width) = [i \in 1 .. Len(names) |-> UnsignedOf(names[i], width)]
  <1>. DEFINE n == Len(names)
              R == {UnsignedOf(name, width) : name \in S}
              field(i) == UnsignedOf(names[i], width)
              parts == [i \in DOMAIN names |-> U(names[i], width)]
              flat == [k \in 0 .. n |-> [i \in 1 .. k |-> field(i)]]
  <1>1. n \in Nat /\ DOMAIN names = 1 .. n /\ \A i \in 1 .. n : field(i) \in R
    OBVIOUS
  <1>2. parts = [i \in 1 .. n |-> <<field(i)>>]
    BY <1>1 DEF U, Field, UnsignedOf
  <1>3. Us(names, width) = FlattenSeq(parts)
    BY DEF Us
  <1>. HIDE DEF R, field, n, parts
  <1>4. parts \in Seq(Seq(R)) /\ Len(parts) = n /\ \A i \in 1 .. n : parts[i] = <<field(i)>>
    <2>1. parts \in [1 .. n -> Seq(R)]
      BY <1>1, <1>2
    <2>2. parts \in Seq(Seq(R)) /\ Len(parts) = n
      BY <1>1, <2>1
    <2>. QED BY <1>2, <2>2
  <1>5. \A k \in 0 .. n : /\ flat[k] \in Seq(R) /\ Len(flat[k]) = k
                          /\ \A i \in 1 .. k : flat[k][i] = field(i)
    <2>1. ASSUME NEW k \in 0 .. n
          PROVE  [i \in 1 .. k |-> field(i)] \in Seq(R) /\ Len([i \in 1 .. k |-> field(i)]) = k
      <3>1. k \in Nat /\ \A i \in 1 .. k : i \in 1 .. n
        BY <1>1
      <3>2. [i \in 1 .. k |-> field(i)] \in [1 .. k -> R]
        BY <1>1, <3>1
      <3>. QED BY <3>1, <3>2
    <2>. QED BY <2>1
  <1>6. flat \in [0 .. n -> Seq(R)] /\ flat[0] = <<>>
    <2>1. 0 \in 0 .. n
      BY <1>1
    <2>2. flat[0] \in Seq(R) /\ Len(flat[0]) = 0
      BY <1>5, <2>1
    <2>3. flat \in [0 .. n -> Seq(R)]
      BY <1>5
    <2>. HIDE DEF flat
    <2>. QED BY <2>2, <2>3, EmptySeq
  <1>. HIDE DEF flat
  <1>7. ASSUME NEW k \in 1 .. n
        PROVE  flat[k] = flat[k - 1] \o parts[k]
    <2>. DEFINE old == flat[k - 1]
                one == <<field(k)>>
                both == old \o one
                new == flat[k]
    <2>1. k - 1 \in 0 .. n /\ k \in 0 .. n /\ k \in Nat /\ k - 1 \in Nat
      BY <1>1
    <2>2. old \in Seq(R) /\ Len(old) = k - 1 /\ \A i \in 1 .. k - 1 : old[i] = field(i)
      BY <1>5, <2>1
    <2>3. one \in Seq(R) /\ Len(one) = 1 /\ one[1] = field(k)
      BY <1>1
    <2>4. new \in Seq(R) /\ Len(new) = k /\ \A i \in 1 .. k : new[i] = field(i)
      BY <1>5, <2>1
    <2>. HIDE DEF old, one, new
    <2>5. /\ both \in Seq(R) /\ Len(both) = Len(old) + Len(one)
          /\ \A i \in 1 .. Len(old) + Len(one) :
               both[i] = IF i <= Len(old) THEN old[i] ELSE one[i - Len(old)]
      BY <2>2, <2>3, ConcatProperties
    <2>. HIDE DEF both
    <2>6. Len(both) = k /\ \A i \in 1 .. k - 1 : both[i] = old[i]
      BY <2>1, <2>2, <2>3, <2>5
    <2>10. both[k] = field(k)
      <3>1. k \in 1 .. Len(old) + Len(one) /\ ~(k <= Len(old)) /\ k - Len(old) = 1
        BY <2>1, <2>2, <2>3
      <3>. QED BY <2>3, <2>5, <3>1
    <2>7. \A i \in 1 .. k : i = k \/ i \in 1 .. k - 1
      BY <2>1
    <2>8. \A i \in 1 .. k : both[i] = new[i]
      BY <2>2, <2>4, <2>6, <2>7, <2>10
    <2>9. new = both
      BY <2>4, <2>5, <2>6, <2>8, SeqEqual
    <2>. QED BY <1>4, <2>9 DEF new, both, old, one
  <1>8. IsFlat(flat, parts, R)
    BY <1>4, <1>6, <1>7 DEF IsFlat
  <1>9. FlattenSeq(parts) = flat[n]
    BY <1>4, <1>8, FlattenIs
  <1>10. flat[n] = [i \in 1 .. n |-> field(i)]
    <2>1. n \in 0 .. n
      BY <1>1
    <2>. QED BY <2>1 DEF flat
  <1>. QED BY <1>3, <1>9, <1>10 DEF field, n

(* Of several numbers.                                                     *)
LEMMA LaidUs ==
  ASSUME NEW S, NEW names \in Seq(S), NEW width \in 1 .. 128,
         \A i, j \in 1 .. Len(names) : names[i] = names[j] => i = j,
         \A i \in 1 .. Len(names) : names[i] # "sInterface"
  PROVE  /\ Laid(Us(names, width))
         /\ NamesOf(Us(names, width)) = {names[i] : i \in 1 .. Len(names)}
         /\ SizeOf(Us(names, width)) = Len(names)
         /\ MembersOf(Us(names, width)) = {UnsignedOf(names[i], width) : i \in 1 .. Len(names)}
         /\ width \in Widths => Received(Us(names, width))
  <1>. DEFINE n == Len(names)
              layout == Us(names, width)
              N == {names[i] : i \in 1 .. n}
  <1>1. n \in Nat
    OBVIOUS
  <1>2. layout = [i \in 1 .. n |-> UnsignedOf(names[i], width)]
    BY UsIs
  <1>3. \A i \in 1 .. n : /\ UnsignedOf(names[i], width) \in Fields(N)
                          /\ UnsignedOf(names[i], width).name = names[i]
                          /\ UnsignedOf(names[i], width).kind = "unsigned"
                          /\ UnsignedOf(names[i], width).width = width
    BY DEF UnsignedOf, Fields, Kinds, NumberKinds
  <1>. HIDE DEF n, layout, N
  <1>4. layout \in Seq(Fields(N)) /\ Len(layout) = n
        /\ \A i \in 1 .. n : layout[i] = UnsignedOf(names[i], width)
    <2>1. layout \in [1 .. n -> Fields(N)]
      BY <1>2, <1>3
    <2>. QED BY <1>1, <1>2, <2>1
  <1>5. NamesOf(layout) = N
    BY <1>3, <1>4 DEF NamesOf, N, n
  <1>6. MembersOf(layout) = {UnsignedOf(names[i], width) : i \in 1 .. n}
    BY <1>4 DEF MembersOf
  <1>7. \A i \in 1 .. n : layout[i].name = names[i] /\ layout[i].kind = "unsigned"
                            /\ layout[i].width = width
    BY <1>3, <1>4
  <1>8. Laid(layout)
    <2>1. \A i, j \in 1 .. n : layout[i].name = layout[j].name => i = j
      BY <1>7 DEF n
    <2>2. \A name \in N : \E i \in 1 .. n : layout[i].name = name
      BY <1>7 DEF N, n
    <2>3. \A i \in 1 .. n : SuitsBlank(layout[i])
      <3>1. ASSUME NEW i \in 1 .. n
            PROVE  SuitsBlank(layout[i])
        <4>1. layout[i].kind = "unsigned" /\ layout[i].kind \in NumberKinds
          BY <1>7 DEF NumberKinds
        <4>2. layout[i].name = "sInterface" => FALSE
          BY <1>7 DEF n
        <4>. QED BY <4>1, <4>2 DEF SuitsBlank
      <3>. QED BY <3>1
    <2>. QED BY <1>1, <1>4, <1>5, <2>1, <2>2, <2>3 DEF Laid, IsLayout
  <1>9. width \in Widths => Received(layout)
    BY <1>4, <1>7 DEF Received, Readable, Kinds, NumberKinds, FlagKinds, TextKinds
  <1>. QED BY <1>4, <1>5, <1>6, <1>8, <1>9 DEF layout, N, n, SizeOf

(* Of four layouts, and of three.                                          *)
LEMMA LaidJoin4 ==
  ASSUME NEW a, NEW b, NEW c, NEW d, Laid(a), Laid(b), Laid(c), Laid(d),
         NamesOf(a) \cap NamesOf(b) = {},
         (NamesOf(a) \cup NamesOf(b)) \cap NamesOf(c) = {},
         (NamesOf(a) \cup NamesOf(b) \cup NamesOf(c)) \cap NamesOf(d) = {}
  PROVE  /\ Laid(a \o b \o c \o d)
         /\ NamesOf(a \o b \o c \o d) = NamesOf(a) \cup NamesOf(b) \cup NamesOf(c) \cup NamesOf(d)
         /\ SizeOf(a \o b \o c \o d) = SizeOf(a) + SizeOf(b) + SizeOf(c) + SizeOf(d)
         /\ Received(a) /\ Received(b) /\ Received(c) /\ Received(d)
              => Received(a \o b \o c \o d)
  <1>. DEFINE ab == a \o b
              abc == ab \o c
  <1>1. /\ Laid(ab) /\ NamesOf(ab) = NamesOf(a) \cup NamesOf(b)
        /\ SizeOf(ab) = SizeOf(a) + SizeOf(b)
        /\ Received(a) /\ Received(b) => Received(ab)
    BY LaidJoin
  <1>. HIDE DEF ab
  <1>2. /\ Laid(abc) /\ NamesOf(abc) = NamesOf(ab) \cup NamesOf(c)
        /\ SizeOf(abc) = SizeOf(ab) + SizeOf(c)
        /\ Received(ab) /\ Received(c) => Received(abc)
    BY <1>1, LaidJoin
  <1>. HIDE DEF abc
  <1>3. /\ Laid(abc \o d) /\ NamesOf(abc \o d) = NamesOf(abc) \cup NamesOf(d)
        /\ SizeOf(abc \o d) = SizeOf(abc) + SizeOf(d)
        /\ Received(abc) /\ Received(d) => Received(abc \o d)
    BY <1>1, <1>2, LaidJoin
  <1>. QED BY <1>1, <1>2, <1>3 DEF abc, ab

(* Of three layouts.                                                       *)
LEMMA LaidJoin3 ==
  ASSUME NEW a, NEW b, NEW c, Laid(a), Laid(b), Laid(c),
         NamesOf(a) \cap NamesOf(b) = {},
         (NamesOf(a) \cup NamesOf(b)) \cap NamesOf(c) = {}
  PROVE  /\ Laid(a \o b \o c)
         /\ NamesOf(a \o b \o c) = NamesOf(a) \cup NamesOf(b) \cup NamesOf(c)
         /\ SizeOf(a \o b \o c) = SizeOf(a) + SizeOf(b) + SizeOf(c)
         /\ Received(a) /\ Received(b) /\ Received(c) => Received(a \o b \o c)
  <1>. DEFINE ab == a \o b
  <1>1. /\ Laid(ab) /\ NamesOf(ab) = NamesOf(a) \cup NamesOf(b)
        /\ SizeOf(ab) = SizeOf(a) + SizeOf(b)
        /\ Received(a) /\ Received(b) => Received(ab)
    BY LaidJoin
  <1>. HIDE DEF ab
  <1>2. /\ Laid(ab \o c) /\ NamesOf(ab \o c) = NamesOf(ab) \cup NamesOf(c)
        /\ SizeOf(ab \o c) = SizeOf(ab) + SizeOf(c)
        /\ Received(ab) /\ Received(c) => Received(ab \o c)
    BY <1>1, LaidJoin
  <1>. QED BY <1>1, <1>2 DEF ab

(* Of a field that is read as it was written.                              *)
IsOne(layout, name) ==
  Laid(layout) /\ Received(layout) /\ NamesOf(layout) = {name} /\ SizeOf(layout) = 1

(* What is asked of one field, by its kind and width, for its layout to be *)
(* read as it was written.                                                 *)
LEMMA LaidField ==
  ASSUME NEW name, NEW kind, NEW width,
         kind \in Kinds \ FlagKinds, width \in 1 .. 128,
         kind \notin NumberKinds => name \notin {"eDelayMechanism", "nValue", "nKeyField"},
         kind # "text" => name # "sInterface",
         kind \in NumberKinds => width \in Widths,
         kind \in TextKinds \cup {"name+location"} => width \in {1, 2},
         kind = "time" => width = 10,
         NEW layout, layout = Field(name, kind, width)
  PROVE  IsOne(layout, name)
  <1>. DEFINE field == [name |-> name, kind |-> kind, width |-> width, weights |-> {}]
              names == {name}
  <1>1. layout = <<field>>
    BY DEF Field
  <1>2. field.name = name /\ field.kind = kind /\ field.width = width /\ field.weights = {}
    OBVIOUS
  <1>3. field \in Fields(names)
    BY DEF Fields
  <1>4. names = {field.name}
    BY <1>2
  <1>. HIDE DEF field, names
  <1>5. SuitsBlank(field)
    BY <1>2 DEF SuitsBlank
  <1>6. Readable(field)
    BY <1>2 DEF Readable, FlagKinds
  <1>7. Laid(layout) /\ NamesOf(layout) = names /\ SizeOf(layout) = 1 /\ Received(layout)
    BY <1>1, <1>3, <1>4, <1>5, <1>6, LaidOne
  <1>. QED BY <1>7 DEF IsOne, names

(* Of an unsigned number.                                                  *)
LEMMA LaidU ==
  ASSUME NEW name, name # "sInterface", NEW width \in Widths
  PROVE  IsOne(U(name, width), name)
  <1>. DEFINE kind == "unsigned"
              layout == U(name, width)
  <1>1. /\ kind \in Kinds \ FlagKinds /\ kind \in NumberKinds /\ width \in 1 .. 128
        /\ kind # "text" /\ kind # "time" /\ kind \notin TextKinds \cup {"name+location"}
    BY DEF Kinds, FlagKinds, NumberKinds, TextKinds, Widths
  <1>2. layout = Field(name, kind, width)
    BY DEF U
  <1>. HIDE DEF kind, layout
  <1>3. IsOne(layout, name)
    BY <1>1, <1>2, LaidField
  <1>. QED BY <1>3 DEF layout

(* Of a signed number.                                                     *)
LEMMA LaidI ==
  ASSUME NEW name, name # "sInterface", NEW width \in Widths
  PROVE  IsOne(I(name, width), name)
  <1>. DEFINE kind == "signed"
              layout == I(name, width)
  <1>1. /\ kind \in Kinds \ FlagKinds /\ kind \in NumberKinds /\ width \in 1 .. 128
        /\ kind # "text" /\ kind # "time" /\ kind \notin TextKinds \cup {"name+location"}
    BY DEF Kinds, FlagKinds, NumberKinds, TextKinds, Widths
  <1>2. layout = Field(name, kind, width)
    BY DEF I
  <1>. HIDE DEF kind, layout
  <1>3. IsOne(layout, name)
    BY <1>1, <1>2, LaidField
  <1>. QED BY <1>3 DEF layout

(* Of octets.                                                              *)
LEMMA LaidHex ==
  ASSUME NEW name, name \notin {"eDelayMechanism", "nValue", "nKeyField", "sInterface"},
         NEW width \in 1 .. 128
  PROVE  IsOne(Hex(name, width), name)
  <1>. DEFINE kind == "hex"
              layout == Hex(name, width)
  <1>1. /\ kind \in Kinds \ FlagKinds /\ kind \notin NumberKinds
        /\ kind # "text" /\ kind # "time" /\ kind \notin TextKinds \cup {"name+location"}
    BY DEF Kinds, FlagKinds, NumberKinds, TextKinds
  <1>2. layout = Field(name, kind, width)
    BY DEF Hex
  <1>. HIDE DEF kind, layout
  <1>3. IsOne(layout, name)
    BY <1>1, <1>2, LaidField
  <1>. QED BY <1>3 DEF layout

(* Of a text.                                                              *)
LEMMA LaidText ==
  ASSUME NEW name, name \notin {"eDelayMechanism", "nValue", "nKeyField"}
  PROVE  IsOne(Text(name), name)
  <1>. DEFINE kind == "text"
              layout == Text(name)
              width == 1
  <1>1. /\ kind \in Kinds \ FlagKinds /\ kind \notin NumberKinds /\ kind # "time"
        /\ width \in 1 .. 128 /\ width \in {1, 2} /\ kind = "text"
    BY DEF Kinds, FlagKinds, NumberKinds, TextKinds
  <1>2. layout = Field(name, kind, width)
    BY DEF Text
  <1>. HIDE DEF kind, layout, width
  <1>3. IsOne(layout, name)
    BY <1>1, <1>2, LaidField
  <1>. QED BY <1>3 DEF layout

(* Of a port identity: the octets of the clock and the number of the port. *)
LEMMA LaidPid ==
  ASSUME NEW id, NEW port, id # port, port # "sInterface",
         id \notin {"eDelayMechanism", "nValue", "nKeyField", "sInterface"}
  PROVE  /\ Laid(Pid(id, port)) /\ Received(Pid(id, port))
         /\ NamesOf(Pid(id, port)) = {id, port} /\ SizeOf(Pid(id, port)) = 2
  <1>1. 8 \in 1 .. 128 /\ 2 \in Widths
    BY DEF Widths
  <1>. DEFINE a == Hex(id, 8)
              b == U(port, 2)
  <1>2. Laid(a) /\ Received(a) /\ NamesOf(a) = {id} /\ SizeOf(a) = 1
    BY <1>1, LaidHex DEF IsOne
  <1>3. Laid(b) /\ Received(b) /\ NamesOf(b) = {port} /\ SizeOf(b) = 1
    BY <1>1, LaidU DEF IsOne
  <1>4. Pid(id, port) = a \o b
    BY DEF Pid
  <1>. HIDE DEF a, b
  <1>5. {id} \cap {port} = {} /\ {id} \cup {port} = {id, port}
    OBVIOUS
  <1>. QED BY <1>2, <1>3, <1>4, <1>5, LaidJoin

(* Of the other kinds of fields.                                           *)
LEMMA LaidNibble ==
  ASSUME NEW name, name # "sInterface"
  PROVE  IsOne(Field(name, "nibble", 1), name)
  <1>. DEFINE kind == "nibble"
              width == 1
              layout == Field(name, kind, width)
  <1>1. /\ kind \in Kinds \ FlagKinds /\ width \in 1 .. 128 /\ kind # "text"
        /\ kind \notin NumberKinds => name \notin {"eDelayMechanism", "nValue", "nKeyField"}
        /\ kind \in NumberKinds => width \in Widths
        /\ kind \in TextKinds \cup {"name+location"} => width \in {1, 2}
        /\ kind = "time" => width = 10
    BY DEF Kinds, FlagKinds, NumberKinds, TextKinds, Widths
  <1>. HIDE DEF kind, width
  <1>2. layout = Field(name, kind, width)
    OBVIOUS
  <1>. HIDE DEF layout
  <1>3. IsOne(layout, name)
    BY <1>1, <1>2, LaidField
  <1>. QED BY <1>3 DEF layout, kind, width

(* Of a boolean that any number but zero makes true.                       *)
LEMMA LaidNonzero ==
  ASSUME NEW name, name # "sInterface"
  PROVE  IsOne(Field(name, "nonzero", 4), name)
  <1>. DEFINE kind == "nonzero"
              width == 4
              layout == Field(name, kind, width)
  <1>1. /\ kind \in Kinds \ FlagKinds /\ width \in 1 .. 128 /\ kind # "text"
        /\ kind \notin NumberKinds => name \notin {"eDelayMechanism", "nValue", "nKeyField"}
        /\ kind \in NumberKinds => width \in Widths
        /\ kind \in TextKinds \cup {"name+location"} => width \in {1, 2}
        /\ kind = "time" => width = 10
    BY DEF Kinds, FlagKinds, NumberKinds, TextKinds, Widths
  <1>. HIDE DEF kind, width
  <1>2. layout = Field(name, kind, width)
    OBVIOUS
  <1>. HIDE DEF layout
  <1>3. IsOne(layout, name)
    BY <1>1, <1>2, LaidField
  <1>. QED BY <1>3 DEF layout, kind, width

(* Of a boolean that only one makes true.                                  *)
LEMMA LaidFlag ==
  ASSUME NEW name, name # "sInterface"
  PROVE  IsOne(Field(name, "one", 4), name)
  <1>. DEFINE kind == "one"
              width == 4
              layout == Field(name, kind, width)
  <1>1. /\ kind \in Kinds \ FlagKinds /\ width \in 1 .. 128 /\ kind # "text"
        /\ kind \notin NumberKinds => name \notin {"eDelayMechanism", "nValue", "nKeyField"}
        /\ kind \in NumberKinds => width \in Widths
        /\ kind \in TextKinds \cup {"name+location"} => width \in {1, 2}
        /\ kind = "time" => width = 10
    BY DEF Kinds, FlagKinds, NumberKinds, TextKinds, Widths
  <1>. HIDE DEF kind, width
  <1>2. layout = Field(name, kind, width)
    OBVIOUS
  <1>. HIDE DEF layout
  <1>3. IsOne(layout, name)
    BY <1>1, <1>2, LaidField
  <1>. QED BY <1>3 DEF layout, kind, width

(* Of octets after their number.                                           *)
LEMMA LaidCounted ==
  ASSUME NEW name, name \notin {"eDelayMechanism", "nValue", "nKeyField", "sInterface"}
  PROVE  IsOne(Field(name, "counted", 2), name)
  <1>. DEFINE kind == "counted"
              width == 2
              layout == Field(name, kind, width)
  <1>1. /\ kind \in Kinds \ FlagKinds /\ width \in 1 .. 128 /\ kind # "text"
        /\ kind \notin NumberKinds => name \notin {"eDelayMechanism", "nValue", "nKeyField"}
        /\ kind \in NumberKinds => width \in Widths
        /\ kind \in TextKinds \cup {"name+location"} => width \in {1, 2}
        /\ kind = "time" => width = 10
    BY DEF Kinds, FlagKinds, NumberKinds, TextKinds, Widths
  <1>. HIDE DEF kind, width
  <1>2. layout = Field(name, kind, width)
    OBVIOUS
  <1>. HIDE DEF layout
  <1>3. IsOne(layout, name)
    BY <1>1, <1>2, LaidField
  <1>. QED BY <1>3 DEF layout, kind, width

(* Of the name and the location of a user description.                     *)
LEMMA LaidDescription ==
  ASSUME NEW name, name \notin {"eDelayMechanism", "nValue", "nKeyField", "sInterface"}
  PROVE  IsOne(Field(name, "name+location", 1), name)
  <1>. DEFINE kind == "name+location"
              width == 1
              layout == Field(name, kind, width)
  <1>1. /\ kind \in Kinds \ FlagKinds /\ width \in 1 .. 128 /\ kind # "text"
        /\ kind \notin NumberKinds => name \notin {"eDelayMechanism", "nValue", "nKeyField"}
        /\ kind \in NumberKinds => width \in Widths
        /\ kind \in TextKinds \cup {"name+location"} => width \in {1, 2}
        /\ kind = "time" => width = 10
    BY DEF Kinds, FlagKinds, NumberKinds, TextKinds, Widths
  <1>. HIDE DEF kind, width
  <1>2. layout = Field(name, kind, width)
    OBVIOUS
  <1>. HIDE DEF layout
  <1>3. IsOne(layout, name)
    BY <1>1, <1>2, LaidField
  <1>. QED BY <1>3 DEF layout, kind, width

(* Of a timestamp.                                                         *)
LEMMA LaidTime ==
  ASSUME NEW name, name \notin {"eDelayMechanism", "nValue", "nKeyField", "sInterface"}
  PROVE  IsOne(Field(name, "time", 10), name)
  <1>. DEFINE kind == "time"
              width == 10
              layout == Field(name, kind, width)
  <1>1. /\ kind \in Kinds \ FlagKinds /\ width \in 1 .. 128 /\ kind # "text"
        /\ kind \notin NumberKinds => name \notin {"eDelayMechanism", "nValue", "nKeyField"}
        /\ kind \in NumberKinds => width \in Widths
        /\ kind \in TextKinds \cup {"name+location"} => width \in {1, 2}
        /\ kind = "time" => width = 10
    BY DEF Kinds, FlagKinds, NumberKinds, TextKinds, Widths
  <1>. HIDE DEF kind, width
  <1>2. layout = Field(name, kind, width)
    OBVIOUS
  <1>. HIDE DEF layout
  <1>3. IsOne(layout, name)
    BY <1>1, <1>2, LaidField
  <1>. QED BY <1>3 DEF layout, kind, width

(* Of flags, which are received as bits only.                              *)
IsFlags(layout, name, kind) ==
  /\ Laid(layout) /\ NamesOf(layout) = {name} /\ SizeOf(layout) = 1
  /\ kind = "bits" => Received(layout)

(* Of flags, of each kind that CreateMessage pushes them as.               *)
LEMMA LaidFlags ==
  ASSUME NEW name, NEW kind \in FlagKinds, NEW width \in {1, 2},
         NEW weights, weights \subseteq Weights, \A w \in weights : width = 1 => w < 256,
         name \notin {"eDelayMechanism", "nValue", "nKeyField", "sInterface"}
  PROVE  IsFlags(Flags(name, kind, width, weights), name, kind)
  <1>. DEFINE field == [name |-> name, kind |-> kind, width |-> width, weights |-> weights]
              names == {name}
              layout == Flags(name, kind, width, weights)
  <1>1. layout = <<field>>
    BY DEF Flags
  <1>2. field.name = name /\ field.kind = kind /\ field.width = width /\ field.weights = weights
    OBVIOUS
  <1>3. field \in Fields(names)
    <2>1. kind \in Kinds
      BY Zenon DEF Kinds
    <2>2. width \in 1 .. 128
      OBVIOUS
    <2>. QED BY <2>1, <2>2 DEF Fields
  <1>4. names = {field.name}
    BY <1>2
  <1>. HIDE DEF field, names, layout
  <1>5. SuitsBlank(field)
    BY <1>2 DEF SuitsBlank
  <1>6. kind = "bits" => Readable(field)
    <2>1. kind \notin NumberKinds \cup TextKinds \cup {"name+location", "time"}
      BY DEF FlagKinds, NumberKinds, TextKinds
    <2>2. kind \in Kinds
      BY DEF Kinds
    <2>. QED BY <1>2, <2>1, <2>2 DEF Readable
  <1>7. Laid(layout) /\ NamesOf(layout) = names /\ SizeOf(layout) = 1
        /\ (Readable(field) => Received(layout))
    BY <1>1, <1>3, <1>4, <1>5, LaidOne
  <1>. QED BY <1>6, <1>7 DEF IsFlags, names, layout

(* Of two or three numbers.                                                *)
LEMMA LaidUs2 ==
  ASSUME NEW a, NEW b, a # b, a # "sInterface", b # "sInterface", NEW width \in Widths
  PROVE  /\ Laid(Us(<<a, b>>, width)) /\ Received(Us(<<a, b>>, width))
         /\ NamesOf(Us(<<a, b>>, width)) = {a, b} /\ SizeOf(Us(<<a, b>>, width)) = 2
  <1>. DEFINE names == <<a, b>>
              S == {a, b}
  <1>1. names \in Seq(S) /\ Len(names) = 2 /\ width \in 1 .. 128
        /\ \A i \in 1 .. 2 : i = 1 \/ i = 2
    BY DEF Widths
  <1>2. names[1] = a /\ names[2] = b
    OBVIOUS
  <1>. HIDE DEF names, S
  <1>3. \A i, j \in 1 .. Len(names) : names[i] = names[j] => i = j
    BY <1>1, <1>2
  <1>4. \A i \in 1 .. Len(names) : names[i] # "sInterface"
    BY <1>1, <1>2
  <1>5. {names[i] : i \in 1 .. Len(names)} = {a, b}
    BY <1>1, <1>2
  <1>6. /\ Laid(Us(names, width))
        /\ NamesOf(Us(names, width)) = {names[i] : i \in 1 .. Len(names)}
        /\ SizeOf(Us(names, width)) = Len(names)
        /\ width \in Widths => Received(Us(names, width))
    <2>1. names \in Seq(S) /\ width \in 1 .. 128
      BY <1>1
    <2>. QED BY <2>1, <1>3, <1>4, LaidUs
  <1>. QED BY <1>1, <1>5, <1>6 DEF names

(* Of three numbers of one width.                                          *)
LEMMA LaidUs3 ==
  ASSUME NEW a, NEW b, NEW c, a # b, a # c, b # c,
         a # "sInterface", b # "sInterface", c # "sInterface", NEW width \in Widths
  PROVE  /\ Laid(Us(<<a, b, c>>, width)) /\ Received(Us(<<a, b, c>>, width))
         /\ NamesOf(Us(<<a, b, c>>, width)) = {a, b, c} /\ SizeOf(Us(<<a, b, c>>, width)) = 3
  <1>. DEFINE names == <<a, b, c>>
              S == {a, b, c}
  <1>1. names \in Seq(S) /\ Len(names) = 3 /\ width \in 1 .. 128
        /\ \A i \in 1 .. 3 : i = 1 \/ i = 2 \/ i = 3
    BY DEF Widths
  <1>2. names[1] = a /\ names[2] = b /\ names[3] = c
    OBVIOUS
  <1>. HIDE DEF names, S
  <1>3. \A i, j \in 1 .. Len(names) : names[i] = names[j] => i = j
    BY <1>1, <1>2
  <1>4. \A i \in 1 .. Len(names) : names[i] # "sInterface"
    BY <1>1, <1>2
  <1>5. {names[i] : i \in 1 .. Len(names)} = {a, b, c}
    BY <1>1, <1>2
  <1>6. /\ Laid(Us(names, width))
        /\ NamesOf(Us(names, width)) = {names[i] : i \in 1 .. Len(names)}
        /\ SizeOf(Us(names, width)) = Len(names)
        /\ width \in Widths => Received(Us(names, width))
    <2>1. names \in Seq(S) /\ width \in 1 .. 128
      BY <1>1
    <2>. QED BY <2>1, <1>3, <1>4, LaidUs
  <1>. QED BY <1>1, <1>5, <1>6 DEF names

(* Of no field at all.                                                     *)
LEMMA NoneLaid ==
  Laid(<<>>) /\ Received(<<>>) /\ SizeOf(<<>>) = 0 /\ NamesOf(<<>>) = {}
  <1>. DEFINE e == <<>>
  <1>1. e \in Seq(Fields({})) /\ Len(e) = 0 /\ 1 .. 0 = {}
    OBVIOUS
  <1>. HIDE DEF e
  <1>2. NamesOf(e) = {}
    BY <1>1 DEF NamesOf
  <1>3. Laid(e) /\ Received(e) /\ SizeOf(e) = 0
    BY <1>1, <1>2 DEF Laid, IsLayout, Received, SizeOf
  <1>. QED BY <1>2, <1>3 DEF e

(* Of the two fields of tlvDefaultDataSet that are read and not written.   *)
LEMMA PortsLaid ==
  /\ Laid(U("nNumberPorts", 2) \o U("nPriority1", 1))
  /\ Received(U("nNumberPorts", 2) \o U("nPriority1", 1))
  /\ SizeOf(U("nNumberPorts", 2) \o U("nPriority1", 1)) = 2
  /\ NamesOf(U("nNumberPorts", 2) \o U("nPriority1", 1)) = {"nNumberPorts", "nPriority1"}
  BY LaidU, LaidJoin DEF IsOne, Widths

(* Of an interval: nanoseconds, and fractions of them.                     *)
LEMMA LaidSubNano ==
  ASSUME NEW nano, NEW sub, nano # sub, nano # "sInterface", sub # "sInterface"
  PROVE  /\ Laid(SubNano(nano, sub)) /\ Received(SubNano(nano, sub))
         /\ NamesOf(SubNano(nano, sub)) = {nano, sub} /\ SizeOf(SubNano(nano, sub)) = 2
  <1>. DEFINE a == U(nano, 6)
              b == U(sub, 2)
  <1>1. Laid(a) /\ Received(a) /\ NamesOf(a) = {nano} /\ SizeOf(a) = 1
    BY LaidU DEF Widths, IsOne
  <1>2. Laid(b) /\ Received(b) /\ NamesOf(b) = {sub} /\ SizeOf(b) = 1
    BY LaidU DEF Widths, IsOne
  <1>3. SubNano(nano, sub) = a \o b
    BY DEF SubNano
  <1>. HIDE DEF a, b
  <1>4. {nano} \cap {sub} = {} /\ {nano} \cup {sub} = {nano, sub}
    OBVIOUS
  <1>. QED BY <1>1, <1>2, <1>3, <1>4, LaidJoin

(* What Then makes of two sequences is as long as both.                    *)
LEMMA ThenIs ==
  ASSUME NEW a \in Bytes, NEW b \in Bytes
  PROVE  Then(a, b) \in Bytes /\ Len(Then(a, b)) = Len(a) + Len(b)
  BY Join DEF Then

(* And has the octets of both.                                             *)
LEMMA ThenHas ==
  ASSUME NEW a \in Bytes, NEW b \in Bytes
  PROVE  /\ Then(a, b) \in Bytes
         /\ Len(Then(a, b)) = Len(a) + Len(b)
         /\ \A i \in 1 .. Len(a) : Then(a, b)[i] = a[i]
         /\ \A i \in 1 .. Len(b) : Then(a, b)[Len(a) + i] = b[i]
  BY Join, Zenon DEF Then

(* It does not matter which two of three sequences are joined first.       *)
LEMMA ThenIsAssociative ==
  ASSUME NEW a \in Bytes, NEW b \in Bytes, NEW c \in Bytes
  PROVE  Then(Then(a, b), c) = Then(a, Then(b, c))
  BY JoinIsAssociative DEF Then

(* A part of the first of two sequences is a part of both joined.          *)
LEMMA SlicePrefix ==
  ASSUME NEW a \in Bytes, NEW b \in Bytes, NEW m \in Nat \ {0}, NEW n \in Nat,
         m <= n + 1, n <= Len(a)
  PROVE  SubSeq(Then(a, b), m, n) = SubSeq(a, m, n)
  <1>. DEFINE ab == Then(a, b)
              x == SubSeq(ab, m, n)
              y == SubSeq(a, m, n)
  <1>1. ab \in Bytes /\ Len(ab) = Len(a) + Len(b) /\ \A i \in 1 .. Len(a) : ab[i] = a[i]
    BY Join DEF Then
  <1>2. Len(a) \in Nat /\ Len(b) \in Nat
    BY BytesAre
  <1>. HIDE DEF ab
  <1>3. n <= Len(ab)
    BY <1>1, <1>2
  <1>4. /\ x \in Bytes /\ Len(x) = (n - m) + 1
        /\ \A i \in 1 .. (n - m) + 1 : x[i] = ab[(m + i) - 1]
    BY <1>1, <1>3, SliceIs
  <1>5. /\ y \in Bytes /\ Len(y) = (n - m) + 1
        /\ \A i \in 1 .. (n - m) + 1 : y[i] = a[(m + i) - 1]
    BY SliceIs
  <1>6. \A i \in 1 .. (n - m) + 1 : (m + i) - 1 \in 1 .. Len(a)
    BY <1>2
  <1>. HIDE DEF x, y
  <1>7. \A i \in 1 .. Len(x) : x[i] = y[i]
    BY <1>1, <1>4, <1>5, <1>6
  <1>8. x = y
    BY <1>4, <1>5, <1>7, SameBytes
  <1>. QED BY <1>8 DEF x, y, ab

(* The end of two sequences is the second of them.                         *)
LEMMA SliceSuffix ==
  ASSUME NEW a \in Bytes, NEW b \in Bytes
  PROVE  SubSeq(Then(a, b), Len(a) + 1, Len(Then(a, b))) = b
  BY SliceEnd DEF Then

(* The same, where the position and the length are given as numbers.       *)
LEMMA SliceLast ==
  ASSUME NEW a \in Bytes, NEW b \in Bytes, NEW m, NEW n, m = Len(a) + 1, n = Len(a) + Len(b)
  PROVE  SubSeq(Then(a, b), m, n) = b
  <1>. DEFINE ab == Then(a, b)
  <1>1. Len(ab) = n
    BY ThenIs
  <1>2. SubSeq(ab, Len(a) + 1, Len(ab)) = b
    BY SliceSuffix
  <1>. HIDE DEF ab
  <1>3. SubSeq(ab, m, n) = b
    BY <1>1, <1>2
  <1>. QED BY <1>3 DEF ab

-----------------------------------------------------------------------------
(* What is at a place in a message.                                        *)

(* So many octets, and what some of them are.                              *)
OfSize(a, n) == a \in Bytes /\ Len(a) = n /\ n \in Nat

Holds(a, m, n, x) == SubSeq(a, m, n) = x

(* The sizes of two sequences add up.                                      *)
LEMMA SizeThen ==
  ASSUME NEW m \in Nat, NEW n \in Nat, NEW k \in Nat, k = m + n,
         NEW a, OfSize(a, m), NEW b, OfSize(b, n)
  PROVE  OfSize(Then(a, b), k)
  <1>1. a \in Bytes /\ b \in Bytes /\ Len(a) = m /\ Len(b) = n /\ m \in Nat /\ n \in Nat
    BY DEF OfSize
  <1>2. Then(a, b) \in Bytes /\ Len(Then(a, b)) = Len(a) + Len(b)
    BY <1>1, ThenIs
  <1>. DEFINE ab == Then(a, b)
              l == Len(ab)
  <1>3. l = m + n /\ ab \in Bytes
    BY <1>1, <1>2
  <1>. HIDE DEF ab, l
  <1>4. l = k /\ k \in Nat
    BY <1>1, <1>3
  <1>. QED BY <1>3, <1>4 DEF OfSize, l, ab

(* The size of a number is the width it is pushed with.                    *)
LEMMA SizeOctets ==
  ASSUME NEW n \in Int, NEW width \in Nat
  PROVE  OfSize(Octets(n, width), width)
  BY OctetsBytes DEF OfSize

(* The size of a string of octets is the width it is pushed with.          *)
LEMMA SizeHex ==
  ASSUME NEW hex \in Bytes, NEW width \in Nat
  PROVE  OfSize(FromHexStr(hex, width), width)
  BY FromHexStrType DEF OfSize

(* What is at a place stays there when more follows.                       *)
LEMMA HoldsThen ==
  ASSUME NEW k \in Nat, NEW m \in Nat \ {0}, NEW n \in Nat, m <= n + 1, n <= k,
         NEW a, NEW b \in Bytes, NEW x, OfSize(a, k), Holds(a, m, n, x)
  PROVE  Holds(Then(a, b), m, n, x)
  <1>1. a \in Bytes /\ Len(a) = k
    BY DEF OfSize
  <1>2. n <= Len(a)
    BY <1>1
  <1>3. SubSeq(Then(a, b), m, n) = SubSeq(a, m, n)
    BY <1>1, <1>2, SlicePrefix
  <1>. QED BY <1>3 DEF Holds

(* The first of two sequences is at the beginning.                         *)
LEMMA HoldsFirst ==
  ASSUME NEW k \in Nat, NEW a, NEW b \in Bytes, OfSize(a, k)
  PROVE  Holds(Then(a, b), 1, k, a)
  <1>1. a \in Bytes /\ Len(a) = k
    BY DEF OfSize
  <1>2. SubSeq(a \o b, 1, Len(a)) = a
    BY <1>1, SliceStart
  <1>. QED BY <1>1, <1>2 DEF Holds, Then

(* The second is behind it.                                                *)
LEMMA HoldsLast ==
  ASSUME NEW k \in Nat, NEW l \in Nat, NEW m \in Nat, NEW n \in Nat, m = k + 1, n = k + l,
         NEW a, NEW b, OfSize(a, k), OfSize(b, l)
  PROVE  Holds(Then(a, b), m, n, b)
  <1>1. a \in Bytes /\ b \in Bytes /\ Len(a) = k /\ Len(b) = l
    BY DEF OfSize
  <1>2. m = Len(a) + 1 /\ n = Len(a) + Len(b)
    BY <1>1
  <1>3. SubSeq(Then(a, b), Len(a) + 1, Len(Then(a, b))) = b
    BY <1>1, SliceSuffix
  <1>4. Len(Then(a, b)) = Len(a) + Len(b)
    BY <1>1, ThenIs
  <1>. QED BY <1>2, <1>3, <1>4 DEF Holds

HexNothing(width) == FromHexStr(<<>>, width)

(* What is at a place in a part is further on in the whole.                *)
LEMMA HoldsInside ==
  ASSUME NEW k \in Nat, NEW m \in Nat \ {0}, NEW n \in Nat, NEW l \in Nat,
         NEW p \in Nat, NEW q \in Nat, p = k + m, q = k + n, m <= n + 1, n <= l,
         NEW a, NEW b, NEW x, OfSize(a, k), OfSize(b, l), Holds(b, m, n, x)
  PROVE  Holds(Then(a, b), p, q, x)
  <1>. DEFINE ab == Then(a, b)
              part == SubSeq(ab, p, q)
              own == SubSeq(b, m, n)
  <1>1. a \in Bytes /\ b \in Bytes /\ Len(a) = k /\ Len(b) = l
    BY DEF OfSize
  <1>2. ab \in Bytes /\ \A i \in 1 .. Len(b) : ab[Len(a) + i] = b[i]
    BY <1>1, Join DEF Then
  <1>3. Len(ab) = k + l
    BY <1>1, ThenIs
  <1>4. p \in Nat \ {0} /\ p <= q + 1 /\ q <= Len(ab) /\ (q - p) + 1 = (n - m) + 1
    BY <1>3
  <1>. HIDE DEF ab
  <1>5. /\ part \in Bytes /\ Len(part) = (q - p) + 1
        /\ \A i \in 1 .. (q - p) + 1 : part[i] = ab[(p + i) - 1]
    BY <1>2, <1>4, SliceIs
  <1>6. /\ own \in Bytes /\ Len(own) = (n - m) + 1
        /\ \A i \in 1 .. (n - m) + 1 : own[i] = b[(m + i) - 1]
    BY <1>1, SliceIs
  <1>. HIDE DEF part, own
  <1>7. ASSUME NEW i \in 1 .. (n - m) + 1
        PROVE  part[i] = own[i]
    <2>1. (m + i) - 1 \in 1 .. Len(b) /\ k + ((m + i) - 1) = (p + i) - 1
      BY <1>1
    <2>2. ab[k + ((m + i) - 1)] = b[(m + i) - 1]
      BY <1>1, <1>2, <2>1
    <2>. QED BY <1>4, <1>5, <1>6, <2>1, <2>2
  <1>8. part = own
    <2>1. Len(part) = Len(own) /\ \A i \in 1 .. Len(part) : part[i] = own[i]
      BY <1>4, <1>5, <1>6, <1>7
    <2>. QED BY <1>5, <1>6, <2>1, SameBytes
  <1>. QED BY <1>8 DEF Holds, ab, part, own

(* A number of two octets is read again.                                   *)
LEMMA WordOctets ==
  ASSUME NEW n \in Word
  PROVE  n \in Int /\ Number(Octets(n, 2), FALSE) = n
  <1>. DEFINE width == 2
              signed == FALSE
  <1>1. n \in Nat /\ n < 65536
    BY WordIs
  <1>2. width \in Widths
    BY DEF Widths
  <1>3. n <= Huge - 256
    BY <1>1, HugeIs, SMT
  <1>4. FitsUnsigned(n, width)
    BY <1>1, <1>3 DEF FitsUnsigned
  <1>6. signed \in BOOLEAN /\ IF signed THEN FitsSigned(n, width) ELSE FitsUnsigned(n, width)
    BY <1>4
  <1>7. n \in Int
    BY <1>1
  <1>. HIDE DEF width, signed
  <1>5. Number(Octets(n, width), signed) = n
    BY <1>2, <1>6, <1>7, NumberOfOctets
  <1>. QED BY <1>5, <1>7, Zenon DEF width, signed

(* Two numbers of one width are one number, then the other.                *)
LEMMA UsTwo ==
  ASSUME NEW a, NEW b, NEW width
  PROVE  Us(<<a, b>>, width) = U(a, width) \o U(b, width)
  <1>. DEFINE names == <<a, b>>
              x == UnsignedOf(a, width)
              y == UnsignedOf(b, width)
              us == Us(names, width)
  <1>1. names \in Seq({a, b}) /\ Len(names) = 2 /\ names[1] = a /\ names[2] = b
    OBVIOUS
  <1>. HIDE DEF names
  <1>2. us = [i \in 1 .. 2 |-> UnsignedOf(names[i], width)]
    BY <1>1, UsIs, SMTT(30)
  <1>. HIDE DEF us
  <1>3. us = [i \in 1 .. 2 |-> IF i = 1 THEN x ELSE y]
    <2>1. \A i \in 1 .. 2 : i = 1 \/ i = 2
      OBVIOUS
    <2>2. \A i \in 1 .. 2 : UnsignedOf(names[i], width) = IF i = 1 THEN x ELSE y
      BY <1>1, <2>1
    <2>. HIDE DEF x, y
    <2>. QED BY <1>2, <2>2
  <1>4. U(a, width) = <<x>> /\ U(b, width) = <<y>>
    BY DEF U, Field, UnsignedOf
  <1>. HIDE DEF x, y
  <1>5. <<x>> \o <<y>> = [i \in 1 .. 2 |-> IF i = 1 THEN x ELSE y]
    <2>. DEFINE S == {x, y}
                p == <<x>>
                q == <<y>>
                pq == p \o q
    <2>1. p \in Seq(S) /\ q \in Seq(S) /\ Len(p) = 1 /\ Len(q) = 1 /\ p[1] = x /\ q[1] = y
      OBVIOUS
    <2>. HIDE DEF p, q, S
    <2>2. /\ pq \in Seq(S) /\ Len(pq) = 2
          /\ \A i \in 1 .. 2 : pq[i] = IF i <= 1 THEN p[i] ELSE q[i - 1]
      BY <2>1, ConcatProperties
    <2>. HIDE DEF pq
    <2>3. \A i \in 1 .. 2 : pq[i] = IF i = 1 THEN x ELSE y
      <3>1. \A i \in 1 .. 2 : i = 1 \/ i = 2
        OBVIOUS
      <3>2. pq[1] = x /\ pq[2] = y
        BY <2>1, <2>2
      <3>. QED BY <3>1, <3>2
    <2>4. pq = [i \in 1 .. 2 |-> pq[i]]
      BY <2>2
    <2>5. pq = [i \in 1 .. 2 |-> IF i = 1 THEN x ELSE y]
      BY <2>3, <2>4
    <2>. QED BY <2>5 DEF pq, p, q
  <1>. QED BY <1>3, <1>4, <1>5 DEF us, names

-----------------------------------------------------------------------------
(* The kinds of fields, and what can be pushed for each.                   *)

(* The kinds do not overlap.                                               *)
LEMMA KindsAre ==
  /\ \A kind \in NumberKinds :
       kind \notin FlagKinds /\ kind \notin TextKinds /\ kind \notin {"hex", "name+location", "time"}
  /\ \A kind \in FlagKinds :
       kind \notin NumberKinds /\ kind \notin TextKinds /\ kind \notin {"hex", "name+location", "time"}
  /\ \A kind \in TextKinds :
       kind \notin NumberKinds /\ kind \notin FlagKinds /\ kind \notin {"hex", "name+location", "time"}
  BY DEF NumberKinds, FlagKinds, TextKinds

(* Every integer can be pushed as a number.                                *)
LEMMA WritableNumber ==
  ASSUME NEW field, field.kind \in NumberKinds, NEW value \in Int
  PROVE  Writable(field, value)
  BY KindsAre DEF Writable

(* Every set of flags can be pushed.                                       *)
LEMMA WritableFlags ==
  ASSUME NEW field, field.kind \in FlagKinds, NEW value, value \subseteq Weights
  PROVE  Writable(field, value)
  BY KindsAre DEF Writable

(* A text or octets of up to 255 characters can be pushed after their      *)
(* number.                                                                 *)
LEMMA WritableText ==
  ASSUME NEW field, field.kind \in TextKinds, NEW value \in Bytes, Len(value) <= 255
  PROVE  Writable(field, value)
  BY KindsAre DEF Writable

(* Every string of octets can be pushed.                                   *)
LEMMA WritableHex ==
  ASSUME NEW field, field.kind = "hex", NEW value \in Bytes
  PROVE  Writable(field, value)
  BY DEF Writable, NumberKinds, FlagKinds, TextKinds

(* Every name and location can be pushed: CreateMessage cuts them off.     *)
LEMMA WritableDescription ==
  ASSUME NEW field, field.kind = "name+location", NEW value,
         value[1] \in Bytes, value[2] \in Bytes
  PROVE  Writable(field, value)
  BY DEF Writable, NumberKinds, FlagKinds, TextKinds

(* Every time can be pushed.                                               *)
LEMMA WritableTime ==
  ASSUME NEW field, field.kind = "time", NEW value \in Nat
  PROVE  Writable(field, value)
  BY DEF Writable, NumberKinds, FlagKinds, TextKinds

(* A field that can be written for some contents.                          *)
LEMMA PushField ==
  ASSUME NEW names, NEW name \in names, NEW kind \in Kinds, NEW width \in 1 .. 128,
         NEW weights, weights \subseteq Weights, NEW contents, NEW field,
         field = [name |-> name, kind |-> kind, width |-> width, weights |-> weights],
         NEW layout, layout = <<field>>, Writable(field, contents[name])
  PROVE  CanPush(names, layout, contents)
  <1>1. field \in Fields(names)
    BY DEF Fields
  <1>2. field.name = name
    OBVIOUS
  <1>3. layout \in Seq(Fields(names)) /\ Len(layout) = 1 /\ 1 .. 1 = {1} /\ layout[1] = field
    BY <1>1
  <1>4. CanWrite(layout, contents)
    BY <1>2, <1>3 DEF CanWrite
  <1>. QED BY <1>3, <1>4 DEF CanPush

(* Contents with such a text can be pushed by its layout.                  *)
LEMMA PushText ==
  ASSUME NEW names, NEW name \in names, NEW contents,
         contents[name] \in Bytes, Len(contents[name]) <= 255
  PROVE  CanPush(names, Text(name), contents)
  <1>. DEFINE kind == "text"
              width == 1
              field == [name |-> name, kind |-> kind, width |-> width, weights |-> {}]
              layout == Text(name)
  <1>1. kind \in Kinds /\ kind \in TextKinds /\ width \in 1 .. 128
    BY DEF Kinds, TextKinds
  <1>2. layout = <<field>>
    BY DEF Text, Field
  <1>3. field.kind = kind
    OBVIOUS
  <1>. HIDE DEF kind, width, layout
  <1>4. Writable(field, contents[name])
    <2>. HIDE DEF field
    <2>. QED BY <1>1, <1>3, WritableText
  <1>5. CanPush(names, layout, contents)
    BY <1>1, <1>2, <1>4, PushField
  <1>. QED BY <1>5 DEF layout

(* Contents with a name and a location can be pushed by their layout.      *)
LEMMA PushDescription ==
  ASSUME NEW names, NEW name \in names, NEW contents,
         contents[name][1] \in Bytes, contents[name][2] \in Bytes
  PROVE  CanPush(names, Field(name, "name+location", 1), contents)
  <1>. DEFINE kind == "name+location"
              width == 1
              field == [name |-> name, kind |-> kind, width |-> width, weights |-> {}]
              layout == Field(name, kind, width)
  <1>1. kind \in Kinds /\ kind = "name+location" /\ width \in 1 .. 128
    BY DEF Kinds
  <1>2. layout = <<field>>
    BY DEF Field
  <1>3. field.kind = kind
    OBVIOUS
  <1>. HIDE DEF kind, width, layout
  <1>4. Writable(field, contents[name])
    <2>. HIDE DEF field
    <2>. QED BY <1>1, <1>3, WritableDescription
  <1>5. CanPush(names, layout, contents)
    BY <1>1, <1>2, <1>4, PushField
  <1>. QED BY <1>5 DEF layout, kind, width

(* Contents with a time can be pushed by its layout.                       *)
LEMMA PushTime ==
  ASSUME NEW names, NEW name \in names, NEW contents, contents[name] \in Nat
  PROVE  CanPush(names, Field(name, "time", 10), contents)
  <1>. DEFINE kind == "time"
              width == 10
              field == [name |-> name, kind |-> kind, width |-> width, weights |-> {}]
              layout == Field(name, kind, width)
  <1>1. kind \in Kinds /\ kind = "time" /\ width \in 1 .. 128
    BY DEF Kinds
  <1>2. layout = <<field>>
    BY DEF Field
  <1>3. field.kind = kind
    OBVIOUS
  <1>. HIDE DEF kind, width, layout
  <1>4. Writable(field, contents[name])
    <2>. HIDE DEF field
    <2>. QED BY <1>1, <1>3, WritableTime
  <1>5. CanPush(names, layout, contents)
    BY <1>1, <1>2, <1>4, PushField
  <1>. QED BY <1>5 DEF layout, kind, width

(* What is at a place, read as a number.                                   *)
LEMMA NumberAt ==
  ASSUME NEW octets, NEW m, NEW n, NEW number \in Word, Holds(octets, m, n, Octets(number, 2))
  PROVE  Number(SubSeq(octets, m, n), FALSE) = number
  BY WordOctets DEF Holds

(* The size of any message here fits the two octets of its length.         *)
LEMMA SizeIsWord ==
  ASSUME NEW n \in Nat, n <= 6500
  PROVE  n \in Word
  BY WordIs

(* Whether a weight is in a set, as a bit.                                 *)
BitIn(w, s) == IF w \in s THEN 1 ELSE 0

(* A sum of weights has the bits of the weights that are in it.            *)
LEMMA WeightBits ==
  ASSUME NEW s, s \subseteq Weights, NEW w \in Weights
  PROVE  (WeightSum(s) \div w) % 2 = 1 <=> w \in s
  <1>. DEFINE b0 == BitIn(1, s)
              b1 == BitIn(2, s)
              b2 == BitIn(4, s)
              b3 == BitIn(8, s)
              b4 == BitIn(16, s)
              b5 == BitIn(32, s)
              b11 == BitIn(2048, s)
              b12 == BitIn(4096, s)
              b13 == BitIn(8192, s)
              b14 == BitIn(16384, s)
              b15 == BitIn(32768, s)
              n == WeightSum(s)
  <1>1. /\ b0 \in {0, 1} /\ b1 \in {0, 1} /\ b2 \in {0, 1} /\ b3 \in {0, 1} /\ b4 \in {0, 1}
        /\ b5 \in {0, 1} /\ b11 \in {0, 1} /\ b12 \in {0, 1} /\ b13 \in {0, 1}
        /\ b14 \in {0, 1} /\ b15 \in {0, 1}
    BY DEF BitIn
  <1>2. n = b0 + 2 * b1 + 4 * b2 + 8 * b3 + 16 * b4 + 32 * b5 + 2048 * b11 + 4096 * b12
              + 8192 * b13 + 16384 * b14 + 32768 * b15
    BY SMT DEF WeightSum, WeightIn, BitIn
  <1>3. /\ b0 = 1 <=> 1 \in s
        /\ b1 = 1 <=> 2 \in s
        /\ b2 = 1 <=> 4 \in s
        /\ b3 = 1 <=> 8 \in s
        /\ b4 = 1 <=> 16 \in s
        /\ b5 = 1 <=> 32 \in s
        /\ b11 = 1 <=> 2048 \in s
        /\ b12 = 1 <=> 4096 \in s
        /\ b13 = 1 <=> 8192 \in s
        /\ b14 = 1 <=> 16384 \in s
        /\ b15 = 1 <=> 32768 \in s
    BY SMT DEF BitIn
  <1>. HIDE DEF b0, b1, b2, b3, b4, b5, b11, b12, b13, b14, b15, n
  <1>4. (n \div 1) % 2 = b0
    BY <1>1, <1>2, SMT
  <1>5. (n \div 2) % 2 = b1
    BY <1>1, <1>2, SMT
  <1>6. (n \div 4) % 2 = b2
    BY <1>1, <1>2, SMT
  <1>7. (n \div 8) % 2 = b3
    BY <1>1, <1>2, SMT
  <1>8. (n \div 16) % 2 = b4
    BY <1>1, <1>2, SMT
  <1>9. (n \div 32) % 2 = b5
    BY <1>1, <1>2, SMT
  <1>10. (n \div 2048) % 2 = b11
    BY <1>1, <1>2, SMT
  <1>11. (n \div 4096) % 2 = b12
    BY <1>1, <1>2, SMT
  <1>12. (n \div 8192) % 2 = b13
    BY <1>1, <1>2, SMT
  <1>13. (n \div 16384) % 2 = b14
    BY <1>1, <1>2, SMT
  <1>14. (n \div 32768) % 2 = b15
    BY <1>1, <1>2, SMT
  <1>15. (n \div w) % 2 = 1 <=> w \in s
    BY <1>3, <1>4, <1>5, <1>6, <1>7, <1>8, <1>9, <1>10, <1>11, <1>12, <1>13, <1>14, SMT
       DEF Weights
  <1>. QED BY <1>15 DEF n

(* Nor is it more than its octets hold.                                    *)
LEMMA WeightsFit ==
  ASSUME NEW s, s \subseteq Weights, NEW width \in FlagWidths,
         width = 1 => \A w \in s : w < 256
  PROVE  FitsUnsigned(WeightSum(s), width) /\ width \in Widths
  <1>1. WeightSum(s) \in Nat /\ WeightSum(s) < 65536
    BY SMT DEF WeightSum, WeightIn
  <1>2. WeightSum(s) <= Huge - 256
    BY <1>1, HugeIs, SMT
  <1>3. (\A w \in s : w < 256) => WeightSum(s) < 256
    <2>1. SUFFICES ASSUME \A w \in s : w < 256
                   PROVE  WeightSum(s) < 256
      OBVIOUS
    <2>2. 2048 \notin s /\ 4096 \notin s /\ 8192 \notin s /\ 16384 \notin s /\ 32768 \notin s
      BY <2>1, SMT
    <2>. QED BY <2>2, SMT DEF WeightSum, WeightIn
  <1>4. width \in Widths
    BY DEF FlagWidths, Widths
  <1>. QED BY <1>1, <1>2, <1>3, <1>4 DEF FitsUnsigned

(* The first of the flags of a set that has one at most is all of them.    *)
LEMMA LeastIsSum ==
  ASSUME NEW value, value \subseteq Weights, Cardinality(value) <= 1
  PROVE  (IF value = {} THEN 0 ELSE Min(value)) = WeightSum(value)
  <1>1. CASE value = {}
    BY <1>1, WeightSumStep
  <1>2. CASE value # {}
    <2>. DEFINE least == Min(value)
    <2>1. least \in value
      BY <1>2, WeightsRange
    <2>. HIDE DEF least
    <2>2. value = {least}
      <3>1. IsFiniteSet(value)
        <4>. DEFINE m == 40000
        <4>1. m \in Nat /\ \A w \in Weights : w \in Nat /\ 1 <= w /\ w <= m
          BY SMT DEF Weights
        <4>. HIDE DEF m
        <4>2. value \subseteq 1 .. m
          BY <4>1
        <4>3. IsFiniteSet(1 .. m)
          BY <4>1, FS_Interval
        <4>. QED BY <4>2, <4>3, FS_Subset
      <3>2. SUFFICES ASSUME NEW x \in value, x # least
                     PROVE  FALSE
        BY <2>1
      <3>3. {x, least} \subseteq value
        BY <2>1
      <3>4. Cardinality({x, least}) <= Cardinality(value)
        BY <3>1, <3>3, FS_Subset
      <3>5. Cardinality({x, least}) = 2
        <4>1. IsFiniteSet({least}) /\ Cardinality({least}) = 1
          BY FS_Singleton
        <4>2. {x, least} = {least} \cup {x} /\ x \notin {least}
          BY <3>2
        <4>. HIDE <3>2
        <4>3. Cardinality({least} \cup {x}) = Cardinality({least}) + 1
          BY <4>1, <4>2, FS_AddElement
        <4>. QED BY <4>1, <4>2, <4>3
      <3>6. Cardinality(value) \in Nat
        BY <3>1, FS_CardinalityType
      <3>. QED BY <3>4, <3>5, <3>6
    <2>3. WeightSum(value) = least + WeightSum(value \ {least}) /\ least \in Nat
      BY <2>1, WeightSumStep
    <2>4. value \ {least} = {}
      BY <2>2
    <2>5. WeightSum(value \ {least}) = 0
      <3>. DEFINE none == value \ {least}
      <3>1. none \subseteq Weights /\ none = {}
        BY <2>4
      <3>. HIDE DEF none
      <3>2. WeightSum(none) = 0
        BY <3>1, WeightSumStep
      <3>. QED BY <3>2 DEF none
    <2>6. WeightSum(value) = least
      BY <2>3, <2>5
    <2>. QED BY <1>2, <2>6 DEF least
  <1>. QED BY <1>1, <1>2

(* A string as long as its field is pushed as it is.                       *)
LEMMA HexIsItself ==
  ASSUME NEW hex \in Bytes, NEW width \in Nat, Len(hex) = width
  PROVE  FromHexStr(hex, width) = hex
  <1>. DEFINE octets == FromHexStr(hex, width)
  <1>1. octets \in Bytes /\ Len(octets) = width
    BY FromHexStrType
  <1>2. \A i \in 1 .. width : octets[i] = hex[i]
    BY DEF FromHexStr
  <1>. HIDE DEF octets
  <1>3. octets = hex
    BY <1>1, <1>2, SameBytes
  <1>. QED BY <1>3 DEF octets

-----------------------------------------------------------------------------
(* Texts, and the two that are separated in one.                           *)

(* A text of so many octets is at a place after its length, and more       *)
(* octets after it.                                                        *)
TextAt(octets, start, next, n, text) ==
  /\ Number(SubSeq(octets, start, next - 1), FALSE) = n
  /\ SubSeq(octets, next, (next + n) - 1) = text
  /\ next + n <= Len(octets) /\ n \in Nat /\ next \in Nat

(* Four parts of a message, whichever of them are joined first.            *)
LEMMA FourParts ==
  ASSUME NEW a \in Bytes, NEW b \in Bytes, NEW c \in Bytes, NEW d \in Bytes
  PROVE  /\ Then(Then(a, Then(b, c)), d) = Then(Then(a, b), Then(c, d))
         /\ Then(Then(a, Then(b, c)), d) = Then(Then(Then(a, b), c), d)
  <1>1. Then(a, b) \in Bytes
    BY ThenIs
  <1>2. Then(a, Then(b, c)) = Then(Then(a, b), c)
    BY ThenIsAssociative
  <1>3. Then(Then(Then(a, b), c), d) = Then(Then(a, b), Then(c, d))
    BY <1>1, ThenIsAssociative
  <1>. QED BY <1>2, <1>3

(* Where the length of a text and the text are, and what they are.         *)
LEMMA TextIsThere ==
  ASSUME NEW before \in Bytes, NEW after \in Bytes, after # <<>>, NEW text \in Bytes,
         NEW n, n = Len(text), n <= 255, NEW width \in {1, 2}, NEW octets,
         octets = Then(Then(before, FromStr(text, width)), after),
         NEW start, start = Len(before) + 1, NEW next, next = start + width
  PROVE  TextAt(octets, start, next, n, text)
  <1>. DEFINE signed == FALSE
              length == Octets(n, width)
              own == length \o text
              rest == text \o after
              first == before \o length
              l == Len(before)
              k == Len(after)
  <1>1. n \in Nat /\ l \in Nat /\ k \in Nat /\ n \in Int /\ width \in Nat /\ width \in Widths
    BY BytesAre DEF Widths
  <1>2. k # 0
    <2>. DEFINE none == <<>>
    <2>1. none \in Bytes /\ Len(none) = 0
      BY JoinNothing
    <2>. HIDE DEF none
    <2>2. k = 0 => after = none
      BY <2>1, SameBytes
    <2>. QED BY <2>2 DEF none
  <1>3. length \in Bytes /\ Len(length) = width
    BY <1>1, OctetsBytes
  <1>4. Number(length, signed) = n
    <2>1. n <= Huge - 256
      BY <1>1, HugeIs, SMT
    <2>2. FitsUnsigned(n, width)
      BY <1>1, <2>1 DEF FitsUnsigned
    <2>3. signed \in BOOLEAN /\ IF signed THEN FitsSigned(n, width) ELSE FitsUnsigned(n, width)
      BY <2>2
    <2>. HIDE DEF signed
    <2>. QED BY <1>1, <2>3, NumberOfOctets
  <1>5. FromStr(text, width) = own
    BY DEF FromStr
  <1>. HIDE DEF length
  <1>6. own \in Bytes /\ Len(own) = width + n
    BY <1>3, Join
  <1>7. rest \in Bytes /\ first \in Bytes /\ Len(first) = l + width
    BY <1>3, Join
  <1>8. octets = before \o own \o after
    BY <1>5, Zenon DEF Then
  <1>9. octets = before \o length \o rest /\ octets = first \o text \o after
    <2>1. /\ octets = Then(Then(before, length), Then(text, after))
          /\ octets = Then(Then(Then(before, length), text), after)
      <3>1. octets = Then(Then(before, Then(length, text)), after)
        BY <1>5, Zenon DEF Then
      <3>. QED BY <1>3, <3>1, FourParts
    <2>. QED BY <2>1, Zenon DEF Then
  <1>10. Len(octets) = l + width + n + k
    <2>1. before \o own \in Bytes /\ Len(before \o own) = l + Len(own)
      BY <1>6, Join
    <2>. DEFINE x == before \o own
    <2>. HIDE DEF x
    <2>2. Len(x \o after) = Len(x) + k
      BY <2>1, Join DEF x
    <2>3. octets = x \o after
      BY <1>8 DEF x
    <2>4. Len(x) = l + width + n
      BY <1>1, <1>6, <2>1 DEF x
    <2>. HIDE DEF k
    <2>. QED BY <2>2, <2>3, <2>4, Zenon
  <1>11. SubSeq(octets, l + 1, l + width) = length
    <2>1. SubSeq(before \o length \o rest, Len(before) + 1, Len(before) + Len(length)) = length
      BY <1>3, <1>7, Slice
    <2>. HIDE DEF rest, first, own
    <2>. QED BY <1>3, <1>9, <2>1
  <1>12. SubSeq(octets, l + width + 1, l + width + n) = text
    <2>1. SubSeq(first \o text \o after, Len(first) + 1, Len(first) + Len(text)) = text
      BY <1>7, Slice
    <2>. HIDE DEF rest, first, own
    <2>. QED BY <1>7, <1>9, <2>1
  <1>13. /\ start = l + 1 /\ next = l + width + 1 /\ next - 1 = l + width
         /\ (next + n) - 1 = l + width + n /\ next \in Nat
    BY <1>1
  <1>14. next + n <= Len(octets)
    <2>. HIDE DEF l, k
    <2>. QED BY <1>1, <1>2, <1>10, <1>13
  <1>16. Number(SubSeq(octets, start, next - 1), FALSE) = n
    <2>. HIDE DEF l
    <2>1. SubSeq(octets, start, next - 1) = length
      BY <1>11, <1>13
    <2>. QED BY <1>4, <2>1 DEF signed
  <1>17. SubSeq(octets, next, (next + n) - 1) = text
    <2>. HIDE DEF l
    <2>. QED BY <1>12, <1>13
  <1>. HIDE DEF l, k, own
  <1>. QED BY <1>1, <1>13, <1>14, <1>16, <1>17 DEF TextAt

(* The maximum of the community modules is the greatest element.           *)
LEMMA MaxIs ==
  ASSUME NEW S, S \subseteq Int, NEW x \in S, \A y \in S : y <= x
  PROVE  Max(S) = x
  <1>1. \E z \in S : \A y \in S : z >= y
    OBVIOUS
  <1>2. Max(S) \in S /\ \A y \in S : Max(S) >= y
    BY <1>1, Zenon DEF Max
  <1>. DEFINE M == Max(S)
  <1>3. M \in S /\ M >= x
    BY <1>2
  <1>. HIDE DEF M
  <1>4. M \in Int /\ x \in Int /\ M >= x /\ M <= x
    BY <1>3
  <1>5. M = x
    BY <1>4
  <1>. QED BY <1>5 DEF M

(* Two texts with a separator between them, which neither has.             *)
IsPair(text, name, location, m, l) ==
  /\ name \in Bytes /\ location \in Bytes /\ m = Len(name) /\ l = Len(location)
  /\ text = Then(Then(name, <<Separator>>), location)
  /\ m \in Nat \ {0} /\ l \in Nat
  /\ \A i \in 1 .. m : name[i] # Separator
  /\ \A i \in 1 .. l : location[i] # Separator

Starts(text) ==
  {i \in DOMAIN text : text[i] # Separator /\ (i = 1 \/ text[i - 1] = Separator)}

EndOf(text, i) == Max({j \in i .. Len(text) : \A k \in i .. j : text[k] # Separator})

StartOf(text, k) ==
  CHOOSE i \in Starts(text) : Cardinality({j \in Starts(text) : j < i}) = k - 1

(* SplitString gives the part of the text from each start to its end.      *)
LEMMA SplitStringIs ==
  ASSUME NEW text
  PROVE  SplitString(text) = [k \in 1 .. Cardinality(Starts(text)) |->
                                SubSeq(text, StartOf(text, k), EndOf(text, StartOf(text, k)))]
  BY Zenon DEF SplitString, StartOf, EndOf, Starts

(* Where the octets of both are.                                           *)
LEMMA PairIs ==
  ASSUME NEW text, NEW name, NEW location, NEW m, NEW l, IsPair(text, name, location, m, l)
  PROVE  /\ text \in Bytes /\ Len(text) = m + 1 + l /\ DOMAIN text = 1 .. m + 1 + l
         /\ \A i \in 1 .. m + 1 + l : text[i] = Separator <=> i = m + 1
         /\ SubSeq(text, 1, m) = name
         /\ SubSeq(text, m + 2, m + 1 + l) = location
  <1>. DEFINE s == <<Separator>>
              x == Then(name, s)
  <1>1. /\ name \in Bytes /\ location \in Bytes /\ m = Len(name) /\ l = Len(location)
        /\ text = Then(x, location) /\ m \in Nat /\ l \in Nat /\ m # 0
        /\ \A i \in 1 .. m : name[i] # Separator
        /\ \A i \in 1 .. l : location[i] # Separator
    BY DEF IsPair
  <1>2. s \in Bytes /\ Len(s) = 1 /\ s[1] = Separator
    <2>1. Separator \in Octet
      BY OctetIs DEF Separator
    <2>. QED BY <2>1, OneByte
  <1>. HIDE DEF s
  <1>3. /\ x \in Bytes /\ Len(x) = m + 1
        /\ \A i \in 1 .. m : x[i] = name[i]
        /\ x[m + 1] = Separator
    <2>1. /\ x \in Bytes /\ Len(x) = Len(name) + Len(s)
          /\ \A i \in 1 .. Len(name) : x[i] = name[i]
          /\ \A i \in 1 .. Len(s) : x[Len(name) + i] = s[i]
      <3>1. name \in Bytes /\ s \in Bytes
        BY <1>1, <1>2
      <3>. QED BY <3>1, ThenHas, Zenon
    <2>2. 1 \in 1 .. Len(s)
      BY <1>2
    <2>. HIDE DEF x
    <2>3. x[m + 1] = Separator
      BY <1>1, <1>2, <2>1, <2>2
    <2>. QED BY <1>1, <1>2, <2>1, <2>3
  <1>. HIDE DEF x
  <1>4. /\ text \in Bytes /\ Len(text) = m + 1 + l
        /\ \A i \in 1 .. m + 1 : text[i] = x[i]
        /\ \A i \in 1 .. l : text[m + 1 + i] = location[i]
    <2>1. /\ text \in Bytes /\ Len(text) = Len(x) + Len(location)
          /\ \A i \in 1 .. Len(x) : text[i] = x[i]
          /\ \A i \in 1 .. Len(location) : text[Len(x) + i] = location[i]
      <3>1. x \in Bytes /\ location \in Bytes /\ text = Then(x, location)
        BY <1>1, <1>3
      <3>. QED BY <3>1, ThenHas, Zenon
    <2>. QED BY <1>1, <1>3, <2>1
  <1>5. DOMAIN text = 1 .. m + 1 + l
    BY <1>4, BytesAre
  <1>6. ASSUME NEW i \in 1 .. m + 1 + l
        PROVE  text[i] = Separator <=> i = m + 1
    <2>1. CASE i <= m
      <3>1. i \in 1 .. m /\ i \in 1 .. m + 1
        BY <1>1, <2>1
      <3>2. text[i] = name[i] /\ name[i] # Separator
        BY <1>1, <1>3, <1>4, <3>1
      <3>. QED BY <1>1, <2>1, <3>2
    <2>2. CASE i = m + 1
      <3>1. i \in 1 .. m + 1
        BY <1>1, <2>2
      <3>. QED BY <1>3, <1>4, <2>2, <3>1
    <2>3. CASE i > m + 1
      <3>. DEFINE j == i - (m + 1)
      <3>1. j \in 1 .. l /\ m + 1 + j = i
        BY <1>1, <2>3
      <3>. HIDE DEF j
      <3>2. text[i] = location[j] /\ location[j] # Separator
        BY <1>1, <1>4, <3>1
      <3>. QED BY <1>1, <2>3, <3>2
    <2>. QED BY <1>1, <2>1, <2>2, <2>3
  <1>7. SubSeq(text, 1, m) = name
    <2>. DEFINE one == 1
                n == m + 1
    <2>1. OfSize(name, m) /\ OfSize(x, n) /\ OfSize(s, one)
      BY <1>1, <1>2, <1>3 DEF OfSize
    <2>2. Holds(x, 1, m, name)
      BY <1>1, <1>2, <2>1, HoldsFirst DEF x
    <2>3. 1 \in Nat \ {0} /\ 1 <= m + 1 /\ m <= n /\ n \in Nat
      BY <1>1
    <2>. HIDE DEF n, one
    <2>4. Holds(Then(x, location), 1, m, name)
      BY <1>1, <2>1, <2>2, <2>3, HoldsThen
    <2>. QED BY <1>1, <2>4 DEF Holds
  <1>8. SubSeq(text, m + 2, m + 1 + l) = location
    <2>. DEFINE n == m + 1
                p == m + 2
                q == m + 1 + l
    <2>1. OfSize(x, n) /\ OfSize(location, l)
      BY <1>1, <1>3 DEF OfSize
    <2>2. n \in Nat /\ p \in Nat /\ q \in Nat /\ p = n + 1 /\ q = n + l
      BY <1>1
    <2>. HIDE DEF n, p, q
    <2>3. Holds(Then(x, location), p, q, location)
      BY <1>1, <2>1, <2>2, HoldsLast
    <2>. QED BY <1>1, <2>3 DEF Holds, p, q
  <1>. QED BY <1>4, <1>5, <1>6, <1>7, <1>8

(* Where the parts of the text start and end.                              *)
LEMMA PairEnds ==
  ASSUME NEW text, NEW name, NEW location, NEW m, NEW l, IsPair(text, name, location, m, l)
  PROVE  /\ Starts(text) = IF l = 0 THEN {1} ELSE {1, m + 2}
         /\ EndOf(text, 1) = m
         /\ l # 0 => EndOf(text, m + 2) = m + 1 + l
  <1>1. m \in Nat /\ l \in Nat /\ m # 0
    BY DEF IsPair
  <1>. DEFINE n == m + 1 + l
  <1>2. /\ Len(text) = n /\ DOMAIN text = 1 .. n /\ n \in Nat
        /\ \A i \in 1 .. n : text[i] = Separator <=> i = m + 1
    <2>1. /\ Len(text) = m + 1 + l /\ DOMAIN text = 1 .. m + 1 + l
          /\ \A i \in 1 .. m + 1 + l : text[i] = Separator <=> i = m + 1
      BY PairIs
    <2>. QED BY <1>1, <2>1
  <1>3. n = m + 1 + l
    OBVIOUS
  <1>. HIDE DEF n
  <1>4. Starts(text) = IF l = 0 THEN {1} ELSE {1, m + 2}
    <2>. DEFINE starts == IF l = 0 THEN {1} ELSE {1, m + 2}
    <2>1. ASSUME NEW i \in Starts(text)
          PROVE  i \in starts
      <3>1. i \in 1 .. n /\ text[i] # Separator /\ (i = 1 \/ text[i - 1] = Separator)
        BY <1>2 DEF Starts
      <3>2. CASE i = 1
        BY <3>2
      <3>3. CASE i # 1
        <4>1. i - 1 \in 1 .. n
          BY <1>2, <3>1, <3>3
        <4>2. i - 1 = m + 1
          BY <1>2, <3>1, <3>3, <4>1
        <4>3. i = m + 2 /\ l # 0
          BY <1>1, <1>2, <1>3, <3>1, <4>2
        <4>. QED BY <4>3
      <3>. QED BY <3>2, <3>3
    <2>2. 1 \in Starts(text)
      <3>1. 1 \in 1 .. n /\ 1 # m + 1
        BY <1>1, <1>3
      <3>. QED BY <1>2, <3>1 DEF Starts
    <2>3. l # 0 => m + 2 \in Starts(text)
      <3>1. SUFFICES ASSUME l # 0
                     PROVE  m + 2 \in Starts(text)
        OBVIOUS
      <3>. DEFINE i == m + 2
      <3>2. i \in 1 .. n /\ i # m + 1 /\ i - 1 \in 1 .. n /\ i - 1 = m + 1
        BY <1>1, <1>3, <3>1
      <3>. HIDE DEF i
      <3>3. i \in Starts(text)
        BY <1>2, <3>2 DEF Starts
      <3>. QED BY <3>3 DEF i
    <2>. QED BY <2>1, <2>2, <2>3
  <1>5. EndOf(text, 1) = m
    <2>. DEFINE S == {j \in 1 .. Len(text) : \A k \in 1 .. j : text[k] # Separator}
    <2>1. S \subseteq Int
      OBVIOUS
    <2>2. m \in S
      <3>1. m \in 1 .. n /\ \A k \in 1 .. m : k \in 1 .. n /\ k # m + 1
        BY <1>1, <1>3
      <3>. QED BY <1>2, <3>1
    <2>3. ASSUME NEW y \in S
          PROVE  y <= m
      <3>1. SUFFICES ASSUME ~(y <= m)
                     PROVE  FALSE
        OBVIOUS
      <3>2. y \in 1 .. n
        BY <1>2
      <3>3. m + 1 \in 1 .. y /\ m + 1 \in 1 .. n
        BY <1>1, <1>2, <1>3, <3>1, <3>2
      <3>. QED BY <1>2, <3>3
    <2>4. EndOf(text, 1) = Max(S)
      BY Zenon DEF EndOf
    <2>. HIDE DEF S
    <2>. QED BY <2>1, <2>2, <2>3, <2>4, MaxIs
  <1>6. ASSUME l # 0
        PROVE  EndOf(text, m + 2) = n
    <2>. DEFINE i == m + 2
                S == {j \in i .. Len(text) : \A k \in i .. j : text[k] # Separator}
    <2>1. S \subseteq Int
      BY <1>1, <1>2
    <2>2. n \in S
      <3>1. n \in i .. n /\ \A k \in i .. n : k \in 1 .. n /\ k # m + 1
        BY <1>1, <1>3, <1>6
      <3>. QED BY <1>2, <3>1
    <2>3. \A y \in S : y <= n
      BY <1>1, <1>2
    <2>4. EndOf(text, i) = Max(S)
      BY Zenon DEF EndOf
    <2>. HIDE DEF S, i
    <2>5. EndOf(text, i) = n
      BY <2>1, <2>2, <2>3, <2>4, MaxIs
    <2>. QED BY <2>5 DEF i
  <1>. QED BY <1>3, <1>4, <1>5, <1>6

(* SplitString finds both, and what follows them when one is empty.        *)
LEMMA PairSplits ==
  ASSUME NEW text, NEW name, NEW location, NEW m, NEW l, IsPair(text, name, location, m, l),
         NEW parts, parts = SplitString(text) \o << <<>>, <<>> >>
  PROVE  parts[1] = name /\ parts[2] = location
  <1>. DEFINE starts == Starts(text)
              split == SplitString(text)
              first == StartOf(text, 1)
              second == StartOf(text, 2)
              p == m + 2
  <1>1. /\ m \in Nat /\ l \in Nat /\ m # 0 /\ location \in Bytes /\ l = Len(location)
        /\ p \in Nat /\ p > 1
    BY DEF IsPair
  <1>2. /\ starts = IF l = 0 THEN {1} ELSE {1, p}
        /\ EndOf(text, 1) = m
        /\ l # 0 => EndOf(text, p) = m + 1 + l
    BY PairEnds
  <1>3. SubSeq(text, 1, m) = name /\ SubSeq(text, p, m + 1 + l) = location
    BY PairIs
  <1>4. split = [k \in 1 .. Cardinality(starts) |->
                   SubSeq(text, StartOf(text, k), EndOf(text, StartOf(text, k)))]
    BY SplitStringIs
  <1>5. /\ first = CHOOSE i \in starts : Cardinality({j \in starts : j < i}) = 1 - 1
        /\ second = CHOOSE i \in starts : Cardinality({j \in starts : j < i}) = 2 - 1
    BY Zenon DEF StartOf
  <1>. HIDE DEF starts, first, second, split, p
  <1>6. /\ {j \in starts : j < 1} = {}
        /\ l # 0 => {j \in starts : j < p} = {1}
    BY <1>1, <1>2
  <1>7. Cardinality({}) = 0 /\ Cardinality({1}) = 1
    BY FS_EmptySet, FS_Singleton
  <1>8. /\ Cardinality({j \in starts : j < 1}) = 0
        /\ l # 0 => Cardinality({j \in starts : j < p}) = 1
    BY <1>6, <1>7
  <1>9. first = 1
    <2>. DEFINE before(i) == Cardinality({j \in starts : j < i})
    <2>1. before(1) = 0 /\ 1 \in starts
      BY <1>2, <1>8
    <2>2. \A i \in starts : i # 1 => before(i) = 1
      BY <1>2, <1>8
    <2>3. first = CHOOSE i \in starts : before(i) = 1 - 1
      BY <1>5
    <2>. HIDE DEF before
    <2>. QED BY <2>1, <2>2, <2>3
  <1>10. l # 0 => second = p
    <2>. DEFINE before(i) == Cardinality({j \in starts : j < i})
    <2>1. SUFFICES ASSUME l # 0
                   PROVE  second = p
      OBVIOUS
    <2>2. before(p) = 1 /\ p \in starts
      BY <1>2, <1>8, <2>1
    <2>3. \A i \in starts : i # p => before(i) = 0
      BY <1>2, <1>8
    <2>4. second = CHOOSE i \in starts : before(i) = 2 - 1
      BY <1>5
    <2>. HIDE DEF before
    <2>. QED BY <2>2, <2>3, <2>4
  <1>. DEFINE x == SubSeq(text, first, EndOf(text, first))
              y == SubSeq(text, second, EndOf(text, second))
              none == <<>>
  <1>11. x = name
    BY <1>2, <1>3, <1>9
  <1>12. l # 0 => y = location
    BY <1>2, <1>3, <1>10
  <1>13. Cardinality(starts) = IF l = 0 THEN 1 ELSE 2
    <2>. DEFINE one == {1}
    <2>1. l = 0 => starts = one
      BY <1>2
    <2>2. l # 0 => starts = one \cup {p} /\ p \notin one
      BY <1>1, <1>2
    <2>3. IsFiniteSet(one) /\ Cardinality(one) = 1
      BY FS_Singleton
    <2>. HIDE DEF one
    <2>4. Cardinality(one \cup {p}) = IF p \in one THEN Cardinality(one) ELSE Cardinality(one) + 1
      BY <2>3, FS_AddElement
    <2>5. l = 0 => Cardinality(starts) = 1
      BY <2>1, <2>3
    <2>6. ASSUME l # 0
          PROVE  Cardinality(starts) = 2
      <3>1. p \notin one
        BY <2>2, <2>6
      <3>2. Cardinality(one \cup {p}) = Cardinality(one) + 1
        BY <2>4, <3>1, Zenon
      <3>3. starts = one \cup {p}
        BY <2>2, <2>6
      <3>4. Cardinality(starts) = Cardinality(one) + 1
        BY <3>2, <3>3, Zenon
      <3>. QED BY <2>3, <3>4
    <2>. QED BY <2>5, <2>6
  <1>14. split = IF l = 0 THEN <<x>> ELSE <<x, y>>
    <2>. DEFINE part(k) == SubSeq(text, StartOf(text, k), EndOf(text, StartOf(text, k)))
    <2>1. part(1) = x /\ part(2) = y
      BY DEF first, second
    <2>2. split = [k \in 1 .. Cardinality(starts) |-> part(k)]
      BY <1>4
    <2>. HIDE DEF part, x, y
    <2>3. CASE l = 0
      BY <1>13, <2>1, <2>2, <2>3
    <2>4. CASE l # 0
      BY <1>13, <2>1, <2>2, <2>4
    <2>. QED BY <2>3, <2>4
  <1>. HIDE DEF x, y
  <1>15. l = 0 => location = none
    <2>1. none \in Bytes /\ Len(none) = 0
      BY JoinNothing
    <2>. HIDE DEF none
    <2>2. SUFFICES ASSUME l = 0
                   PROVE  location = none
      OBVIOUS
    <2>3. Len(location) = Len(none) /\ Len(location) = 0
      BY <1>1, <2>1, <2>2
    <2>4. \A i \in 1 .. Len(location) : location[i] = none[i]
      BY <2>3
    <2>. QED BY <1>1, <2>1, <2>3, <2>4, SameBytes
  <1>16. parts = split \o <<none, none>>
    BY DEF split
  <1>. HIDE DEF none
  <1>17. CASE l = 0
    BY <1>11, <1>14, <1>15, <1>16, <1>17
  <1>18. CASE l # 0
    BY <1>11, <1>12, <1>14, <1>16, <1>18
  <1>. QED BY <1>17, <1>18

(* Octets are of the width of every number.                                *)
LEMMA OctetFits ==
  ASSUME NEW n \in Octet, NEW width \in Widths
  PROVE  FitsUnsigned(n, width)
  BY OctetIs, HugeIs, SMT DEF FitsUnsigned, Widths

(* Words and octets are of their width.                                    *)
LEMMA WordFits ==
  ASSUME NEW n \in Word
  PROVE  FitsUnsigned(n, 2)
  BY WordIs, HugeIs, SMT DEF FitsUnsigned

(* The octets that nothing is written as come back as they are.            *)
LEMMA HexNothingIs ==
  ASSUME NEW width \in Nat
  PROVE  /\ OfSize(HexNothing(width), width) /\ HexNothing(width) \in Bytes
         /\ FromHexStr(HexNothing(width), width) = HexNothing(width)
  <1>. DEFINE own == HexNothing(width)
  <1>1. OfSize(own, width)
    BY JoinNothing, SizeHex DEF HexNothing
  <1>2. own \in Bytes /\ Len(own) = width
    BY <1>1 DEF OfSize
  <1>. HIDE DEF own
  <1>3. FromHexStr(own, width) = own
    BY <1>2, HexIsItself
  <1>. QED BY <1>1, <1>2, <1>3 DEF own

Followed(octets, next) == Then(octets, <<next>>)

(* An octet is one more.                                                   *)
LEMMA FollowedIs ==
  ASSUME NEW octets \in Bytes, NEW next \in Octet
  PROVE  /\ Followed(octets, next) \in Bytes /\ Followed(octets, next) # <<>>
         /\ Len(Followed(octets, next)) = Len(octets) + 1
         /\ \A start \in Bytes : Followed(Then(start, octets), next)
                                  = Then(start, Followed(octets, next))
  <1>. DEFINE one == <<next>>
              after == Then(octets, one)
  <1>1. one \in Bytes /\ Len(one) = 1
    BY OneByte
  <1>2. after = Followed(octets, next)
    BY DEF Followed
  <1>. HIDE DEF one
  <1>3. after \in Bytes /\ Len(after) = Len(octets) + 1 /\ Len(octets) \in Nat
    BY <1>1, ThenIs, BytesAre
  <1>4. Len(after) # 0 /\ Len(<<>>) = 0
    BY <1>3
  <1>5. ASSUME NEW start \in Bytes
        PROVE  Followed(Then(start, octets), next) = Then(start, after)
    BY <1>1, ThenIsAssociative DEF Followed, one
  <1>. HIDE DEF after
  <1>6. after # <<>>
    BY <1>4, Zenon
  <1>. QED BY <1>2, <1>3, <1>5, <1>6

Remains(octets, m, x) == SubSeq(octets, m, Len(octets)) = x

(* What is left after the first part of a sequence and the octet after it. *)
LEMMA RemainsIs ==
  ASSUME NEW a, NEW k \in Nat, OfSize(a, k), NEW b \in Bytes, NEW next \in Octet,
         NEW m \in Nat, m = k + 1, NEW whole, whole = Followed(Then(a, b), next)
  PROVE  /\ Remains(whole, m, Followed(b, next))
         /\ whole \in Bytes /\ Len(whole) = k + Len(b) + 1
         /\ whole = Then(a, Followed(b, next))
  <1>. DEFINE after == Followed(b, next)
  <1>1. a \in Bytes /\ Len(a) = k
    BY DEF OfSize
  <1>2. after \in Bytes /\ Len(after) = Len(b) + 1 /\ whole = Then(a, after)
    BY <1>1, FollowedIs
  <1>3. Len(b) \in Nat
    BY BytesAre
  <1>. HIDE DEF after
  <1>4. whole \in Bytes /\ Len(whole) = Len(a) + Len(after)
    BY <1>1, <1>2, ThenIs
  <1>5. m = Len(a) + 1
    BY <1>1
  <1>6. SubSeq(whole, m, Len(whole)) = after
    <2>1. a \in Bytes /\ after \in Bytes
      BY <1>1, <1>2
    <2>2. SubSeq(Then(a, after), Len(a) + 1, Len(Then(a, after))) = after
      BY <2>1, SliceSuffix
    <2>. QED BY <1>2, <1>5, <2>2, Zenon
  <1>7. Len(whole) = k + Len(b) + 1
    BY <1>1, <1>2, <1>3, <1>4
  <1>. QED BY <1>2, <1>4, <1>6, <1>7 DEF after, Remains
=============================================================================
