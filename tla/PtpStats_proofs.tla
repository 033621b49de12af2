-------------------------- MODULE PtpStats_proofs --------------------------
(***************************************************************************)
(* The statistics, for every sample size, every history and every sequence *)
(* of samples, resyncs and resets: what the folds over a window compute,   *)
(* what the window operations preserve, and the invariants that follow.    *)
(***************************************************************************)
EXTENDS PtpClockStats, CommonLemmas

(* C++ division of an integer by a positive integer is an integer. *)
LEMMA QuotientType ==
  ASSUME NEW a \in Int, NEW n \in Nat \ {0}
  PROVE  Quotient(a, n) \in Int
  BY DEF Quotient

(* The mean of a window is an integer. *)
LEMMA MeanType ==
  ASSUME NEW w \in Windows
  PROVE  Mean(w) \in Int
  <1>1. CASE w.lstValues = <<>>
    BY <1>1 DEF Mean
  <1>2. CASE w.lstValues # <<>>
    <2>1. w.dTotal \in Int /\ w.lstValues \in Seq(Int)
      BY DEF Windows
    <2>2. Len(w.lstValues) \in Nat \ {0}
      BY <1>2, <2>1
    <2>. QED BY <1>2, <2>1, <2>2, QuotientType DEF Mean
  <1>. QED BY <1>1, <1>2

(* A push keeps a window a window of at most HistorySize values, ending in *)
(* the value pushed and otherwise made of the values it held; it is longer *)
(* by one unless it was full.                                              *)
LEMMA DoStatsWindow ==
  ASSUME NEW w \in Windows, Len(w.lstValues) <= HistorySize, NEW v \in Int
  PROVE  LET u == DoStats(w, v) IN
         /\ u \in Windows
         /\ Len(u.lstValues) <= HistorySize
         /\ Len(u.lstValues) = IF Len(w.lstValues) = HistorySize
                               THEN HistorySize ELSE Len(w.lstValues) + 1
         /\ u.bSet = (w.bSet \/ Len(u.lstValues) >= SampleSize)
         /\ \A i \in DOMAIN u.lstValues :
              \/ u.lstValues[i] = v
              \/ \E j \in DOMAIN w.lstValues : u.lstValues[i] = w.lstValues[j]
  <1>. DEFINE pushed == Append(w.lstValues, v)
              over   == Len(pushed) > HistorySize
              values == IF over THEN Tail(pushed) ELSE pushed
  <1>1. /\ w.lstValues \in Seq(Int) /\ w.dTotal \in Int
        /\ w.bSet \in BOOLEAN /\ w.SET \in Int
    BY DEF Windows
  <1>2. /\ pushed \in Seq(Int) /\ Len(pushed) = Len(w.lstValues) + 1
        /\ \A i \in 1 .. Len(pushed) :
             pushed[i] = IF i <= Len(w.lstValues) THEN w.lstValues[i] ELSE v
    BY <1>1
  <1>3. Head(pushed) \in Int
    BY <1>2
  <1>4. HistorySize \in Nat \ {0} /\ SampleSize \in Nat
    BY StatsAssumption
  <1>5. /\ values \in Seq(Int)
        /\ Len(values) = IF Len(w.lstValues) = HistorySize
                         THEN HistorySize ELSE Len(w.lstValues) + 1
    BY <1>1, <1>2, <1>4
  <1>6. \A i \in 1 .. Len(values) : \E j \in 1 .. Len(pushed) : values[i] = pushed[j]
    <2>1. CASE over
      <3>1. pushed \in Seq(Int) /\ Len(pushed) \in Nat /\ pushed # <<>>
        BY <1>1, <1>2
      <3>2. /\ Len(Tail(pushed)) = Len(pushed) - 1
            /\ \A i \in 1 .. Len(pushed) - 1 : Tail(pushed)[i] = pushed[i + 1]
        <4>. HIDE DEF pushed
        <4>. QED BY <3>1, HeadTailProperties
      <3>3. values = Tail(pushed)
        BY <2>1
      <3>. HIDE DEF values, pushed
      <3>4. \A i \in 1 .. Len(pushed) - 1 : i + 1 \in 1 .. Len(pushed)
        BY <3>1
      <3>. QED BY <3>2, <3>3, <3>4
    <2>2. CASE ~over
      <3>1. values = pushed
        BY <2>2
      <3>. QED BY <3>1
    <2>. QED BY <2>1, <2>2
  <1>7. PICK total \in Int, set \in BOOLEAN :
          /\ DoStats(w, v) = [w EXCEPT !.lstValues = values, !.dTotal = total, !.bSet = set]
          /\ set = (w.bSet \/ Len(values) >= SampleSize)
    <2>1. w.dTotal + v - (IF over THEN Head(pushed) ELSE 0) \in Int
      BY <1>1, <1>3
    <2>2. (w.bSet \/ Len(values) >= SampleSize) \in BOOLEAN
      BY <1>1
    <2>3. DoStats(w, v) = [w EXCEPT !.lstValues = values,
                             !.dTotal = w.dTotal + v - (IF over THEN Head(pushed) ELSE 0),
                             !.bSet = w.bSet \/ Len(values) >= SampleSize]
      BY DEF DoStats
    <2>. QED BY <2>1, <2>2, <2>3
  <1>8. \A i \in 1 .. Len(values) :
          \/ values[i] = v
          \/ \E j \in 1 .. Len(w.lstValues) : values[i] = w.lstValues[j]
    <2>. HIDE DEF values, over, pushed
    <2>. SUFFICES ASSUME NEW i \in 1 .. Len(values)
                  PROVE  \/ values[i] = v
                         \/ \E j \in 1 .. Len(w.lstValues) : values[i] = w.lstValues[j]
      OBVIOUS
    <2>1. PICK k \in 1 .. Len(pushed) : values[i] = pushed[k]
      BY <1>6
    <2>2. pushed[k] = IF k <= Len(w.lstValues) THEN w.lstValues[k] ELSE v
      BY <1>2
    <2>3. Len(w.lstValues) \in Nat /\ Len(pushed) = Len(w.lstValues) + 1
      BY <1>1, <1>2
    <2>. QED BY <2>1, <2>2, <2>3
  <1>. HIDE DEF values, over, pushed
  <1>9. /\ DoStats(w, v) \in Windows
        /\ DoStats(w, v).lstValues = values
        /\ DoStats(w, v).bSet = (w.bSet \/ Len(values) >= SampleSize)
    BY <1>5, <1>7 DEF Windows
  <1>10. DOMAIN values = 1 .. Len(values) /\ DOMAIN w.lstValues = 1 .. Len(w.lstValues)
    BY <1>1, <1>5
  <1>. DEFINE u == DoStats(w, v)
  <1>11. u \in Windows /\ u.lstValues = values /\ u.bSet = (w.bSet \/ Len(values) >= SampleSize)
    BY <1>9
  <1>12. Len(values) <= HistorySize
    BY <1>1, <1>4, <1>5
  <1>. HIDE DEF u
  <1>13. \A i \in DOMAIN u.lstValues :
           \/ u.lstValues[i] = v
           \/ \E j \in DOMAIN w.lstValues : u.lstValues[i] = w.lstValues[j]
    BY <1>8, <1>10, <1>11
  <1>14. /\ u \in Windows
         /\ Len(u.lstValues) <= HistorySize
         /\ Len(u.lstValues) = IF Len(w.lstValues) = HistorySize
                               THEN HistorySize ELSE Len(w.lstValues) + 1
         /\ u.bSet = (w.bSet \/ Len(u.lstValues) >= SampleSize)
    BY <1>5, <1>11, <1>12
  <1>. QED BY <1>13, <1>14 DEF u
-----------------------------------------------------------------------------
(* The folds over a window. *)

(* The greatest index, as FoldLeft takes it.                               *)
LEMMA MaxIndex ==
  ASSUME NEW n \in Nat, NEW s \in SUBSET (1 .. n), s # {}
  PROVE  Seqs!Max(s) \in s /\ \A i \in s : Seqs!Max(s) >= i
  BY GreatestIndex DEF Seqs!Max

(* The first k indices are k and the first k - 1.                          *)
LEMMA FirstIndices ==
  ASSUME NEW n \in Nat, NEW k \in 1 .. n
  PROVE  /\ 1 .. k \in SUBSET (1 .. n) /\ 1 .. k # {}
         /\ Seqs!Max(1 .. k) = k
         /\ (1 .. k) \ {k} = 1 .. k - 1
  <1>1. 1 .. k \in SUBSET (1 .. n) /\ 1 .. k # {} /\ k \in 1 .. k
    OBVIOUS
  <1>2. Seqs!Max(1 .. k) \in 1 .. k /\ \A i \in 1 .. k : Seqs!Max(1 .. k) >= i
    BY <1>1, MaxIndex
  <1>3. Seqs!Max(1 .. k) = k
    BY <1>1, <1>2
  <1>4. (1 .. k) \ {k} = 1 .. k - 1
    OBVIOUS
  <1>. QED BY <1>1, <1>3, <1>4

(* There is a fold with a step over the indices up to n that takes off the *)
(* greatest first, as FoldLeft does.                                       *)
LEMMA FoldLeftExists ==
  ASSUME NEW n \in Nat, NEW base \in Int, NEW step \in [(1 .. n) \X Int -> Int]
  PROVE  \E f : IsFold(f, n, Int, base, step,
                       [s \in (SUBSET (1 .. n)) \ {{}} |-> Seqs!Max(s)])
  <1>. DEFINE last == [s \in (SUBSET (1 .. n)) \ {{}} |-> Seqs!Max(s)]
  <1>1. IsLast(last, n)
    BY MaxIndex DEF IsLast
  <1>. HIDE DEF last
  <1>2. \E f : IsFold(f, n, Int, base, step, last)
    BY <1>1, FoldExists, ZenonT(20)
  <1>. QED BY <1>2 DEF last

(* The sum of a window is the last of the sums of its prefixes.            *)
LEMMA TotalOfPrefixes ==
  ASSUME NEW w, w.lstValues \in Seq(Int)
  PROVE  \E sum \in [0 .. Len(w.lstValues) -> Int] :
           /\ sum[0] = 0
           /\ \A k \in 1 .. Len(w.lstValues) : sum[k] = sum[k - 1] + w.lstValues[k]
           /\ sum[Len(w.lstValues)] = Total(w)
  <1>. DEFINE values == w.lstValues
              n == Len(values)
              step == [p \in (1 .. n) \X Int |-> p[2] + values[p[1]]]
              last == [s \in (SUBSET (1 .. n)) \ {{}} |-> Seqs!Max(s)]
              Folds(f) == f = [s \in SUBSET (1 .. n) |->
                                 IF s = {} THEN 0
                                 ELSE f[s \ {Seqs!Max(s)}] + values[Seqs!Max(s)]]
              iter == CHOOSE f : Folds(f)
  <1>1. n \in Nat /\ DOMAIN values = 1 .. n /\ \A i \in 1 .. n : values[i] \in Int
    BY ElementOfSeq
  <1>2. Total(w) = iter[1 .. n]
    <2>1. Total(w) = (CHOOSE f : f = [s \in SUBSET DOMAIN w.lstValues |->
                                        IF s = {} THEN 0
                                        ELSE f[s \ {Seqs!Max(s)}] + w.lstValues[Seqs!Max(s)]])
                     [DOMAIN w.lstValues]
      BY Zenon DEF Total, Seqs!FoldLeft, Seqs!MapThenFoldSet
    <2>. QED BY <1>1, <2>1
  <1>3. step \in [(1 .. n) \X Int -> Int]
    BY <1>1
  <1>4. \A i \in 1 .. n, acc \in Int : step[<<i, acc>>] = acc + values[i]
    OBVIOUS
  <1>5. \A s \in SUBSET (1 .. n) : s # {} => last[s] = Seqs!Max(s)
    OBVIOUS
  <1>6. n \in Nat /\ 0 \in Int
    BY <1>1
  <1>. HIDE DEF step
  <1>7. \E f : IsFold(f, n, Int, 0, step, last)
    <2>. HIDE DEF n
    <2>. QED BY <1>3, <1>6, FoldLeftExists, ZenonT(20)
  <1>. HIDE DEF n, last, values
  <1>8. Folds(iter)
    <2>1. PICK f : IsFold(f, n, Int, 0, step, last)
      BY <1>7
    <2>2. f \in [SUBSET (1 .. n) -> Int] /\ f[{}] = 0
      BY <2>1 DEF IsFold
    <2>3. ASSUME NEW s \in SUBSET (1 .. n), s # {}
          PROVE  f[s] = f[s \ {Seqs!Max(s)}] + values[Seqs!Max(s)]
      <3>1. Seqs!Max(s) \in 1 .. n /\ s \ {Seqs!Max(s)} \in SUBSET (1 .. n)
        BY <1>6, <2>3, MaxIndex
      <3>2. f[s] = step[<<Seqs!Max(s), f[s \ {Seqs!Max(s)}]>>]
        BY <1>5, <2>1, <2>3 DEF IsFold
      <3>. QED BY <1>4, <2>2, <3>1, <3>2
    <2>4. Folds(f)
      BY <2>2, <2>3
    <2>. HIDE DEF Folds
    <2>. QED BY <2>4
  <1>. HIDE DEF iter
  <1>9. iter[{}] = 0
    BY <1>8
  <1>10. ASSUME NEW k \in 1 .. n
         PROVE  iter[1 .. k] = iter[1 .. k - 1] + values[k]
    <2>1. /\ 1 .. k \in SUBSET (1 .. n) /\ 1 .. k # {}
          /\ Seqs!Max(1 .. k) = k
          /\ (1 .. k) \ {k} = 1 .. k - 1
      BY <1>6, FirstIndices
    <2>2. iter[1 .. k] = iter[(1 .. k) \ {Seqs!Max(1 .. k)}] + values[Seqs!Max(1 .. k)]
      BY <1>8, <2>1
    <2>. QED BY <2>1, <2>2
  <1>11. FoldsPrefixes(iter, n, Int, 0, step)
    BY <1>4, <1>9, <1>10 DEF FoldsPrefixes
  <1>. DEFINE run == RunOfFolds(iter, n)
  <1>12. run[n] = iter[1 .. n]
    BY <1>6 DEF RunOfFolds
  <1>13. IsRun(run, n, Int, 0, step)
    BY <1>3, <1>6, <1>11, FoldRuns, ZenonT(20)
  <1>. HIDE DEF run
  <1>14. run \in [0 .. n -> Int] /\ run[0] = 0
    BY <1>13 DEF IsRun
  <1>15. ASSUME NEW k \in 1 .. n
         PROVE  run[k] = run[k - 1] + values[k]
    <2>1. run[k - 1] \in Int /\ run[k] = step[<<k, run[k - 1]>>]
      BY <1>6, <1>13, <1>14 DEF IsRun
    <2>. QED BY <1>4, <2>1
  <1>16. run[n] = Total(w)
    BY <1>2, <1>12 DEF values
  <1>. QED BY <1>14, <1>15, <1>16 DEF n, values

(* The sums of the prefixes of a sequence of integers.                     *)
IsSum(sum, values) ==
  /\ sum \in [0 .. Len(values) -> Int]
  /\ sum[0] = 0
  /\ \A k \in 1 .. Len(values) : sum[k] = sum[k - 1] + values[k]

(* They are unique, so whoever has them has the total of the window.       *)
LEMMA TotalIsSum ==
  ASSUME NEW w, w.lstValues \in Seq(Int), NEW sum, IsSum(sum, w.lstValues)
  PROVE  Total(w) = sum[Len(w.lstValues)]
  <1>. DEFINE n == Len(w.lstValues)
  <1>1. n \in Nat /\ \A k \in 1 .. n : w.lstValues[k] \in Int
    BY ElementOfSeq
  <1>2. PICK total \in [0 .. n -> Int] :
          /\ total[0] = 0
          /\ \A k \in 1 .. n : total[k] = total[k - 1] + w.lstValues[k]
          /\ total[n] = Total(w)
    BY TotalOfPrefixes
  <1>. DEFINE T == {k \in 0 .. n : sum[k] = total[k]}
  <1>3. 0 \in T
    BY <1>1, <1>2 DEF IsSum
  <1>4. \A k \in 1 .. n : k - 1 \in T => k \in T
    BY <1>1, <1>2 DEF IsSum
  <1>5. 0 .. n \subseteq T
    <2>. HIDE DEF T, n
    <2>. QED BY <1>1, <1>3, <1>4, InductionUpTo
  <1>6. n \in T
    BY <1>1, <1>5
  <1>. QED BY <1>2, <1>6

(* Every window has them.                                                  *)
LEMMA SumExists ==
  ASSUME NEW w, w.lstValues \in Seq(Int)
  PROVE  \E sum : IsSum(sum, w.lstValues)
  BY TotalOfPrefixes DEF IsSum

(* The total of an empty window.                                           *)
LEMMA TotalEmpty ==
  ASSUME NEW w, w.lstValues = <<>>
  PROVE  Total(w) = 0
  <1>1. w.lstValues \in Seq(Int) /\ Len(w.lstValues) = 0
    OBVIOUS
  <1>2. PICK sum : IsSum(sum, w.lstValues)
    BY <1>1, SumExists
  <1>. QED BY <1>1, <1>2, TotalIsSum DEF IsSum

(* Windows with the same values have the same total.                       *)
LEMMA SameTotal ==
  ASSUME NEW w, w.lstValues \in Seq(Int), NEW u, u.lstValues = w.lstValues
  PROVE  Total(u) = Total(w)
  <1>1. PICK sum : IsSum(sum, w.lstValues)
    BY SumExists
  <1>2. Total(w) = sum[Len(w.lstValues)]
    BY <1>1, TotalIsSum
  <1>3. Total(u) = sum[Len(u.lstValues)]
    BY <1>1, TotalIsSum
  <1>. QED BY <1>2, <1>3

(* The total of a window grows by the value appended to it,                *)
LEMMA TotalAppend ==
  ASSUME NEW w, w.lstValues \in Seq(Int), NEW v \in Int,
         NEW u, u.lstValues = Append(w.lstValues, v)
  PROVE  Total(u) = Total(w) + v
  <1>. DEFINE n == Len(w.lstValues)
  <1>1. n \in Nat
    OBVIOUS
  <1>2. /\ u.lstValues \in Seq(Int) /\ Len(u.lstValues) = n + 1
        /\ \A k \in 1 .. n : u.lstValues[k] = w.lstValues[k]
        /\ u.lstValues[n + 1] = v
    BY <1>1
  <1>3. PICK sum : IsSum(sum, w.lstValues)
    BY SumExists
  <1>. DEFINE more == [k \in 0 .. n + 1 |-> IF k = n + 1 THEN sum[n] + v ELSE sum[k]]
  <1>4. sum \in [0 .. n -> Int] /\ sum[0] = 0
        /\ \A k \in 1 .. n : sum[k] = sum[k - 1] + w.lstValues[k]
    BY <1>3 DEF IsSum
  <1>5. IsSum(more, u.lstValues)
    <2>. HIDE DEF n
    <2>1. more \in [0 .. n + 1 -> Int] /\ more[0] = 0
      <3>1. \A k \in 0 .. n : sum[k] \in Int
        BY <1>4
      <3>2. \A k \in 0 .. n + 1 : k # n + 1 => k \in 0 .. n
        BY <1>1
      <3>3. sum[n] + v \in Int
        BY <1>1, <3>1
      <3>4. 0 \in 0 .. n + 1 /\ 0 # n + 1
        BY <1>1
      <3>. QED BY <1>4, <3>1, <3>2, <3>3, <3>4
    <2>2. \A k \in 1 .. n : more[k] = more[k - 1] + u.lstValues[k]
      BY <1>1, <1>2, <1>4
    <2>3. more[n + 1] = more[(n + 1) - 1] + u.lstValues[n + 1]
      BY <1>1, <1>2
    <2>. HIDE DEF more
    <2>4. ASSUME NEW k \in 1 .. n + 1
          PROVE  more[k] = more[k - 1] + u.lstValues[k]
      <3>1. k \in 1 .. n \/ k = n + 1
        BY <1>1
      <3>. QED BY <2>2, <2>3, <3>1
    <2>. QED BY <1>2, <2>1, <2>4 DEF IsSum
  <1>6. Total(w) = sum[n]
    BY <1>3, TotalIsSum
  <1>7. Total(u) = more[n + 1]
    <2>. HIDE DEF more, n
    <2>. QED BY <1>2, <1>5, TotalIsSum
  <1>8. more[n + 1] = sum[n] + v
    BY <1>1
  <1>. QED BY <1>6, <1>7, <1>8

(* and shrinks by the value taken off its front.                           *)
LEMMA TotalTail ==
  ASSUME NEW w, w.lstValues \in Seq(Int), w.lstValues # <<>>,
         NEW u, u.lstValues = Tail(w.lstValues)
  PROVE  Total(u) = Total(w) - Head(w.lstValues)
  <1>. DEFINE n == Len(w.lstValues)
              head == Head(w.lstValues)
  <1>1. /\ n \in Nat \ {0} /\ head = w.lstValues[1] /\ head \in Int
        /\ u.lstValues \in Seq(Int) /\ Len(u.lstValues) = n - 1
        /\ \A k \in 1 .. n - 1 : u.lstValues[k] = w.lstValues[k + 1]
    BY HeadTailProperties
  <1>2. PICK sum : IsSum(sum, w.lstValues)
    BY SumExists
  <1>. DEFINE less == [k \in 0 .. n - 1 |-> sum[k + 1] - head]
  <1>3. sum \in [0 .. n -> Int] /\ sum[0] = 0
        /\ \A k \in 1 .. n : sum[k] = sum[k - 1] + w.lstValues[k]
    BY <1>2 DEF IsSum
  <1>4. IsSum(less, u.lstValues)
    <2>. HIDE DEF n, head
    <2>1. less \in [0 .. n - 1 -> Int]
      BY <1>1, <1>3, SMTT(30)
    <2>2. sum[1] = sum[0] + head
      BY <1>1, <1>3
    <2>3. less[0] = 0
      BY <1>1, <1>3, <2>2
    <2>4. ASSUME NEW k \in 1 .. n - 1
          PROVE  less[k] = less[k - 1] + u.lstValues[k]
      <3>1. k \in 0 .. n - 1 /\ k - 1 \in 0 .. n - 1 /\ k + 1 \in 1 .. n /\ (k - 1) + 1 = k
        BY <1>1
      <3>2. sum[k + 1] = sum[k] + w.lstValues[k + 1]
        BY <1>3, <3>1
      <3>3. sum[k] \in Int /\ u.lstValues[k] = w.lstValues[k + 1] /\ u.lstValues[k] \in Int
        BY <1>1, <1>3, ElementOfSeq, SMTT(30)
      <3>4. less[k] = sum[k + 1] - head /\ less[k - 1] = sum[k] - head
        BY <3>1
      <3>. QED BY <1>1, <3>2, <3>3, <3>4, SMTT(30)
    <2>. HIDE DEF less
    <2>. QED BY <1>1, <2>1, <2>3, <2>4 DEF IsSum
  <1>5. Total(w) = sum[n]
    BY <1>2, TotalIsSum
  <1>6. Total(u) = less[n - 1]
    <2>. HIDE DEF less, n
    <2>. QED BY <1>1, <1>4, TotalIsSum
  <1>7. less[n - 1] = sum[n] - head
    BY <1>1
  <1>. QED BY <1>5, <1>6, <1>7

(* A push keeps the running sum the sum of the values in the window.       *)
LEMMA DoStatsTotal ==
  ASSUME NEW w \in Windows, w.dTotal = Total(w), NEW v \in Int
  PROVE  DoStats(w, v).dTotal = Total(DoStats(w, v))
  <1>. DEFINE pushed == Append(w.lstValues, v)
              long == [lstValues |-> pushed]
              u == DoStats(w, v)
  <1>1. w.lstValues \in Seq(Int) /\ w.dTotal \in Int
    BY DEF Windows
  <1>2. pushed \in Seq(Int) /\ pushed # <<>> /\ Head(pushed) \in Int
    <2>1. pushed \in Seq(Int) /\ Len(pushed) = Len(w.lstValues) + 1
      BY <1>1
    <2>2. pushed # <<>>
      BY <1>1, <2>1
    <2>. HIDE DEF pushed
    <2>. QED BY <2>1, <2>2, HeadTailProperties
  <1>3. long.lstValues = pushed /\ Total(long) = w.dTotal + v
    BY <1>1, TotalAppend
  <1>4. Total(long) \in Int
    BY <1>1, <1>3
  <1>5. CASE Len(pushed) > HistorySize
    <2>1. u.lstValues = Tail(pushed) /\ u.dTotal = w.dTotal + v - Head(pushed)
      BY <1>5 DEF DoStats, Windows
    <2>. HIDE DEF u, pushed, long
    <2>2. Total(u) = Total(long) - Head(pushed)
      BY <1>2, <1>3, <2>1, TotalTail
    <2>3. u.dTotal = Total(u)
      BY <1>1, <1>2, <1>3, <2>1, <2>2
    <2>. QED BY <2>3 DEF u
  <1>6. CASE ~(Len(pushed) > HistorySize)
    <2>1. u.lstValues = pushed /\ u.dTotal = w.dTotal + v - 0
      BY <1>6 DEF DoStats, Windows
    <2>. HIDE DEF u
    <2>2. Total(u) = w.dTotal + v
      BY <1>1, <2>1, TotalAppend
    <2>3. u.dTotal = Total(u)
      BY <1>1, <2>1, <2>2
    <2>. QED BY <2>3 DEF u
  <1>. QED BY <1>5, <1>6

(* A window that is not empty has a least and a greatest value.            *)
LEMMA Extremes ==
  ASSUME NEW values \in Seq(Int), values # <<>>
  PROVE  \E i, j \in 1 .. Len(values) :
           \A k \in 1 .. Len(values) : values[i] <= values[k] /\ values[k] <= values[j]
  <1>. DEFINE n == Len(values)
              Between(m, i, j) ==
                \A k \in 1 .. m : values[i] <= values[k] /\ values[k] <= values[j]
              T == {m \in 0 .. n : \E i, j \in 1 .. n : Between(m, i, j)}
  <1>1. n \in Nat \ {0} /\ \A k \in 1 .. n : values[k] \in Int
    BY ElementOfSeq
  <1>2. 0 \in T
    <2>1. 1 \in 1 .. n /\ Between(0, 1, 1)
      BY <1>1
    <2>. HIDE DEF Between, n
    <2>. QED BY <1>1, <2>1
  <1>3. ASSUME NEW m \in 1 .. n, m - 1 \in T
        PROVE  m \in T
    <2>1. PICK i \in 1 .. n, j \in 1 .. n : Between(m - 1, i, j)
      BY <1>3
    <2>. DEFINE least    == IF values[m] <= values[i] THEN m ELSE i
                greatest == IF values[j] <= values[m] THEN m ELSE j
    <2>2. least \in 1 .. n /\ greatest \in 1 .. n
      OBVIOUS
    <2>3. /\ values[least] <= values[i] /\ values[least] <= values[m]
          /\ values[j] <= values[greatest] /\ values[m] <= values[greatest]
      BY <1>1
    <2>4. ASSUME NEW k \in 1 .. m
          PROVE  values[least] <= values[k] /\ values[k] <= values[greatest]
      <3>1. CASE k = m
        BY <2>3, <3>1
      <3>2. CASE k # m
        <4>1. values[i] <= values[k] /\ values[k] <= values[j]
          BY <2>1, <3>2
        <4>2. k \in 1 .. n
          BY <1>1
        <4>. HIDE DEF least, greatest, n
        <4>3. /\ values[i] \in Int /\ values[j] \in Int /\ values[k] \in Int
              /\ values[least] \in Int /\ values[greatest] \in Int
          BY <1>1, <2>2, <4>2
        <4>. QED BY <2>3, <4>1, <4>3, SMTT(30)
      <3>. QED BY <3>1, <3>2
    <2>5. Between(m, least, greatest)
      BY <2>4
    <2>. HIDE DEF Between, least, greatest, n
    <2>. QED BY <1>1, <2>2, <2>5
  <1>4. n \in T
    <2>. HIDE DEF T, n
    <2>1. n \in Nat
      BY <1>1
    <2>2. 0 .. n \subseteq T
      BY <1>2, <1>3, <2>1, InductionUpTo
    <2>. QED BY <2>1, <2>2
  <1>. QED BY <1>4

(* The sum of n values between two bounds is between n times those.        *)
LEMMA TotalBounds ==
  ASSUME NEW w, w.lstValues \in Seq(Int), NEW lo \in Int, NEW hi \in Int,
         \A k \in 1 .. Len(w.lstValues) : lo <= w.lstValues[k] /\ w.lstValues[k] <= hi
  PROVE  /\ Total(w) \in Int
         /\ Len(w.lstValues) * lo <= Total(w) /\ Total(w) <= Len(w.lstValues) * hi
  <1>. DEFINE n == Len(w.lstValues)
  <1>1. n \in Nat /\ \A k \in 1 .. n : w.lstValues[k] \in Int
    BY ElementOfSeq
  <1>2. PICK sum : IsSum(sum, w.lstValues)
    BY SumExists
  <1>. DEFINE T == {k \in 0 .. n : k * lo <= sum[k] /\ sum[k] <= k * hi}
  <1>3. sum \in [0 .. n -> Int] /\ sum[0] = 0
        /\ \A k \in 1 .. n : sum[k] = sum[k - 1] + w.lstValues[k]
    BY <1>2 DEF IsSum
  <1>4. 0 \in T
    BY <1>1, <1>3
  <1>5. ASSUME NEW k \in 1 .. n, k - 1 \in T
        PROVE  k \in T
    <2>1. k * lo = (k - 1) * lo + lo /\ k * hi = (k - 1) * hi + hi
      OBVIOUS
    <2>2. (k - 1) * lo <= sum[k - 1] /\ sum[k - 1] <= (k - 1) * hi
      BY <1>5
    <2>3. /\ k \in 0 .. n /\ k - 1 \in 0 .. n /\ sum[k - 1] \in Int
          /\ (k - 1) * lo \in Int /\ (k - 1) * hi \in Int
      <3>1. k \in 0 .. n /\ k - 1 \in 0 .. n
        BY <1>1
      <3>2. k - 1 \in Int
        OBVIOUS
      <3>3. (k - 1) * lo \in Int /\ (k - 1) * hi \in Int
        BY <3>2
      <3>. QED BY <1>3, <3>1, <3>3
    <2>4. /\ sum[k] = sum[k - 1] + w.lstValues[k] /\ w.lstValues[k] \in Int
          /\ lo <= w.lstValues[k] /\ w.lstValues[k] <= hi
      BY <1>1, <1>3
    <2>. QED BY <2>1, <2>2, <2>3, <2>4, SMTT(30)
  <1>6. n \in T
    <2>1. 0 .. n \subseteq T
      <3>. HIDE DEF T, n
      <3>. QED BY <1>1, <1>4, <1>5, InductionUpTo
    <2>. QED BY <1>1, <2>1
  <1>7. Total(w) = sum[n]
    BY <1>2, TotalIsSum
  <1>. QED BY <1>1, <1>3, <1>6, <1>7

(* A quotient of a sum of n values is between the bounds of the values.    *)
LEMMA QuotientBounds ==
  ASSUME NEW a \in Int, NEW n \in Nat \ {0}, NEW lo \in Int, NEW hi \in Int,
         n * lo <= a, a <= n * hi
  PROVE  lo <= Quotient(a, n) /\ Quotient(a, n) <= hi
  <1>1. ASSUME NEW x \in Int, NEW y \in Int, n * x < n * (y + 1)
        PROVE  x <= y
    BY <1>1
  <1>2. CASE a >= 0
    <2>. DEFINE q == a \div n
    <2>1. q \in Int /\ n * q <= a /\ a < n * (q + 1)
      BY <1>2
    <2>2. Quotient(a, n) = q
      BY <1>2 DEF Quotient
    <2>. HIDE DEF q
    <2>3. lo <= q
      BY <1>1, <2>1
    <2>4. q <= hi
      BY <1>1, <2>1
    <2>. QED BY <2>2, <2>3, <2>4
  <1>3. CASE ~(a >= 0)
    <2>. DEFINE q == (-a) \div n
    <2>1. q \in Int /\ n * q <= -a /\ -a < n * (q + 1)
      BY <1>3
    <2>2. Quotient(a, n) = -q
      BY <1>3 DEF Quotient
    <2>. HIDE DEF q
    <2>3. lo <= -q
      BY <1>1, <2>1
    <2>4. -q <= hi
      BY <1>1, <2>1
    <2>. QED BY <2>2, <2>3, <2>4
  <1>. QED BY <1>2, <1>3

(* The mean of a window is between two values of the window.               *)
LEMMA MeanBetween ==
  ASSUME NEW w \in Windows, w.dTotal = Total(w), w.lstValues # <<>>
  PROVE  \E i, j \in DOMAIN w.lstValues :
           w.lstValues[i] <= Mean(w) /\ Mean(w) <= w.lstValues[j]
  <1>. DEFINE values == w.lstValues
              n == Len(values)
  <1>1. values \in Seq(Int) /\ n \in Nat \ {0} /\ DOMAIN values = 1 .. n
    BY DEF Windows
  <1>2. PICK i \in 1 .. n, j \in 1 .. n :
          \A k \in 1 .. n : values[i] <= values[k] /\ values[k] <= values[j]
    BY <1>1, Extremes
  <1>3. values[i] \in Int /\ values[j] \in Int
    BY <1>1, ElementOfSeq
  <1>4. /\ Total(w) \in Int
        /\ n * values[i] <= Total(w) /\ Total(w) <= n * values[j]
    BY <1>1, <1>2, <1>3, TotalBounds
  <1>5. Mean(w) = Quotient(Total(w), n)
    BY DEF Mean
  <1>. HIDE DEF n, values
  <1>6. values[i] <= Mean(w) /\ Mean(w) <= values[j]
    BY <1>1, <1>3, <1>4, <1>5, QuotientBounds
  <1>. QED BY <1>1, <1>6 DEF values
(* stat[MIN] of a window is what the loop has found at its end.            *)
LEMMA LeastOfPrefixes ==
  ASSUME NEW w, w.lstValues \in Seq(Int)
  PROVE  \E run \in [0 .. Len(w.lstValues) -> Int] :
           /\ run[0] = 0
           /\ \A k \in 1 .. Len(w.lstValues) :
                run[k] = IF run[k - 1] = 0 \/ run[k - 1] > w.lstValues[k]
                         THEN w.lstValues[k] ELSE run[k - 1]
           /\ run[Len(w.lstValues)] = Least(w)
  <1>. DEFINE values == w.lstValues
              n == Len(values)
              step == [p \in (1 .. n) \X Int |-> IF p[2] = 0 \/ p[2] > values[p[1]]
                                               THEN values[p[1]] ELSE p[2]]
              last == [s \in (SUBSET (1 .. n)) \ {{}} |-> Seqs!Max(s)]
              Folds(f) == f = [s \in SUBSET (1 .. n) |->
                                 IF s = {} THEN 0
                                 ELSE LET acc == f[s \ {Seqs!Max(s)}]
                                          v   == values[Seqs!Max(s)]
                                      IN  IF acc = 0 \/ acc > v THEN v ELSE acc]
              iter == CHOOSE f : Folds(f)
  <1>1. n \in Nat /\ DOMAIN values = 1 .. n /\ \A i \in 1 .. n : values[i] \in Int
    BY ElementOfSeq
  <1>2. Least(w) = iter[1 .. n]
    <2>1. Least(w) = (CHOOSE f : f = [s \in SUBSET DOMAIN w.lstValues |->
                                        IF s = {} THEN 0
                                        ELSE LET acc == f[s \ {Seqs!Max(s)}]
                                                 v   == w.lstValues[Seqs!Max(s)]
                                             IN  IF acc = 0 \/ acc > v THEN v ELSE acc])
                     [DOMAIN w.lstValues]
      BY Zenon DEF Least, Seqs!FoldLeft, Seqs!MapThenFoldSet
    <2>. QED BY <1>1, <2>1
  <1>3. step \in [(1 .. n) \X Int -> Int]
    BY <1>1
  <1>4. \A i \in 1 .. n, acc \in Int :
          step[<<i, acc>>] = IF acc = 0 \/ acc > values[i] THEN values[i] ELSE acc
    OBVIOUS
  <1>5. \A s \in SUBSET (1 .. n) : s # {} => last[s] = Seqs!Max(s)
    OBVIOUS
  <1>6. n \in Nat /\ 0 \in Int
    BY <1>1
  <1>. HIDE DEF step
  <1>7. \E f : IsFold(f, n, Int, 0, step, last)
    <2>. HIDE DEF n
    <2>. QED BY <1>3, <1>6, FoldLeftExists, ZenonT(20)
  <1>. HIDE DEF n, last, values
  <1>8. Folds(iter)
    <2>1. PICK f : IsFold(f, n, Int, 0, step, last)
      BY <1>7
    <2>2. f \in [SUBSET (1 .. n) -> Int] /\ f[{}] = 0
      BY <2>1 DEF IsFold
    <2>3. ASSUME NEW s \in SUBSET (1 .. n), s # {}
          PROVE  f[s] = LET acc == f[s \ {Seqs!Max(s)}]
                        v   == values[Seqs!Max(s)]
                    IN  IF acc = 0 \/ acc > v THEN v ELSE acc
      <3>1. Seqs!Max(s) \in 1 .. n /\ s \ {Seqs!Max(s)} \in SUBSET (1 .. n)
        BY <1>6, <2>3, MaxIndex
      <3>2. f[s] = step[<<Seqs!Max(s), f[s \ {Seqs!Max(s)}]>>]
        BY <1>5, <2>1, <2>3 DEF IsFold
      <3>. QED BY <1>4, <2>2, <3>1, <3>2
    <2>4. Folds(f)
      BY <2>2, <2>3
    <2>. HIDE DEF Folds
    <2>. QED BY <2>4
  <1>. HIDE DEF iter
  <1>9. iter[{}] = 0
    BY <1>8
  <1>10. ASSUME NEW k \in 1 .. n
         PROVE  iter[1 .. k] = IF iter[1 .. k - 1] = 0 \/ iter[1 .. k - 1] > values[k]
                               THEN values[k] ELSE iter[1 .. k - 1]
    <2>1. /\ 1 .. k \in SUBSET (1 .. n) /\ 1 .. k # {}
          /\ Seqs!Max(1 .. k) = k
          /\ (1 .. k) \ {k} = 1 .. k - 1
      BY <1>6, FirstIndices
    <2>2. iter[1 .. k] = LET acc == iter[(1 .. k) \ {Seqs!Max(1 .. k)}]
                             v   == values[Seqs!Max(1 .. k)]
                         IN  IF acc = 0 \/ acc > v THEN v ELSE acc
      BY <1>8, <2>1
    <2>. QED BY <2>1, <2>2
  <1>11. FoldsPrefixes(iter, n, Int, 0, step)
    BY <1>4, <1>9, <1>10 DEF FoldsPrefixes
  <1>. DEFINE run == RunOfFolds(iter, n)
  <1>12. run[n] = iter[1 .. n]
    BY <1>6 DEF RunOfFolds
  <1>13. IsRun(run, n, Int, 0, step)
    BY <1>3, <1>6, <1>11, FoldRuns, ZenonT(20)
  <1>. HIDE DEF run
  <1>14. run \in [0 .. n -> Int] /\ run[0] = 0
    BY <1>13 DEF IsRun
  <1>15. ASSUME NEW k \in 1 .. n
         PROVE  run[k] = IF run[k - 1] = 0 \/ run[k - 1] > values[k]
                         THEN values[k] ELSE run[k - 1]
    <2>1. run[k - 1] \in Int /\ run[k] = step[<<k, run[k - 1]>>]
      BY <1>6, <1>13, <1>14 DEF IsRun
    <2>. QED BY <1>4, <2>1
  <1>16. run[n] = Least(w)
    BY <1>2, <1>12 DEF values
  <1>. QED BY <1>14, <1>15, <1>16 DEF n, values

(* stat[MAX] of a window is what the loop has found at its end.            *)
LEMMA GreatestOfPrefixes ==
  ASSUME NEW w, w.lstValues \in Seq(Int)
  PROVE  \E run \in [0 .. Len(w.lstValues) -> Int] :
           /\ run[0] = 0
           /\ \A k \in 1 .. Len(w.lstValues) :
                run[k] = IF run[k - 1] = 0 \/ run[k - 1] < w.lstValues[k]
                         THEN w.lstValues[k] ELSE run[k - 1]
           /\ run[Len(w.lstValues)] = Greatest(w)
  <1>. DEFINE values == w.lstValues
              n == Len(values)
              step == [p \in (1 .. n) \X Int |-> IF p[2] = 0 \/ p[2] < values[p[1]]
                                               THEN values[p[1]] ELSE p[2]]
              last == [s \in (SUBSET (1 .. n)) \ {{}} |-> Seqs!Max(s)]
              Folds(f) == f = [s \in SUBSET (1 .. n) |->
                                 IF s = {} THEN 0
                                 ELSE LET acc == f[s \ {Seqs!Max(s)}]
                                          v   == values[Seqs!Max(s)]
                                      IN  IF acc = 0 \/ acc < v THEN v ELSE acc]
              iter == CHOOSE f : Folds(f)
  <1>1. n \in Nat /\ DOMAIN values = 1 .. n /\ \A i \in 1 .. n : values[i] \in Int
    BY ElementOfSeq
  <1>2. Greatest(w) = iter[1 .. n]
    <2>1. Greatest(w) = (CHOOSE f : f = [s \in SUBSET DOMAIN w.lstValues |->
                                        IF s = {} THEN 0
                                        ELSE LET acc == f[s \ {Seqs!Max(s)}]
                                                 v   == w.lstValues[Seqs!Max(s)]
                                             IN  IF acc = 0 \/ acc < v THEN v ELSE acc])
                     [DOMAIN w.lstValues]
      BY Zenon DEF Greatest, Seqs!FoldLeft, Seqs!MapThenFoldSet
    <2>. QED BY <1>1, <2>1
  <1>3. step \in [(1 .. n) \X Int -> Int]
    BY <1>1
  <1>4. \A i \in 1 .. n, acc \in Int :
          step[<<i, acc>>] = IF acc = 0 \/ acc < values[i] THEN values[i] ELSE acc
    OBVIOUS
  <1>5. \A s \in SUBSET (1 .. n) : s # {} => last[s] = Seqs!Max(s)
    OBVIOUS
  <1>6. n \in Nat /\ 0 \in Int
    BY <1>1
  <1>. HIDE DEF step
  <1>7. \E f : IsFold(f, n, Int, 0, step, last)
    <2>. HIDE DEF n
    <2>. QED BY <1>3, <1>6, FoldLeftExists, ZenonT(20)
  <1>. HIDE DEF n, last, values
  <1>8. Folds(iter)
    <2>1. PICK f : IsFold(f, n, Int, 0, step, last)
      BY <1>7
    <2>2. f \in [SUBSET (1 .. n) -> Int] /\ f[{}] = 0
      BY <2>1 DEF IsFold
    <2>3. ASSUME NEW s \in SUBSET (1 .. n), s # {}
          PROVE  f[s] = LET acc == f[s \ {Seqs!Max(s)}]
                        v   == values[Seqs!Max(s)]
                    IN  IF acc = 0 \/ acc < v THEN v ELSE acc
      <3>1. Seqs!Max(s) \in 1 .. n /\ s \ {Seqs!Max(s)} \in SUBSET (1 .. n)
        BY <1>6, <2>3, MaxIndex
      <3>2. f[s] = step[<<Seqs!Max(s), f[s \ {Seqs!Max(s)}]>>]
        BY <1>5, <2>1, <2>3 DEF IsFold
      <3>. QED BY <1>4, <2>2, <3>1, <3>2
    <2>4. Folds(f)
      BY <2>2, <2>3
    <2>. HIDE DEF Folds
    <2>. QED BY <2>4
  <1>. HIDE DEF iter
  <1>9. iter[{}] = 0
    BY <1>8
  <1>10. ASSUME NEW k \in 1 .. n
         PROVE  iter[1 .. k] = IF iter[1 .. k - 1] = 0 \/ iter[1 .. k - 1] < values[k]
                               THEN values[k] ELSE iter[1 .. k - 1]
    <2>1. /\ 1 .. k \in SUBSET (1 .. n) /\ 1 .. k # {}
          /\ Seqs!Max(1 .. k) = k
          /\ (1 .. k) \ {k} = 1 .. k - 1
      BY <1>6, FirstIndices
    <2>2. iter[1 .. k] = LET acc == iter[(1 .. k) \ {Seqs!Max(1 .. k)}]
                             v   == values[Seqs!Max(1 .. k)]
                         IN  IF acc = 0 \/ acc < v THEN v ELSE acc
      BY <1>8, <2>1
    <2>. QED BY <2>1, <2>2
  <1>11. FoldsPrefixes(iter, n, Int, 0, step)
    BY <1>4, <1>9, <1>10 DEF FoldsPrefixes
  <1>. DEFINE run == RunOfFolds(iter, n)
  <1>12. run[n] = iter[1 .. n]
    BY <1>6 DEF RunOfFolds
  <1>13. IsRun(run, n, Int, 0, step)
    BY <1>3, <1>6, <1>11, FoldRuns, ZenonT(20)
  <1>. HIDE DEF run
  <1>14. run \in [0 .. n -> Int] /\ run[0] = 0
    BY <1>13 DEF IsRun
  <1>15. ASSUME NEW k \in 1 .. n
         PROVE  run[k] = IF run[k - 1] = 0 \/ run[k - 1] < values[k]
                         THEN values[k] ELSE run[k - 1]
    <2>1. run[k - 1] \in Int /\ run[k] = step[<<k, run[k - 1]>>]
      BY <1>6, <1>13, <1>14 DEF IsRun
    <2>. QED BY <1>4, <2>1
  <1>16. run[n] = Greatest(w)
    BY <1>2, <1>12 DEF values
  <1>. QED BY <1>14, <1>15, <1>16 DEF n, values

(* In a window without a zero the loop finds the least value               *)
LEMMA LeastReference ==
  ASSUME NEW w, w.lstValues \in Seq(Int), w.lstValues # <<>>,
         \A k \in 1 .. Len(w.lstValues) : w.lstValues[k] # 0
  PROVE  /\ \E k \in 1 .. Len(w.lstValues) : Least(w) = w.lstValues[k]
         /\ \A k \in 1 .. Len(w.lstValues) : Least(w) <= w.lstValues[k]
  <1>. DEFINE values == w.lstValues
              n == Len(values)
              Found(m, x) == /\ \E k \in 1 .. m : x = values[k]
                             /\ \A k \in 1 .. m : x <= values[k]
  <1>1. n \in Nat \ {0} /\ \A k \in 1 .. n : values[k] \in Int /\ values[k] # 0
    BY ElementOfSeq
  <1>2. PICK run \in [0 .. n -> Int] :
          /\ run[0] = 0
          /\ \A k \in 1 .. n : run[k] = IF run[k - 1] = 0 \/ run[k - 1] > values[k]
                                         THEN values[k] ELSE run[k - 1]
          /\ run[n] = Least(w)
    BY LeastOfPrefixes
  <1>. DEFINE T == {m \in 0 .. n : m # 0 => Found(m, run[m])}
  <1>. HIDE DEF n, values
  <1>3. 0 \in T
    BY <1>1
  <1>4. ASSUME NEW m \in 1 .. n, m - 1 \in T
        PROVE  m \in T
    <2>1. m \in 0 .. n /\ m \in 1 .. m
      BY <1>1
    <2>2. CASE m = 1
      <3>1. run[m] = values[m]
        BY <1>2, <2>2
      <3>2. \A k \in 1 .. m : k = m
        BY <2>2
      <3>3. values[m] <= values[m]
        BY <1>1
      <3>4. Found(m, run[m])
        BY <2>1, <3>1, <3>2, <3>3
      <3>. HIDE DEF Found
      <3>. QED BY <2>1, <3>4
    <2>3. CASE m # 1
      <3>1. m - 1 \in 1 .. n /\ m - 1 \in 0 .. n
        BY <1>1, <2>3
      <3>2. Found(m - 1, run[m - 1])
        BY <1>4, <3>1
      <3>3. PICK j \in 1 .. m - 1 : run[m - 1] = values[j]
        BY <3>2
      <3>4. j \in 1 .. n /\ j \in 1 .. m
        BY <1>1
      <3>5. run[m - 1] # 0 /\ run[m - 1] \in Int
        BY <1>1, <3>3, <3>4
      <3>6. run[m] = values[m] \/ run[m] = values[j]
        BY <1>2, <3>3
      <3>7. run[m] <= values[m] /\ run[m] <= run[m - 1]
        <4>1. values[m] \in Int
          BY <1>1
        <4>2. run[m] = IF run[m - 1] > values[m] THEN values[m] ELSE run[m - 1]
          BY <1>2, <3>5
        <4>. QED BY <3>5, <4>1, <4>2
      <3>8. ASSUME NEW k \in 1 .. m
            PROVE  run[m] <= values[k]
        <4>1. CASE k = m
          BY <3>7, <4>1
        <4>2. CASE k # m
          <5>1. k \in 1 .. m - 1 /\ k \in 1 .. n
            BY <1>1, <4>2
          <5>2. run[m - 1] <= values[k]
            BY <3>2, <5>1
          <5>. QED BY <1>1, <1>2, <2>1, <3>5, <3>7, <5>1, <5>2
        <4>. QED BY <4>1, <4>2
      <3>9. Found(m, run[m])
        BY <2>1, <3>4, <3>6, <3>8
      <3>. HIDE DEF Found
      <3>. QED BY <2>1, <3>9
    <2>. QED BY <2>2, <2>3
  <1>5. n \in T
    <2>. HIDE DEF T
    <2>1. n \in Nat
      BY <1>1
    <2>2. 0 .. n \subseteq T
      BY <1>3, <1>4, <2>1, InductionUpTo
    <2>. QED BY <2>1, <2>2
  <1>6. Found(n, Least(w))
    BY <1>1, <1>2, <1>5
  <1>. QED BY <1>6 DEF n, values

(* and the greatest.                                                       *)
LEMMA GreatestReference ==
  ASSUME NEW w, w.lstValues \in Seq(Int), w.lstValues # <<>>,
         \A k \in 1 .. Len(w.lstValues) : w.lstValues[k] # 0
  PROVE  /\ \E k \in 1 .. Len(w.lstValues) : Greatest(w) = w.lstValues[k]
         /\ \A k \in 1 .. Len(w.lstValues) : w.lstValues[k] <= Greatest(w)
  <1>. DEFINE values == w.lstValues
              n == Len(values)
              Found(m, x) == /\ \E k \in 1 .. m : x = values[k]
                             /\ \A k \in 1 .. m : values[k] <= x
  <1>1. n \in Nat \ {0} /\ \A k \in 1 .. n : values[k] \in Int /\ values[k] # 0
    BY ElementOfSeq
  <1>2. PICK run \in [0 .. n -> Int] :
          /\ run[0] = 0
          /\ \A k \in 1 .. n : run[k] = IF run[k - 1] = 0 \/ run[k - 1] < values[k]
                                         THEN values[k] ELSE run[k - 1]
          /\ run[n] = Greatest(w)
    BY GreatestOfPrefixes
  <1>. DEFINE T == {m \in 0 .. n : m # 0 => Found(m, run[m])}
  <1>. HIDE DEF n, values
  <1>3. 0 \in T
    BY <1>1
  <1>4. ASSUME NEW m \in 1 .. n, m - 1 \in T
        PROVE  m \in T
    <2>1. m \in 0 .. n /\ m \in 1 .. m
      BY <1>1
    <2>2. CASE m = 1
      <3>1. run[m] = values[m]
        BY <1>2, <2>2
      <3>2. \A k \in 1 .. m : k = m
        BY <2>2
      <3>3. values[m] <= values[m]
        BY <1>1
      <3>4. Found(m, run[m])
        BY <2>1, <3>1, <3>2, <3>3
      <3>. HIDE DEF Found
      <3>. QED BY <2>1, <3>4
    <2>3. CASE m # 1
      <3>1. m - 1 \in 1 .. n /\ m - 1 \in 0 .. n
        BY <1>1, <2>3
      <3>2. Found(m - 1, run[m - 1])
        BY <1>4, <3>1
      <3>3. PICK j \in 1 .. m - 1 : run[m - 1] = values[j]
        BY <3>2
      <3>4. j \in 1 .. n /\ j \in 1 .. m
        BY <1>1
      <3>5. run[m - 1] # 0 /\ run[m - 1] \in Int
        BY <1>1, <3>3, <3>4
      <3>6. run[m] = values[m] \/ run[m] = values[j]
        BY <1>2, <3>3
      <3>7. values[m] <= run[m] /\ run[m - 1] <= run[m]
        <4>1. values[m] \in Int
          BY <1>1
        <4>2. run[m] = IF run[m - 1] < values[m] THEN values[m] ELSE run[m - 1]
          BY <1>2, <3>5
        <4>. QED BY <3>5, <4>1, <4>2
      <3>8. ASSUME NEW k \in 1 .. m
            PROVE  values[k] <= run[m]
        <4>1. CASE k = m
          BY <3>7, <4>1
        <4>2. CASE k # m
          <5>1. k \in 1 .. m - 1 /\ k \in 1 .. n
            BY <1>1, <4>2
          <5>2. values[k] <= run[m - 1]
            BY <3>2, <5>1
          <5>. QED BY <1>1, <1>2, <2>1, <3>5, <3>7, <5>1, <5>2
        <4>. QED BY <4>1, <4>2
      <3>9. Found(m, run[m])
        BY <2>1, <3>4, <3>6, <3>8
      <3>. HIDE DEF Found
      <3>. QED BY <2>1, <3>9
    <2>. QED BY <2>2, <2>3
  <1>5. n \in T
    <2>. HIDE DEF T
    <2>1. n \in Nat
      BY <1>1
    <2>2. 0 .. n \subseteq T
      BY <1>3, <1>4, <2>1, InductionUpTo
    <2>. QED BY <2>1, <2>2
  <1>6. Found(n, Greatest(w))
    BY <1>1, <1>2, <1>5
  <1>. QED BY <1>6 DEF n, values
(* The sum of squares under stat[SD] is a natural number.                  *)
LEMMA ScatterType ==
  ASSUME NEW w \in Windows
  PROVE  Scatter(w) \in Nat
  <1>. DEFINE values == w.lstValues
              n == Len(values)
              Square(v) == (n * v - w.dTotal) * (n * v - w.dTotal)
              step == [p \in (1 .. n) \X Nat |-> p[2] + Square(values[p[1]])]
              last == [s \in (SUBSET (1 .. n)) \ {{}} |-> Seqs!Max(s)]
              Folds(f) == f = [s \in SUBSET (1 .. n) |->
                                 IF s = {} THEN 0
                                 ELSE f[s \ {Seqs!Max(s)}] + Square(values[Seqs!Max(s)])]
              iter == CHOOSE f : Folds(f)
  <1>1. n \in Nat /\ DOMAIN values = 1 .. n /\ (\A i \in 1 .. n : values[i] \in Int)
        /\ w.dTotal \in Int
    BY ElementOfSeq DEF Windows
  <1>2. Scatter(w) = iter[1 .. n]
    <2>1. Scatter(w) = (CHOOSE f : f = [s \in SUBSET DOMAIN w.lstValues |->
                          IF s = {} THEN 0
                          ELSE f[s \ {Seqs!Max(s)}] + Square(w.lstValues[Seqs!Max(s)])])
                     [DOMAIN w.lstValues]
      BY Zenon DEF Scatter, Seqs!FoldLeft, Seqs!MapThenFoldSet
    <2>. QED BY <1>1, <2>1
  <1>3. \A i \in 1 .. n : Square(values[i]) \in Nat
    <2>1. \A x \in Int : x * x \in Nat
      OBVIOUS
    <2>2. \A i \in 1 .. n : n * values[i] - w.dTotal \in Int
      BY <1>1
    <2>. QED BY <2>1, <2>2
  <1>. HIDE DEF Square
  <1>4. step \in [(1 .. n) \X Nat -> Nat]
    BY <1>3
  <1>5. \A i \in 1 .. n, acc \in Nat : step[<<i, acc>>] = acc + Square(values[i])
    OBVIOUS
  <1>6. \A s \in SUBSET (1 .. n) : s # {} => last[s] = Seqs!Max(s)
    OBVIOUS
  <1>7. n \in Nat /\ 0 \in Nat
    BY <1>1
  <1>8. IsLast(last, n)
    <2>. HIDE DEF n
    <2>. QED BY <1>7, MaxIndex DEF IsLast
  <1>. HIDE DEF step, last
  <1>9. \E f : IsFold(f, n, Nat, 0, step, last)
    <2>. HIDE DEF n
    <2>. QED BY <1>4, <1>7, <1>8, FoldExists, ZenonT(20)
  <1>. HIDE DEF n, values
  <1>10. Folds(iter)
    <2>1. PICK f : IsFold(f, n, Nat, 0, step, last)
      BY <1>9
    <2>2. f \in [SUBSET (1 .. n) -> Nat] /\ f[{}] = 0
      BY <2>1 DEF IsFold
    <2>3. ASSUME NEW s \in SUBSET (1 .. n), s # {}
          PROVE  f[s] = f[s \ {Seqs!Max(s)}] + Square(values[Seqs!Max(s)])
      <3>1. Seqs!Max(s) \in 1 .. n /\ s \ {Seqs!Max(s)} \in SUBSET (1 .. n)
        BY <1>7, <2>3, MaxIndex
      <3>2. f[s] = step[<<Seqs!Max(s), f[s \ {Seqs!Max(s)}]>>]
        BY <1>6, <2>1, <2>3 DEF IsFold
      <3>. QED BY <1>5, <2>2, <3>1, <3>2
    <2>4. Folds(f)
      BY <2>2, <2>3
    <2>. HIDE DEF Folds
    <2>. QED BY <2>4
  <1>. HIDE DEF iter
  <1>11. iter[{}] = 0
    BY <1>10
  <1>12. ASSUME NEW k \in 1 .. n
         PROVE  iter[1 .. k] = iter[1 .. k - 1] + Square(values[k])
    <2>1. /\ 1 .. k \in SUBSET (1 .. n) /\ 1 .. k # {}
          /\ Seqs!Max(1 .. k) = k
          /\ (1 .. k) \ {k} = 1 .. k - 1
      BY <1>7, FirstIndices
    <2>2. iter[1 .. k] = iter[(1 .. k) \ {Seqs!Max(1 .. k)}] + Square(values[Seqs!Max(1 .. k)])
      BY <1>10, <2>1
    <2>. QED BY <2>1, <2>2
  <1>13. FoldsPrefixes(iter, n, Nat, 0, step)
    BY <1>5, <1>11, <1>12 DEF FoldsPrefixes
  <1>14. IsRun(RunOfFolds(iter, n), n, Nat, 0, step)
    BY <1>4, <1>7, <1>13, FoldRuns, ZenonT(20)
  <1>15. n \in 0 .. n
    BY <1>7
  <1>16. iter[1 .. n] \in Nat
    BY <1>14, <1>15 DEF IsRun, RunOfFolds
  <1>. QED BY <1>2, <1>16
-----------------------------------------------------------------------------
(* The empty window is a window. *)
LEMMA EmptyWindowType ==
  /\ EmptyWindow \in Windows /\ Len(EmptyWindow.lstValues) = 0 /\ EmptyWindow.bSet = FALSE
  /\ EmptyWindow.dTotal = Total(EmptyWindow)
  <1>1. EmptyWindow.lstValues = <<>> /\ EmptyWindow.dTotal = 0
    BY DEF EmptyWindow
  <1>2. Total(EmptyWindow) = 0
    BY <1>1, TotalEmpty
  <1>. QED BY <1>1, <1>2 DEF EmptyWindow, Windows

(* Fresh windows satisfy the invariant of the statistics. *)
LEMMA StatsInitInv == StatsInit => StatsInv
  BY EmptyWindowType, StatsAssumption
     DEF StatsInit, StatsInv, StatsTypeOK, WindowsInStep, SyncedNeedsSamples, IsSynced,
         RunningTotal

(* So do the windows after a sample, whatever offset and delay it has: the  *)
(* gate replaces an offset, it never leaves one out.                        *)
LEMMA AddSampleInv ==
  ASSUME NEW o \in Int, NEW d \in Int, StatsInv, AddSample(o, d)
  PROVE  StatsInv'
  <1>. DEFINE pushed == Gated(o, d, m_delay')
  <1>1. /\ m_offset \in Windows /\ Len(m_offset.lstValues) <= HistorySize
        /\ m_delay \in Windows /\ Len(m_delay.lstValues) <= HistorySize
        /\ Len(m_offset.lstValues) = Len(m_delay.lstValues)
        /\ m_offset.bSet = m_delay.bSet
        /\ m_offset.bSet => Len(m_delay.lstValues) >= SampleSize
        /\ m_offset.dTotal = Total(m_offset) /\ m_delay.dTotal = Total(m_delay)
    BY DEF StatsInv, StatsTypeOK, WindowsInStep, SyncedNeedsSamples, IsSynced, RunningTotal
  <1>2. pushed \in Int
    BY <1>1, MeanType DEF Gated
  <1>3. m_delay' = DoStats(m_delay, d) /\ m_offset' = DoStats(m_offset, pushed)
    BY DEF AddSample
  <1>. HIDE DEF pushed
  <1>4. /\ m_delay' \in Windows /\ Len(m_delay'.lstValues) <= HistorySize
        /\ Len(m_delay'.lstValues) = IF Len(m_delay.lstValues) = HistorySize
                                     THEN HistorySize ELSE Len(m_delay.lstValues) + 1
        /\ m_delay'.bSet = (m_delay.bSet \/ Len(m_delay'.lstValues) >= SampleSize)
    BY <1>1, <1>3, DoStatsWindow
  <1>5. /\ m_offset' \in Windows /\ Len(m_offset'.lstValues) <= HistorySize
        /\ Len(m_offset'.lstValues) = IF Len(m_offset.lstValues) = HistorySize
                                      THEN HistorySize ELSE Len(m_offset.lstValues) + 1
        /\ m_offset'.bSet = (m_offset.bSet \/ Len(m_offset'.lstValues) >= SampleSize)
    BY <1>1, <1>2, <1>3, DoStatsWindow
  <1>6. Len(m_offset'.lstValues) = Len(m_delay'.lstValues)
    BY <1>1, <1>4, <1>5
  <1>7. m_offset'.bSet = m_delay'.bSet
    BY <1>1, <1>4, <1>5, <1>6
  <1>8. m_offset'.bSet => Len(m_offset'.lstValues) >= SampleSize
    <2>1. Len(m_offset.lstValues) \in Nat /\ Len(m_delay.lstValues) \in Nat
      BY <1>1 DEF Windows
    <2>2. HistorySize \in Nat /\ SampleSize \in Nat
      BY StatsAssumption
    <2>3. CASE Len(m_offset'.lstValues) >= SampleSize
      BY <2>3
    <2>4. CASE m_offset.bSet
      BY <1>1, <1>5, <2>1, <2>2, <2>4
    <2>. QED BY <1>5, <2>3, <2>4
  <1>9. m_offset'.dTotal = Total(m_offset') /\ m_delay'.dTotal = Total(m_delay')
    BY <1>1, <1>2, <1>3, DoStatsTotal
  <1>. QED BY <1>4, <1>5, <1>6, <1>7, <1>8, <1>9
           DEF StatsInv, StatsTypeOK, WindowsInStep, SyncedNeedsSamples, IsSynced, RunningTotal

(* A resync drops both flags and keeps both windows. *)
LEMMA ResyncInv ==
  ASSUME StatsInv, ResyncToMaster
  PROVE  StatsInv'
  <1>1. m_offset \in Windows /\ m_delay \in Windows
    BY DEF StatsInv, StatsTypeOK
  <1>2. /\ m_offset' \in Windows /\ m_offset'.lstValues = m_offset.lstValues
        /\ m_offset'.bSet = FALSE
        /\ m_delay' \in Windows /\ m_delay'.lstValues = m_delay.lstValues
        /\ m_delay'.bSet = FALSE
        /\ m_offset'.dTotal = m_offset.dTotal /\ m_delay'.dTotal = m_delay.dTotal
    BY <1>1 DEF ResyncToMaster, Windows
  <1>3. m_offset.lstValues \in Seq(Int) /\ m_delay.lstValues \in Seq(Int)
    BY <1>1 DEF Windows
  <1>4. Total(m_offset') = Total(m_offset) /\ Total(m_delay') = Total(m_delay)
    BY <1>2, <1>3, SameTotal
  <1>. QED BY <1>2, <1>4
           DEF StatsInv, StatsTypeOK, WindowsInStep, SyncedNeedsSamples, IsSynced, RunningTotal

(* A window after a sample holds the measured offset or offsets between    *)
(* two that it held before: an old one, or the mean of those.              *)
LEMMA SampleBetween ==
  ASSUME NEW o \in Int, NEW d \in Int, StatsInv, AddSample(o, d),
         NEW k \in DOMAIN m_offset'.lstValues
  PROVE  \/ m_offset'.lstValues[k] = o
         \/ \E i, j \in DOMAIN m_offset.lstValues :
              /\ m_offset.lstValues[i] <= m_offset'.lstValues[k]
              /\ m_offset'.lstValues[k] <= m_offset.lstValues[j]
  <1>. DEFINE pushed == Gated(o, d, m_delay')
              old == m_offset.lstValues
              value == m_offset'.lstValues[k]
  <1>1. /\ m_offset \in Windows /\ Len(old) <= HistorySize
        /\ m_offset.dTotal = Total(m_offset)
    BY DEF StatsInv, StatsTypeOK, RunningTotal
  <1>2. old \in Seq(Int) /\ DOMAIN old = 1 .. Len(old)
    BY <1>1 DEF Windows
  <1>3. pushed \in Int
    BY <1>1, MeanType DEF Gated
  <1>4. m_offset' = DoStats(m_offset, pushed)
    BY DEF AddSample
  <1>5. \/ pushed = o
        \/ \E i, j \in DOMAIN old : old[i] <= pushed /\ pushed <= old[j]
    <2>1. CASE Len(old) < SampleSize \/ BelowMeanPlusSD(d, m_delay')
      BY <2>1 DEF Gated
    <2>2. CASE ~(Len(old) < SampleSize \/ BelowMeanPlusSD(d, m_delay'))
      <3>1. pushed = Mean(m_offset)
        BY <2>2 DEF Gated
      <3>2. old # <<>>
        BY <2>2, StatsAssumption
      <3>3. \E i, j \in DOMAIN old : old[i] <= Mean(m_offset) /\ Mean(m_offset) <= old[j]
        BY <1>1, <3>2, MeanBetween
      <3>. HIDE DEF pushed
      <3>. QED BY <3>1, <3>3
    <2>. QED BY <2>1, <2>2
  <1>. HIDE DEF pushed
  <1>6. value = pushed \/ \E i \in DOMAIN old : value = old[i]
    BY <1>1, <1>3, <1>4, DoStatsWindow
  <1>7. CASE value = pushed
    BY <1>5, <1>7
  <1>8. ASSUME NEW i \in DOMAIN old, value = old[i]
        PROVE  old[i] <= value /\ value <= old[i]
    <2>1. old[i] \in Int
      BY <1>2, ElementOfSeq
    <2>. QED BY <1>8, <2>1
  <1>. QED BY <1>6, <1>7, <1>8

(* A reset empties both windows and drops both flags. *)
LEMMA ClearStatsInv ==
  ASSUME ClearStats
  PROVE  StatsInv'
  BY EmptyWindowType, StatsAssumption
     DEF ClearStats, StatsInv, StatsTypeOK, WindowsInStep, SyncedNeedsSamples, IsSynced,
         RunningTotal
-----------------------------------------------------------------------------
(* The windows stay well formed and in step, and a clock is synced only    *)
(* with SampleSize values in both.                                         *)
THEOREM StatsInvariant == StatsSpec => []StatsInv
  <1>1. StatsInit => StatsInv
    BY StatsInitInv
  <1>2. StatsInv /\ [StatsNext]_statsVars => StatsInv'
    <2>. SUFFICES ASSUME StatsInv, [StatsNext]_statsVars
                  PROVE  StatsInv'
      OBVIOUS
    <2>1. ASSUME NEW o \in Offsets, NEW d \in Delays, AddSample(o, d)
          PROVE  StatsInv'
      BY <2>1, AddSampleInv, SamplesAssumption
    <2>2. CASE ResyncToMaster
      BY <2>2, ResyncInv
    <2>3. CASE ClearStats
      BY <2>3, ClearStatsInv
    <2>4. CASE UNCHANGED statsVars
      BY <2>4 DEF statsVars, StatsInv, StatsTypeOK, WindowsInStep, SyncedNeedsSamples, IsSynced,
                  RunningTotal
    <2>. QED BY <2>1, <2>2, <2>3, <2>4 DEF StatsNext
  <1>. QED BY <1>1, <1>2, PTL DEF StatsSpec

(* The offset and delay windows hold integers, within the history.         *)
THEOREM StatsTypeCorrect == StatsSpec => []StatsTypeOK
  BY StatsInvariant, PTL DEF StatsInv

(* The two windows are always equally long and equally flagged.            *)
THEOREM WindowsStayInStep == StatsSpec => []WindowsInStep
  BY StatsInvariant, PTL DEF StatsInv

(* The sum kept by the pushes is the sum of the window, after any sequence *)
(* of pushes, evictions and resets.                                        *)
THEOREM RunningTotalIsTheSum == StatsSpec => []RunningTotal
  BY StatsInvariant, PTL DEF StatsInv

(* MIN and MAX are the least and the greatest value, in every window that  *)
(* holds no zero.                                                          *)
THEOREM MinAndMaxAreThose == StatsSpec => []MinMaxReference
  <1>1. StatsInv => MinMaxReference
    <2>. SUFFICES ASSUME StatsInv, NEW w \in {m_offset, m_delay},
                         Len(w.lstValues) >= SampleSize,
                         0 \notin Seqs!ToSet(w.lstValues)
                  PROVE  LET values == Seqs!ToSet(w.lstValues)
                         IN  /\ Least(w) \in values /\ \A v \in values : Least(w) <= v
                             /\ Greatest(w) \in values /\ \A v \in values : v <= Greatest(w)
      BY DEF MinMaxReference
    <2>1. w.lstValues \in Seq(Int)
      BY DEF StatsInv, StatsTypeOK, Windows
    <2>2. w.lstValues # <<>>
      BY StatsAssumption
    <2>3. Seqs!ToSet(w.lstValues) = {w.lstValues[k] : k \in 1 .. Len(w.lstValues)}
      BY <2>1 DEF Seqs!ToSet
    <2>4. \A k \in 1 .. Len(w.lstValues) : w.lstValues[k] # 0
      BY <2>3
    <2>5. /\ \E k \in 1 .. Len(w.lstValues) : Least(w) = w.lstValues[k]
          /\ \A k \in 1 .. Len(w.lstValues) : Least(w) <= w.lstValues[k]
      BY <2>1, <2>2, <2>4, LeastReference
    <2>6. /\ \E k \in 1 .. Len(w.lstValues) : Greatest(w) = w.lstValues[k]
          /\ \A k \in 1 .. Len(w.lstValues) : w.lstValues[k] <= Greatest(w)
      BY <2>1, <2>2, <2>4, GreatestReference
    <2>. QED BY <2>3, <2>5, <2>6
  <1>. QED BY <1>1, StatsInvariant, PTL

(* However often the gate feeds the mean of the window back into it, every *)
(* offset in the window stays between two that were measured.              *)
THEOREM OffsetsStayWithin == StatsSpec => []OffsetsWithinMeasured
  <1>. DEFINE Within(v) == (\E o \in Offsets : o <= v) /\ (\E o \in Offsets : v <= o)
              AllWithin == \A k \in DOMAIN m_offset.lstValues : Within(m_offset.lstValues[k])
  <1>1. StatsInit => AllWithin
    BY DEF StatsInit, EmptyWindow
  <1>2. StatsInv /\ AllWithin /\ [StatsNext]_statsVars => AllWithin'
    <2>. SUFFICES ASSUME StatsInv, AllWithin, [StatsNext]_statsVars
                  PROVE  AllWithin'
      OBVIOUS
    <2>1. ASSUME NEW o \in Offsets, NEW d \in Delays, AddSample(o, d)
          PROVE  AllWithin'
      <3>. SUFFICES ASSUME NEW k \in DOMAIN m_offset'.lstValues
                    PROVE  Within(m_offset'.lstValues[k])
        OBVIOUS
      <3>1. o \in Int /\ d \in Int
        BY SamplesAssumption
      <3>2. m_offset.lstValues \in Seq(Int) /\ m_offset'.lstValues \in Seq(Int)
        BY <2>1, <3>1, AddSampleInv DEF StatsInv, StatsTypeOK, Windows
      <3>3. CASE m_offset'.lstValues[k] = o
        BY <3>1, <3>3
      <3>4. ASSUME NEW i \in DOMAIN m_offset.lstValues, NEW j \in DOMAIN m_offset.lstValues,
                   m_offset.lstValues[i] <= m_offset'.lstValues[k],
                   m_offset'.lstValues[k] <= m_offset.lstValues[j]
            PROVE  Within(m_offset'.lstValues[k])
        <4>1. /\ m_offset.lstValues[i] \in Int /\ m_offset.lstValues[j] \in Int
              /\ m_offset'.lstValues[k] \in Int
          BY <3>2, ElementOfSeq
        <4>2. PICK low \in Offsets : low <= m_offset.lstValues[i]
          OBVIOUS
        <4>3. PICK high \in Offsets : m_offset.lstValues[j] <= high
          OBVIOUS
        <4>4. low \in Int /\ high \in Int
          BY SamplesAssumption
        <4>5. low <= m_offset'.lstValues[k] /\ m_offset'.lstValues[k] <= high
          BY <3>4, <4>1, <4>2, <4>3, <4>4
        <4>. QED BY <4>5
      <3>5. \/ m_offset'.lstValues[k] = o
            \/ \E i, j \in DOMAIN m_offset.lstValues :
                 /\ m_offset.lstValues[i] <= m_offset'.lstValues[k]
                 /\ m_offset'.lstValues[k] <= m_offset.lstValues[j]
        BY <2>1, <3>1, SampleBetween
      <3>. HIDE DEF Within
      <3>. QED BY <3>3, <3>4, <3>5
    <2>2. CASE ResyncToMaster
      <3>1. m_offset'.lstValues = m_offset.lstValues
        BY <2>2 DEF ResyncToMaster, StatsInv, StatsTypeOK, Windows
      <3>. QED BY <3>1
    <2>3. CASE ClearStats
      BY <2>3 DEF ClearStats, EmptyWindow
    <2>4. CASE UNCHANGED statsVars
      BY <2>4 DEF statsVars
    <2>. QED BY <2>1, <2>2, <2>3, <2>4 DEF StatsNext
  <1>3. StatsInv /\ AllWithin => OffsetsWithinMeasured
    BY DEF OffsetsWithinMeasured, Seqs!ToSet
  <1>. HIDE DEF AllWithin
  <1>. QED BY <1>1, <1>2, <1>3, StatsInvariant, PTL DEF StatsSpec

(* No reset or resync lets a clock claim to be synced on too few samples.  *)
THEOREM SyncedHasSamples == StatsSpec => []SyncedNeedsSamples
  BY StatsInvariant, PTL DEF StatsInv
=============================================================================
