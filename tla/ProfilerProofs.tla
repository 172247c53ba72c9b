---------------------------- MODULE ProfilerProofs --------------------------
(***************************************************************************)
(* What CuptiProfiler makes of kernels that run one after the other, for   *)
(* any kernels, any number of readings and any way of spreading the        *)
(* records over them.                                                      *)
(*                                                                         *)
(* Serial and Counted, the conditions of these theorems, can become false  *)
(* and stay so, but never become true again: the invariant may take them   *)
(* as hypotheses, and with them process takes one way through its loops.   *)
(***************************************************************************)
EXTENDS Profiler, FiniteSetTheorems, SequenceTheorems, TLAPS

Measured == [x : Sizes, active : Int, idle : Int]

\* What holds of any records.
Recorded ==
    /\ keyraw \in Seq(Kernels)
    /\ tot \in Nat /\ curr \in Nat /\ tot <= Len(keyraw)
    /\ pc \in {"idle", "sort", "intervals", "search", "undefined"}

\* The first n records, as intervals, as kernels and as measurements.
RawUpTo(n) ==
    /\ raw \in Seq(Time) /\ Len(raw) = n
    /\ \A i \in 1 .. n : raw[i] = Interval(keyraw[i])
TupUpTo(n) ==
    /\ tup \in Seq(Time) /\ Len(tup) = n
    /\ \A i \in 1 .. n : tup[i] = Interval(keyraw[i])
KeyUpTo(n) ==
    /\ key \in Seq(Kernels) /\ Len(key) = n
    /\ \A i \in 1 .. n : key[i] = keyraw[i]
SentUpTo(n) ==
    /\ sent \in Seq(Measured) /\ Len(sent) = (IF n = 0 THEN 0 ELSE n - 1)
    /\ \A i \in 1 .. n - 1 : sent[i] = Measurement(keyraw[i], keyraw[i + 1])

\* Where each loop of process is with them: the offset into the raw vectors is
\* the number of intervals of earlier readings.
Whole == totdis = tot /\ TupUpTo(tot) /\ KeyUpTo(tot)
Fresh == curr <= tot /\ totdis = Offset
Sorting == Fresh /\ TupUpTo(Offset) /\ KeyUpTo(Offset)
Parting ==
    /\ Fresh /\ count \in Nat \ {0} /\ Offset + count <= tot
    /\ TupUpTo(Offset + count) /\ KeyUpTo(Offset)
Finding ==
    /\ Fresh /\ Offset < tot /\ count2 \in Nat /\ Offset + count2 <= tot
    /\ TupUpTo(tot) /\ KeyUpTo(Offset + count2)

InStep ==
    /\ RawUpTo(tot)
    /\ pc # "undefined" => SentUpTo(totdis)
    /\ pc = "idle" => Whole
    /\ pc = "sort" => Sorting
    /\ pc = "intervals" => Parting
    /\ pc = "search" => Finding
    /\ pc = "undefined" => curr = 0

IInv == Recorded /\ (Serial /\ Counted => InStep)

-----------------------------------------------------------------------------
(* Lemmas *)

LEMMA Typing ==
  ASSUME NEW k \in Kernels, NEW n \in Kernels
  PROVE  /\ Interval(k) \in Time
         /\ Measurement(k, n) \in Measured
         /\ k.start \in Nat /\ k.end \in Nat /\ k.start <= k.end
<1>1. k \in Kernel /\ n \in Kernel /\ k.start <= k.end
  BY KernelsAssumption
<1>2. Long \in Nat \ {0}
  BY WidthAssumption
<1>3. k.end - k.start \in Int /\ n.start - k.end \in Int
  BY <1>1 DEF Kernel
<1>4. (n.start - k.end) % Long \in Int
  BY <1>2, <1>3
<1>5. k.x \in Sizes
  BY DEF Sizes
<1>6. QED
  BY <1>1, <1>3, <1>4, <1>5 DEF Interval, Measurement, Measured, Time, Kernel

LEMMA Appended ==
  ASSUME NEW S, NEW s \in Seq(S), NEW e \in S
  PROVE  /\ Append(s, e) \in Seq(S)
         /\ Len(Append(s, e)) = Len(s) + 1
         /\ \A i \in 1 .. Len(s) : Append(s, e)[i] = s[i]
         /\ Append(s, e)[Len(s) + 1] = e
  OBVIOUS

\* Records that come in between two readings, or in one.
LEMMA Handed ==
  ASSUME Recorded, NEW n \in Nat, NEW s \in Records(n), Insert(s),
         NEW N, N = Len(keyraw)
  PROVE  /\ N \in Nat
         /\ keyraw' \in Seq(Kernels) /\ Len(keyraw') = N + n
         /\ \A i \in 1 .. N : keyraw'[i] = keyraw[i]
         /\ RawUpTo(N) => RawUpTo(N + n)'
<1>1. s \in [1 .. n -> Kernels]
  BY DEF Records
<1>2. s \in Seq(Kernels) /\ Len(s) = n
  BY <1>1
<1>3. /\ keyraw' \in Seq(Kernels) /\ Len(keyraw') = N + n
      /\ \A i \in 1 .. N + n : keyraw'[i] = IF i <= N THEN keyraw[i] ELSE s[i - N]
  BY <1>2, ConcatProperties DEF Recorded, Insert
<1>4. N \in Nat
  BY LenProperties DEF Recorded
<1>5. \A i \in 1 .. N : keyraw'[i] = keyraw[i]
  BY <1>3, <1>4
<1>6. ASSUME RawUpTo(N)
      PROVE  RawUpTo(N + n)'
  <2>1. \A i \in 1 .. n : s[i] \in Kernels /\ Interval(s[i]) \in Time
    BY <1>1, Typing
  <2>2. /\ Intervals(s) \in Seq(Time) /\ Len(Intervals(s)) = n
        /\ \A i \in 1 .. n : Intervals(s)[i] = Interval(s[i])
    BY <1>2, <2>1 DEF Intervals
  <2>3. raw \in Seq(Time) /\ Len(raw) = N
    BY <1>6 DEF RawUpTo
  <2>4. raw' = raw \o Intervals(s)
    BY DEF Insert
  <2>5. /\ raw' \in Seq(Time) /\ Len(raw') = N + n
        /\ \A i \in 1 .. N + n : raw'[i] = IF i <= N THEN raw[i] ELSE Intervals(s)[i - N]
    BY <2>2, <2>3, <2>4, ConcatProperties
  <2>6. ASSUME NEW i \in 1 .. N + n
        PROVE  raw'[i] = Interval(keyraw'[i])
    <3>1. CASE i <= N
      BY <1>3, <1>4, <1>6, <2>5, <3>1 DEF RawUpTo
    <3>2. CASE ~(i <= N)
      <4>1. i - N \in 1 .. n
        BY <1>4, <3>2
      <4>2. QED
        BY <1>3, <2>2, <2>5, <3>2, <4>1
    <3>3. QED
      BY <3>1, <3>2
  <2>7. QED
    BY <2>5, <2>6 DEF RawUpTo
<1>7. QED
  BY <1>3, <1>4, <1>5, <1>6

LEMMA RecordedStep == Recorded /\ [Next]_vars => Recorded'
<1> SUFFICES ASSUME Recorded, [Next]_vars
             PROVE  Recorded'
  OBVIOUS
<1>l. Len(keyraw) \in Nat
  BY LenProperties DEF Recorded
<1>1. CASE EarlyBuffer
  <2>1. PICK s \in Records(1) : Insert(s)
    BY <1>1 DEF EarlyBuffer
  <2>2. keyraw' \in Seq(Kernels) /\ Len(keyraw') = Len(keyraw) + 1
    BY <2>1, Handed
  <2>3. QED
    BY <1>1, <1>l, <2>2 DEF EarlyBuffer, Recorded
<1>2. CASE Read
  <2>1. PICK n \in 0 .. MaxBatch : \E s \in Records(n) :
           Insert(s) /\ curr' = n /\ tot' = tot + n
    BY <1>2 DEF Read
  <2>2. n \in Nat
    BY <2>1, BoundAssumption
  <2>3. keyraw' \in Seq(Kernels) /\ Len(keyraw') = Len(keyraw) + n
    BY <2>1, <2>2, Handed
  <2>4. QED
    BY <1>2, <1>l, <2>1, <2>2, <2>3 DEF Read, Goto, Recorded
<1>3. CASE Process
  BY <1>3 DEF Process, Sort, Separate, Merge, Separated, Skip, Match, Measure,
              Undefined, Goto, Searching, Recorded, recordVars
<1>4. CASE UNCHANGED vars
  BY <1>4 DEF vars, recordVars, Recorded
<1>5. QED
  BY <1>1, <1>2, <1>3, <1>4 DEF Next

\* The conditions held before, if they hold now.
LEMMA ConditionsKept ==
  ASSUME Recorded, [Next]_vars, Serial', Counted'
  PROVE  Serial /\ Counted /\ ~EarlyBuffer
<1>l. Len(keyraw) \in Nat
  BY LenProperties DEF Recorded
<1>1. ASSUME NEW n \in Nat, NEW s \in Records(n), Insert(s)
      PROVE  Serial /\ Len(keyraw') = Len(keyraw) + n
  <2>1. /\ Len(keyraw') = Len(keyraw) + n
        /\ \A i \in 1 .. Len(keyraw) : keyraw'[i] = keyraw[i]
    BY <1>1, Handed
  <2>2. \A i \in 1 .. Len(keyraw) : i \in 1 .. Len(keyraw')
    BY <1>1, <1>l, <2>1
  <2>3. QED
    BY <2>1, <2>2 DEF Serial
<1>2. ~EarlyBuffer
  <2> SUFFICES ASSUME EarlyBuffer PROVE FALSE
    OBVIOUS
  <2>1. PICK s \in Records(1) : Insert(s) /\ tot' = tot
    BY DEF EarlyBuffer
  <2>2. tot' = Len(keyraw) + 1
    BY <1>1, <2>1 DEF Counted
  <2>3. QED
    BY <1>l, <2>1, <2>2 DEF Recorded
<1>3. CASE Read
  <2>1. PICK n \in 0 .. MaxBatch : \E s \in Records(n) : Insert(s) /\ tot' = tot + n
    BY <1>3 DEF Read
  <2>2. n \in Nat
    BY <2>1, BoundAssumption
  <2>3. Serial /\ tot' = Len(keyraw) + n
    BY <1>1, <2>1, <2>2 DEF Counted
  <2>4. tot = Len(keyraw)
    BY <1>l, <2>1, <2>2, <2>3 DEF Recorded
  <2>5. QED
    BY <1>2, <2>3, <2>4 DEF Counted
<1>4. CASE Process \/ UNCHANGED vars
  <2>1. UNCHANGED <<keyraw, tot>>
    BY <1>4 DEF Process, Sort, Separate, Merge, Separated, Skip, Match, Measure,
                Undefined, Goto, Searching, recordVars, vars
  <2>2. QED
    BY <1>2, <2>1 DEF Serial, Counted
<1>5. QED
  BY <1>2, <1>3, <1>4 DEF Next

Ordered(s) == \A i, j \in 1 .. Len(s) : i < j => Before(s[i], s[j])

\* sort moves nothing that is sorted already.
LEMMA SortKeeps ==
  ASSUME NEW s \in Seq(Time), NEW n \in 0 .. Len(s), Ordered(s)
  PROVE  SortedFrom(s, n) = s
<1>1. PICK L : L = Len(s)
  OBVIOUS
<1>2. L \in Nat /\ n \in 0 .. L /\ s = [p \in 1 .. L |-> s[p]] /\ \A i \in 1 .. L : s[i] \in Time
  BY <1>1, LenProperties, ElementOfSeq
<1>3. ASSUME NEW i \in n + 1 .. L
      PROVE  Position(s, n, i) = i
  <2>1. {j \in n + 1 .. L : Before(s[j], s[i]) \/ (s[j] = s[i] /\ j <= i)} = n + 1 .. i
    <3>1. ASSUME NEW j \in n + 1 .. L
          PROVE  Before(s[j], s[i]) \/ (s[j] = s[i] /\ j <= i) <=> j <= i
      <4>1. i \in 1 .. L /\ j \in 1 .. L
        BY <1>2
      <4>2. s[i] \in Time /\ s[j] \in Time
        BY <1>2, <4>1
      <4>3. j < i => Before(s[j], s[i])
        BY <1>1, <4>1 DEF Ordered
      <4>4. i < j => Before(s[i], s[j])
        BY <1>1, <4>1 DEF Ordered
      <4>5. CASE i = j
        BY <1>2, <4>5
      <4>6. CASE j < i
        BY <1>2, <4>3, <4>6
      <4>7. CASE i < j
        <5>1. ~Before(s[j], s[i]) /\ ~(j <= i)
          BY <1>2, <4>2, <4>4, <4>7 DEF Before, Time
        <5>2. QED
          BY <5>1
      <4>8. QED
        BY <1>2, <4>5, <4>6, <4>7
    <3>2. \A j : j \in n + 1 .. i <=> j \in n + 1 .. L /\ j <= i
      BY <1>2
    <3>3. QED
      BY <3>1, <3>2
  <2>2. Cardinality(n + 1 .. i) = i - n
    <3>1. n + 1 \in Int /\ i \in Int /\ n + 1 <= i
      BY <1>2
    <3>2. PICK a, b : a = n + 1 /\ b = i
      OBVIOUS
    <3>3. Cardinality(a .. b) = IF a > b THEN 0 ELSE b - a + 1
      BY <3>1, <3>2, FS_Interval
    <3>4. QED
      BY <1>2, <3>1, <3>2, <3>3
  <2>3. Position(s, n, i) = n + Cardinality(n + 1 .. i)
    BY <1>1, <2>1 DEF Position
  <2>4. QED
    BY <1>2, <2>2, <2>3
<1>4. ASSUME NEW p \in n + 1 .. L
      PROVE  (CHOOSE i \in n + 1 .. L : Position(s, n, i) = p) = p
  BY <1>3
<1>5. SortedFrom(s, n) =
         [p \in 1 .. L |->
             IF p <= n THEN s[p]
             ELSE s[CHOOSE i \in n + 1 .. L : Position(s, n, i) = p]]
  BY <1>1 DEF SortedFrom
<1>6. ASSUME NEW p \in 1 .. L, ~(p <= n)
      PROVE  p \in n + 1 .. L
  BY <1>2, <1>6
<1>7. QED
  BY <1>2, <1>4, <1>5, <1>6

\* Of serial kernels no interval overlaps the one before, and sort moves nothing.
LEMMA SerialApart ==
  ASSUME Recorded, Serial, Counted, RawUpTo(tot)
  PROVE  /\ Ordered(raw)
         /\ \A i \in 1 .. tot - 1 : keyraw[i].end < keyraw[i + 1].start
<1>1. \A i \in 1 .. tot : keyraw[i] \in Kernels
  BY ElementOfSeq DEF Recorded, Counted
<1>2. \A i, j \in 1 .. tot : i < j => keyraw[i].end < keyraw[j].start
  BY DEF Serial, Counted
<1>3. ASSUME NEW i \in 1 .. tot, NEW j \in 1 .. tot, i < j
      PROVE  Before(raw[i], raw[j])
  <2>1. /\ keyraw[i].start \in Nat /\ keyraw[i].end \in Nat /\ keyraw[j].start \in Nat
        /\ keyraw[i].start <= keyraw[i].end /\ keyraw[i].end < keyraw[j].start
    BY <1>1, <1>2, <1>3, Typing
  <2>2. raw[i].start = keyraw[i].start /\ raw[j].start = keyraw[j].start
    BY <1>3 DEF RawUpTo, Interval
  <2>3. QED
    BY <2>1, <2>2 DEF Before
<1>4. \A i \in 1 .. tot - 1 : i \in 1 .. tot /\ i + 1 \in 1 .. tot /\ i < i + 1
  BY DEF Recorded
<1>5. QED
  BY <1>2, <1>3, <1>4 DEF Ordered, RawUpTo

-----------------------------------------------------------------------------
(* The reading *)

\* The predicates speak of nothing but the records, one vector and a length.
LEMMA Unchanged ==
  ASSUME UNCHANGED keyraw, NEW n
  PROVE  /\ UNCHANGED raw => (RawUpTo(n) => RawUpTo(n)')
         /\ UNCHANGED tup => (TupUpTo(n) => TupUpTo(n)')
         /\ UNCHANGED key => (KeyUpTo(n) => KeyUpTo(n)')
         /\ UNCHANGED sent => (SentUpTo(n) => SentUpTo(n)')
  BY DEF RawUpTo, TupUpTo, KeyUpTo, SentUpTo

\* A step of process that appends to tup the interval of the next record.
LEMMA TupGrows ==
  ASSUME Recorded, Counted, UNCHANGED keyraw, NEW n \in Nat, n < tot, TupUpTo(n),
         RawUpTo(tot), tup' = Append(tup, raw[n + 1])
  PROVE  TupUpTo(n + 1)'
<1>1. n + 1 \in 1 .. tot
  BY DEF Recorded
<1>2. raw[n + 1] \in Time /\ raw[n + 1] = Interval(keyraw[n + 1])
  BY <1>1 DEF RawUpTo
<1>3. /\ tup' \in Seq(Time) /\ Len(tup') = n + 1
      /\ \A i \in 1 .. n : tup'[i] = tup[i]
      /\ tup'[n + 1] = raw[n + 1]
  BY <1>2, Appended DEF TupUpTo
<1>4. \A i \in 1 .. n + 1 : tup'[i] = Interval(keyraw[i])
  BY <1>2, <1>3 DEF TupUpTo
<1>5. QED
  BY <1>3, <1>4 DEF TupUpTo

\* read: what has come is whole, and the offset is where it ended.
LEMMA ReadInStep ==
  ASSUME Recorded, Counted, InStep, Read
  PROVE  InStep'
<1>1. PICK n \in 0 .. MaxBatch : \E s \in Records(n) :
         Insert(s) /\ curr' = n /\ tot' = tot + n
  BY DEF Read
<1>2. PICK N : N = tot
  OBVIOUS
<1>3. n \in Nat /\ N \in Nat
  BY <1>1, <1>2, BoundAssumption DEF Recorded
<1>4. PICK s \in Records(n) : Insert(s)
  BY <1>1
<1>5. /\ \A i \in 1 .. N : keyraw'[i] = keyraw[i]
      /\ RawUpTo(N) => RawUpTo(N + n)'
  BY <1>2, <1>3, <1>4, Handed DEF Counted
<1>6. totdis = N /\ TupUpTo(N) /\ KeyUpTo(N) /\ SentUpTo(N) /\ RawUpTo(N)
  BY <1>2 DEF Read, Goto, InStep, Whole
<1>7. tot' = N + n /\ curr' = n /\ totdis' = N /\ Offset' = N /\ curr' <= tot'
  BY <1>1, <1>2, <1>3, <1>6 DEF Offset, Read, resultVars
<1>8. TupUpTo(N)' /\ KeyUpTo(N)' /\ SentUpTo(N)'
  <2>1. tup' = tup /\ key' = key /\ sent' = sent
    BY DEF Read, resultVars
  <2>2. TupUpTo(N)'
    BY <1>5, <1>6, <2>1 DEF TupUpTo
  <2>3. KeyUpTo(N)'
    BY <1>5, <1>6, <2>1 DEF KeyUpTo
  <2>4. SentUpTo(N)'
    <3>1. \A i \in 1 .. N - 1 : i \in 1 .. N /\ i + 1 \in 1 .. N
      BY <1>3
    <3>2. \A i \in 1 .. N - 1 : sent'[i] = Measurement(keyraw'[i], keyraw'[i + 1])
      BY <1>5, <1>6, <2>1, <3>1 DEF SentUpTo
    <3>3. QED
      BY <1>6, <2>1, <3>2 DEF SentUpTo
  <2>5. QED
    BY <2>2, <2>3, <2>4
<1>9. pc' = "sort"
  BY DEF Read, Goto
<1>10. QED
  BY <1>5, <1>6, <1>7, <1>8, <1>9 DEF InStep, Sorting, Fresh

\* process: what each iteration finds, and leaves behind.
LEMMA ProcessInStep ==
  ASSUME Recorded, Serial, Counted, InStep, Process
  PROVE  InStep'
<1>1. PICK N, n : N = tot /\ n = Offset
  OBVIOUS
<1>2. UNCHANGED <<keyraw, tot, curr>>
  BY DEF Process, Sort, Separate, Merge, Separated, Skip, Match, Measure,
         Undefined, Goto, Searching, recordVars
<1>3. N \in Nat /\ n \in Int /\ RawUpTo(N) /\ Len(raw) = N /\ Len(keyraw) = N
  BY <1>1 DEF Recorded, InStep, RawUpTo, Offset, Counted
<1>4. tot' = N /\ Offset' = n /\ Offset = n
  BY <1>1, <1>2 DEF Offset
<1>5. \A i \in 1 .. N - 1 : keyraw[i].end < keyraw[i + 1].start
  BY <1>1, <1>3, SerialApart
<1>6. CASE pc = "sort"
  <2>1. Fresh /\ TupUpTo(n) /\ KeyUpTo(n) /\ SentUpTo(n)
    BY <1>1, <1>6 DEF InStep, Sorting, Fresh
  <2>2. n \in Nat /\ n <= N /\ totdis = n /\ curr = N - n
    BY <1>1, <1>3, <2>1 DEF Fresh, Offset, Recorded
  <2>3. CASE Sort
    <3>1. raw' = raw /\ n < N /\ tup' = Append(tup, raw[n + 1]) /\ count' = 1
      BY <1>1, <1>3, <1>4, <2>2, <2>3, SerialApart, SortKeeps DEF Sort, at, RawUpTo
    <3>2. TupUpTo(n + 1)'
      BY <1>1, <1>2, <1>3, <2>1, <2>2, <3>1, TupGrows
    <3>3. UNCHANGED <<key, sent, totdis>> /\ pc' = "intervals"
      BY <2>3 DEF Sort, Goto
    <3>4. RawUpTo(N)' /\ KeyUpTo(n)' /\ SentUpTo(n)'
      BY <1>2, <1>3, <2>1, <3>1, <3>3, Unchanged
    <3>5. (Offset + count)' = n + 1 /\ n + 1 <= N /\ count' \in Nat \ {0}
      BY <1>3, <1>4, <2>2, <3>1
    <3>6. Fresh'
      BY <1>2, <1>4, <2>1, <2>2, <1>1, <3>3 DEF Fresh
    <3>7. Parting'
      BY <1>4, <3>2, <3>4, <3>5, <3>6 DEF Parting
    <3>8. QED
      BY <1>4, <2>2, <3>3, <3>4, <3>7 DEF InStep
  <2>4. CASE Undefined
    <3>1. n >= N /\ pc' = "undefined"
      BY <1>3, <1>4, <1>6, <2>4 DEF Undefined, BehindTheEnd, Searching
    <3>2. curr' = 0 /\ RawUpTo(N)'
      BY <1>2, <1>3, <2>2, <2>4, <3>1, Unchanged DEF Undefined, recordVars
    <3>3. QED
      BY <1>4, <3>1, <3>2 DEF InStep
  <2>5. QED
    BY <1>6, <2>3, <2>4 DEF Process, Separate, Merge, Separated, Skip, Match,
                            Measure, Goto, Searching
<1>7. CASE pc = "intervals"
  <2>1. PICK c : c = count
    OBVIOUS
  <2>2. Fresh /\ TupUpTo(n + c) /\ KeyUpTo(n) /\ SentUpTo(n)
    BY <1>1, <1>7, <2>1 DEF InStep, Parting, Fresh
  <2>3. n \in Nat /\ c \in Nat \ {0} /\ n + c <= N /\ totdis = n
    BY <1>1, <1>3, <1>7, <2>1, <2>2 DEF InStep, Parting, Fresh, Offset, Recorded
  <2>4. ~(More /\ Overlapping)
    <3> SUFFICES ASSUME More PROVE ~Overlapping
      OBVIOUS
    <3>1. n + c \in 1 .. N - 1
      BY <1>3, <1>4, <2>1, <2>3 DEF More
    <3>2. /\ Last = Interval(keyraw[n + c])
          /\ Current = Interval(keyraw[n + c + 1])
      BY <1>3, <1>4, <2>1, <2>2, <2>3, <3>1 DEF Last, Current, at, TupUpTo, RawUpTo
    <3>3. /\ keyraw[n + c] \in Kernels /\ keyraw[n + c + 1] \in Kernels
          /\ keyraw[n + c].end < keyraw[n + c + 1].start
      BY <1>3, <1>5, <3>1, ElementOfSeq DEF Recorded
    <3>4. QED
      BY <3>2, <3>3, Typing DEF Overlapping, Interval
  <2>5. CASE Separate
    <3>1. n + c < N /\ tup' = Append(tup, raw[n + c + 1]) /\ count' = c + 1
      BY <1>3, <1>4, <2>1, <2>3, <2>5 DEF Separate, at
    <3>2. TupUpTo(n + c + 1)'
      BY <1>1, <1>2, <1>3, <2>2, <2>3, <3>1, TupGrows
    <3>3. UNCHANGED <<raw, key, sent, totdis>> /\ pc' = "intervals"
      BY <2>5 DEF Separate, Goto, recordVars
    <3>4. RawUpTo(N)' /\ KeyUpTo(n)' /\ SentUpTo(n)'
      BY <1>2, <1>3, <2>2, <3>3, Unchanged
    <3>5. (Offset + count)' = n + c + 1 /\ n + c + 1 <= N /\ count' \in Nat \ {0}
      BY <1>3, <1>4, <2>3, <3>1
    <3>6. Fresh'
      BY <1>1, <1>2, <1>4, <2>2, <2>3, <3>3 DEF Fresh
    <3>7. Parting'
      BY <1>4, <3>2, <3>4, <3>5, <3>6 DEF Parting
    <3>8. QED
      BY <1>4, <2>3, <3>3, <3>4, <3>7 DEF InStep
  <2>6. CASE Separated
    <3>1. ~More
      BY <2>4, <2>6 DEF Separated
    <3>2. n + c = N
      BY <1>3, <1>4, <2>1, <2>3, <3>1 DEF More
    <3>3. /\ UNCHANGED <<raw, tup, key, sent, totdis>>
          /\ pc' = "search" /\ count2' = 0
      BY <2>6 DEF Separated, Goto, recordVars, resultVars
    <3>4. RawUpTo(N)' /\ TupUpTo(N)' /\ KeyUpTo(n)' /\ SentUpTo(n)'
      BY <1>2, <1>3, <2>2, <3>2, <3>3, Unchanged
    <3>5. (Offset + count2)' = n /\ n < N /\ n <= N /\ count2' \in Nat
      BY <1>3, <1>4, <2>3, <3>2, <3>3
    <3>6. Fresh'
      BY <1>1, <1>2, <1>4, <2>2, <2>3, <3>3 DEF Fresh
    <3>7. Finding'
      BY <1>3, <1>4, <2>3, <3>4, <3>5, <3>6 DEF Finding
    <3>8. QED
      BY <1>4, <2>3, <3>3, <3>4, <3>7 DEF InStep
  <2>7. ~Undefined
    BY <1>3, <1>4, <1>7, <2>1, <2>3, <2>4 DEF Undefined, BehindTheEnd, Searching, More
  <2>8. QED
    BY <1>7, <2>4, <2>5, <2>6, <2>7 DEF Process, Sort, Merge, Skip, Match, Measure,
                            Goto, Searching
<1>8. CASE pc = "search"
  <2>1. PICK c : c = count2
    OBVIOUS
  <2>2. Fresh /\ TupUpTo(N) /\ KeyUpTo(n + c) /\ SentUpTo(n)
    BY <1>1, <1>8, <2>1 DEF InStep, Finding, Fresh
  <2>3. n \in Nat /\ n < N /\ c \in Nat /\ n + c <= N /\ totdis = n
    BY <1>1, <1>3, <1>8, <2>1, <2>2 DEF InStep, Finding, Fresh, Offset, Recorded
  <2>4. Len(tup) = N /\ Len(key) = n + c /\ Count1 = c /\ Disjoint = N - n
    BY <1>3, <2>2, <2>3 DEF TupUpTo, KeyUpTo, Count1, Disjoint
  <2>5. ASSUME n + c < N
        PROVE  Matches /\ Candidate = keyraw[n + c + 1]
    <3>1. n + c + 1 \in 1 .. N
      BY <1>3, <2>3, <2>5
    <3>2. tup[n + c + 1] = Interval(keyraw[n + c + 1])
      BY <2>2, <3>1 DEF TupUpTo
    <3>3. QED
      BY <2>1, <2>3, <2>4, <3>2 DEF Matches, Candidate, at, Interval
  <2>6. Searching => n + c < N
    BY <1>3, <2>3, <2>4 DEF Searching
  <2>7. CASE Match
    <3>1. n + c < N /\ key' = Append(key, keyraw[n + c + 1]) /\ count2' = c + 1
      BY <2>1, <2>5, <2>6, <2>7 DEF Match
    <3>2. KeyUpTo(n + c + 1)'
      <4>1. n + c + 1 \in 1 .. N /\ keyraw[n + c + 1] \in Kernels
        BY <1>3, <2>3, <3>1, ElementOfSeq DEF Recorded
      <4>2. /\ key' \in Seq(Kernels) /\ Len(key') = n + c + 1
            /\ \A i \in 1 .. n + c : key'[i] = key[i]
            /\ key'[n + c + 1] = keyraw[n + c + 1]
        BY <2>2, <3>1, <4>1, Appended DEF KeyUpTo
      <4>3. \A i \in 1 .. n + c + 1 : key'[i] = keyraw'[i]
        BY <1>2, <2>2, <2>3, <4>2 DEF KeyUpTo
      <4>4. QED
        BY <4>2, <4>3 DEF KeyUpTo
    <3>3. UNCHANGED <<raw, tup, sent, totdis, pc>>
      BY <2>7 DEF Match, recordVars
    <3>4. RawUpTo(N)' /\ TupUpTo(N)' /\ SentUpTo(n)'
      BY <1>2, <1>3, <2>2, <3>3, Unchanged
    <3>5. (Offset + count2)' = n + c + 1 /\ n + c + 1 <= N /\ count2' \in Nat
      BY <1>3, <1>4, <2>3, <3>1
    <3>6. Fresh'
      BY <1>1, <1>2, <1>4, <2>2, <2>3, <3>3 DEF Fresh
    <3>7. Finding'
      BY <1>4, <2>3, <3>2, <3>4, <3>5, <3>6 DEF Finding
    <3>8. QED
      BY <1>4, <1>8, <2>3, <3>3, <3>4, <3>7 DEF InStep
  <2>8. CASE Measure
    <3>1. n + c = N /\ totdis' = N /\ Len(key) = N /\ N >= 1
      BY <1>3, <2>3, <2>4, <2>8 DEF Measure
    <3>2. UNCHANGED <<raw, tup, key>> /\ sent' = sent \o Batch /\ pc' = "idle"
      BY <2>8 DEF Measure, Goto, recordVars
    <3>3. RawUpTo(N)' /\ TupUpTo(N)' /\ KeyUpTo(N)'
      BY <1>2, <1>3, <2>2, <3>1, <3>2, Unchanged
    <3>4. \A i \in 1 .. N - 1 :
             /\ key[i] = keyraw[i] /\ key[i + 1] = keyraw[i + 1]
             /\ Measurement(keyraw[i], keyraw[i + 1]) \in Measured
      <4>1. \A i \in 1 .. N - 1 : i \in 1 .. N /\ i + 1 \in 1 .. N
        BY <1>3
      <4>2. \A i \in 1 .. N : keyraw[i] \in Kernels /\ key[i] = keyraw[i]
        BY <1>3, <2>2, <3>1, ElementOfSeq DEF Recorded, KeyUpTo
      <4>3. QED
        BY <4>1, <4>2, Typing
    <3>5. PICK f : f = From /\ f \in 1 .. N /\ Len(sent) = f - 1
      BY <1>3, <2>2, <2>3, <3>1 DEF From, SentUpTo
    <3>6. /\ Batch \in Seq(Measured) /\ Len(Batch) = N - f
          /\ \A i \in 1 .. N - f :
                Batch[i] = Measurement(keyraw[f + i - 1], keyraw[f + i])
      <4>1. Batch = [i \in 1 .. N - f |-> Measurement(key[f + i - 1], key[f + i])]
        BY <3>1, <3>5 DEF Batch
      <4>2. ASSUME NEW i \in 1 .. N - f
            PROVE  /\ Measurement(key[f + i - 1], key[f + i])
                        = Measurement(keyraw[f + i - 1], keyraw[f + i])
                   /\ Measurement(keyraw[f + i - 1], keyraw[f + i]) \in Measured
        <5>1. f + i - 1 \in 1 .. N - 1 /\ f + i - 1 + 1 = f + i
          BY <1>3, <3>5
        <5>2. QED
          BY <3>4, <5>1
      <4>3. N - f \in Nat
        BY <1>3, <3>5
      <4>4. QED
        BY <4>1, <4>2, <4>3
    <3>7. /\ sent' \in Seq(Measured) /\ Len(sent') = f - 1 + (N - f)
          /\ \A i \in 1 .. f - 1 + (N - f) :
                sent'[i] = IF i <= f - 1 THEN sent[i] ELSE Batch[i - (f - 1)]
      <4>1. sent \in Seq(Measured)
        BY <2>2 DEF SentUpTo
      <4>2. /\ sent' \in Seq(Measured) /\ Len(sent') = Len(sent) + Len(Batch)
            /\ \A i \in 1 .. Len(sent) + Len(Batch) :
                  sent'[i] = IF i <= Len(sent) THEN sent[i] ELSE Batch[i - Len(sent)]
        BY <3>2, <3>6, <4>1, ConcatProperties
      <4>3. QED
        BY <3>5, <3>6, <4>2
    <3>8. ASSUME NEW i \in 1 .. N - 1
          PROVE  sent'[i] = Measurement(keyraw[i], keyraw[i + 1])
      <4>1. i \in 1 .. f - 1 + (N - f)
        BY <1>3, <3>5
      <4>2. CASE i <= f - 1
        <5>1. i \in 1 .. n - 1
          BY <2>2, <2>3, <3>5, <4>2 DEF SentUpTo
        <5>2. QED
          BY <2>2, <3>7, <4>1, <4>2, <5>1 DEF SentUpTo
      <4>3. CASE ~(i <= f - 1)
        <5>1. /\ i - (f - 1) \in 1 .. N - f
              /\ f + (i - (f - 1)) - 1 = i /\ f + (i - (f - 1)) = i + 1
          BY <1>3, <3>5, <4>3
        <5>2. QED
          BY <3>6, <3>7, <4>1, <4>3, <5>1
      <4>4. QED
        BY <4>2, <4>3
    <3>9. SentUpTo(N)'
      <4>1. Len(sent') = N - 1 /\ N # 0
        BY <1>3, <3>1, <3>5, <3>7
      <4>2. QED
        BY <1>2, <3>7, <3>8, <4>1 DEF SentUpTo
    <3>10. QED
      BY <1>4, <3>1, <3>2, <3>3, <3>9 DEF InStep, Whole
  <2>9. ~Skip /\ ~Undefined
    BY <1>3, <1>8, <2>1, <2>3, <2>5, <2>6 DEF Skip, Undefined, BehindTheEnd
  <2>10. QED
    BY <1>8, <2>7, <2>8, <2>9 DEF Process, Sort, Separate, Merge, Separated, Goto
<1>9. QED
  BY <1>6, <1>7, <1>8 DEF Process, Sort, Separate, Merge, Separated, Skip, Match,
                          Measure, Undefined, BehindTheEnd, Goto, Searching

LEMMA IInvStep == IInv /\ [Next]_vars => IInv'
<1> SUFFICES ASSUME IInv, [Next]_vars
             PROVE  IInv'
  OBVIOUS
<1>1. Recorded'
  BY RecordedStep DEF IInv
<1>2. ASSUME Serial', Counted'
      PROVE  InStep'
  <2>1. Serial /\ Counted /\ InStep /\ Recorded /\ ~EarlyBuffer
    BY <1>2, ConditionsKept DEF IInv
  <2>2. CASE UNCHANGED vars
    BY <2>1, <2>2
       DEF vars, recordVars, resultVars, InStep, Whole, Fresh, Sorting, Parting,
           Finding, RawUpTo, TupUpTo, KeyUpTo, SentUpTo, Offset
  <2>3. QED
    BY <2>1, <2>2, ReadInStep, ProcessInStep DEF Next
<1>3. QED
  BY <1>1, <1>2 DEF IInv

LEMMA InvariantHolds == Spec => []IInv
<1>1. Init => IInv
  <2> SUFFICES ASSUME Init PROVE IInv
    OBVIOUS
  <2>1. /\ <<>> \in Seq(Time) /\ <<>> \in Seq(Kernels) /\ <<>> \in Seq(Measured)
        /\ Len(<<>>) = 0
    BY EmptySeq
  <2>2. Recorded
    BY <2>1 DEF Init, Recorded
  <2>3. RawUpTo(0) /\ TupUpTo(0) /\ KeyUpTo(0) /\ SentUpTo(0)
    BY <2>1 DEF Init, RawUpTo, TupUpTo, KeyUpTo, SentUpTo
  <2>4. QED
    BY <2>2, <2>3 DEF Init, IInv, InStep, Whole
<1>2. QED
  BY <1>1, IInvStep, PTL DEF Spec

-----------------------------------------------------------------------------
(* The properties *)

\* Of kernels that run one after the other, whose records all come during a
\* flush, none is lost or measured twice, and the batches handed to produce are,
\* put together, every kernel but the last with the gap behind it
\* (CuptiProfiler.cpp:146-262).
THEOREM SerialExactCorrect == Spec => []SerialExact
<1>1. IInv => SerialExact
  <2> SUFFICES ASSUME IInv, pc = "idle", Serial, Counted
               PROVE  /\ key = keyraw
                      /\ sent = [i \in 1 .. Len(key) - 1 |-> Measurement(key[i], key[i + 1])]
    BY DEF SerialExact
  <2>1. PICK N : N = tot
    OBVIOUS
  <2>2. /\ N \in Nat /\ Len(keyraw) = N /\ keyraw \in Seq(Kernels)
        /\ KeyUpTo(N) /\ SentUpTo(N)
    BY <2>1 DEF IInv, InStep, Whole, Recorded, Counted
  <2>3. key = keyraw
    BY <2>2, SeqEqual DEF KeyUpTo
  <2>4. sent \in [1 .. N - 1 -> Measured]
    BY <2>2, LenProperties DEF SentUpTo
  <2>5. QED
    BY <2>2, <2>3, <2>4 DEF SentUpTo
<1>2. QED
  BY <1>1, InvariantHolds, PTL

\* Nor does process then read a vector behind its end, but for a reading
\* without a record (CuptiProfiler.cpp:149).
THEOREM SerialDefinedCorrect == Spec => []SerialDefined
<1>1. IInv => SerialDefined
  BY DEF IInv, InStep, SerialDefined
<1>2. QED
  BY <1>1, InvariantHolds, PTL

-----------------------------------------------------------------------------
(* Window's tables *)

\* The values of the measurements m[1], m[2], ... made under x.
Of(m, x) == {i \in 1 .. Len(m) : m[i].x = x}
Values(m, x, field) == {m[i][field] : i \in Of(m, x)}

\* The tables hold what produce was given.
TablesAgree ==
    /\ idles = [x \in Sizes |-> Values(sent, x, "idle")]
    /\ actives = [x \in Sizes |-> Values(sent, x, "active")]

LEMMA BatchTyping ==
  ASSUME Recorded, Counted, InStep, Measure
  PROVE  sent \in Seq(Measured) /\ Batch \in Seq(Measured)
<1>1. Finding /\ SentUpTo(totdis)
  BY DEF Measure, Goto, InStep
<1>2. key \in Seq(Kernels) /\ Len(key) \in Nat /\ Len(key) = tot /\ tot >= 1
  <2>1. PICK n, c : n = Offset /\ c = count2
    OBVIOUS
  <2>2. /\ n \in Int /\ c \in Nat /\ totdis = n /\ n < tot /\ tot \in Nat /\ n = tot - curr
        /\ key \in Seq(Kernels) /\ Len(key) = n + c /\ Len(tup) = tot /\ curr <= tot
    BY <1>1, <2>1 DEF Finding, Fresh, KeyUpTo, TupUpTo, Recorded, Offset
  <2>3. n \in Nat
    BY <2>2 DEF Recorded
  <2>4. QED
    BY <2>2, <2>3 DEF Measure, Count1, Disjoint
<1>3. totdis \in Nat /\ totdis < tot
  BY <1>1 DEF Finding, Fresh, Offset, Recorded
<1>4. PICK f : f = From /\ f \in Nat \ {0} /\ Len(key) - f \in Nat
  BY <1>2, <1>3 DEF From
<1>5. \A i \in 1 .. Len(key) - f : f + i - 1 \in 1 .. Len(key) /\ f + i \in 1 .. Len(key)
  BY <1>2, <1>4
<1>6. \A i \in 1 .. Len(key) - f : Measurement(key[f + i - 1], key[f + i]) \in Measured
  BY <1>2, <1>5, ElementOfSeq, Typing
<1>7. Batch = [i \in 1 .. Len(key) - f |-> Measurement(key[f + i - 1], key[f + i])]
  BY <1>4 DEF Batch
<1>8. Batch \in Seq(Measured)
  BY <1>4, <1>6, <1>7
<1>9. QED
  BY <1>1, <1>8 DEF SentUpTo

\* What a batch adds to a table is what it adds to the measurements made.
LEMMA TableWritten ==
  ASSUME NEW m \in Seq(Measured), NEW b \in Seq(Measured), NEW x, NEW field
  PROVE  Values(m \o b, x, field) = Values(m, x, field) \union Values(b, x, field)
<1>1. /\ Len(m) \in Nat /\ Len(b) \in Nat /\ Len(m \o b) = Len(m) + Len(b)
      /\ \A i \in 1 .. Len(m) + Len(b) :
            (m \o b)[i] = IF i <= Len(m) THEN m[i] ELSE b[i - Len(m)]
  BY ConcatProperties, LenProperties
<1>2. PICK M, B, c : M = Len(m) /\ B = Len(b) /\ c = m \o b
  OBVIOUS
<1>3. ASSUME NEW i \in 1 .. M
      PROVE  i \in 1 .. M + B /\ c[i] = m[i]
  BY <1>1, <1>2
<1>4. ASSUME NEW i \in 1 .. B
      PROVE  M + i \in 1 .. M + B /\ c[M + i] = b[i]
  <2>1. M + i \in 1 .. M + B /\ ~(M + i <= M) /\ M + i - M = i
    BY <1>1, <1>2
  <2>2. QED
    BY <1>1, <1>2, <2>1
<1>5. ASSUME NEW i \in 1 .. M + B
      PROVE  \/ i \in 1 .. M /\ c[i] = m[i]
             \/ i - M \in 1 .. B /\ c[i] = b[i - M]
  BY <1>1, <1>2
<1>6. Values(c, x, field) \subseteq Values(m, x, field) \union Values(b, x, field)
  <2> SUFFICES ASSUME NEW i \in Of(c, x)
               PROVE  c[i][field] \in Values(m, x, field) \union Values(b, x, field)
    BY DEF Values
  <2>1. i \in 1 .. M + B /\ c[i].x = x
    BY <1>1, <1>2 DEF Of
  <2>2. QED
    BY <1>2, <1>5, <2>1 DEF Values, Of
<1>7. Values(m, x, field) \subseteq Values(c, x, field)
  BY <1>1, <1>2, <1>3 DEF Values, Of
<1>8. Values(b, x, field) \subseteq Values(c, x, field)
  <2> SUFFICES ASSUME NEW i \in Of(b, x)
               PROVE  b[i][field] \in Values(c, x, field)
    BY DEF Values
  <2>1. i \in 1 .. B /\ b[i].x = x
    BY <1>2 DEF Of
  <2>2. M + i \in Of(c, x) /\ c[M + i] = b[i]
    BY <1>2, <1>4, <2>1 DEF Of
  <2>3. QED
    BY <2>2 DEF Values
<1>9. QED
  BY <1>2, <1>6, <1>7, <1>8

LEMMA TablesStep ==
  IInv /\ (Serial /\ Counted => TablesAgree) /\ [Next]_vars
    => (Serial /\ Counted => TablesAgree)'
<1> SUFFICES ASSUME IInv, Serial /\ Counted => TablesAgree, [Next]_vars, Serial', Counted'
             PROVE  TablesAgree'
  OBVIOUS
<1>1. Recorded /\ Counted /\ InStep /\ TablesAgree
  BY ConditionsKept DEF IInv
<1>2. CASE Measure
  <2>1. sent' = sent \o Batch
    BY <1>2 DEF Measure
  <2>2. ASSUME NEW x \in Sizes, NEW field
        PROVE  Values(sent', x, field) = Values(sent, x, field) \union Values(Batch, x, field)
    BY <1>1, <1>2, <2>1, BatchTyping, TableWritten
  <2>3. /\ idles' = [x \in Sizes |-> idles[x] \union Values(Batch, x, "idle")]
        /\ actives' = [x \in Sizes |-> actives[x] \union Values(Batch, x, "active")]
    BY <1>2 DEF Measure, Written, Values, Of
  <2>4. idles' = [x \in Sizes |-> Values(sent', x, "idle")]
    BY <1>1, <2>2, <2>3 DEF TablesAgree
  <2>5. actives' = [x \in Sizes |-> Values(sent', x, "active")]
    BY <1>1, <2>2, <2>3 DEF TablesAgree
  <2>6. QED
    BY <2>4, <2>5 DEF TablesAgree
<1>3. CASE ~Measure
  <2>1. UNCHANGED <<idles, actives, sent>>
    BY <1>3 DEF Next, Process, EarlyBuffer, Read, Sort, Separate, Merge, Separated,
                Skip, Match, Undefined, windowVars, vars
  <2>2. QED
    BY <1>1, <2>1 DEF TablesAgree
<1>4. QED
  BY <1>2, <1>3

\* A run and a gap measured of serial kernels are their real lengths.
LEMMA RealLengths ==
  ASSUME NEW k \in Kernels, NEW n \in Kernels, k.end < n.start
  PROVE  /\ Measurement(k, n).idle = n.start - k.end
         /\ Measurement(k, n).active = k.end - k.start
         /\ Measurement(k, n).x = k.x
<1>1. /\ k.end \in Nat /\ n.start \in Nat /\ n.end \in Nat /\ n.start <= n.end
      /\ n.end < Long /\ Long \in Nat
  BY KernelsAssumption, WidthAssumption DEF Kernel
<1>2. n.start - k.end \in Nat /\ n.start - k.end < Long
  BY <1>1
<1>3. (n.start - k.end) % Long = n.start - k.end
  BY <1>1, <1>2
<1>4. QED
  BY <1>3 DEF Measurement

\* When kernels run one after the other and all records come during a flush, the
\* predictor finds in Window the shortest run and the shortest gap of every grid,
\* of all kernels reported so far but the last (Window.cpp:34-115).
THEOREM WindowShortestCorrect == Spec => []WindowShortest
<1>1. Init => (Serial /\ Counted => TablesAgree)
  <2> SUFFICES ASSUME Init PROVE TablesAgree
    OBVIOUS
  <2>1. \A x, field : Values(<<>>, x, field) = {}
    BY EmptySeq DEF Values, Of
  <2>2. QED
    BY <2>1 DEF Init, TablesAgree
<1>2. IInv /\ (Serial /\ Counted => TablesAgree) => WindowShortest
  <2> SUFFICES ASSUME IInv, TablesAgree, pc = "idle", Serial, Counted, NEW x \in Sizes
      PROVE  LET of == {i \in 1 .. Len(keyraw) - 1 : keyraw[i].x = x} IN
             /\ ReadDataIdle(x) =
                   IF of = {} THEN 0
                   ELSE Min({keyraw[i + 1].start - keyraw[i].end : i \in of})
             /\ ReadDataActive(x) =
                   IF of = {} THEN Long - 1
                   ELSE Min({keyraw[i].end - keyraw[i].start : i \in of})
    BY DEF WindowShortest
  <2> DEFINE of == {i \in 1 .. Len(keyraw) - 1 : keyraw[i].x = x}
  <2>1. PICK N : N = tot
    OBVIOUS
  <2>2. /\ N \in Nat /\ Len(keyraw) = N /\ keyraw \in Seq(Kernels)
        /\ RawUpTo(N) /\ SentUpTo(N)
    BY <2>1 DEF IInv, InStep, Whole, Recorded, Counted
  <2>3. ASSUME NEW i \in 1 .. N - 1
        PROVE  /\ sent[i].x = keyraw[i].x
               /\ sent[i].idle = keyraw[i + 1].start - keyraw[i].end
               /\ sent[i].active = keyraw[i].end - keyraw[i].start
    <3>1. i \in 1 .. N /\ i + 1 \in 1 .. N
      BY <2>2
    <3>2. keyraw[i] \in Kernels /\ keyraw[i + 1] \in Kernels
      BY <2>2, <3>1, ElementOfSeq
    <3>3. keyraw[i].end < keyraw[i + 1].start
      BY <2>1, <2>2, SerialApart DEF IInv
    <3>4. QED
      BY <2>2, <3>2, <3>3, RealLengths DEF SentUpTo
  <2>4. 1 .. Len(sent) = 1 .. N - 1
    BY <2>2 DEF SentUpTo
  <2>5. Of(sent, x) = of
    BY <2>2, <2>3, <2>4 DEF Of
  <2>6. idles[x] = {keyraw[i + 1].start - keyraw[i].end : i \in of}
    <3>1. idles[x] = {sent[i].idle : i \in of}
      BY <2>5 DEF TablesAgree, Values
    <3>2. QED
      BY <2>2, <2>3, <3>1
  <2>7. actives[x] = {keyraw[i].end - keyraw[i].start : i \in of}
    <3>1. actives[x] = {sent[i].active : i \in of}
      BY <2>5 DEF TablesAgree, Values
    <3>2. \A i \in of : sent[i].active = keyraw[i].end - keyraw[i].start
      BY <2>2, <2>3
    <3> HIDE DEF of
    <3>3. QED
      BY <3>1, <3>2
  <2>8. (idles[x] = {} <=> of = {}) /\ (actives[x] = {} <=> of = {})
    <3> HIDE DEF of
    <3>1. CASE of = {}
      BY <2>6, <2>7, <3>1
    <3>2. ASSUME NEW i \in of
          PROVE  idles[x] # {} /\ actives[x] # {}
      BY <2>6, <2>7
    <3>3. QED
      BY <3>1, <3>2
  <2>9. QED
    BY <2>6, <2>7, <2>8 DEF ReadDataIdle, ReadDataActive
<1>3. QED
  BY <1>1, <1>2, TablesStep, InvariantHolds, PTL DEF Spec

=============================================================================
