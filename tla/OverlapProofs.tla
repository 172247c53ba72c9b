----------------------------- MODULE OverlapProofs ----------------------------
(***************************************************************************)
(* What CuptiProfiler makes of kernels that may overlap, and of records    *)
(* that come in any order and at any time: for any kernels and any number  *)
(* of readings.                                                            *)
(***************************************************************************)
EXTENDS ProfilerProofs

-----------------------------------------------------------------------------
(* std::sort *)

Apart(s) == \A i, j \in 1 .. Len(s) : s[i].start = s[j].start => i = j

\* r is s with what follows the first n elements in order.
Arranged(r, s, n) ==
    /\ r \in Seq(Time) /\ Len(r) = Len(s)
    /\ Apart(s) => Apart(r)
    /\ \A p \in 1 .. n : r[p] = s[p]
    /\ \A p \in n + 1 .. Len(s) : \E i \in n + 1 .. Len(s) : r[p] = s[i]
    /\ \A p, q \in n + 1 .. Len(s) : p < q => r[p].start <= r[q].start

\* Before orders intervals strictly, and all of them.
LEMMA BeforeOrders ==
  ASSUME NEW a \in Time, NEW b \in Time, NEW c \in Time
  PROVE  /\ ~Before(a, a)
         /\ Before(a, b) \/ a = b \/ Before(b, a)
         /\ Before(a, b) => ~Before(b, a) /\ a.start <= b.start
         /\ Before(a, b) /\ Before(b, c) => Before(a, c)
<1>1. a.start \in Nat /\ a.end \in Nat /\ b.start \in Nat /\ b.end \in Nat
      /\ c.start \in Nat /\ c.end \in Nat
  BY DEF Time
<1>2. a.start = b.start /\ a.end = b.end => a = b
  BY DEF Time
<1>3. QED
  BY <1>1, <1>2 DEF Before

\* What std::sort does to records.
LEMMA SortArranges ==
  ASSUME NEW s \in Seq(Time), NEW n \in 0 .. Len(s),
         NEW r, r = SortedFrom(s, n)
  PROVE  Arranged(r, s, n)
<1>1. PICK L : L = Len(s)
  OBVIOUS
<1>2. L \in Nat /\ n \in Nat /\ n <= L
  BY <1>1, LenProperties
<1>3. PICK T : T = n + 1 .. L
  OBVIOUS
<1>4. /\ IsFiniteSet(T) /\ Cardinality(T) = L - n
      /\ \A i \in T : i \in 1 .. L /\ i > n
  <2>1. PICK a : a = n + 1 /\ a \in Int
    BY <1>2
  <2>2. IsFiniteSet(a .. L) /\ Cardinality(a .. L) = IF a > L THEN 0 ELSE L - a + 1
    BY <1>2, <2>1, FS_Interval
  <2>3. QED
    BY <1>2, <1>3, <2>1, <2>2
<1>5. \A i \in 1 .. L : s[i].start \in Nat /\ s[i] \in Time
  BY <1>1, ElementOfSeq DEF Time
<1> DEFINE Upto(j, i) == Before(s[j], s[i]) \/ (s[j] = s[i] /\ j <= i)
           Up(i) == {j \in T : Upto(j, i)}
\* The order the positions are those of.
<1>6. ASSUME NEW i \in T, NEW j \in T
      PROVE  /\ Upto(i, i)
             /\ Upto(i, j) \/ Upto(j, i)
             /\ Upto(i, j) /\ i # j => ~Upto(j, i)
             /\ Upto(i, j) => s[i].start <= s[j].start
  <2>1. s[i] \in Time /\ s[j] \in Time /\ i \in Nat /\ j \in Nat /\ s[i].start \in Nat
    BY <1>4, <1>5
  <2>2. /\ ~Before(s[i], s[i]) /\ ~Before(s[j], s[j])
        /\ Before(s[i], s[j]) \/ s[i] = s[j] \/ Before(s[j], s[i])
        /\ Before(s[i], s[j]) => ~Before(s[j], s[i]) /\ s[i].start <= s[j].start
    BY <2>1, BeforeOrders
  <2>3. s[i] = s[j] => s[i].start <= s[j].start
    BY <2>1
  <2>4. QED
    BY <2>1, <2>2, <2>3
<1>7. ASSUME NEW i \in T, NEW j \in T, NEW k \in T, Upto(i, j), Upto(j, k)
      PROVE  Upto(i, k)
  <2>1. /\ s[i] \in Time /\ s[j] \in Time /\ s[k] \in Time
        /\ i \in Nat /\ j \in Nat /\ k \in Nat
    BY <1>4, <1>5
  <2>2. Before(s[i], s[j]) /\ Before(s[j], s[k]) => Before(s[i], s[k])
    BY <2>1, BeforeOrders
  <2>3. CASE Before(s[i], s[j]) /\ Before(s[j], s[k])
    BY <2>2, <2>3
  <2>4. CASE s[i] = s[j] \/ s[j] = s[k]
    BY <1>7, <2>1, <2>4
  <2>5. QED
    BY <1>7, <2>3, <2>4
<1> HIDE DEF Upto
<1>8. ASSUME NEW i \in T
      PROVE  /\ Position(s, n, i) = n + Cardinality(Up(i))
             /\ Up(i) \subseteq T /\ i \in Up(i)
             /\ IsFiniteSet(Up(i)) /\ Cardinality(Up(i)) \in Nat
  <2>1. Position(s, n, i) = n + Cardinality(Up(i))
    BY <1>1, <1>3 DEF Position, Upto
  <2>2. i \in Up(i)
    BY <1>6
  <2>3. QED
    BY <1>4, <2>1, <2>2, FS_Subset, FS_CardinalityType
<1>9. ASSUME NEW i \in T, NEW j \in T, i # j, Upto(i, j)
      PROVE  Position(s, n, i) < Position(s, n, j)
  <2>1. Up(i) \subseteq Up(j) /\ j \in Up(j) /\ j \notin Up(i)
    BY <1>6, <1>7, <1>8, <1>9
  <2>2. Cardinality(Up(i)) <= Cardinality(Up(j)) /\ Cardinality(Up(i)) # Cardinality(Up(j))
    BY <1>8, <2>1, FS_Subset
  <2>3. QED
    BY <1>2, <1>8, <2>2
<1>10. ASSUME NEW i \in T
       PROVE  Position(s, n, i) \in T
  <2>1. PICK c : c = Cardinality(Up(i))
    OBVIOUS
  <2>2. c \in Nat /\ c <= L - n /\ Position(s, n, i) = n + c
    BY <1>4, <1>8, <2>1, FS_Subset
  <2>3. c # 0
    BY <1>8, <2>1, FS_EmptySet
  <2>4. n + c \in n + 1 .. L
    BY <1>2, <2>2, <2>3
  <2>5. QED
    BY <1>3, <2>2, <2>4
<1>11. ASSUME NEW p \in T
       PROVE  \E i \in T : Position(s, n, i) = p
  <2> DEFINE f == [i \in T |-> Position(s, n, i)]
  <2>1. f \in [T -> T]
    BY <1>10
  <2>2. ASSUME NEW i \in T, NEW j \in T, i # j
        PROVE  f[i] # f[j]
    <3>1. Position(s, n, i) < Position(s, n, j) \/ Position(s, n, j) < Position(s, n, i)
      BY <1>6, <1>9, <2>2
    <3>2. Position(s, n, i) \in Int /\ Position(s, n, j) \in Int
      BY <1>3, <1>10
    <3>3. QED
      BY <3>1, <3>2
  <2>3. f \in Injection(T, T)
    BY <2>1, <2>2 DEF Injection, IsInjective
  <2>4. f \in Surjection(T, T)
    BY <1>4, <2>3, FS_Injection
  <2>5. QED
    BY <2>4 DEF Surjection
<1> DEFINE At(p) == CHOOSE i \in T : Position(s, n, i) = p
<1>12. ASSUME NEW p \in T
       PROVE  At(p) \in T /\ Position(s, n, At(p)) = p
  BY <1>11
<1>13. r = [p \in 1 .. L |-> IF p <= n THEN s[p] ELSE s[At(p)]]
  BY <1>1, <1>3 DEF SortedFrom
<1> HIDE DEF At, Up
<1>14. \A p \in 1 .. L : p <= n \/ p \in T
  BY <1>2, <1>3
<1>15. /\ \A p \in 1 .. n : r[p] = s[p]
       /\ \A p \in T : r[p] = s[At(p)] /\ At(p) \in T /\ At(p) \in 1 .. L
  <2>1. \A p \in 1 .. n : p \in 1 .. L /\ p <= n
    BY <1>2
  <2>2. \A p \in T : p \in 1 .. L /\ ~(p <= n)
    BY <1>2, <1>4
  <2>3. QED
    BY <1>4, <1>12, <1>13, <2>1, <2>2
<1>16. r \in Seq(Time) /\ Len(r) = L
  <2>1. \A p \in 1 .. L : (IF p <= n THEN s[p] ELSE s[At(p)]) \in Time
    BY <1>5, <1>14, <1>15
  <2>2. r \in [1 .. L -> Time]
    BY <1>13, <2>1
  <2>3. QED
    BY <1>2, <2>2
<1>17. ASSUME NEW p \in T, NEW q \in T, p < q
       PROVE  r[p].start <= r[q].start
  <2>1. At(p) # At(q) /\ ~(q < p)
    BY <1>2, <1>3, <1>12, <1>17
  <2>2. ~Upto(At(q), At(p))
    BY <1>9, <1>12, <2>1
  <2>3. s[At(p)].start <= s[At(q)].start
    BY <1>6, <1>12, <2>2
  <2>4. QED
    BY <1>15, <2>3
<1>18. ASSUME Apart(s), NEW p \in 1 .. L, NEW q \in 1 .. L, r[p].start = r[q].start
       PROVE  p = q
  <2>0. \A i, j \in 1 .. L : s[i].start = s[j].start => i = j
    BY <1>1, <1>18 DEF Apart
  <2>1. CASE p \in T /\ q \in T
    <3>1. /\ r[p] = s[At(p)] /\ At(p) \in 1 .. L /\ Position(s, n, At(p)) = p
          /\ r[q] = s[At(q)] /\ At(q) \in 1 .. L /\ Position(s, n, At(q)) = q
      BY <1>12, <1>15, <2>1
    <3>2. At(p) = At(q)
      BY ONLY <1>18, <2>0, <3>1
    <3>3. QED
      BY ONLY <3>1, <3>2
  <2>2. CASE p <= n /\ q <= n
    <3>1. p \in 1 .. n /\ q \in 1 .. n
      BY <1>2, <2>2
    <3>2. QED
      BY <1>15, <1>18, <2>0, <3>1
  <2>3. CASE p <= n /\ q \in T
    <3>1. p \in 1 .. n
      BY <1>2, <2>3
    <3>2. p = At(q)
      BY <1>15, <1>18, <2>0, <2>3, <3>1
    <3>3. QED
      BY <1>2, <1>4, <1>15, <2>3, <3>2
  <2>4. CASE q <= n /\ p \in T
    <3>1. q \in 1 .. n
      BY <1>2, <2>4
    <3>2. q = At(p)
      BY <1>15, <1>18, <2>0, <2>4, <3>1
    <3>3. QED
      BY <1>2, <1>4, <1>15, <2>4, <3>2
  <2>5. QED
    BY <1>14, <2>1, <2>2, <2>3, <2>4
<1>19. QED
  BY <1>1, <1>3, <1>15, <1>16, <1>17, <1>18 DEF Arranged, Apart

-----------------------------------------------------------------------------
(* The shape of the four vectors *)

Processing == pc \in {"sort", "intervals", "search"}
Separating == pc \in {"intervals", "search"}

Lengths ==
    /\ Len(raw) = Len(keyraw) /\ tot <= Len(keyraw)
    /\ pc \in {"idle", "sort"} => Len(tup) = totdis
    /\ pc \in {"idle", "sort", "intervals"} => Len(key) = totdis
    /\ Processing => curr <= tot
    /\ Separating => /\ totdis < Len(tup) /\ Offset < Len(raw)
                     /\ Len(tup) - totdis <= Len(raw) - Offset
    /\ pc = "intervals" => /\ 1 <= count /\ Offset + count <= Len(raw)
                           /\ Len(tup) - totdis <= count
    /\ pc = "search" => totdis <= Len(key) /\ Len(key) <= Len(tup)

\* The records are of different kernels, though some may start at once.
Distinct ==
    /\ \A i, j \in 1 .. Len(keyraw) : keyraw[i] = keyraw[j] => i = j
    /\ Staggered => Apart(raw)
    /\ \A i \in 1 .. Len(raw) :
          \E j \in 1 .. Len(keyraw) : raw[i] = Interval(keyraw[j])

\* A reading's first interval begins as its first record in order of time, and
\* the kernels found are the intervals', from among the records searched.
Begun ==
    Separating =>
        /\ \A i, j \in Offset + 1 .. Len(raw) : i < j => raw[i].start <= raw[j].start
        /\ tup[totdis + 1].start = raw[Offset + 1].start
Searched ==
    pc = "search" =>
        \A i \in totdis + 1 .. Len(key) :
            /\ key[i].start = tup[i].start
            /\ \E j \in 1 .. Len(keyraw) : j <= totdis + count2 /\ key[i] = keyraw[j]

Shape == TypeOK /\ Lengths /\ Distinct /\ Begun /\ Searched

\* process has appended an interval to tup; the one before may have grown.
Extended(t) ==
    /\ tup' \in Seq(Time) /\ Len(tup') = Len(tup) + 1
    /\ \A i \in 1 .. Len(tup) : tup'[i].start = tup[i].start /\ tup[i].end <= tup'[i].end
    /\ tup'[Len(tup) + 1] = t

LEMMA KernelFacts ==
  ASSUME NEW k \in Kernels
  PROVE  /\ k.start \in Nat /\ k.end \in Nat /\ k.start <= k.end /\ k.end < Long
         /\ k.x \in Sizes /\ Interval(k) \in Time
         /\ Interval(k).start = k.start /\ Interval(k).end = k.end
  BY KernelsAssumption DEF Kernel, Sizes, Interval, Time

LEMMA Widths == Wrap \in Nat \ {0} /\ Long \in Nat \ {0} /\ Wrap <= Long
  BY WidthAssumption

LEMMA ShapeFacts ==
  ASSUME Shape
  PROVE  /\ Len(raw) \in Nat /\ Len(keyraw) = Len(raw) /\ Len(tup) \in Nat /\ Len(key) \in Nat
         /\ tot \in Nat /\ curr \in Nat /\ totdis \in Nat /\ count \in Nat /\ count2 \in Nat
         /\ Offset \in Int /\ Offset = tot - curr /\ tot <= Len(raw)
         /\ Processing => Offset \in Nat /\ Offset <= Len(raw)
         /\ \A i \in 1 .. Len(raw) : /\ raw[i] \in Time /\ raw[i].start \in Nat
                                     /\ raw[i].end \in Nat /\ raw[i].start <= raw[i].end
                                     /\ keyraw[i] \in Kernels
         /\ \A i \in 1 .. Len(tup) : /\ tup[i] \in Time /\ tup[i].start \in Nat
                                     /\ tup[i].end \in Nat
         /\ \A i \in 1 .. Len(key) : key[i] \in Kernels
<1>1. /\ raw \in Seq(Time) /\ tup \in Seq(Time) /\ keyraw \in Seq(Kernels) /\ key \in Seq(Kernels)
      /\ tot \in Nat /\ curr \in Nat /\ totdis \in Nat /\ count \in Nat /\ count2 \in Nat
  BY DEF Shape, TypeOK
<1>2. /\ Len(raw) \in Nat /\ Len(tup) \in Nat /\ Len(key) \in Nat
      /\ Len(keyraw) = Len(raw) /\ tot <= Len(raw)
  BY <1>1, LenProperties DEF Shape, Lengths
<1>3. \A i \in 1 .. Len(raw) : raw[i] \in Time /\ keyraw[i] \in Kernels
  BY <1>1, <1>2, ElementOfSeq
<1>4. ASSUME NEW i \in 1 .. Len(raw)
      PROVE  raw[i].start \in Nat /\ raw[i].end \in Nat /\ raw[i].start <= raw[i].end
  <2>1. PICK j \in 1 .. Len(keyraw) : raw[i] = Interval(keyraw[j])
    BY DEF Shape, Distinct
  <2>2. QED
    BY <1>2, <1>3, <2>1, KernelFacts
<1>5. /\ \A i \in 1 .. Len(tup) : tup[i] \in Time
      /\ \A i \in 1 .. Len(key) : key[i] \in Kernels
  BY <1>1, ElementOfSeq
<1>6. \A i \in 1 .. Len(tup) : tup[i].start \in Nat /\ tup[i].end \in Nat
  BY <1>5 DEF Time
<1>7. Offset = tot - curr /\ Offset \in Int
  BY <1>1 DEF Offset
<1>8. Processing => Offset \in Nat /\ Offset <= Len(raw)
  BY <1>1, <1>2, <1>7 DEF Shape, Lengths
<1>9. QED
  BY <1>1, <1>2, <1>3, <1>4, <1>5, <1>6, <1>7, <1>8

LEMMA ShapeCounts ==
  ASSUME Shape
  PROVE  /\ Len(raw) \in Nat /\ Len(keyraw) = Len(raw) /\ Len(tup) \in Nat /\ Len(key) \in Nat
         /\ tot \in Nat /\ curr \in Nat /\ totdis \in Nat /\ count \in Nat /\ count2 \in Nat
         /\ Offset \in Int
         /\ Processing => Offset \in Nat /\ Offset <= Len(raw)
  BY ShapeFacts

\* What the steps of process that append to tup append.
LEMMA SortGives ==
  ASSUME Shape, Sort
  PROVE  /\ Offset < Len(raw) /\ Arranged(raw', raw, Offset) /\ Extended(raw'[Offset + 1])
<1>1. Offset \in 0 .. Len(raw) /\ raw \in Seq(Time) /\ tup \in Seq(Time)
  BY ShapeFacts DEF Sort, Goto, Processing, Shape, TypeOK
<1>2. raw' = SortedFrom(raw, Offset) /\ Offset < Len(raw) /\ tup' = Append(tup, raw'[Offset + 1])
  BY DEF Sort, at
<1>3. Arranged(raw', raw, Offset)
  <2>2. PICK n, r, s : n = Offset /\ r = raw' /\ s = raw
    OBVIOUS
  <2>3. s \in Seq(Time) /\ n \in 0 .. Len(s) /\ r = SortedFrom(s, n)
    BY <1>1, <1>2, <2>2
  <2>4. Arranged(r, s, n)
    BY <2>3, SortArranges
  <2>5. QED
    BY <2>2, <2>4
<1>4. Extended(raw'[Offset + 1])
  <2>1. raw'[Offset + 1] \in Time
    BY <1>1, <1>2, <1>3, ElementOfSeq DEF Arranged
  <2>2. QED
    BY <1>1, <1>2, <2>1, Appended, ShapeFacts DEF Extended
<1>5. QED
  BY <1>2, <1>3, <1>4

LEMMA SeparateGives ==
  ASSUME Shape, Separate
  PROVE  /\ totdis + count + 1 \in 1 .. Len(raw)
         /\ Extended(raw[totdis + count + 1]) /\ count' = count + 1
         /\ Offset + count + 1 \in 1 .. Len(raw)
         /\ tup[Len(tup)].end < raw[Offset + count + 1].start
<1>1. pc = "intervals" /\ Offset \in Nat
  BY ShapeCounts DEF Separate, Goto, Processing
<1>2. totdis + count + 1 \in 1 .. Len(raw) /\ Offset + count + 1 \in 1 .. Len(raw)
  <2>1. totdis + count < Len(raw) /\ Offset + count < Len(raw)
    BY DEF Separate, More
  <2>2. QED
    BY <1>1, <2>1, ShapeCounts
<1>3. tup' = Append(tup, raw[totdis + count + 1]) /\ count' = count + 1
  BY DEF Separate, at
<1>4. Extended(raw[totdis + count + 1])
  <2>1. PICK t : t = raw[totdis + count + 1]
    OBVIOUS
  <2>2. t \in Time /\ tup \in Seq(Time) /\ tup' = Append(tup, t)
    BY <1>2, <1>3, <2>1, ShapeFacts DEF Shape, TypeOK
  <2>3. /\ tup' \in Seq(Time) /\ Len(tup') = Len(tup) + 1 /\ tup'[Len(tup) + 1] = t
        /\ \A i \in 1 .. Len(tup) : tup'[i] = tup[i]
    BY <2>2, Appended
  <2>4. \A i \in 1 .. Len(tup) : tup[i].end <= tup[i].end
    BY ShapeFacts
  <2>5. QED
    BY <2>1, <2>3, <2>4 DEF Extended
<1>5. Len(tup) \in 1 .. Len(tup)
  BY <1>1, ShapeFacts DEF Shape, Lengths, Separating
<1>6. tup[Len(tup)].end < raw[Offset + count + 1].start
  <2>1. PICK a, b : a = tup[Len(tup)].end /\ b = raw[Offset + count + 1].start
    OBVIOUS
  <2>2. a \in Nat /\ b \in Nat
    BY <1>2, <1>5, <2>1, ShapeFacts
  <2>3. ~(b <= a)
    BY <2>1 DEF Separate, Overlapping, Last, Current, at
  <2>4. QED
    BY <2>1, <2>2, <2>3
<1>7. QED
  BY <1>2, <1>3, <1>4, <1>6

LEMMA MergeGives ==
  ASSUME Shape, Merge
  PROVE  \E la \in Nat \ {0} :
            /\ Offset + count + la + 1 \in 1 .. Len(raw) /\ count' = count + la + 1
            /\ LET a == raw[Offset + count + la + 1] IN
               /\ tup[Len(tup)].end < Unsigned(a.start)
               /\ Extended([start |-> Unsigned(a.start), end |-> Unsigned(a.end)])
<1>1. pc = "intervals" /\ Offset \in Nat /\ count \in Nat /\ Len(raw) \in Nat
  BY ShapeFacts DEF Merge, Goto, Processing
<1>2. PICK la \in Ahead :
         /\ Found(la)
         /\ LET prev == Signed(at(raw, Offset + count + la - 1).end)
                ahead == at(raw, Offset + count + la)
                merged == [tup EXCEPT ![Len(tup)].end = IF prev > @ THEN prev ELSE @]
            IN  tup' = Append(merged, [start |-> Unsigned(ahead.start),
                                       end |-> Unsigned(ahead.end)])
         /\ count' = count + la + 1
  BY DEF Merge
<1>3. la \in Nat \ {0} /\ Offset + count + la < Len(raw)
  BY <1>1, <1>2 DEF Ahead, Found, Inside
<1>4. PICK a, b : a = raw[Offset + count + la + 1] /\ b = raw[Offset + count + la]
  OBVIOUS
<1>5. /\ Offset + count + la + 1 \in 1 .. Len(raw)
      /\ a.start \in Nat /\ a.end \in Nat /\ b.end \in Nat
  <2>1. Offset + count + la + 1 \in 1 .. Len(raw) /\ Offset + count + la \in 1 .. Len(raw)
    BY <1>1, <1>3
  <2>2. QED
    BY <1>4, <2>1, ShapeFacts
<1>6. at(raw, Offset + count + la) = a /\ at(raw, Offset + count + la - 1) = b
  BY <1>1, <1>3, <1>4 DEF at
<1>7. /\ Unsigned(a.start) \in Nat /\ Unsigned(a.end) \in Nat
      /\ Unsigned(b.end) \in Nat /\ Signed(b.end) \in Nat
  BY <1>5, Widths DEF Unsigned, Signed
<1>8. PICK L : L = Len(tup) /\ L \in Nat \ {0} /\ tup[L].end \in Nat /\ tup[L].start \in Nat
  <2>1. Len(tup) \in Nat \ {0}
    BY <1>1, ShapeFacts DEF Shape, Lengths, Separating
  <2>2. Len(tup) \in 1 .. Len(tup)
    BY <2>1
  <2>3. tup[Len(tup)].end \in Nat /\ tup[Len(tup)].start \in Nat
    BY <2>2, ShapeFacts
  <2>4. QED
    BY <2>1, <2>3
<1>9. tup[Len(tup)].end < Unsigned(a.start)
  BY <1>2, <1>6, <1>7, <1>8 DEF Found, Beyond, Last
<1>10. PICK m : m = [tup EXCEPT ![L].end = IF Signed(b.end) > @ THEN Signed(b.end) ELSE @]
  OBVIOUS
<1>11. PICK e : e = (IF Signed(b.end) > tup[L].end THEN Signed(b.end) ELSE tup[L].end)
  OBVIOUS
<1>12. e \in Nat /\ tup[L].end <= e
  BY <1>7, <1>8, <1>11
<1>13. /\ m \in Seq(Time) /\ Len(m) = L /\ m[L].start = tup[L].start /\ m[L].end = e
       /\ \A i \in 1 .. L : i # L => m[i] = tup[i]
  <2>1. tup \in Seq(Time) /\ tup[L] \in Time
    BY <1>8, ShapeFacts DEF Shape, TypeOK
  <2>2. m = [tup EXCEPT ![L] = [tup[L] EXCEPT !.end = e]]
    BY <1>10, <1>11
  <2>3. PICK u : u = [tup[L] EXCEPT !.end = e]
    OBVIOUS
  <2>4. u \in Time /\ u.start = tup[L].start /\ u.end = e
    BY <1>12, <2>1, <2>3 DEF Time
  <2>5. m = [tup EXCEPT ![L] = u]
    BY <2>2, <2>3
  <2>6. QED
    BY <1>8, <2>1, <2>4, <2>5
<1>14. tup' = Append(m, [start |-> Unsigned(a.start), end |-> Unsigned(a.end)])
  BY <1>2, <1>6, <1>8, <1>10
<1>15. Extended([start |-> Unsigned(a.start), end |-> Unsigned(a.end)])
  <2>1. [start |-> Unsigned(a.start), end |-> Unsigned(a.end)] \in Time
    BY <1>7 DEF Time
  <2>2. /\ tup' \in Seq(Time) /\ Len(tup') = L + 1
        /\ \A i \in 1 .. L : tup'[i] = m[i]
        /\ tup'[L + 1] = [start |-> Unsigned(a.start), end |-> Unsigned(a.end)]
    BY <1>13, <1>14, <2>1, Appended
  <2>3. ASSUME NEW i \in 1 .. L
        PROVE  tup'[i].start = tup[i].start /\ tup[i].end <= tup'[i].end
    <3>1. tup[i].end \in Nat
      BY <1>8, ShapeFacts
    <3>2. CASE i = L
      BY <1>12, <1>13, <2>2, <3>2
    <3>3. CASE i # L
      BY <1>13, <2>2, <3>1, <3>3
    <3>4. QED
      BY <3>2, <3>3
  <2>4. QED
    BY <1>8, <2>2, <2>3 DEF Extended
<1>16. QED
  BY <1>2, <1>3, <1>4, <1>5, <1>9, <1>15

\* Each of the two takes count further, and not past the records of the reading.
LEMMA CountsOn ==
  ASSUME Shape, Separate \/ Merge
  PROVE  count' \in Nat /\ count' > count /\ Offset + count' <= Len(raw)
<1>1. count \in Nat /\ Offset \in Int /\ Len(raw) \in Nat
  BY ShapeCounts
<1>2. PICK n \in Nat \ {0} : count' = count + n /\ Offset + count + n \in 1 .. Len(raw)
  <2>1. CASE Separate
    BY <2>1, SeparateGives
  <2>2. CASE Merge
    <3>1. PICK la \in Nat \ {0} :
             Offset + count + la + 1 \in 1 .. Len(raw) /\ count' = count + la + 1
      BY <2>2, MergeGives
    <3>2. la + 1 \in Nat \ {0} /\ count' = count + (la + 1)
          /\ Offset + count + (la + 1) \in 1 .. Len(raw)
      BY <1>1, <3>1
    <3>3. QED
      BY <3>2
  <2>3. QED
    BY <2>1, <2>2
<1>3. QED
  BY <1>1, <1>2

\* Records that come are of kernels that have not come before.
LEMMA Joined ==
  ASSUME Shape, NEW n \in Nat, NEW s \in Records(n), Insert(s),
         NEW N, N = Len(raw)
  PROVE  /\ raw' \in Seq(Time) /\ keyraw' \in Seq(Kernels)
         /\ Len(raw') = N + n /\ Len(keyraw') = N + n
         /\ \A i \in 1 .. N : raw'[i] = raw[i] /\ keyraw'[i] = keyraw[i]
         /\ \A i \in N + 1 .. N + n : raw'[i] = Interval(keyraw'[i])
         /\ Distinct'
<1>1. /\ raw \in Seq(Time) /\ keyraw \in Seq(Kernels)
      /\ N \in Nat /\ Len(raw) = N /\ Len(keyraw) = N
  BY ShapeFacts DEF Shape, TypeOK
<1>2. /\ s \in [1 .. n -> Kernels]
      /\ \A i, j \in 1 .. n : s[i] = s[j] => i = j
      /\ \A i \in 1 .. n : \A j \in 1 .. N : s[i] # keyraw[j]
  BY <1>1 DEF Records
<1>3. s \in Seq(Kernels) /\ Len(s) = n
  BY <1>2
<1>4. /\ Intervals(s) \in Seq(Time) /\ Len(Intervals(s)) = n
      /\ \A i \in 1 .. n : Intervals(s)[i] = Interval(s[i])
  BY <1>2, <1>3, KernelFacts DEF Intervals
<1>5. /\ keyraw' \in Seq(Kernels) /\ Len(keyraw') = N + n
      /\ \A i \in 1 .. N + n : keyraw'[i] = IF i <= N THEN keyraw[i] ELSE s[i - N]
  <2>1. keyraw' = keyraw \o s /\ keyraw \in Seq(Kernels) /\ s \in Seq(Kernels)
    BY <1>1, <1>3 DEF Insert
  <2>2. /\ keyraw' \in Seq(Kernels) /\ Len(keyraw') = Len(keyraw) + Len(s)
        /\ \A i \in 1 .. Len(keyraw) + Len(s) :
              keyraw'[i] = IF i <= Len(keyraw) THEN keyraw[i] ELSE s[i - Len(keyraw)]
    BY <2>1, ConcatProperties
  <2>3. QED
    BY <1>1, <1>3, <2>2
<1>6. /\ raw' \in Seq(Time) /\ Len(raw') = N + n
      /\ \A i \in 1 .. N + n : raw'[i] = IF i <= N THEN raw[i] ELSE Intervals(s)[i - N]
  <2>1. raw' = raw \o Intervals(s) /\ raw \in Seq(Time) /\ Intervals(s) \in Seq(Time)
    BY <1>1, <1>4 DEF Insert
  <2>2. PICK r, t : r = raw /\ t = Intervals(s)
    OBVIOUS
  <2>3. /\ raw' \in Seq(Time) /\ Len(raw') = Len(r) + Len(t)
        /\ \A i \in 1 .. Len(r) + Len(t) :
              raw'[i] = IF i <= Len(r) THEN r[i] ELSE t[i - Len(r)]
    BY <2>1, <2>2, ConcatProperties
  <2>4. QED
    BY <1>1, <1>4, <2>2, <2>3
<1>7. \A i \in 1 .. N : raw'[i] = raw[i] /\ keyraw'[i] = keyraw[i]
  BY <1>1, <1>5, <1>6
<1>8. ASSUME NEW i \in N + 1 .. N + n
      PROVE  /\ i \in 1 .. N + n /\ i - N \in 1 .. n
             /\ keyraw'[i] = s[i - N] /\ raw'[i] = Interval(keyraw'[i])
  <2>1. i \in 1 .. N + n /\ i - N \in 1 .. n /\ ~(i <= N)
    BY <1>1
  <2>2. QED
    BY <1>4, <1>5, <1>6, <2>1
<1>9. \A i \in 1 .. N + n : i \in 1 .. N \/ i \in N + 1 .. N + n
  BY <1>1
<1>10. ASSUME NEW i \in 1 .. N + n, NEW j \in 1 .. N + n, keyraw'[i] = keyraw'[j]
       PROVE  i = j
  <2>1. CASE i \in 1 .. N /\ j \in 1 .. N
    BY <1>1, <1>7, <1>10, <2>1 DEF Shape, Distinct
  <2>2. CASE i \in N + 1 .. N + n /\ j \in N + 1 .. N + n
    <3>1. i - N = j - N
      BY <1>2, <1>8, <1>10, <2>2
    <3>2. QED
      BY <1>1, <3>1
  <2>3. CASE i \in 1 .. N /\ j \in N + 1 .. N + n
    BY <1>2, <1>7, <1>8, <1>10, <2>3
  <2>4. CASE j \in 1 .. N /\ i \in N + 1 .. N + n
    BY <1>2, <1>7, <1>8, <1>10, <2>4
  <2>5. QED
    BY <1>9, <2>1, <2>2, <2>3, <2>4
<1>11. ASSUME NEW i \in 1 .. N + n
       PROVE  \E j \in 1 .. N + n : /\ raw'[i] = Interval(keyraw'[j])
                                    /\ i \in 1 .. N => j \in 1 .. N
                                    /\ i \in N + 1 .. N + n => j = i
  <2>1. CASE i \in 1 .. N
    <3>1. PICK j \in 1 .. N : raw[i] = Interval(keyraw[j])
      BY <1>1, <2>1 DEF Shape, Distinct
    <3>2. j \in 1 .. N + n /\ i \notin N + 1 .. N + n
      BY <1>1, <2>1
    <3>3. QED
      BY <1>7, <2>1, <3>1, <3>2
  <2>2. CASE i \in N + 1 .. N + n
    <3>1. i \notin 1 .. N
      BY <1>1, <2>2
    <3>2. QED
      BY <1>8, <2>2, <3>1
  <2>3. QED
    BY <1>9, <2>1, <2>2
<1>12. \A i \in 1 .. N + n : keyraw'[i] \in Kernels
  BY <1>5, ElementOfSeq
<1>13. ASSUME Staggered', NEW i \in 1 .. N + n, NEW j \in 1 .. N + n, raw'[i].start = raw'[j].start
       PROVE  i = j
  <2>0. Staggered
    <3>1. \A h \in 1 .. N : h \in 1 .. N + n
      BY <1>1
    <3>2. QED
      BY <1>1, <1>5, <1>7, <1>13, <3>1 DEF Staggered
  <2>1. PICK k \in 1 .. N + n : /\ raw'[i] = Interval(keyraw'[k])
                                /\ i \in 1 .. N => k \in 1 .. N
                                /\ i \in N + 1 .. N + n => k = i
    BY <1>11
  <2>2. PICK l \in 1 .. N + n : /\ raw'[j] = Interval(keyraw'[l])
                                /\ j \in 1 .. N => l \in 1 .. N
                                /\ j \in N + 1 .. N + n => l = j
    BY <1>11
  <2>3. keyraw'[k].start = keyraw'[l].start
    BY <1>12, <1>13, <2>1, <2>2, KernelFacts
  <2>5. k = l
    BY <1>5, <1>13, <2>3 DEF Staggered
  <2>6. CASE i \in 1 .. N /\ j \in 1 .. N
    BY <1>1, <1>7, <1>13, <2>0, <2>6 DEF Shape, Distinct, Apart
  <2>7. CASE i \in N + 1 .. N + n /\ j \in N + 1 .. N + n
    BY <2>1, <2>2, <2>5, <2>7
  <2>8. CASE i \in 1 .. N /\ j \in N + 1 .. N + n
    BY <1>1, <2>1, <2>2, <2>5, <2>8
  <2>9. CASE j \in 1 .. N /\ i \in N + 1 .. N + n
    BY <1>1, <2>1, <2>2, <2>5, <2>9
  <2>10. QED
    BY <1>9, <2>6, <2>7, <2>8, <2>9
<1>14. Distinct'
  BY <1>5, <1>6, <1>10, <1>11, <1>13 DEF Distinct, Apart
<1>15. QED
  BY <1>5, <1>6, <1>7, <1>8, <1>14

\* The arithmetic of a measurement stays in an unsigned long.
LEMMA Measures ==
  ASSUME NEW k \in Kernels, NEW n \in Kernels
  PROVE  Measurement(k, n) \in [x : Sizes, active : 0 .. Long - 1, idle : 0 .. Long - 1]
<1>1. PICK a, b, c : a = k.start /\ b = k.end /\ c = n.start
  OBVIOUS
<1>2. a \in Nat /\ b \in Nat /\ c \in Nat /\ a <= b /\ b < Long /\ Long \in Nat \ {0}
  BY <1>1, KernelFacts, Widths
<1>3. b - a \in 0 .. Long - 1
  BY <1>2
<1>4. (c - b) % Long \in 0 .. Long - 1
  <2>1. PICK d : d = c - b /\ d \in Int
    BY <1>2
  <2>2. d % Long \in 0 .. Long - 1
    BY <1>2, <2>1
  <2>3. QED
    BY <2>1, <2>2
<1>5. QED
  BY <1>1, <1>3, <1>4, KernelFacts DEF Measurement

LEMMA Batches ==
  ASSUME Shape
  PROVE  Batch \in Seq([x : Sizes, active : 0 .. Long - 1, idle : 0 .. Long - 1])
<1>1. PICK f, n : f = From /\ n = Len(key) - From /\ f \in Nat \ {0} /\ n \in Int /\ Len(key) = f + n
  <2>1. Len(key) \in Nat /\ totdis \in Nat
    BY ShapeFacts
  <2>2. From \in Nat \ {0}
    BY <2>1 DEF From
  <2>3. Len(key) - From \in Int /\ Len(key) = From + (Len(key) - From)
    BY <2>1, <2>2
  <2>4. QED
    BY <2>2, <2>3
<1>2. Batch = [i \in 1 .. n |-> Measurement(key[f + i - 1], key[f + i])]
  BY <1>1 DEF Batch
<1>3. ASSUME NEW i \in 1 .. n
      PROVE  Measurement(key[f + i - 1], key[f + i])
               \in [x : Sizes, active : 0 .. Long - 1, idle : 0 .. Long - 1]
  <2>1. f + i - 1 \in 1 .. Len(key) /\ f + i \in 1 .. Len(key)
    BY <1>1
  <2>2. QED
    BY <2>1, Measures, ShapeFacts
<1>4. CASE n >= 0
  BY <1>1, <1>2, <1>3, <1>4
<1>5. CASE n < 0
  <2>1. 1 .. n = 1 .. 0
    BY <1>1, <1>5
  <2>2. Batch = [i \in 1 .. 0 |-> Measurement(key[f + i - 1], key[f + i])]
    BY <1>2, <2>1
  <2>3. QED
    BY <2>2
<1>6. QED
  BY <1>1, <1>4, <1>5

LEMMA ShapeComes ==
  ASSUME Shape, EarlyBuffer \/ Read
  PROVE  Shape'
<1>1. PICK n \in Nat :
         /\ \E s \in Records(n) : Insert(s)
         /\ \/ EarlyBuffer /\ n = 1 /\ tot' = tot
            \/ Read /\ curr' = n /\ tot' = tot + n
  <2>1. CASE EarlyBuffer
    BY <2>1 DEF EarlyBuffer
  <2>2. CASE Read
    BY <2>2, BoundAssumption DEF Read
  <2>3. QED
    BY <2>1, <2>2
<1>2. PICK N : N = Len(raw)
  OBVIOUS
<1> PICK s \in Records(n) : Insert(s)
  BY <1>1
<1>3. /\ raw' \in Seq(Time) /\ keyraw' \in Seq(Kernels)
      /\ Len(raw') = N + n /\ Len(keyraw') = N + n /\ Distinct'
  BY <1>1, <1>2, Joined
<1>4. /\ UNCHANGED <<tup, key, totdis, idles, actives, sent, count, count2>>
      /\ pc = "idle" /\ pc' \in {"idle", "sort"}
  BY DEF EarlyBuffer, Read, Goto, resultVars, windowVars
<1>5. N \in Nat /\ tot \in Nat /\ curr \in Nat /\ tot <= N
  BY <1>2, ShapeFacts
<1>6. tot' \in Nat /\ curr' \in Nat /\ tot' <= N + n /\ (pc' = "sort" => curr' <= tot')
  BY <1>1, <1>4, <1>5 DEF EarlyBuffer
<1>7. readings' \in 0 .. MaxReadings
  BY BoundAssumption DEF Shape, TypeOK, EarlyBuffer, Read
<1>8. TypeOK'
  BY <1>3, <1>4, <1>6, <1>7 DEF Shape, TypeOK
<1>9. Lengths'
  BY <1>3, <1>4, <1>6 DEF Shape, Lengths, Processing, Separating
<1>10. Begun' /\ Searched'
  BY <1>4 DEF Begun, Searched, Separating
<1>11. QED
  BY <1>3, <1>8, <1>9, <1>10 DEF Shape

\* process leaves the records alone, but for sort.
LEMMA ProcessLeaves ==
  ASSUME Process
  PROVE  /\ UNCHANGED <<keyraw, tot, curr, readings, Offset>>
         /\ ~Sort => UNCHANGED raw
         /\ ~Measure => UNCHANGED <<totdis, idles, actives, sent>>
  BY DEF Process, Sort, Separate, Merge, Separated, Skip, Match, Measure, Undefined,
         Goto, Searching, recordVars, resultVars, windowVars, Offset

\* The steps that append an interval to tup.
LEMMA ShapeGrows ==
  ASSUME Shape, NEW t, Extended(t), UNCHANGED <<raw, keyraw, tot, curr, totdis, key>>,
         UNCHANGED <<idles, actives, sent, readings, count2>>, pc = "intervals", pc' = "intervals",
         count' \in Nat, count' > count, Offset + count' <= Len(raw)
  PROVE  Shape'
<1>1. Offset' = Offset
  BY DEF Offset
<1>2. tup' \in Seq(Time) /\ Len(tup') = Len(tup) + 1 /\ Len(tup) \in Nat \ {0}
  BY ShapeFacts DEF Extended, Shape, Lengths, Separating
<1>3. TypeOK'
  BY <1>2 DEF Shape, TypeOK
<1>4. Lengths'
  <2>1. /\ totdis < Len(tup) /\ Offset < Len(raw) /\ 1 <= count
        /\ Len(tup) - totdis <= count /\ Len(key) = totdis /\ curr <= tot
        /\ Len(raw) = Len(keyraw) /\ tot <= Len(keyraw)
    BY DEF Shape, Lengths, Processing, Separating
  <2>2. Len(tup') - totdis <= count' /\ Len(tup') - totdis <= Len(raw) - Offset /\ totdis < Len(tup')
    BY <1>2, <2>1, ShapeFacts
  <2>3. 1 <= count'
    BY <2>1, ShapeFacts
  <2>4. QED
    BY <1>1, <2>1, <2>2, <2>3 DEF Lengths, Processing, Separating
<1>5. Distinct'
  BY DEF Shape, Distinct, Staggered, Apart
<1>6. Begun' /\ Searched'
  <2>1. totdis + 1 \in 1 .. Len(tup)
    <3>1. totdis < Len(tup) /\ totdis \in Nat /\ Len(tup) \in Nat
      BY <1>2, ShapeCounts DEF Shape, Lengths, Separating
    <3>2. QED
      BY <3>1
  <2>2. tup'[totdis + 1].start = tup[totdis + 1].start
    BY <2>1 DEF Extended
  <2>3. QED
    BY <1>1, <2>2 DEF Shape, Begun, Searched, Separating
<1>7. QED
  BY <1>3, <1>4, <1>5, <1>6 DEF Shape

\* What Match finds.
LEMMA MatchGives ==
  ASSUME Shape, Match
  PROVE  /\ totdis + count2 + 1 \in 1 .. Len(keyraw) /\ Len(key) + 1 \in totdis + 1 .. Len(tup)
         /\ keyraw[totdis + count2 + 1].start = tup[Len(key) + 1].start
         /\ key' \in Seq(Kernels) /\ Len(key') = Len(key) + 1
         /\ \A i \in 1 .. Len(key) : key'[i] = key[i]
         /\ key'[Len(key) + 1] = keyraw[totdis + count2 + 1]
<1>1. PICK m : m = totdis + count2 + 1
  OBVIOUS
<1>2. m \in 1 .. Len(keyraw) /\ keyraw[m] \in Kernels
  BY <1>1, ShapeFacts DEF Match
<1>3. key \in Seq(Kernels) /\ key' = Append(key, keyraw[m])
  BY <1>1 DEF Match, Candidate, at, Shape, TypeOK
<1>4. /\ key' \in Seq(Kernels) /\ Len(key') = Len(key) + 1
      /\ \A i \in 1 .. Len(key) : key'[i] = key[i]
      /\ key'[Len(key) + 1] = keyraw[m]
  BY <1>2, <1>3, Appended
<1>5. Len(key) + 1 \in totdis + 1 .. Len(tup)
  BY ShapeFacts DEF Match, Searching, Count1, Disjoint, Shape, Lengths
<1>6. totdis + (Len(key) - totdis) + 1 = Len(key) + 1
  BY ShapeFacts
<1>7. keyraw[m].start = tup[Len(key) + 1].start
  BY <1>1, <1>6 DEF Match, Matches, Candidate, at, Count1
<1>8. QED
  BY <1>1, <1>2, <1>4, <1>5, <1>7

LEMMA ShapeProcess ==
  ASSUME Shape, Process
  PROVE  Shape'
<1>1. CASE Sort
  <2>1. Offset < Len(raw) /\ Arranged(raw', raw, Offset) /\ Extended(raw'[Offset + 1])
    BY <1>1, SortGives
  <2>2. /\ pc = "sort" /\ pc' = "intervals" /\ count' = 1 /\ Offset' = Offset
        /\ UNCHANGED <<keyraw, curr, key, totdis, tot, count2, idles, actives, sent, readings>>
    BY <1>1 DEF Sort, Goto, windowVars, Offset
  <2>3. TypeOK'
    BY <2>1, <2>2 DEF Shape, TypeOK, Arranged, Extended
  <2>4. Lengths'
    <3>1. Len(raw') = Len(raw) /\ Len(tup') = totdis + 1 /\ curr <= tot
      BY <2>1, <2>2 DEF Arranged, Extended, Shape, Lengths, Processing
    <3>2. Len(key') = totdis /\ Len(raw') = Len(keyraw') /\ tot' <= Len(keyraw')
      BY <2>2, <3>1 DEF Shape, Lengths
    <3>3. totdis < Len(tup') /\ Len(tup') - totdis = 1 /\ 1 <= Len(raw) - Offset /\ Offset + 1 <= Len(raw)
      BY <2>1, <2>2, <3>1, ShapeFacts
    <3>4. QED
      BY <2>1, <2>2, <3>1, <3>2, <3>3 DEF Lengths, Processing, Separating
  <2>5. Distinct'
    <3>1. ASSUME NEW p \in 1 .. Len(raw)
          PROVE  \E i \in 1 .. Len(raw) : raw'[p] = raw[i]
      <4>1. Offset \in Nat /\ Len(raw) \in Nat
        BY <2>2, ShapeFacts DEF Processing
      <4>2. CASE p <= Offset
        BY <2>1, <4>1, <4>2 DEF Arranged
      <4>3. CASE ~(p <= Offset)
        <5>1. p \in Offset + 1 .. Len(raw)
          BY <4>1, <4>3
        <5>2. PICK i \in Offset + 1 .. Len(raw) : raw'[p] = raw[i]
          BY <2>1, <5>1 DEF Arranged
        <5>3. QED
          BY <4>1, <5>2
      <4>4. QED
        BY <4>2, <4>3
    <3>2. QED
      BY <2>1, <2>2, <3>1 DEF Shape, Distinct, Staggered, Arranged
  <2>6. Begun' /\ Searched'
    <3>1. Len(raw') = Len(raw) /\ tup'[totdis + 1] = raw'[Offset + 1]
      BY <2>1, <2>2 DEF Arranged, Extended, Shape, Lengths
    <3>2. QED
      BY <2>1, <2>2, <3>1 DEF Begun, Searched, Arranged
  <2>7. QED
    BY <2>3, <2>4, <2>5, <2>6 DEF Shape
<1>2. CASE Separate
  <2>1. Extended(raw[totdis + count + 1])
    BY <1>2, SeparateGives
  <2>2. QED
    BY <1>2, <2>1, CountsOn, ShapeGrows DEF Separate, Goto, recordVars, windowVars
<1>3. CASE Merge
  <2>1. PICK t : Extended(t)
    BY <1>3, MergeGives
  <2>2. QED
    BY <1>3, <2>1, CountsOn, ShapeGrows DEF Merge, Goto, recordVars, windowVars
<1>4. CASE Separated
  <2>1. /\ pc = "intervals" /\ pc' = "search" /\ count2' = 0 /\ Offset' = Offset
        /\ UNCHANGED <<raw, keyraw, curr, tup, key, totdis, tot, count, idles, actives, sent, readings>>
    BY <1>4 DEF Separated, Goto, recordVars, resultVars, windowVars, Offset
  <2>2. TypeOK'
    BY <2>1 DEF Shape, TypeOK
  <2>3. Lengths' /\ Distinct' /\ Begun'
    <3>1. totdis <= Len(key) /\ Len(key) <= Len(tup)
      BY <2>1, ShapeFacts DEF Shape, Lengths, Separating
    <3>2. Lengths'
      BY <2>1, <3>1 DEF Shape, Lengths, Processing, Separating
    <3>3. QED
      BY <2>1, <3>2 DEF Shape, Distinct, Staggered, Apart, Begun, Separating
  <2>4. Searched'
    <3>1. totdis + 1 .. Len(key) = {}
      BY <2>1, ShapeFacts DEF Shape, Lengths
    <3>2. QED
      BY <2>1, <3>1 DEF Searched
  <2>5. QED
    BY <2>2, <2>3, <2>4 DEF Shape
<1>5. CASE Skip
  <2>1. /\ pc = "search" /\ pc' = "search" /\ count2' = count2 + 1 /\ Offset' = Offset
        /\ UNCHANGED <<raw, keyraw, curr, tup, key, totdis, tot, count, idles, actives, sent, readings>>
    BY <1>5 DEF Skip, Searching, recordVars, resultVars, windowVars, Offset
  <2>2. TypeOK'
    BY <2>1 DEF Shape, TypeOK
  <2>3. Lengths' /\ Distinct' /\ Begun'
    BY <2>1 DEF Shape, Lengths, Distinct, Staggered, Apart, Begun, Processing, Separating
  <2>4. Searched'
    <3>1. \A j \in 1 .. Len(keyraw) : j <= totdis + count2 => j <= totdis + count2 + 1
      BY ShapeFacts
    <3>2. totdis' + count2' = totdis + count2 + 1
      BY <2>1, ShapeFacts
    <3>3. QED
      BY <2>1, <3>1, <3>2 DEF Shape, Searched
  <2>5. QED
    BY <2>2, <2>3, <2>4 DEF Shape
<1>6. CASE Match
  <2>1. /\ pc = "search" /\ pc' = "search" /\ count2' = count2 + 1 /\ Offset' = Offset
        /\ UNCHANGED <<raw, keyraw, curr, tup, totdis, tot, count, idles, actives, sent, readings>>
    BY <1>6 DEF Match, Searching, recordVars, windowVars, Offset
  <2>2. PICK m : m = totdis + count2 + 1
    OBVIOUS
  <2>3. /\ m \in 1 .. Len(keyraw) /\ Len(key) + 1 \in totdis + 1 .. Len(tup)
        /\ keyraw[m].start = tup[Len(key) + 1].start
        /\ key' \in Seq(Kernels) /\ Len(key') = Len(key) + 1
        /\ \A i \in 1 .. Len(key) : key'[i] = key[i]
        /\ key'[Len(key) + 1] = keyraw[m]
    BY <1>6, <2>2, MatchGives
  <2>4. TypeOK'
    BY <2>1, <2>3 DEF Shape, TypeOK
  <2>5. Lengths' /\ Distinct' /\ Begun'
    <3>1. totdis <= Len(key') /\ Len(key') <= Len(tup)
      BY <2>1, <2>3, ShapeFacts DEF Shape, Lengths
    <3>2. Lengths'
      BY <2>1, <3>1 DEF Shape, Lengths, Processing, Separating
    <3>3. QED
      BY <2>1, <3>2 DEF Shape, Distinct, Staggered, Apart, Begun, Separating
  <2>6. Searched'
    <3>1. ASSUME NEW i \in totdis + 1 .. Len(key')
          PROVE  /\ key'[i].start = tup[i].start
                 /\ \E j \in 1 .. Len(keyraw) : j <= totdis + count2 + 1 /\ key'[i] = keyraw[j]
      <4>1. CASE i = Len(key) + 1
        BY <2>2, <2>3, <4>1, ShapeFacts
      <4>2. CASE i # Len(key) + 1
        <5>1. i \in totdis + 1 .. Len(key) /\ i \in 1 .. Len(key)
          BY <2>3, <4>2, ShapeFacts
        <5>2. PICK j \in 1 .. Len(keyraw) : j <= totdis + count2 /\ key[i] = keyraw[j]
          BY <2>1, <5>1 DEF Shape, Searched
        <5>3. j <= totdis + count2 + 1
          BY <5>2, ShapeFacts
        <5>4. QED
          BY <2>1, <2>3, <5>1, <5>2, <5>3 DEF Shape, Searched
      <4>3. QED
        BY <4>1, <4>2
    <3>2. totdis' + count2' = totdis + count2 + 1
      BY <2>1, ShapeFacts
    <3>3. QED
      BY <2>1, <3>1, <3>2 DEF Searched
  <2>7. QED
    BY <2>4, <2>5, <2>6 DEF Shape
<1>7. CASE Measure
  <2>1. /\ pc = "search" /\ pc' = "idle"
        /\ UNCHANGED <<raw, keyraw, curr, tup, key, tot, count, count2, readings>>
    BY <1>7 DEF Measure, Goto, recordVars
  <2>2. totdis' = Len(tup) /\ totdis' = Len(key) /\ totdis' \in Nat
    BY <1>7, ShapeFacts DEF Measure, Count1, Disjoint
  <2>3. ASSUME NEW field \in {"idle", "active"}, NEW table \in [Sizes -> SUBSET (0 .. Long - 1)]
        PROVE  Written(table, field) \in [Sizes -> SUBSET (0 .. Long - 1)]
    <3>1. PICK b : b = Batch
      OBVIOUS
    <3>2. b \in Seq([x : Sizes, active : 0 .. Long - 1, idle : 0 .. Long - 1])
      BY <3>1, Batches
    <3>3. \A i \in 1 .. Len(b) : b[i][field] \in 0 .. Long - 1
      <4>1. ASSUME NEW i \in 1 .. Len(b)
            PROVE  b[i].active \in 0 .. Long - 1 /\ b[i].idle \in 0 .. Long - 1
        <5>1. b[i] \in [x : Sizes, active : 0 .. Long - 1, idle : 0 .. Long - 1]
          BY <3>2, ElementOfSeq
        <5>2. QED
          BY <5>1
      <4>2. QED
        BY <4>1
    <3>4. \A x \in Sizes : {b[i][field] : i \in {j \in 1 .. Len(b) : b[j].x = x}} \subseteq 0 .. Long - 1
      BY <3>3
    <3>5. QED
      BY <3>1, <3>4 DEF Written
  <2>4. idles' \in [Sizes -> SUBSET (0 .. Long - 1)] /\ actives' \in [Sizes -> SUBSET (0 .. Long - 1)]
    BY <1>7, <2>3 DEF Measure, Shape, TypeOK
  <2>5. sent' \in Seq([x : Sizes, active : 0 .. Long - 1, idle : 0 .. Long - 1])
    BY <1>7, Batches, ConcatProperties DEF Measure, Shape, TypeOK
  <2>6. TypeOK'
    BY <2>1, <2>2, <2>4, <2>5 DEF Shape, TypeOK
  <2>7. Lengths' /\ Distinct'
    BY <2>1, <2>2 DEF Shape, Lengths, Distinct, Staggered, Apart, Processing, Separating
  <2>8. Begun' /\ Searched'
    BY <2>1 DEF Begun, Searched, Separating
  <2>9. QED
    BY <2>6, <2>7, <2>8 DEF Shape
<1>8. CASE Undefined
  <2>1. /\ pc' = "undefined"
        /\ UNCHANGED <<raw, keyraw, curr, tup, key, totdis, tot, count, count2, idles, actives, sent, readings>>
    BY <1>8 DEF Undefined, recordVars, resultVars, windowVars
  <2>2. TypeOK'
    BY <2>1 DEF Shape, TypeOK
  <2>3. Lengths' /\ Distinct'
    BY <2>1 DEF Shape, Lengths, Distinct, Staggered, Apart, Processing, Separating
  <2>4. Begun' /\ Searched'
    BY <2>1 DEF Begun, Searched, Separating
  <2>5. QED
    BY <2>2, <2>3, <2>4 DEF Shape
<1>9. QED
  BY <1>1, <1>2, <1>3, <1>4, <1>5, <1>6, <1>7, <1>8 DEF Process

LEMMA ShapeHolds == Spec => []Shape
<1>1. Init => Shape
  <2> SUFFICES ASSUME Init PROVE Shape
    OBVIOUS
  <2>1. /\ <<>> \in Seq(Time) /\ <<>> \in Seq(Kernels) /\ Len(<<>>) = 0
        /\ <<>> \in Seq([x : Sizes, active : 0 .. Long - 1, idle : 0 .. Long - 1])
    BY EmptySeq
  <2>2. 0 \in 0 .. MaxReadings
    BY BoundAssumption
  <2>3. TypeOK
    BY <2>1, <2>2 DEF Init, TypeOK
  <2>4. QED
    BY <2>1, <2>3
       DEF Init, Shape, Lengths, Distinct, Staggered, Apart, Begun, Searched, Processing, Separating
<1>2. Shape /\ [Next]_vars => Shape'
  <2>1. ASSUME Shape, UNCHANGED vars
        PROVE  Shape'
    BY <2>1 DEF vars, recordVars, resultVars, windowVars, Shape, TypeOK, Lengths, Distinct,
                Staggered, Apart, Begun, Searched, Processing, Separating, Offset
  <2>2. QED
    BY <2>1, ShapeComes, ShapeProcess DEF Next
<1>3. QED
  BY <1>1, <1>2, PTL DEF Spec

\* Every variable holds what its type in the code does, in whatever order the
\* records come and whatever overlaps: the lengths of the vectors and process's
\* indices into them fit (CuptiProfiler.cpp:146-262), and nothing but values of
\* an unsigned long gets into Window's tables and the batches.
THEOREM TypeCorrect == Spec => []TypeOK
<1>1. Shape => TypeOK
  BY DEF Shape
<1>2. QED
  BY <1>1, ShapeHolds, PTL

-----------------------------------------------------------------------------
(* What the records have to be for the properties *)

\* Records only come: InOrder, Short, Staggered and Counted can become false, never true.
LEMMA RecordsKept ==
  ASSUME Shape, [Next]_vars
  PROVE  /\ Len(keyraw) <= Len(keyraw')
         /\ \A i \in 1 .. Len(keyraw) : keyraw'[i] = keyraw[i]
         /\ Distinct'
<1>1. CASE EarlyBuffer \/ Read
  <2>1. PICK n \in Nat : \E s \in Records(n) : Insert(s)
    BY <1>1, BoundAssumption DEF EarlyBuffer, Read
  <2>2. PICK s \in Records(n) : Insert(s)
    BY <2>1
  <2>3. PICK N : N = Len(raw)
    OBVIOUS
  <2>4. Len(keyraw') = N + n /\ (\A i \in 1 .. N : keyraw'[i] = keyraw[i]) /\ Distinct'
    BY <2>2, <2>3, Joined
  <2>5. N = Len(keyraw) /\ N \in Nat
    BY <2>3, ShapeFacts
  <2>6. QED
    BY <2>4, <2>5
<1>2. CASE Process
  <2>1. keyraw' = keyraw /\ Shape'
    BY <1>2, ProcessLeaves, ShapeProcess
  <2>2. Len(keyraw) <= Len(keyraw)
    BY ShapeFacts
  <2>3. QED
    BY <2>1, <2>2 DEF Shape
<1>3. CASE UNCHANGED vars
  <2>1. keyraw' = keyraw /\ raw' = raw /\ Len(keyraw) <= Len(keyraw)
    BY <1>3, ShapeFacts DEF vars, recordVars
  <2>2. QED
    BY <2>1 DEF Shape, Distinct, Staggered, Apart
<1>4. QED
  BY <1>1, <1>2, <1>3 DEF Next

LEMMA ConditionsLast ==
  ASSUME Shape, [Next]_vars
  PROVE  /\ Counted' => Counted /\ ~EarlyBuffer
         /\ InOrder' => InOrder
         /\ Short' => Short
         /\ Staggered' => Staggered
<1>1. \A i \in 1 .. Len(keyraw) : i \in 1 .. Len(keyraw') /\ keyraw'[i] = keyraw[i]
  BY RecordsKept, ShapeFacts, LenProperties
<1>2. (InOrder' => InOrder) /\ (Short' => Short) /\ (Staggered' => Staggered)
  BY <1>1 DEF InOrder, Short, Staggered
<1>3. ASSUME Counted', NEW n \in Nat, NEW s \in Records(n), Insert(s), tot' <= tot + n
      PROVE  Counted /\ tot' = tot + n
  <2>1. PICK N : N = Len(raw)
    OBVIOUS
  <2>2. Len(keyraw') = N + n /\ N = Len(keyraw) /\ N \in Nat /\ tot \in Nat /\ tot <= N
    BY <1>3, <2>1, Joined, ShapeFacts
  <2>3. QED
    BY <1>3, <2>2 DEF Counted
<1>4. CASE EarlyBuffer
  <2>1. PICK s \in Records(1) : Insert(s) /\ tot' = tot
    BY <1>4 DEF EarlyBuffer
  <2>2. tot \in Nat /\ tot' <= tot + 1
    BY <2>1, ShapeFacts
  <2>3. ~Counted'
    BY <1>3, <2>1, <2>2
  <2>4. QED
    BY <1>2, <2>3
<1>5. CASE Read
  <2>1. PICK n \in 0 .. MaxBatch : \E s \in Records(n) : Insert(s) /\ tot' = tot + n
    BY <1>5 DEF Read
  <2>2. n \in Nat /\ tot' <= tot + n
    BY <2>1, BoundAssumption, ShapeFacts
  <2>3. Counted' => Counted
    BY <1>3, <2>1, <2>2
  <2>4. QED
    BY <1>2, <1>4, <2>3
<1>6. CASE Process \/ UNCHANGED vars
  <2>1. UNCHANGED <<keyraw, tot>>
    BY <1>6, ProcessLeaves DEF vars, recordVars
  <2>2. QED
    BY <1>2, <1>4, <2>1 DEF Counted
<1>7. QED
  BY <1>4, <1>5, <1>6 DEF Next

-----------------------------------------------------------------------------
(* Kernels are found in the order their records came in *)

FoundInTurn ==
    /\ \A i \in 1 .. Len(key) : \E m \in 1 .. Len(keyraw) : key[i] = keyraw[m]
    /\ \A i, j \in 1 .. Len(key) : \A m, n \in 1 .. Len(keyraw) :
          i < j /\ key[i] = keyraw[m] /\ key[j] = keyraw[n] => m < n
    /\ Processing =>
          \A i \in 1 .. totdis : \A m \in 1 .. Len(keyraw) : key[i] = keyraw[m] => m <= Offset
    /\ pc = "sort" => \A i \in Offset + 1 .. Len(raw) : raw[i] = Interval(keyraw[i])
    /\ Separating =>
          \E j \in Offset + 1 .. Len(keyraw) : raw[Offset + 1].start = keyraw[j].start

InTurn == Counted /\ Staggered => FoundInTurn

LEMMA InTurnRead ==
  ASSUME Shape, Counted, FoundInTurn, Read
  PROVE  FoundInTurn'
<1>1. PICK n \in 0 .. MaxBatch : \E s \in Records(n) : Insert(s) /\ curr' = n /\ tot' = tot + n
  BY DEF Read
<1>2. PICK s \in Records(n) : Insert(s)
  BY <1>1
<1>3. PICK N : N = Len(raw)
  OBVIOUS
<1>4. n \in Nat /\ N \in Nat /\ tot = N /\ Len(keyraw) = N
  BY <1>1, <1>3, BoundAssumption, ShapeFacts DEF Counted
<1>5. /\ Len(raw') = N + n /\ Len(keyraw') = N + n
      /\ \A i \in 1 .. N : keyraw'[i] = keyraw[i]
      /\ \A i \in N + 1 .. N + n : raw'[i] = Interval(keyraw'[i])
      /\ Distinct'
  BY <1>2, <1>3, <1>4, Joined
<1>6. key' = key /\ totdis' = totdis /\ pc' = "sort" /\ Offset' = N
  BY <1>1, <1>4 DEF Read, Goto, resultVars, Offset
<1>7. totdis \in Nat /\ totdis = Len(key)
  BY ShapeFacts DEF Read, Goto, Shape, Lengths
<1>8. ASSUME NEW i \in 1 .. Len(key), NEW m \in 1 .. N + n, key[i] = keyraw'[m]
      PROVE  m \in 1 .. N /\ key[i] = keyraw[m]
  <2>1. PICK l \in 1 .. N : key[i] = keyraw[l]
    BY <1>4 DEF FoundInTurn
  <2>2. l \in 1 .. N + n /\ keyraw'[l] = keyraw'[m]
    BY <1>4, <1>5, <1>8, <2>1
  <2>3. QED
    BY <1>5, <2>1, <2>2 DEF Distinct
<1>9. \A i \in 1 .. Len(key) : \E m \in 1 .. N + n : key[i] = keyraw'[m]
  <2>1. \A m \in 1 .. N : m \in 1 .. N + n
    BY <1>4
  <2>2. QED
    BY <1>4, <1>5, <2>1 DEF FoundInTurn
<1>10. ASSUME NEW i \in 1 .. Len(key), NEW j \in 1 .. Len(key),
              NEW m \in 1 .. N + n, NEW l \in 1 .. N + n,
              i < j, key[i] = keyraw'[m], key[j] = keyraw'[l]
       PROVE  m < l
  <2>1. /\ m \in 1 .. N /\ key[i] = keyraw[m]
        /\ l \in 1 .. N /\ key[j] = keyraw[l]
    BY <1>8, <1>10
  <2>2. QED
    BY <1>4, <1>10, <2>1 DEF FoundInTurn
<1>11. \A i \in 1 .. totdis : \A m \in 1 .. N + n : key[i] = keyraw'[m] => m <= N
  BY <1>4, <1>7, <1>8
<1>12. QED
  BY <1>5, <1>6, <1>9, <1>10, <1>11 DEF FoundInTurn, Separating

\* The next kernel found comes behind those found before.
LEMMA InTurnMatch ==
  ASSUME Shape, Staggered, FoundInTurn, Match,
         NEW q, q = totdis + count2 + 1,
         NEW i \in 1 .. Len(key), NEW m \in 1 .. Len(keyraw), key[i] = keyraw[m]
  PROVE  m < q
<1>1. /\ q \in 1 .. Len(keyraw) /\ Len(key) + 1 \in totdis + 1 .. Len(tup)
      /\ keyraw[q].start = tup[Len(key) + 1].start
  BY MatchGives
<1>2. /\ totdis \in Nat /\ Len(key) \in Nat /\ totdis <= Len(key) /\ count2 \in Nat
      /\ pc = "search" /\ Offset \in Nat /\ Len(keyraw) \in Nat
  BY <1>1, ShapeFacts DEF Match, Searching, Processing
<1>3. ASSUME NEW h \in totdis + 1 .. Len(key)
      PROVE  \E l \in 1 .. Len(keyraw) : key[h] = keyraw[l] /\ l < q
  <2>1. PICK l \in 1 .. Len(keyraw) : l <= totdis + count2 /\ key[h] = keyraw[l]
    BY <1>2 DEF Shape, Searched
  <2>2. l < q
    BY <1>2, <2>1
  <2>3. QED
    BY <2>1, <2>2
<1>4. CASE i > totdis
  <2>1. i \in totdis + 1 .. Len(key)
    BY <1>2, <1>4
  <2>2. PICK l \in 1 .. Len(keyraw) : key[i] = keyraw[l] /\ l < q
    BY <1>3, <2>1
  <2>3. l = m
    BY <2>2 DEF Shape, Distinct
  <2>4. QED
    BY <2>2, <2>3
<1>5. CASE i <= totdis /\ totdis < Len(key)
  <2>1. totdis + 1 \in totdis + 1 .. Len(key) /\ totdis + 1 \in 1 .. Len(key) /\ i < totdis + 1
    BY <1>2, <1>5
  <2>2. PICK l \in 1 .. Len(keyraw) : key[totdis + 1] = keyraw[l] /\ l < q
    BY <1>3, <2>1
  <2>3. m < l
    BY <2>1, <2>2 DEF FoundInTurn
  <2>4. QED
    BY <1>1, <2>2, <2>3
<1>6. CASE i <= totdis /\ totdis = Len(key)
  <2>1. m <= Offset
    <3>1. i \in 1 .. totdis
      BY <1>6
    <3>2. QED
      BY <1>2, <3>1 DEF FoundInTurn, Processing
  <2>2. PICK j \in Offset + 1 .. Len(keyraw) : raw[Offset + 1].start = keyraw[j].start
    BY <1>2 DEF FoundInTurn, Separating
  <2>3. keyraw[q].start = keyraw[j].start
    BY <1>1, <1>2, <1>6, <2>2 DEF Shape, Begun, Separating
  <2>4. j \in 1 .. Len(keyraw)
    BY <1>2, <2>2
  <2>7. q = j
    BY <1>1, <2>3, <2>4 DEF Staggered
  <2>8. QED
    BY <1>2, <2>1, <2>2, <2>7
<1>7. QED
  BY <1>2, <1>4, <1>5, <1>6

LEMMA InTurnProcess ==
  ASSUME Shape, Staggered, FoundInTurn, Process
  PROVE  FoundInTurn'
<1>1. UNCHANGED <<keyraw, Offset>> /\ (~Sort => UNCHANGED raw) /\ (~Measure => UNCHANGED totdis)
  BY ProcessLeaves
<1>2. CASE Sort
  <2>1. Arranged(raw', raw, Offset) /\ Offset < Len(raw)
    BY <1>2, SortGives
  <2>2. key' = key /\ totdis' = totdis /\ pc = "sort" /\ pc' = "intervals"
    BY <1>2 DEF Sort, Goto
  <2>3. Offset + 1 \in Offset + 1 .. Len(raw) /\ Len(raw) = Len(keyraw)
    BY <2>1, <2>2, ShapeFacts DEF Processing
  <2>4. PICK i \in Offset + 1 .. Len(raw) : raw'[Offset + 1] = raw[i]
    BY <2>1, <2>3 DEF Arranged
  <2>5. raw'[Offset + 1].start = keyraw[i].start
    <3>1. raw[i] = Interval(keyraw[i])
      BY <2>2 DEF FoundInTurn
    <3>2. QED
      BY <2>4, <3>1 DEF Interval
  <2>6. QED
    BY <1>1, <2>2, <2>3, <2>5 DEF FoundInTurn, Processing, Separating
<1>3. CASE Match
  <2>1. PICK q : q = totdis + count2 + 1
    OBVIOUS
  <2>2. /\ q \in 1 .. Len(keyraw) /\ Len(key') = Len(key) + 1
        /\ \A i \in 1 .. Len(key) : key'[i] = key[i]
        /\ key'[Len(key) + 1] = keyraw[q]
        /\ Len(key) + 1 \in totdis + 1 .. Len(tup)
    BY <1>3, <2>1, MatchGives
  <2>3. \A i \in 1 .. Len(key) : \A m \in 1 .. Len(keyraw) : key[i] = keyraw[m] => m < q
    BY <1>3, <2>1, InTurnMatch
  <2>4. pc = "search" /\ pc' = "search" /\ raw' = raw
    BY <1>3 DEF Match, Searching, recordVars
  <2>5. Len(key) \in Nat /\ totdis \in Nat /\ totdis <= Len(key)
    BY <2>2, ShapeFacts
  <2>6. \A i \in 1 .. Len(key') : i \in 1 .. Len(key) \/ i = Len(key) + 1
    BY <2>2, <2>5
  <2>7. \A i \in 1 .. Len(key') : \E m \in 1 .. Len(keyraw) : key'[i] = keyraw[m]
    BY <2>2, <2>6 DEF FoundInTurn
  <2>8. ASSUME NEW i \in 1 .. Len(key'), NEW j \in 1 .. Len(key'),
               NEW m \in 1 .. Len(keyraw), NEW n \in 1 .. Len(keyraw),
               i < j, key'[i] = keyraw[m], key'[j] = keyraw[n]
        PROVE  m < n
    <3>1. CASE j \in 1 .. Len(key)
      <4>1. i \in 1 .. Len(key)
        BY <2>5, <2>8, <3>1
      <4>2. QED
        BY <2>2, <2>8, <3>1, <4>1 DEF FoundInTurn
    <3>2. CASE j = Len(key) + 1
      <4>1. i \in 1 .. Len(key)
        BY <2>5, <2>8, <3>2
      <4>2. n = q
        BY <2>2, <2>8, <3>2 DEF Shape, Distinct
      <4>3. QED
        BY <2>2, <2>3, <2>8, <4>1, <4>2
    <3>3. QED
      BY <2>6, <3>1, <3>2
  <2>9. \A i \in 1 .. totdis : key'[i] = key[i]
    BY <2>2, <2>5
  <2>10. ~Measure
    BY <2>4 DEF Measure, Goto
  <2>11. totdis' = totdis /\ keyraw' = keyraw /\ Offset' = Offset
    BY <1>1, <2>10
  <2>12. \A i \in 1 .. totdis : \A m \in 1 .. Len(keyraw) : key'[i] = keyraw[m] => m <= Offset
    BY <2>4, <2>9 DEF FoundInTurn, Processing
  <2>13. \E j \in Offset + 1 .. Len(keyraw) : raw[Offset + 1].start = keyraw[j].start
    BY <2>4 DEF FoundInTurn, Separating
  <2>14. QED
    BY <2>4, <2>7, <2>8, <2>11, <2>12, <2>13 DEF FoundInTurn
<1>4. CASE ~Sort /\ ~Match
  <2>1. UNCHANGED <<key, raw>> /\ pc' # "sort"
    BY <1>4 DEF Process, Separate, Merge, Separated, Skip, Measure, Undefined, Goto,
                Searching, recordVars, resultVars
  <2>2. pc' \in {"intervals", "search"} => UNCHANGED totdis /\ Processing /\ Separating
    BY <1>4 DEF Process, Separate, Merge, Separated, Skip, Measure, Undefined, Goto,
                Searching, resultVars, Processing, Separating
  <2>3. QED
    BY <1>1, <2>1, <2>2 DEF FoundInTurn, Processing, Separating
<1>5. QED
  BY <1>2, <1>3, <1>4

\* No kernel is measured twice, in whatever order records come and whatever
\* overlaps, when every record comes during a flush and no two kernels start at
\* once: the search goes on behind the record it found last, and a reading finds
\* its first kernel among its own records (CuptiProfiler.cpp:207-221).
THEOREM KernelOnceCorrect == Spec => []KernelOnce
<1>1. Init => InTurn
  BY EmptySeq DEF Init, InTurn, FoundInTurn, Processing, Separating
<1>2. Shape /\ InTurn /\ [Next]_vars => InTurn'
  <2>1. ASSUME Shape, InTurn, [Next]_vars, Counted', Staggered'
        PROVE  FoundInTurn'
    <3>1. Counted /\ Staggered /\ FoundInTurn /\ ~EarlyBuffer
      BY <2>1, ConditionsLast DEF InTurn
    <3>2. CASE UNCHANGED vars
      BY <3>1, <3>2 DEF vars, recordVars, resultVars, FoundInTurn, Processing, Separating, Offset
    <3>3. QED
      BY <2>1, <3>1, <3>2, InTurnRead, InTurnProcess DEF Next
  <2>2. QED
    BY <2>1 DEF InTurn
<1>3. Shape /\ InTurn => KernelOnce
  <2> SUFFICES ASSUME Shape, FoundInTurn, NEW i \in 1 .. Len(key), NEW j \in 1 .. Len(key),
                      key[i] = key[j]
               PROVE  i = j
    BY DEF InTurn, KernelOnce
  <2>1. PICK m \in 1 .. Len(keyraw) : key[i] = keyraw[m]
    BY DEF FoundInTurn
  <2>2. ~(i < j) /\ ~(j < i)
    <3>1. ~(m < m)
      BY ShapeFacts
    <3>2. QED
      BY <2>1, <3>1 DEF FoundInTurn
  <2>3. QED
    BY <2>2, ShapeFacts
<1>4. QED
  BY <1>1, <1>2, <1>3, ShapeHolds, PTL DEF Spec

-----------------------------------------------------------------------------
(* Kernels that overlap *)

\* Of records that come in order sort moves none.
RawOrdered == InOrder => \A i \in 1 .. Len(raw) : raw[i] = Interval(keyraw[i])

LEMMA RawOrderedStep ==
  ASSUME Shape, RawOrdered, [Next]_vars
  PROVE  RawOrdered'
<1> SUFFICES ASSUME InOrder'
             PROVE  \A i \in 1 .. Len(raw') : raw'[i] = Interval(keyraw'[i])
  BY DEF RawOrdered
<1>1. InOrder /\ \A i \in 1 .. Len(raw) : raw[i] = Interval(keyraw[i])
  BY ConditionsLast DEF RawOrdered
<1>2. CASE EarlyBuffer \/ Read
  <2>1. PICK n \in Nat : \E s \in Records(n) : Insert(s)
    BY <1>2, BoundAssumption DEF EarlyBuffer, Read
  <2>2. PICK s \in Records(n) : Insert(s)
    BY <2>1
  <2>3. PICK N : N = Len(raw)
    OBVIOUS
  <2>4. /\ Len(raw') = N + n
        /\ \A i \in 1 .. N : raw'[i] = raw[i] /\ keyraw'[i] = keyraw[i]
        /\ \A i \in N + 1 .. N + n : raw'[i] = Interval(keyraw'[i])
    BY <2>2, <2>3, Joined
  <2>5. \A i \in 1 .. N + n : i \in 1 .. N \/ i \in N + 1 .. N + n
    BY <2>3, ShapeFacts
  <2>6. QED
    BY <1>1, <2>3, <2>4, <2>5
<1>3. CASE Sort
  <2>1. ASSUME NEW i \in 1 .. Len(raw), NEW j \in 1 .. Len(raw), i < j
        PROVE  Before(raw[i], raw[j])
    <3>1. keyraw[i].start < keyraw[j].start
      BY <1>1, <2>1, ShapeFacts DEF InOrder
    <3>2. raw[i] = Interval(keyraw[i]) /\ raw[j] = Interval(keyraw[j])
      BY <1>1
    <3>3. raw[i].start = keyraw[i].start /\ raw[j].start = keyraw[j].start
      BY <3>2 DEF Interval
    <3>4. QED
      BY <3>1, <3>3 DEF Before
  <2>2. raw \in Seq(Time) /\ Offset \in 0 .. Len(raw) /\ Ordered(raw)
    <3>1. Offset \in Nat /\ Offset <= Len(raw) /\ Len(raw) \in Nat /\ raw \in Seq(Time)
      BY <1>3, ShapeFacts DEF Sort, Goto, Processing, Shape, TypeOK
    <3>2. QED
      BY <2>1, <3>1 DEF Ordered
  <2>3. raw' = raw /\ keyraw' = keyraw
    BY <1>3, <2>2, SortKeeps DEF Sort
  <2>4. QED
    BY <1>1, <2>3
<1>4. CASE Process /\ ~Sort
  BY <1>1, <1>4, ProcessLeaves
<1>5. CASE UNCHANGED vars
  BY <1>1, <1>5 DEF vars, recordVars
<1>6. QED
  BY <1>2, <1>3, <1>4, <1>5 DEF Next

\* No more intervals than records have been found, and as long as there has been
\* but one record its interval has been.
Starting ==
    /\ pc = "idle" => totdis <= tot /\ (tot = 1 => totdis = 1)
    /\ Processing => totdis <= Offset /\ (Offset = 1 => totdis = 1)

\* The intervals of a reading rise, each begins with one of its records, and
\* the records the search has passed begin before those it has yet to find.
Risen ==
    Separating =>
        /\ \A i \in totdis + 1 .. Len(tup) :
              /\ tup[i].start <= tup[i].end
              /\ \E j \in Offset + 1 .. Len(keyraw) : keyraw[j].start = tup[i].start
        /\ \A i, j \in totdis + 1 .. Len(tup) : i < j => tup[i].start < tup[j].start
Passed ==
    pc = "search" =>
        \A i \in Len(key) + 1 .. Len(tup) : \A j \in totdis + 1 .. totdis + count2 :
            j <= Len(keyraw) /\ keyraw[j].start < tup[i].start
Searchable ==
    /\ Offset < 2 => Risen /\ Passed
    /\ pc = "undefined" => curr = 0 \/ Offset >= 2

OInv == Counted => Starting /\ (InOrder /\ Short => Searchable)

LEMMA StartingStep ==
  ASSUME Shape, Counted, Starting, [Next]_vars, ~EarlyBuffer
  PROVE  Starting'
<1>1. CASE Read
  <2>1. pc = "idle" /\ pc' = "sort" /\ totdis' = totdis
    BY <1>1 DEF Read, Goto, resultVars
  <2>2. PICK n \in 0 .. MaxBatch : curr' = n /\ tot' = tot + n
    BY <1>1 DEF Read
  <2>3. Offset' = tot
    BY <2>2, BoundAssumption, ShapeFacts DEF Offset
  <2>4. QED
    BY <2>1, <2>3 DEF Starting
<1>2. CASE Measure
  <2>1. pc = "search" /\ pc' = "idle" /\ tot' = tot /\ totdis' = totdis + (Len(tup) - totdis)
    BY <1>2 DEF Measure, Goto, Disjoint
  <2>2. PICK o, l : o = Offset /\ l = Len(tup)
    OBVIOUS
  <2>3. /\ o \in Nat /\ l \in Nat /\ totdis \in Nat /\ tot \in Nat /\ totdis' = l
        /\ totdis < l /\ o < tot /\ l - totdis <= tot - o
        /\ totdis <= o
    BY <2>1, <2>2, ShapeFacts DEF Shape, Lengths, Processing, Separating, Starting, Counted
  <2>4. l <= tot /\ (tot = 1 => l = 1)
    BY <2>3
  <2>5. QED
    BY <2>1, <2>3, <2>4 DEF Starting, Processing
<1>3. CASE Process /\ ~Measure
  <2>1. UNCHANGED <<totdis, Offset>>
    BY <1>3, ProcessLeaves
  <2>2. Processing' => Processing
    BY <1>3 DEF Process, Sort, Separate, Merge, Separated, Skip, Match, Undefined, Goto,
                Searching, Processing
  <2>3. pc' # "idle"
    BY <1>3 DEF Process, Sort, Separate, Merge, Separated, Skip, Match, Undefined, Goto,
                Searching
  <2>4. QED
    BY <2>1, <2>2, <2>3 DEF Starting
<1>4. CASE UNCHANGED vars
  BY <1>4 DEF vars, recordVars, resultVars, Starting, Processing, Offset
<1>5. QED
  BY <1>1, <1>2, <1>3, <1>4 DEF Next

\* An interval is appended that begins with a record behind the last one's end.
LEMMA RisenGrows ==
  ASSUME Shape, Risen, pc = "intervals", NEW t \in Time, Extended(t),
         t.start <= t.end, tup[Len(tup)].end < t.start,
         \E j \in Offset + 1 .. Len(keyraw) : keyraw[j].start = t.start,
         UNCHANGED <<keyraw, totdis, Offset>>
  PROVE  Risen'
<1>1. PICK L : L = Len(tup)
  OBVIOUS
<1>2. L \in Nat /\ totdis \in Nat /\ totdis < L
  BY <1>1, ShapeFacts DEF Shape, Lengths, Separating
<1>3. /\ Len(tup') = L + 1 /\ tup'[L + 1] = t
      /\ \A i \in totdis + 1 .. L :
            /\ tup'[i].start = tup[i].start /\ tup[i].end <= tup'[i].end
            /\ tup[i].start \in Nat /\ tup[i].end \in Nat /\ tup'[i].end \in Nat
  <2>1. \A i \in totdis + 1 .. L : i \in 1 .. L /\ i \in 1 .. L + 1
    BY <1>2
  <2>2. \A i \in 1 .. L + 1 : tup'[i] \in Time
    BY <1>1, <1>2, ElementOfSeq DEF Extended
  <2>3. QED
    BY <1>1, <2>1, <2>2, ShapeFacts DEF Extended, Time
<1>4. \A i \in totdis + 1 .. L + 1 : i \in totdis + 1 .. L \/ i = L + 1
  BY <1>2
<1>5. t.start \in Nat /\ t.end \in Nat
  BY DEF Time
<1>6. L \in totdis + 1 .. L
  BY <1>2
<1>7. ASSUME NEW i \in totdis + 1 .. L
      PROVE  /\ tup[i].start <= tup[i].end
             /\ \E j \in Offset + 1 .. Len(keyraw) : keyraw[j].start = tup[i].start
             /\ tup[i].start < t.start
  <2>1. /\ tup[i].start <= tup[i].end
        /\ \E j \in Offset + 1 .. Len(keyraw) : keyraw[j].start = tup[i].start
        /\ tup[L].start <= tup[L].end
        /\ i < L => tup[i].start < tup[L].start
    BY <1>1, <1>6 DEF Risen, Separating
  <2>2. PICK a, b, c, d : a = tup[i].start /\ b = tup[L].start /\ c = tup[L].end /\ d = t.start
    OBVIOUS
  <2>3. a \in Nat /\ b \in Nat /\ c \in Nat /\ d \in Nat
    BY <1>3, <1>5, <1>6, <2>2
  <2>4. b <= c /\ c < d
    BY <1>1, <2>1, <2>2
  <2>5. i = L \/ i < L
    BY <1>2
  <2>6. a = b \/ a < b
    BY <2>1, <2>2, <2>5
  <2>7. a < d
    BY ONLY <2>3, <2>4, <2>6
  <2>8. QED
    BY <2>1, <2>2, <2>7
<1>8. ASSUME NEW i \in totdis + 1 .. L + 1
      PROVE  /\ tup'[i].start <= tup'[i].end
             /\ \E j \in Offset + 1 .. Len(keyraw) : keyraw[j].start = tup'[i].start
  <2>1. CASE i \in totdis + 1 .. L
    <3>1. PICK a, b, c : a = tup[i].start /\ b = tup[i].end /\ c = tup'[i].end
      OBVIOUS
    <3>2. a \in Nat /\ b \in Nat /\ c \in Nat /\ b <= c /\ tup'[i].start = a
      BY <1>3, <2>1, <3>1
    <3>3. /\ a <= b
          /\ \E j \in Offset + 1 .. Len(keyraw) : keyraw[j].start = a
      BY <1>7, <2>1, <3>1
    <3>4. a <= c
      BY <3>2, <3>3
    <3>5. QED
      BY <3>1, <3>2, <3>3, <3>4
  <2>2. CASE i = L + 1
    BY <1>3, <2>2
  <2>3. QED
    BY <1>4, <2>1, <2>2
<1>9. ASSUME NEW i \in totdis + 1 .. L + 1, NEW j \in totdis + 1 .. L + 1, i < j
      PROVE  tup'[i].start < tup'[j].start
  <2>1. i \in totdis + 1 .. L
    BY <1>2, <1>9
  <2>2. CASE j \in totdis + 1 .. L
    BY <1>1, <1>3, <1>9, <2>1, <2>2 DEF Risen, Separating
  <2>3. CASE j = L + 1
    BY <1>3, <1>7, <2>1, <2>3
  <2>4. QED
    BY <1>4, <2>2, <2>3
<1>10. QED
  BY <1>3, <1>8, <1>9 DEF Risen

LEMMA SearchableProcess ==
  ASSUME Shape, RawOrdered, Counted, InOrder, Short, Starting, Searchable, Process, Offset < 2
  PROVE  /\ Risen' /\ Passed'
         /\ pc' = "undefined" => curr = 0
<1>1. Processing
  BY DEF Process, Sort, Separate, Merge, Separated, Skip, Match, Measure, Undefined, Goto,
         Searching, BehindTheEnd, Processing
<1>2. PICK o, N : o = Offset /\ N = Len(raw)
  OBVIOUS
<1>3. /\ o \in Nat /\ N \in Nat /\ Len(keyraw) = N /\ tot = N /\ totdis = o
      /\ o < 2 /\ curr \in Nat /\ o = N - curr
  <2>1. /\ o \in Nat /\ o < 2 /\ totdis \in Nat /\ totdis <= o /\ (o = 1 => totdis = 1)
    BY <1>1, <1>2, ShapeFacts DEF Starting
  <2>2. totdis = o
    BY <2>1
  <2>3. QED
    BY <1>2, <2>1, <2>2, ShapeFacts DEF Counted
<1>4. UNCHANGED <<keyraw, Offset>> /\ (~Sort => UNCHANGED raw) /\ (~Measure => UNCHANGED totdis)
  BY ProcessLeaves
<1>5. Risen /\ Passed /\ pc # "undefined"
  BY <1>1 DEF Searchable, Processing
<1>6. ASSUME NEW i \in 1 .. N
      PROVE  /\ raw[i].start = keyraw[i].start /\ raw[i] \in Time
             /\ raw[i].start \in Nat /\ raw[i].end \in Nat
             /\ raw[i].start <= raw[i].end /\ raw[i].end < Wrap
  <2>1. raw[i] = Interval(keyraw[i]) /\ keyraw[i].end < Wrap
    BY <1>2, <1>3 DEF RawOrdered, Short
  <2>2. raw[i].start = keyraw[i].start /\ raw[i].end = keyraw[i].end
    BY <2>1 DEF Interval
  <2>3. QED
    BY <1>2, <2>1, <2>2, ShapeFacts
<1>7. CASE Sort
  <2>1. /\ Arranged(raw', raw, o) /\ Extended(raw'[o + 1]) /\ o < N
        /\ pc = "sort" /\ pc' = "intervals"
    BY <1>2, <1>7, SortGives DEF Sort, Goto
  <2>2. PICK r : r = raw'[o + 1]
    OBVIOUS
  <2>3. Len(tup) = o /\ Len(tup') = o + 1 /\ tup'[o + 1] = r
    BY <1>3, <2>1, <2>2 DEF Extended, Shape, Lengths
  <2>4. PICK i \in o + 1 .. N : r = raw[i]
    <3>1. o + 1 \in o + 1 .. N
      BY <1>3, <2>1
    <3>2. QED
      BY <1>2, <2>1, <2>2, <3>1 DEF Arranged
  <2>5. r.start = keyraw[i].start /\ r.start <= r.end
    BY <1>3, <1>6, <2>4
  <2>6. ASSUME NEW j \in o + 1 .. o + 1
        PROVE  j = o + 1
    BY <1>3
  <2>7. ~(o + 1 < o + 1)
    BY <1>3
  <2>8. Risen'
    BY <1>2, <1>3, <1>4, <1>7, <2>3, <2>4, <2>5, <2>6, <2>7 DEF Risen, Sort
  <2>9. QED
    BY <2>1, <2>8 DEF Passed
<1>8. ASSUME pc = "intervals", pc' = "intervals", UNCHANGED totdis,
             NEW i \in o + 1 .. N, NEW t, t = raw[i],
             Extended(t), tup[Len(tup)].end < t.start
      PROVE  Risen' /\ Passed'
  <2>1. i \in 1 .. N
    BY <1>3
  <2>2. t \in Time /\ t.start <= t.end /\ keyraw[i].start = t.start
    BY <1>6, <1>8, <2>1
  <2>3. Risen'
    BY <1>2, <1>3, <1>4, <1>5, <1>8, <2>2, RisenGrows
  <2>4. QED
    BY <1>8, <2>3 DEF Passed
<1>9. CASE Separate
  <2>1. PICK i, t : i = o + count + 1 /\ t = raw[i]
    OBVIOUS
  <2>2. /\ i \in 1 .. N /\ Extended(t) /\ tup[Len(tup)].end < t.start
    BY <1>2, <1>3, <1>9, <2>1, SeparateGives
  <2>3. i \in o + 1 .. N /\ pc = "intervals" /\ pc' = "intervals" /\ totdis' = totdis
    BY <1>3, <1>9, <2>1, <2>2, ShapeFacts DEF Separate, Goto
  <2>4. QED
    BY <1>8, <2>1, <2>2, <2>3
<1>10. CASE Merge
  <2>1. PICK la \in Nat \ {0} :
           /\ Offset + count + la + 1 \in 1 .. Len(raw)
           /\ LET a == raw[Offset + count + la + 1] IN
              /\ tup[Len(tup)].end < Unsigned(a.start)
              /\ Extended([start |-> Unsigned(a.start), end |-> Unsigned(a.end)])
    BY <1>10, MergeGives
  <2>2. PICK i, a : i = o + count + la + 1 /\ a = raw[i]
    OBVIOUS
  <2>3. i \in o + 1 .. N /\ i \in 1 .. N
    BY <1>2, <1>3, <2>1, <2>2, ShapeFacts
  <2>4. a \in Time /\ a.start \in Nat /\ a.end \in Nat /\ a.start <= a.end /\ a.end < Wrap
    BY <1>6, <2>2, <2>3
  <2>5. Unsigned(a.start) = a.start /\ Unsigned(a.end) = a.end
    BY <2>4, Widths DEF Unsigned
  <2>6. [start |-> a.start, end |-> a.end] = a
    BY <2>4 DEF Time
  <2>7. Extended(a) /\ tup[Len(tup)].end < a.start
    BY <1>2, <2>1, <2>2, <2>5, <2>6
  <2>8. pc = "intervals" /\ pc' = "intervals" /\ totdis' = totdis
    BY <1>10 DEF Merge, Goto
  <2>9. QED
    BY <1>8, <2>2, <2>3, <2>7, <2>8
<1>11. CASE Separated
  <2>1. /\ pc = "intervals" /\ pc' = "search" /\ count2' = 0
        /\ UNCHANGED <<tup, key, totdis>>
    BY <1>11 DEF Separated, Goto, resultVars
  <2>2. Risen'
    BY <1>4, <1>5, <2>1 DEF Risen, Separating
  <2>3. \A j : j \notin totdis + 1 .. totdis + 0
    BY <1>3
  <2>4. QED
    BY <2>1, <2>2, <2>3 DEF Passed
<1>12. ASSUME Searching
       PROVE  /\ pc = "search" /\ Len(key) + 1 \in o + 1 .. Len(tup) /\ Len(key) \in Nat
              /\ Len(tup) \in Nat /\ o <= Len(key)
              /\ at(tup, totdis + Count1) = tup[Len(key) + 1]
              /\ at(keyraw, totdis + count2) = keyraw[o + count2 + 1]
              /\ \E h \in o + count2 + 1 .. N : keyraw[h].start = tup[Len(key) + 1].start
  <2>1. pc = "search" /\ Len(key) - totdis < Len(tup) - totdis
    BY <1>12 DEF Searching, Count1, Disjoint
  <2>2. Len(key) \in Nat /\ Len(tup) \in Nat /\ o <= Len(key) /\ Len(key) <= Len(tup)
    BY <1>3, <2>1, ShapeFacts DEF Shape, Lengths
  <2>3. PICK i : i = Len(key) + 1 /\ i \in o + 1 .. Len(tup)
    BY <1>3, <2>1, <2>2
  <2>4. at(tup, totdis + Count1) = tup[i] /\ at(keyraw, totdis + count2) = keyraw[o + count2 + 1]
    <3>1. totdis + Count1 + 1 = i
      BY <1>3, <2>2, <2>3 DEF Count1
    <3>2. QED
      BY <1>3, <3>1 DEF at
  <2>5. PICK h \in o + 1 .. N : keyraw[h].start = tup[i].start
    BY <1>2, <1>3, <1>5, <2>1, <2>3 DEF Risen, Separating
  <2>6. h \notin o + 1 .. o + count2
    <3> SUFFICES ASSUME h \in o + 1 .. o + count2
                 PROVE  FALSE
      OBVIOUS
    <3>1. i \in Len(key) + 1 .. Len(tup)
      BY <2>2, <2>3
    <3>2. keyraw[h].start < tup[i].start
      BY <1>3, <1>5, <2>1, <3>1 DEF Passed
    <3>3. h \in 1 .. N
      BY <1>3
    <3>4. keyraw[h].start \in Nat
      BY <1>6, <3>3
    <3>5. QED
      BY <2>5, <3>2, <3>4
  <2>7. h \in o + count2 + 1 .. N
    BY <1>3, <2>5, <2>6, ShapeFacts
  <2>8. QED
    BY <2>1, <2>2, <2>3, <2>4, <2>5, <2>7
\* The record searched next begins before every interval but perhaps the first.
<1>13. ASSUME Searching, NEW q, q = o + count2 + 1, q <= N,
              NEW i \in Len(key) + 1 .. Len(tup),
              i # Len(key) + 1 \/ keyraw[q].start # tup[i].start
       PROVE  keyraw[q].start < tup[i].start
  <2>1. PICK f : f = Len(key) + 1
    OBVIOUS
  <2>2. /\ pc = "search" /\ f \in o + 1 .. Len(tup) /\ f \in Nat /\ Len(tup) \in Nat /\ count2 \in Nat
    BY <1>12, <1>13, <2>1, ShapeFacts
  <2>3. PICK h \in q .. N : keyraw[h].start = tup[f].start
    BY <1>12, <1>13, <2>1
  <2>4. q \in 1 .. N /\ h \in 1 .. N
    BY <1>3, <1>13, <2>2
  <2>5. keyraw[q].start \in Nat /\ keyraw[h].start \in Nat
    BY <1>6, <2>4
  <2>6. h # q => keyraw[q].start < keyraw[h].start
    BY <1>3, <2>2, <2>4 DEF InOrder
  <2>7. i \in o + 1 .. Len(tup) /\ (i # f => f < i)
    BY <1>3, <1>12, <1>13, <2>1, <2>2
  <2>8. i # f => tup[f].start < tup[i].start
    BY <1>3, <1>5, <2>2, <2>7 DEF Risen, Separating
  <2>9. i \in 1 .. Len(tup)
    BY <1>3, <2>2, <2>7
  <2>10. tup[i].start \in Nat
    BY <2>9, ShapeFacts
  <2>11. QED
    BY <1>13, <2>1, <2>3, <2>5, <2>6, <2>8, <2>10
<1>14. CASE Skip \/ Match
  <2>1. /\ Searching /\ totdis + count2 < Len(keyraw) /\ pc = "search" /\ pc' = "search"
        /\ count2' = count2 + 1 /\ UNCHANGED <<tup, totdis>>
    BY <1>14 DEF Skip, Match, Searching, resultVars
  <2>2. PICK q : q = o + count2 + 1
    OBVIOUS
  <2>3. q <= N /\ q \in Nat /\ count2 \in Nat
    BY <1>3, <2>1, <2>2, ShapeFacts
  <2>4. Len(key') \in Nat /\ Len(key) <= Len(key') /\ Len(key) \in Nat /\ (Match => Len(key') = Len(key) + 1)
    <3>1. CASE Skip
      <4>1. key' = key /\ ~Match
        BY <3>1 DEF Skip, Match, resultVars
      <4>2. QED
        BY <4>1, ShapeFacts
    <3>2. CASE Match
      <4>1. Len(key') = Len(key) + 1
        BY <3>2, MatchGives
      <4>2. QED
        BY <4>1, ShapeFacts
    <3>3. QED
      BY <1>14, <3>1, <3>2
  <2>5. ASSUME NEW i \in Len(key') + 1 .. Len(tup), NEW j \in o + 1 .. o + (count2 + 1)
        PROVE  j <= N /\ keyraw[j].start < tup[i].start
    <3>1. i \in Len(key) + 1 .. Len(tup) /\ (Match => i # Len(key) + 1)
      BY <2>4, ShapeFacts
    <3>2. CASE j \in o + 1 .. o + count2
      BY <1>3, <1>5, <2>1, <3>1, <3>2 DEF Passed
    <3>3. CASE j = q
      <4>1. Skip /\ i = Len(key) + 1 => keyraw[q].start # tup[i].start
        BY <1>3, <1>12, <2>1, <2>2 DEF Skip, Matches, Candidate
      <4>2. keyraw[q].start < tup[i].start
        BY <1>13, <1>14, <2>1, <2>2, <2>3, <3>1, <4>1
      <4>3. QED
        BY <2>3, <3>3, <4>2
    <3>4. QED
      BY <1>3, <2>2, <2>3, <3>2, <3>3
  <2>6. Passed'
    BY <1>3, <1>4, <2>1, <2>5 DEF Passed
  <2>7. Risen'
    BY <1>4, <1>5, <2>1 DEF Risen, Separating
  <2>8. QED
    BY <2>1, <2>6, <2>7
<1>15. CASE Measure
  <2>1. pc' = "idle"
    BY <1>15 DEF Measure, Goto
  <2>2. QED
    BY <2>1 DEF Risen, Passed, Separating
<1>16. CASE Undefined
  <2>1. pc' = "undefined"
    BY <1>16 DEF Undefined
  <2>2. ASSUME curr # 0
        PROVE  FALSE
    <3>1. o < N
      BY <1>3, <2>2
    <3>2. CASE pc = "sort" /\ Offset >= Len(raw)
      BY <1>2, <1>3, <3>1, <3>2
    <3>3. CASE pc = "intervals" /\ More /\ Overlapping /\ \E la \in Ahead : ~Inside(la)
      <4>1. PICK la \in Ahead : ~(o + count + la < N)
        BY <1>2, <3>3 DEF Inside
      <4>2. la \in 1 .. N - count - 2
        BY <1>2, <4>1 DEF Ahead
      <4>3. QED
        BY <1>3, <4>1, <4>2, ShapeFacts
    <3>4. CASE pc = "intervals" /\ More /\ totdis + count >= Len(raw)
      BY <1>2, <1>3, <3>4, ShapeFacts DEF More
    <3>5. CASE Searching /\ totdis + count2 >= Len(keyraw)
      <4>1. PICK h \in o + count2 + 1 .. N : TRUE
        BY <1>12, <3>5
      <4>2. QED
        BY <1>3, <3>5, <4>1, ShapeFacts
    <3>6. QED
      BY <1>16, <3>2, <3>3, <3>4, <3>5 DEF Undefined, BehindTheEnd
  <2>3. QED
    BY <2>1, <2>2 DEF Risen, Passed, Separating
<1>17. pc' # "undefined" \/ Undefined
  BY DEF Process, Sort, Separate, Merge, Separated, Skip, Match, Measure, Goto, Searching
<1>18. QED
  BY <1>7, <1>9, <1>10, <1>11, <1>14, <1>15, <1>16, <1>17
     DEF Process, Sort, Separate, Merge, Separated, Goto

LEMMA OInvStep == Shape /\ RawOrdered /\ OInv /\ [Next]_vars => OInv'
<1> SUFFICES ASSUME Shape, RawOrdered, OInv, [Next]_vars, Counted'
             PROVE  Starting' /\ (InOrder' /\ Short' => Searchable')
  BY DEF OInv
<1>1. Counted /\ ~EarlyBuffer /\ Starting /\ (InOrder' => InOrder) /\ (Short' => Short)
  BY ConditionsLast DEF OInv
<1>2. Starting'
  BY <1>1, StartingStep
<1>3. ASSUME InOrder', Short'
      PROVE  Searchable'
  <2>1. InOrder /\ Short /\ Searchable
    BY <1>1, <1>3 DEF OInv
  <2>2. CASE Read
    BY <2>2 DEF Read, Goto, Searchable, Risen, Passed, Separating
  <2>3. CASE Process /\ Offset < 2
    <3>1. Risen' /\ Passed' /\ (pc' = "undefined" => curr = 0) /\ curr' = curr
      BY <1>1, <2>1, <2>3, SearchableProcess, ProcessLeaves
    <3>2. QED
      BY <3>1 DEF Searchable
  <2>4. CASE Process /\ ~(Offset < 2)
    <3>1. Offset' = Offset /\ Offset \in Int
      BY <2>4, ProcessLeaves, ShapeFacts
    <3>2. QED
      BY <2>4, <3>1 DEF Searchable
  <2>5. CASE UNCHANGED vars
    BY <2>1, <2>5 DEF vars, recordVars, resultVars, Searchable, Risen, Passed, Separating, Offset
  <2>6. QED
    BY <1>1, <2>2, <2>3, <2>4, <2>5 DEF Next
<1>4. QED
  BY <1>2, <1>3

LEMMA OverlapInvariants == Spec => [](Shape /\ RawOrdered /\ OInv)
<1>1. Init => RawOrdered /\ OInv
  <2> SUFFICES ASSUME Init PROVE RawOrdered /\ OInv
    OBVIOUS
  <2>1. Len(raw) = 0 /\ Offset = 0
    BY EmptySeq DEF Init, Offset
  <2>2. QED
    BY <2>1 DEF Init, RawOrdered, OInv, Starting, Searchable, Risen, Passed, Separating, Processing
<1>2. Shape /\ RawOrdered /\ [Next]_vars => RawOrdered'
  BY RawOrderedStep
<1>3. QED
  BY <1>1, <1>2, OInvStep, ShapeHolds, PTL DEF Spec

\* As long as each record starts after the one before, all come during a flush,
\* and times fit 32 bits, kernels that overlap take process behind a vector's end
\* only in a reading with two earlier records: with fewer the lookahead's bound is
\* not too large (CuptiProfiler.cpp:174), the disjoint branch's index is the right
\* one (line 166), and the search never passes the kernel it is to find (line 211).
THEOREM OverlapDefinedCorrect == Spec => []OverlapDefined
<1>1. Shape /\ OInv => OverlapDefined
  <2> SUFFICES ASSUME Shape, OInv, pc = "undefined", InOrder, Short, Counted, curr > 0
               PROVE  Offset >= 2
    BY DEF OverlapDefined
  <2>1. curr # 0
    BY ShapeFacts
  <2>2. QED
    BY <2>1 DEF OInv, Searchable
<1>2. QED
  BY <1>1, OverlapInvariants, PTL

-----------------------------------------------------------------------------
(* The gaps of a reading *)

\* The first n intervals of the reading and the one after them rise.
Rising(n) == \A h \in totdis + 1 .. n : tup[h].start < tup[h + 1].start

\* An interval covers the kernel it begins with, and that kernel ends before the
\* next interval begins, unless the disjoint branch has gone back.
Came == {keyraw[i] : i \in 1 .. Len(keyraw)}
Covered ==
    Separating =>
        \A i \in totdis + 1 .. Len(tup) : \A k \in Came :
            k.start = tup[i].start => k.end <= tup[i].end
Spaced ==
    Separating =>
        \A i \in totdis + 1 .. Len(tup) - 1 :
            totdis >= Offset \/ (InOrder /\ Rising(i)) =>
                \A k \in Came : k.start = tup[i].start => k.end < tup[i + 1].start

\* As long as it has not, the last interval begins with the last record seen.
Abreast ==
    pc = "intervals" /\ InOrder /\ totdis < Offset /\ Rising(Len(tup) - 1) =>
        tup[Len(tup)].start = raw[Offset + count].start

\* The search finds rising kernels only, and goes no further where the
\* intervals go back.
Climbing ==
    pc = "search" /\ InOrder =>
        \A i, j \in totdis + 1 .. Len(key) : i < j => key[i].start < key[j].start

GInv == Short /\ Staggered => Covered /\ Spaced /\ Abreast /\ Climbing /\ GapsReal

\* A record tells how long its kernel ran.
LEMMA RecordTells ==
  ASSUME Shape, Staggered, NEW m \in 1 .. Len(raw), NEW k \in Came, k.start = raw[m].start
  PROVE  k.end = raw[m].end
<1>1. PICK j \in 1 .. Len(keyraw) : raw[m] = Interval(keyraw[j])
  BY DEF Shape, Distinct
<1>2. raw[m].start = keyraw[j].start /\ raw[m].end = keyraw[j].end
  BY <1>1 DEF Interval
<1>3. PICK l \in 1 .. Len(keyraw) : k = keyraw[l]
  BY DEF Came
<1>4. l = j
  BY <1>2, <1>3 DEF Staggered
<1>5. QED
  BY <1>2, <1>3, <1>4

LEMMA CameFacts ==
  ASSUME Shape, NEW k \in Came
  PROVE  k \in Kernels /\ k.end \in Nat
  BY ShapeFacts, KernelFacts DEF Came

\* Short records keep their times in an unsigned.
LEMMA ShortTimes ==
  ASSUME Shape, Short, NEW m \in 1 .. Len(raw)
  PROVE  Unsigned(raw[m].start) = raw[m].start /\ Unsigned(raw[m].end) = raw[m].end
<1>1. PICK j \in 1 .. Len(keyraw) : raw[m] = Interval(keyraw[j])
  BY DEF Shape, Distinct
<1>2. raw[m].end = keyraw[j].end
  BY <1>1 DEF Interval
<1>3. PICK a, b : a = raw[m].start /\ b = raw[m].end
  OBVIOUS
<1>4. a \in Nat /\ b \in Nat /\ a <= b /\ b < Wrap
  BY <1>2, <1>3, ShapeFacts DEF Short
<1>5. a % Wrap = a /\ b % Wrap = b
  BY <1>4, Widths
<1>6. QED
  BY <1>3, <1>5 DEF Unsigned

\* An interval is appended that begins as one of the records.
LEMMA SpacedGrows ==
  ASSUME Shape, Short, Staggered, Covered, Spaced, pc = "intervals",
         NEW m \in 1 .. Len(raw), Extended(raw[m]), NEW L, L = Len(tup),
         totdis >= Offset \/ (InOrder /\ Rising(L)') => tup[L].end < raw[m].start,
         UNCHANGED <<keyraw, totdis, Offset>>
  PROVE  Covered' /\ Spaced'
<1>1. PICK t : L = Len(tup) /\ t = raw[m]
  OBVIOUS
<1>2. /\ L \in Nat /\ totdis \in Nat /\ totdis < L /\ t.start \in Nat /\ t.end \in Nat
      /\ Len(tup') = L + 1 /\ tup'[L + 1] = t
  BY <1>1, ShapeFacts DEF Shape, Lengths, Separating, Extended
<1>3. ASSUME NEW i \in 1 .. L
      PROVE  /\ tup'[i].start = tup[i].start /\ tup[i].end <= tup'[i].end
             /\ tup[i].end \in Nat /\ tup'[i].end \in Nat
  <2>1. tup'[i] \in Time
    BY <1>1, <1>2, ElementOfSeq DEF Extended
  <2>2. QED
    BY <1>1, <2>1, ShapeFacts DEF Extended, Time
<1>4. ASSUME NEW i \in totdis + 1 .. L + 1, NEW k \in Came, k.start = tup'[i].start
      PROVE  k.end <= tup'[i].end
  <2>1. k.end \in Nat
    BY CameFacts
  <2>2. CASE i = L + 1
    BY <1>1, <1>2, <1>4, <2>1, <2>2, RecordTells
  <2>3. CASE i # L + 1
    <3>1. i \in totdis + 1 .. L /\ i \in 1 .. L
      BY <1>2, <2>3
    <3>2. k.end <= tup[i].end
      BY <1>1, <1>3, <1>4, <3>1 DEF Covered, Separating
    <3>3. QED
      BY <1>3, <2>1, <3>1, <3>2
  <2>4. QED
    BY <2>2, <2>3
<1>5. ASSUME NEW i \in totdis + 1 .. L, totdis >= Offset \/ (InOrder /\ Rising(i)'),
             NEW k \in Came, k.start = tup'[i].start
      PROVE  k.end < tup'[i + 1].start
  <2>1. i \in 1 .. L /\ k.start = tup[i].start
    BY <1>2, <1>3, <1>5
  <2>2. CASE i = L
    <3>1. k.end <= tup[L].end /\ k.end \in Nat
      BY <1>1, <1>5, <2>1, <2>2, CameFacts DEF Covered, Separating
    <3>2. tup[L].end < t.start
      BY <1>1, <1>5, <2>2
    <3>3. QED
      BY <1>2, <1>3, <2>1, <2>2, <3>1, <3>2
  <2>3. CASE i # L
    <3>1. i \in totdis + 1 .. L - 1 /\ i + 1 \in 1 .. L
      BY <1>2, <2>3
    <3>2. Rising(i)' => Rising(i)
      <4>1. \A h \in totdis + 1 .. i : h \in 1 .. L /\ h + 1 \in 1 .. L
        BY <1>2, <3>1
      <4>2. QED
        BY <1>3, <4>1 DEF Rising
    <3>3. k.end < tup[i + 1].start
      BY <1>1, <1>5, <2>1, <3>1, <3>2 DEF Spaced, Separating
    <3>4. QED
      BY <1>3, <3>1, <3>3
  <2>4. QED
    BY <2>2, <2>3
<1>c. Came' = Came
  BY DEF Came
<1>6. Covered'
  BY <1>2, <1>4, <1>c DEF Covered
<1>7. Spaced'
  <2>1. L + 1 - 1 = L
    BY <1>2
  <2>2. InOrder' => InOrder
    BY DEF InOrder
  <2>3. QED
    BY <1>2, <1>5, <1>c, <2>1, <2>2 DEF Spaced
<1>8. QED
  BY <1>6, <1>7

LEMMA GapsProcess ==
  ASSUME Shape, RawOrdered, Short, Staggered, Covered, Spaced, Abreast, Climbing, GapsReal,
         Process
  PROVE  Covered' /\ Spaced' /\ Abreast' /\ Climbing' /\ GapsReal'
<1>1. UNCHANGED <<keyraw, tot, curr, Offset>> /\ (~Sort => UNCHANGED raw) /\ (~Measure => UNCHANGED totdis)
  BY ProcessLeaves
<1>2. /\ (InOrder' <=> InOrder) /\ (Short' <=> Short) /\ (Staggered' <=> Staggered)
      /\ Came' = Came
  BY <1>1 DEF InOrder, Short, Staggered, Came
<1>3. PICK o, N, d, L : o = Offset /\ N = Len(raw) /\ d = totdis /\ L = Len(tup)
  OBVIOUS
<1>4. Processing
  BY DEF Process, Sort, Separate, Merge, Separated, Skip, Match, Measure, Undefined, Goto,
         Searching, BehindTheEnd, Processing
<1>5. o \in Nat /\ N \in Nat /\ d \in Nat /\ L \in Nat /\ count \in Nat
  BY <1>3, <1>4, ShapeFacts
<1>6. CASE Sort
  <2>1. /\ o < N /\ Arranged(raw', raw, o) /\ Extended(raw'[o + 1])
        /\ pc = "sort" /\ pc' = "intervals" /\ count' = 1
        /\ UNCHANGED <<key, totdis>>
    BY <1>3, <1>6, SortGives DEF Sort, Goto
  <2>2. L = d /\ Len(key) = d /\ Len(tup') = d + 1 /\ tup'[d + 1] = raw'[o + 1]
    BY <1>3, <2>1 DEF Shape, Lengths, Extended
  <2>3. PICK r : r = raw'[o + 1]
    OBVIOUS
  <2>4. PICK m \in o + 1 .. N : r = raw[m]
    <3>1. o + 1 \in o + 1 .. N
      BY <1>5, <2>1
    <3>2. QED
      BY <1>3, <2>1, <2>3, <3>1 DEF Arranged
  <2>5. ASSUME NEW k \in Came, k.start = r.start
        PROVE  k.end <= r.end
    <3>1. m \in 1 .. N
      BY <1>5
    <3>2. k.end = r.end /\ k.end \in Nat
      BY <1>3, <2>4, <2>5, <3>1, RecordTells, CameFacts
    <3>3. QED
      BY <3>2
  <2>6. Covered'
    <3>1. \A i \in d + 1 .. d + 1 : i = d + 1
      BY <1>5
    <3>2. QED
      BY <1>2, <1>3, <2>1, <2>2, <2>3, <2>5, <3>1 DEF Covered
  <2>7. Spaced'
    <3>1. d + 1 .. d + 1 - 1 = {}
      BY <1>5
    <3>2. QED
      BY <1>3, <2>1, <2>2, <3>1 DEF Spaced
  <2>8. Abreast' /\ Climbing'
    BY <1>1, <1>3, <2>1, <2>2 DEF Abreast, Climbing
  <2>9. GapsReal'
    <3>1. d + 1 .. Len(key) - 1 = {}
      BY <1>5, <2>2
    <3>2. QED
      BY <1>3, <2>1, <3>1 DEF GapsReal
  <2>10. QED
    BY <2>6, <2>7, <2>8, <2>9
\* What process does to the intervals changes no kernel found.
<1>7. UNCHANGED <<key, totdis>> => GapsReal'
  BY <1>1, <1>2 DEF GapsReal
<1>8. CASE Separate
  <2>1. PICK m, c : m = d + count + 1 /\ c = o + count + 1
    OBVIOUS
  <2>2. /\ m \in 1 .. N /\ Extended(raw[m]) /\ count' = count + 1
        /\ c \in 1 .. N /\ tup[L].end < raw[c].start
        /\ pc = "intervals" /\ pc' = "intervals" /\ UNCHANGED <<key, totdis, raw>>
    BY <1>3, <1>8, <2>1, SeparateGives DEF Separate, Goto, recordVars
  <2>3. /\ d < L /\ 1 <= count /\ o < N
        /\ \A i, j \in o + 1 .. N : i < j => raw[i].start <= raw[j].start
    BY <1>3, <2>2 DEF Shape, Lengths, Begun, Separating
  <2>4. Len(tup') = L + 1 /\ tup'[L].start = tup[L].start /\ tup'[L + 1] = raw[m]
    <3>1. L \in 1 .. L
      BY <1>5, <2>3
    <3>2. QED
      BY <1>3, <2>2, <3>1 DEF Extended
  <2>5. L \in 1 .. L /\ raw[m].start \in Nat /\ raw[c].start \in Nat /\ tup[L].end \in Nat /\ tup[L].start \in Nat
    BY <1>3, <1>5, <2>2, <2>3, ShapeFacts
  <2>6. ASSUME d >= o
        PROVE  tup[L].end < raw[m].start
    <3>1. m \in o + 1 .. N /\ c \in o + 1 .. N /\ (c < m \/ c = m)
      BY <1>5, <2>1, <2>2, <2>6
    <3>2. raw[c].start <= raw[m].start
      BY <2>3, <2>5, <3>1
    <3>3. QED
      BY <2>2, <2>5, <3>2
  \* Otherwise the interval appended begins no later than the last one.
  <2>7. ASSUME ~(d >= o), InOrder
        PROVE  ~Rising(L)'
    <3> SUFFICES ASSUME Rising(L)'
                 PROVE  FALSE
      OBVIOUS
    <3>1. ASSUME NEW h \in d + 1 .. L - 1
          PROVE  tup[h].start < tup[h + 1].start
      <4>1. h \in 1 .. L /\ h + 1 \in 1 .. L /\ h \in d + 1 .. L
        BY <1>5
      <4>2. tup'[h].start < tup'[h + 1].start
        BY <1>3, <2>2, <4>1 DEF Rising
      <4>3. QED
        BY <1>3, <2>2, <4>1, <4>2 DEF Extended
    <3>2. tup[L].start = raw[o + count].start
      <4>1. Rising(L - 1)
        BY <1>3, <3>1 DEF Rising
      <4>2. QED
        BY <1>3, <1>5, <2>2, <2>7, <4>1 DEF Abreast
    <3>3. tup[L].start < raw[m].start
      <4>1. L \in d + 1 .. L
        BY <1>5, <2>3
      <4>2. tup'[L].start < tup'[L + 1].start
        BY <1>3, <2>2, <4>1 DEF Rising
      <4>3. QED
        BY <2>4, <4>2
    <3>4. PICK e : e = o + count /\ e \in 1 .. N /\ (m < e \/ m = e)
      BY <1>5, <2>1, <2>2, <2>3, <2>7
    <3>5. m < e => raw[m].start < raw[e].start
      <4>1. raw[m] = Interval(keyraw[m]) /\ raw[e] = Interval(keyraw[e])
        BY <1>3, <2>2, <2>7, <3>4 DEF RawOrdered
      <4>2. raw[m].start = keyraw[m].start /\ raw[e].start = keyraw[e].start
        BY <4>1 DEF Interval
      <4>3. QED
        BY <1>3, <2>2, <2>7, <3>4, <4>2, ShapeFacts DEF InOrder
    <3>6. QED
      BY <2>5, <3>2, <3>3, <3>4, <3>5
  <2>8. Covered' /\ Spaced'
    <3>1. d >= o \/ (InOrder /\ Rising(L)') => tup[L].end < raw[m].start
      BY <2>6, <2>7
    <3>2. QED
      BY <1>1, <1>3, <2>2, <3>1, SpacedGrows
  <2>9. Abreast'
    <3>1. L + 1 - 1 = L
      BY <1>5
    <3>2. QED
      BY <1>1, <1>2, <1>3, <1>5, <2>2, <2>4, <2>7, <3>1 DEF Abreast
  <2>10. QED
    BY <1>7, <2>2, <2>8, <2>9 DEF Climbing
<1>9. CASE Merge
  <2>1. PICK la \in Nat \ {0} :
           /\ Offset + count + la + 1 \in 1 .. Len(raw) /\ count' = count + la + 1
           /\ LET a == raw[Offset + count + la + 1] IN
              /\ tup[Len(tup)].end < Unsigned(a.start)
              /\ Extended([start |-> Unsigned(a.start), end |-> Unsigned(a.end)])
    BY <1>9, MergeGives
  <2>2. PICK m, a : m = o + count + la + 1 /\ a = raw[m]
    OBVIOUS
  <2>3. m \in 1 .. N /\ Offset + count' = m
    BY <1>3, <1>5, <2>1, <2>2
  <2>4. Unsigned(a.start) = a.start /\ Unsigned(a.end) = a.end /\ a \in Time
    BY <1>3, <2>2, <2>3, ShortTimes, ShapeFacts
  <2>5. [start |-> a.start, end |-> a.end] = a
    BY <2>4 DEF Time
  <2>6. Extended(raw[m]) /\ tup[L].end < raw[m].start
    BY <1>3, <2>1, <2>2, <2>4, <2>5
  <2>7. pc = "intervals" /\ pc' = "intervals" /\ UNCHANGED <<key, totdis, raw>>
    BY <1>9 DEF Merge, Goto, recordVars
  <2>8. Covered' /\ Spaced'
    BY <1>1, <1>3, <2>3, <2>6, <2>7, SpacedGrows
  <2>9. Abreast'
    BY <1>1, <1>3, <2>3, <2>6, <2>7 DEF Abreast, Extended
  <2>10. QED
    BY <1>7, <2>7, <2>8, <2>9 DEF Climbing
<1>10. CASE Separated
  <2>1. /\ pc = "intervals" /\ pc' = "search" /\ UNCHANGED <<tup, key, totdis>>
    BY <1>10 DEF Separated, Goto, resultVars
  <2>2. Covered' /\ Spaced'
    BY <1>1, <1>2, <2>1 DEF Covered, Spaced, Separating, Rising
  <2>3. d + 1 .. Len(key) = {}
    BY <1>3, <1>5, <2>1 DEF Shape, Lengths
  <2>4. QED
    BY <1>3, <1>7, <2>1, <2>2, <2>3 DEF Abreast, Climbing
<1>11. CASE Skip
  <2>1. pc = "search" /\ pc' = "search" /\ UNCHANGED <<tup, key, totdis>>
    BY <1>11 DEF Skip, Searching, resultVars
  <2>2. QED
    BY <1>1, <1>2, <1>7, <2>1 DEF Covered, Spaced, Separating, Rising, Abreast, Climbing
<1>12. CASE Match
  <2>1. pc = "search" /\ pc' = "search" /\ UNCHANGED <<tup, totdis>> /\ count2 \in Nat
    BY <1>12, ShapeFacts DEF Match, Searching
  <2>2. PICK q, K : q = totdis + count2 + 1 /\ K = Len(key)
    OBVIOUS
  <2>3. /\ q \in 1 .. Len(keyraw) /\ K + 1 \in d + 1 .. L /\ K \in Nat
        /\ keyraw[q].start = tup[K + 1].start
        /\ Len(key') = K + 1 /\ key'[K + 1] = keyraw[q]
        /\ \A i \in 1 .. K : key'[i] = key[i]
    BY <1>3, <1>12, <2>2, MatchGives, ShapeFacts
  <2>4. ASSUME NEW i \in d + 1 .. K
        PROVE  /\ i \in 1 .. K /\ key'[i] = key[i] /\ key[i].start = tup[i].start
               /\ key[i] \in Came
               /\ InOrder => key[i].start < keyraw[q].start
    <3>1. i \in 1 .. K /\ key[i] \in Kernels
      BY <1>5, <2>2, ShapeFacts
    <3>2. PICK j \in 1 .. Len(keyraw) : j <= totdis + count2 /\ key[i] = keyraw[j]
      BY <1>3, <2>1, <2>2 DEF Shape, Searched
    <3>3. j < q
      BY <1>3, <1>5, <2>1, <2>2, <3>2
    <3>4. key[i].start = tup[i].start
      BY <1>3, <2>1, <2>2 DEF Shape, Searched
    <3>5. QED
      BY <2>3, <3>1, <3>2, <3>3, <3>4 DEF InOrder, Came
  <2>5. \A i \in d + 1 .. K + 1 : i \in d + 1 .. K \/ i = K + 1
    BY <1>5, <2>3
  <2>6. \A i \in d + 1 .. K + 1 : key'[i].start = tup[i].start
    BY <2>3, <2>4, <2>5
  <2>7. ASSUME InOrder, NEW i \in d + 1 .. K + 1, NEW j \in d + 1 .. K + 1, i < j
        PROVE  key'[i].start < key'[j].start
    <3>1. i \in d + 1 .. K
      BY <1>5, <2>3, <2>7
    <3>2. CASE j \in d + 1 .. K
      BY <1>3, <2>1, <2>2, <2>4, <2>7, <3>1, <3>2 DEF Climbing
    <3>3. CASE j = K + 1
      BY <2>3, <2>4, <2>7, <3>1, <3>3
    <3>4. QED
      BY <2>5, <3>2, <3>3
  <2>8. Climbing'
    BY <1>2, <1>3, <2>1, <2>3, <2>7 DEF Climbing
  <2>9. ASSUME totdis >= Offset \/ InOrder, NEW i \in d + 1 .. K
        PROVE  key'[i].end < key'[i + 1].start
    <3>1. i + 1 \in d + 1 .. K + 1 /\ i \in d + 1 .. L - 1 /\ i \in d + 1 .. K + 1
      BY <1>5, <2>3
    <3>2. InOrder => Rising(i)
      <4>1. ASSUME InOrder, NEW h \in d + 1 .. i
            PROVE  tup[h].start < tup[h + 1].start
        <5>1. h \in d + 1 .. K + 1 /\ h + 1 \in d + 1 .. K + 1 /\ h < h + 1
          BY <1>5, <2>3
        <5>2. key'[h].start < key'[h + 1].start
          BY <2>7, <4>1, <5>1
        <5>3. QED
          BY <2>6, <5>1, <5>2
      <4>2. QED
        BY <1>3, <4>1 DEF Rising
    <3>3. key[i].end < tup[i + 1].start
      BY <1>3, <2>1, <2>4, <2>9, <3>1, <3>2 DEF Spaced, Separating
    <3>4. QED
      BY <2>4, <2>6, <3>1, <3>3
  <2>10. GapsReal'
    <3>1. K + 1 - 1 = K
      BY <2>3
    <3>2. QED
      BY <1>1, <1>2, <1>3, <2>1, <2>3, <2>9, <3>1 DEF GapsReal
  <2>11. Covered' /\ Spaced' /\ Abreast'
    BY <1>1, <1>2, <2>1 DEF Covered, Spaced, Separating, Rising, Abreast
  <2>12. QED
    BY <2>8, <2>10, <2>11
<1>13. CASE Measure
  <2>1. pc' = "idle" /\ key' = key
    BY <1>13 DEF Measure, Goto
  <2>2. totdis' + 1 .. Len(key') - 1 = {}
    <3>1. totdis' = totdis + (Len(tup) - totdis) /\ Len(key) - totdis = Len(tup) - totdis
      BY <1>13 DEF Measure, Count1, Disjoint
    <3>2. totdis' = Len(key) /\ Len(key) \in Nat
      BY <3>1, ShapeFacts
    <3>3. QED
      BY <2>1, <3>2
  <2>3. QED
    BY <2>1, <2>2 DEF GapsReal, Covered, Spaced, Separating, Abreast, Climbing
<1>14. CASE Undefined
  <2>1. pc' = "undefined" /\ UNCHANGED <<key, totdis>>
    BY <1>14 DEF Undefined, resultVars
  <2>2. QED
    BY <1>7, <2>1 DEF Covered, Spaced, Separating, Abreast, Climbing
<1>15. QED
  BY <1>6, <1>8, <1>9, <1>10, <1>11, <1>12, <1>13, <1>14 DEF Process

LEMMA GInvStep == Shape /\ RawOrdered /\ GInv /\ [Next]_vars => GInv'
<1> SUFFICES ASSUME Shape, RawOrdered, GInv, [Next]_vars, Short', Staggered'
             PROVE  Covered' /\ Spaced' /\ Abreast' /\ Climbing' /\ GapsReal'
  BY DEF GInv
<1>1. Short /\ Staggered /\ Covered /\ Spaced /\ Abreast /\ Climbing /\ GapsReal
  BY ConditionsLast DEF GInv
<1>2. CASE EarlyBuffer \/ Read
  <2>1. pc = "idle" /\ pc' \in {"idle", "sort"} /\ UNCHANGED <<key, totdis>>
    BY <1>2 DEF EarlyBuffer, Read, Goto, resultVars
  <2>2. totdis + 1 .. Len(key) - 1 = {}
    BY <2>1, ShapeFacts DEF Shape, Lengths
  <2>3. QED
    BY <2>1, <2>2 DEF GapsReal, Covered, Spaced, Separating, Abreast, Climbing
<1>3. CASE Process
  BY <1>1, <1>3, GapsProcess
<1>4. CASE UNCHANGED vars
  BY <1>1, <1>4 DEF vars, recordVars, resultVars, GapsReal, Covered, Spaced, Separating,
                    Abreast, Climbing, Rising, Came, InOrder, Short,
                    Staggered, Offset
<1>5. QED
  BY <1>2, <1>3, <1>4 DEF Next

\* Within a reading no gap is zero or negative (CuptiProfiler.cpp:163-192, 252),
\* as long as all times fit 32 bits, no two kernels start at once, and records
\* come in order or none has been dropped before: an interval covers the kernel
\* it begins with, and the next begins behind it.
THEOREM GapsRealCorrect == Spec => []GapsReal
<1>1. Init => GInv
  <2> SUFFICES ASSUME Init PROVE GInv
    OBVIOUS
  <2>1. Len(key) = 0 /\ totdis = 0 /\ pc = "idle"
    BY EmptySeq DEF Init
  <2>2. QED
    BY <2>1 DEF GInv, GapsReal, Covered, Spaced, Separating, Abreast, Climbing
<1>2. GInv => GapsReal
  BY DEF GInv, GapsReal
<1>3. QED
  BY <1>1, <1>2, GInvStep, OverlapInvariants, PTL DEF Spec

-----------------------------------------------------------------------------
(* Why a reading ends *)

Stage == CASE pc = "sort" -> 3 [] pc = "intervals" -> 2 [] pc = "search" -> 1 [] OTHER -> 0

\* How many records the loop has left.
Left == IF pc = "intervals" THEN Len(raw) - Offset - count ELSE Len(keyraw) - totdis - count2

Descends == \/ Stage' < Stage
            \/ Stage' = Stage /\ Left' < Left /\ Left' \in Nat

\* Every iteration of process's loops leaves fewer records to look at, and no
\* loop is entered again (CuptiProfiler.cpp:152, 207, 243): what ReadingEnds
\* follows from, as long as process keeps running.
THEOREM ProcessDescends == Spec => [][Process => Descends]_vars
<1>1. ASSUME Shape, Process
      PROVE  Descends
  <2>1. UNCHANGED <<keyraw, Offset>> /\ (~Sort => UNCHANGED raw) /\ (~Measure => UNCHANGED totdis)
    BY <1>1, ProcessLeaves
  <2>2. CASE Sort \/ Separated \/ Measure \/ Undefined
    <3>1. Undefined => pc \in {"sort", "intervals", "search"}
      BY DEF Undefined, BehindTheEnd, Searching
    <3>2. QED
      BY <2>2, <3>1 DEF Sort, Separated, Measure, Undefined, Goto, Descends, Stage
  <2>3. CASE Separate \/ Merge
    <3>1. pc = "intervals" /\ pc' = "intervals" /\ ~Sort /\ ~Measure
      BY <2>3 DEF Separate, Merge, Goto, Sort, Measure
    <3>2. count' \in Nat /\ count' > count /\ Offset + count' <= Len(raw)
      BY <1>1, <2>3, CountsOn
    <3>3. Len(raw) - Offset - count' < Len(raw) - Offset - count /\ Len(raw) - Offset - count' \in Nat
      BY <1>1, <3>2, ShapeCounts
    <3>4. QED
      BY <2>1, <3>1, <3>3 DEF Descends, Stage, Left
  <2>4. CASE Skip \/ Match
    <3>1. /\ pc = "search" /\ pc' = "search" /\ ~Sort /\ ~Measure
          /\ totdis + count2 < Len(keyraw) /\ count2' = count2 + 1
      BY <2>4 DEF Skip, Match, Searching, Goto, Sort, Measure
    <3>2. /\ Len(keyraw) - totdis - count2' < Len(keyraw) - totdis - count2
          /\ Len(keyraw) - totdis - count2' \in Nat
      BY <1>1, <3>1, ShapeCounts
    <3>3. QED
      BY <2>1, <3>1, <3>2 DEF Descends, Stage, Left
  <2>5. QED
    BY <1>1, <2>2, <2>3, <2>4 DEF Process
<1>2. Shape /\ [Next]_vars => [Process => Descends]_vars
  BY <1>1
<1>3. QED
  BY <1>2, ShapeHolds, PTL DEF Spec

=============================================================================
