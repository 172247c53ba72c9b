------------------------------ MODULE Profiler ------------------------------
(***************************************************************************)
(* CuptiProfiler inside an application: CUPTI hands over the records of    *)
(* finished kernels, read counts them, and process reduces those of one    *)
(* reading to disjoint intervals, looks up the kernel of each, and makes a *)
(* measurement of every kernel and the gap behind it, which goes into      *)
(* Window and into the batch for GlobalWindow::produce.                    *)
(*                                                                         *)
(* The loops of process are modelled an iteration at a time; at(s, i) is   *)
(* C++'s s[i].  Where process reads a vector behind its end the code's     *)
(* behaviour is undefined, and the model stops in pc = "undefined".        *)
(*                                                                         *)
(* External: CUPTI hands a record over while read flushes, or in between   *)
(* two readings when a buffer is full; not while process runs.             *)
(*                                                                         *)
(* Faulty... definitions: see RequestPool.                                 *)
(***************************************************************************)
EXTENDS Integers, Sequences, FiniteSets, FiniteSetsExt

CONSTANTS
    Kernels,        \* the kernels that run: grid.x, start and end; an id,
                    \* which insert does not keep, tells like kernels apart
    Wrap,           \* 2^32: process keeps some times in an unsigned or int
    Long,           \* 2^64: all other arithmetic is on unsigned long
    MaxEarly,       \* bound: records handed over in between readings
    MaxBatch,       \* bound: records one flush hands over
    MaxReadings     \* bound: readings of the profiler

Kernel == [id : Nat, x : Nat, start : Nat, end : Nat]

ASSUME KernelsAssumption ==
    /\ Kernels \subseteq Kernel
    /\ \A k \in Kernels : k.start <= k.end /\ k.end < Long

ASSUME WidthAssumption == Wrap \in Nat \ {0} /\ Long \in Nat /\ Wrap <= Long

ASSUME BoundAssumption == MaxEarly \in Nat /\ MaxBatch \in Nat /\ MaxReadings \in Nat

VARIABLES
    raw,            \* m_tup_vec_raw: the interval of every record
    keyraw,         \* m_keyval_vec_raw: the same with the kernel, as inserted
    tup,            \* m_tup_vec: the disjoint intervals
    key,            \* m_keyval_vec: the kernel found for each
    tot,            \* m_tot_records
    curr,           \* m_curr_records
    totdis,         \* m_tot_disjoint_records
    pc,             \* where process is
    count,          \* its local of that name
    count2,         \* its local of that name
    idles,          \* Window's m_table_idle, the values under each grid.x
    actives,        \* Window's m_table_active
    sent,           \* history: every measurement given to produce
    readings        \* how many calls of read there have been

recordVars == <<raw, keyraw, curr>>
resultVars == <<tup, key, totdis>>
windowVars == <<idles, actives>>
vars == <<recordVars, resultVars, tot, pc, count, count2, windowVars, sent, readings>>

at(s, i) == s[i + 1]
Interval(k) == [start |-> k.start, end |-> k.end]
Intervals(s) == [i \in 1 .. Len(s) |-> Interval(s[i])]

Sizes == {k.x : k \in Kernels}

Init ==
    /\ raw = <<>> /\ keyraw = <<>> /\ tup = <<>> /\ key = <<>>
    /\ tot = 0 /\ curr = 0 /\ totdis = 0
    /\ pc = "idle" /\ count = 0 /\ count2 = 0
    /\ idles = [x \in Sizes |-> {}]
    /\ actives = [x \in Sizes |-> {}]
    /\ sent = <<>>
    /\ readings = 0

Goto(from, to) == pc = from /\ pc' = to

-----------------------------------------------------------------------------
(* CUPTI and read *)

\* What CUPTI may hand over: records of kernels it has not handed over yet.
Records(n) ==
    {s \in [1 .. n -> Kernels \ {keyraw[i] : i \in 1 .. Len(keyraw)}] :
        \A i, j \in 1 .. n : s[i] = s[j] => i = j}

\* return_buffer: insert for each record.
Insert(s) ==
    /\ raw' = raw \o Intervals(s)
    /\ keyraw' = keyraw \o s

\* A buffer comes back in between two readings.
EarlyBuffer ==
    /\ pc = "idle"
    /\ Len(keyraw) - tot < MaxEarly
    /\ \E s \in Records(1) : Insert(s)
    /\ curr' = curr + 1
    /\ UNCHANGED <<resultVars, tot, pc, count, count2, windowVars, sent, readings>>

\* read counts from zero, and so forgets what came early.
Read ==
    /\ Goto("idle", "sort")
    /\ readings < MaxReadings
    /\ readings' = readings + 1
    /\ \E n \in 0 .. MaxBatch : \E s \in Records(n) :
          /\ Insert(s)
          /\ curr' = n
          /\ tot' = tot + n
    /\ UNCHANGED <<resultVars, count, count2, windowVars, sent>>

-----------------------------------------------------------------------------
(* process: the disjoint intervals *)

Offset == tot - curr

Before(a, b) == a.start < b.start \/ (a.start = b.start /\ a.end < b.end)

\* Where std::sort puts the i-th element of what follows the first n; of equal
\* intervals it does not matter which comes first.
Position(s, n, i) ==
    n + Cardinality({j \in n + 1 .. Len(s) :
                        Before(s[j], s[i]) \/ (s[j] = s[i] /\ j <= i)})

\* std::sort of what follows the first n.
SortedFrom(s, n) ==
    [p \in 1 .. Len(s) |->
        IF p <= n THEN s[p]
        ELSE s[CHOOSE i \in n + 1 .. Len(s) : Position(s, n, i) = p]]

\* The loop starts at the first record, which is in tup already.
FaultySort ==
    /\ Goto("sort", "intervals")
    /\ Offset < Len(raw)
    /\ raw' = SortedFrom(raw, Offset)
    /\ tup' = Append(tup, at(raw', Offset))
    /\ count' = 0
    /\ UNCHANGED <<keyraw, curr, key, totdis, tot, count2, windowVars, sent, readings>>

Sort ==
    /\ Goto("sort", "intervals")
    /\ Offset < Len(raw)
    /\ raw' = SortedFrom(raw, Offset)
    /\ tup' = Append(tup, at(raw', Offset))
    /\ count' = 1
    /\ UNCHANGED <<keyraw, curr, key, totdis, tot, count2, windowVars, sent, readings>>

\* disjoint_records: what this reading has appended to tup.
Disjoint == Len(tup) - totdis

More == Offset + count < Len(raw)
Last == tup[Len(tup)]
Current == at(raw, Offset + count)

\* An interval that starts when the last one ends is taken for disjoint.
FaultyOverlapping == Current.start < Last.end

\* It does not: only what starts later is disjoint.
Overlapping == Current.start <= Last.end

\* The interval that begins after the last one is appended, taken from an index
\* that is the right one only while no record has been dropped.
Separate ==
    /\ Goto("intervals", "intervals")
    /\ More
    /\ ~Overlapping
    /\ totdis + count < Len(raw)
    /\ tup' = Append(tup, at(raw, totdis + count))
    /\ count' = count + 1
    /\ UNCHANGED <<recordVars, key, totdis, tot, count2, windowVars, sent, readings>>

\* A time kept in an unsigned, and one kept in an int and widened again.
Unsigned(t) == t % Wrap
Signed(t) ==
    LET u == Unsigned(t) IN IF 2 * u < Wrap THEN u ELSE Long - Wrap + u

\* One position too many.
FaultyAhead == 1 .. Len(raw) - count - 1

\* The positions of the lookahead that the loop tries: its bound leaves
\* the offset out of account, so they may lie behind raw's end.
Ahead == 1 .. Len(raw) - count - 2
Inside(la) == Offset + count + la < Len(raw)
Beyond(la) == Unsigned(at(raw, Offset + count + la).start) > Last.end
Found(la) ==
    /\ la \in Ahead /\ Inside(la) /\ Beyond(la)
    /\ \A l \in 1 .. la - 1 : ~Beyond(l)

\* Up to the first record that begins after it, everything is merged into the
\* last interval; that record's own interval is appended.
Merge ==
    /\ Goto("intervals", "intervals")
    /\ More
    /\ Overlapping
    /\ \E la \in Ahead :
          /\ Found(la)
          /\ LET prev == Signed(at(raw, Offset + count + la - 1).end)
                 ahead == at(raw, Offset + count + la)
                 merged == [tup EXCEPT ![Len(tup)].end = IF prev > @ THEN prev ELSE @]
             IN  tup' = Append(merged, [start |-> Unsigned(ahead.start),
                                        end |-> Unsigned(ahead.end)])
          /\ count' = count + la + 1
    /\ UNCHANGED <<recordVars, key, totdis, tot, count2, windowVars, sent, readings>>

\* The loop has run out of records, or the lookahead has found none: whatever
\* is left is dropped.
Separated ==
    /\ Goto("intervals", "search")
    /\ More => Overlapping /\ \A la \in Ahead : Inside(la) /\ ~Beyond(la)
    /\ count2' = 0
    /\ UNCHANGED <<recordVars, resultVars, tot, count, windowVars, sent, readings>>

-----------------------------------------------------------------------------
(* process: the kernel of each interval *)

\* count1: how many of this reading's intervals have their kernel.
Count1 == Len(key) - totdis

Searching == pc = "search" /\ Count1 < Disjoint
Candidate == at(keyraw, totdis + count2)
Matches == Candidate.start = at(tup, totdis + Count1).start

\* A kernel that does not match is not skipped.
FaultySkip ==
    /\ Searching
    /\ totdis + count2 < Len(keyraw)
    /\ ~Matches
    /\ UNCHANGED vars

Skip ==
    /\ Searching
    /\ totdis + count2 < Len(keyraw)
    /\ ~Matches
    /\ count2' = count2 + 1
    /\ UNCHANGED <<recordVars, resultVars, tot, pc, count, windowVars, sent, readings>>

\* The same kernel is a candidate again.
FaultyMatch ==
    /\ Searching
    /\ totdis + count2 < Len(keyraw)
    /\ Matches
    /\ key' = Append(key, Candidate)
    /\ UNCHANGED <<recordVars, tup, totdis, tot, pc, count, count2, windowVars, sent, readings>>

\* What is kept are the kernel's own times, not the interval's.
Match ==
    /\ Searching
    /\ totdis + count2 < Len(keyraw)
    /\ Matches
    /\ key' = Append(key, Candidate)
    /\ count2' = count2 + 1
    /\ UNCHANGED <<recordVars, tup, totdis, tot, pc, count, windowVars, sent, readings>>

-----------------------------------------------------------------------------
(* process: the measurements *)

\* The gap is a signed number.
FaultyMeasurement(k, n) ==
    [x |-> k.x, active |-> k.end - k.start, idle |-> n.start - k.end]

\* A kernel and the gap until the next one, in unsigned arithmetic.
Measurement(k, n) ==
    [x |-> k.x, active |-> k.end - k.start, idle |-> (n.start - k.end) % Long]

\* A reading's measurements begin with its own kernels.
FaultyFrom == totdis + 1

\* The first pair of a reading joins it to the one before.
From == IF totdis > 0 THEN totdis ELSE 1

Batch ==
    [i \in 1 .. Len(key) - From |-> Measurement(key[From + i - 1], key[From + i])]

\* A new queue replaces the one under the key.
FaultyWritten(table, field) ==
    [x \in Sizes |->
        LET new == {i \in 1 .. Len(Batch) : Batch[i].x = x}
        IN  IF new = {} THEN table[x] ELSE {Batch[i][field] : i \in new}]

\* WriteDataIdle and WriteDataActive: further values under the key.
Written(table, field) ==
    [x \in Sizes |->
        table[x] \union {Batch[i][field] : i \in {j \in 1 .. Len(Batch) : Batch[j].x = x}}]

Measure ==
    /\ Goto("search", "idle")
    /\ Count1 = Disjoint
    /\ idles' = Written(idles, "idle")
    /\ actives' = Written(actives, "active")
    /\ sent' = sent \o Batch
    /\ totdis' = totdis + Disjoint
    /\ UNCHANGED <<recordVars, tup, key, tot, count, count2, readings>>

\* The queues are min-heaps nobody takes anything out of; Predictor reads
\* their tops.
ReadDataIdle(x) == IF idles[x] = {} THEN 0 ELSE Min(idles[x])
ReadDataActive(x) == IF actives[x] = {} THEN Long - 1 ELSE Min(actives[x])

-----------------------------------------------------------------------------

\* A vector is read behind its end.
BehindTheEnd ==
    \/ pc = "sort" /\ Offset >= Len(raw)
    \/ pc = "intervals" /\ More /\
          IF Overlapping
          THEN /\ \A la \in Ahead : ~Found(la)
               /\ \E la \in Ahead : ~Inside(la)
          ELSE totdis + count >= Len(raw)
    \/ Searching /\ totdis + count2 >= Len(keyraw)

Undefined ==
    /\ BehindTheEnd
    /\ pc' = "undefined"
    /\ UNCHANGED <<recordVars, resultVars, tot, count, count2, windowVars, sent, readings>>

Process ==
    \/ Sort \/ Separate \/ Merge \/ Separated
    \/ Skip \/ Match \/ Measure
    \/ Undefined

Next == EarlyBuffer \/ Read \/ Process

Spec == Init /\ [][Next]_vars

\* process, once called, keeps running.
FairSpec == Spec /\ WF_vars(Process)

-----------------------------------------------------------------------------
(* Properties *)

Time == [start : Nat, end : Nat]

TypeOK ==
    /\ raw \in Seq(Time) /\ tup \in Seq(Time)
    /\ keyraw \in Seq(Kernels) /\ key \in Seq(Kernels)
    /\ tot \in Nat /\ curr \in Nat /\ totdis \in Nat
    /\ pc \in {"idle", "sort", "intervals", "search", "undefined"}
    /\ count \in Nat /\ count2 \in Nat
    /\ idles \in [Sizes -> SUBSET (0 .. Long - 1)]
    /\ actives \in [Sizes -> SUBSET (0 .. Long - 1)]
    /\ sent \in Seq([x : Sizes, active : 0 .. Long - 1, idle : 0 .. Long - 1])
    /\ readings \in 0 .. MaxReadings

\* What the kernels handed over so far have to be for the properties below.
Serial == \A i, j \in 1 .. Len(keyraw) : i < j => keyraw[i].end < keyraw[j].start
InOrder == \A i, j \in 1 .. Len(keyraw) : i < j => keyraw[i].start < keyraw[j].start
Staggered ==
    \A i, j \in 1 .. Len(keyraw) : keyraw[i].start = keyraw[j].start => i = j
Short == \A i \in 1 .. Len(keyraw) : keyraw[i].end < Wrap
Counted == tot = Len(keyraw)

\* As long as kernels run one after the other and every record comes during a
\* flush, however they are spread over the readings and however long they run,
\* no kernel is lost and produce is given every kernel but the last with the
\* gap behind it, those across two readings included: the offsets into
\* four vectors agree (CuptiProfiler.cpp:146-262).
SerialExact ==
    pc = "idle" /\ Serial /\ Counted =>
        /\ key = keyraw
        /\ sent = [i \in 1 .. Len(key) - 1 |-> Measurement(key[i], key[i + 1])]

\* Under the same conditions process reads no vector behind its end, unless a
\* reading has no record at all (CuptiProfiler.cpp:149).
SerialDefined == pc = "undefined" /\ Serial /\ Counted => curr = 0

\* When every record comes during a flush, kernels that overlap take process
\* behind a vector's end only in a reading with two earlier records - where the
\* lookahead's bound is too large (CuptiProfiler.cpp:174), or a record dropped
\* before has put the disjoint branch's index out (line 166) - as long as the
\* times fit 32 bits (line 176) and each record starts after the one before
\* (line 211).
OverlapDefined ==
    pc = "undefined" /\ InOrder /\ Short /\ Counted /\ curr > 0 => Offset >= 2

\* No kernel is measured twice, in whatever order records come and whatever
\* overlaps (CuptiProfiler.cpp:207-221), when every record comes during a flush
\* and no two kernels start at once.  Kernels that do, which nothing rules out
\* (line 77), are one and the same to the search (line 211): a later reading may
\* look for one and find the other, which has been measured.
KernelOnce ==
    Counted /\ Staggered => \A i, j \in 1 .. Len(key) : key[i] = key[j] => i = j

\* Within a reading no gap is zero or negative, though intervals have been
\* merged and each measurement is of the first kernel's own times
\* (CuptiProfiler.cpp:163-192, 252), when all times fit 32 bits, no two kernels
\* start at once, and records come in order or none has been dropped before.
\* Otherwise the disjoint branch may append an interval the reading is past
\* already (line 166) and the search find its kernel; and of two kernels with
\* one start the sort has the one that ends first in front, the search finds the
\* one that came first, and a gap is measured behind the longer.
GapsReal ==
    Short /\ Staggered /\ (InOrder \/ totdis >= Offset) =>
        \A i \in totdis + 1 .. Len(key) - 1 : key[i].end < key[i + 1].start

\* What the predictor reads from Window for a grid is the shortest run and the
\* shortest gap CUPTI has reported of it - of all kernels but the last, whose
\* gap is not known - and the defaults before there is one
\* (Window.cpp:34-115).
WindowShortest ==
    pc = "idle" /\ Serial /\ Counted =>
        \A x \in Sizes :
            LET of == {i \in 1 .. Len(keyraw) - 1 : keyraw[i].x = x} IN
            /\ ReadDataIdle(x) =
                  IF of = {} THEN 0
                  ELSE Min({keyraw[i + 1].start - keyraw[i].end : i \in of})
            /\ ReadDataActive(x) =
                  IF of = {} THEN Long - 1
                  ELSE Min({keyraw[i].end - keyraw[i].start : i \in of})

\* A reading comes to its end, or goes behind a vector's: none of the three
\* loops is endless (CuptiProfiler.cpp:152, 207, 243).
ReadingEnds == pc = "sort" ~> pc \in {"idle", "undefined"}

=============================================================================
