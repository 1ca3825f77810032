---------------------------- MODULE MonitorProofs ----------------------------
(***************************************************************************)
(* Proofs about what Monitor.c reports: execution times                    *)
(* (RequestProcessing), the processor's usage (CpuUsage) and the use of    *)
(* stacks (StackUsage).                                                    *)
(*                                                                         *)
(* For any threads and priorities, any number of requests and any clock    *)
(* that Clock allows, a time measured by two readings that no other call   *)
(* overtook lies between the time in the user function and the time of the *)
(* whole call; the fields of a thread are the                              *)
(* statistics of its samples; and a reader of the fields, though it may    *)
(* come between any two updates, gets a minimum that does not exceed the   *)
(* maximum.  The same holds of the processor's usage for any number of     *)
(* ticks.  The stack scan is right for stacks of any size.                 *)
(*                                                                         *)
(* The three components share no state; they share the arithmetic of means *)
(* that are kept incrementally.                                            *)
(***************************************************************************)
EXTENDS RequestProcessing, CpuUsage, StackUsage, WellFoundedInduction, TLAPS

-----------------------------------------------------------------------------
(* Arithmetic: division rounds down, so a mean stays within its bounds.    *)

LEMMA ProductInt ==
  ASSUME NEW a \in Int, NEW b \in Int
  PROVE  a * b \in Int
  OBVIOUS

LEMMA ProductMonotone ==
  ASSUME NEW a \in Int, NEW b \in Int, NEW c \in Nat, a <= b
  PROVE  a * c <= b * c
<1>1. PICK d \in Nat : b = a + d
  BY b - a \in Nat, b = a + (b - a)
<1>2. PICK x \in Int, y \in Int, z \in Nat :
        x = a * c /\ y = b * c /\ z = d * c
  <2>1. d * c \in Nat
    OBVIOUS
  <2> QED
    BY <2>1, ProductInt
<1>3. y = x + z
  BY <1>1, <1>2
<1> QED
  BY <1>2, <1>3

LEMMA ScaledMonotone ==
  ASSUME NEW a \in Int, NEW b \in Int, NEW c \in Nat, a <= b
  PROVE  c * a <= c * b
<1>1. a * c <= b * c
  BY ProductMonotone
<1>2. a * c = c * a /\ b * c = c * b
  OBVIOUS
<1> QED
  BY <1>1, <1>2

LEMMA Quotient ==
  ASSUME NEW d \in Int, NEW k \in Nat \ {0}
  PROVE  \E q \in Int, r \in 0 .. k - 1 : d = k * q + r /\ q = d \div k
<1>1. /\ d % k \in 0 .. k - 1
      /\ d \div k \in Int
      /\ d = k * (d \div k) + (d % k)
  OBVIOUS
<1> QED
  BY <1>1

(* A quotient is between zero and the dividend. *)
LEMMA QuotientBetween ==
  ASSUME NEW d \in Int, NEW k \in Nat \ {0}
  PROVE  /\ d \div k \in Int
         /\ d >= 0 => 0 <= d \div k /\ d \div k <= d
         /\ d <= 0 => d <= d \div k /\ d \div k <= 0
<1>1. PICK q \in Int, r \in 0 .. k - 1 : d = k * q + r /\ q = d \div k
  BY Quotient
<1>2. PICK p \in Int : p = k * q
  OBVIOUS
<1>3. d = p + r
  BY <1>1, <1>2
<1>4. CASE q >= 1
  <2>1. p >= k /\ p >= q
    BY <1>2, <1>4
  <2> QED
    BY <1>1, <1>3, <1>4, <2>1
<1>5. CASE q = 0
  BY <1>1, <1>2, <1>3, <1>5
<1>6. CASE q <= -1
  <2>1. PICK j \in Nat : q = -1 - j
    BY <1>6, -1 - q \in Nat, q = -1 - (-1 - q)
  <2>2. PICK x \in Nat : x = k * j /\ x >= j
    <3>1. k * j \in Nat /\ k * j >= j
      OBVIOUS
    <3> QED
      BY <3>1
  <2>3. p = -k - x
    BY <1>2, <2>1, <2>2
  <2>4. p + r <= -1 - j /\ p + r < 0
    BY <2>2, <2>3
  <2> QED
    BY <1>1, <1>3, <1>6, <2>1, <2>4
<1> QED
  BY <1>4, <1>5, <1>6

(* The conversion of the mean rounds down, but not below a whole bound.    *)
LEMMA TruncatedBetween ==
  ASSUME NEW m \in Int, NEW lo \in Int, NEW hi \in Int, NEW k \in Nat \ {0},
         lo * k <= m, m <= hi * k
  PROVE  m \div k \in Int /\ lo <= m \div k /\ m \div k <= hi
<1>1. PICK q \in Int, r \in 0 .. k - 1 : m = k * q + r /\ q = m \div k
  BY Quotient
<1>2. PICK p \in Int, l \in Int, h \in Int :
        p = q * k /\ l = lo * k /\ h = hi * k
  BY ProductInt
<1>3. m = p + r
  BY <1>1, <1>2
<1>4. lo <= q
  <2>1. CASE q <= lo - 1
    <3>1. PICK n \in Int, x \in Int : n = q + 1 /\ x = n * k
      BY ProductInt
    <3>2. x = p + k
      BY <1>2, <3>1
    <3>3. x <= l
      BY <1>2, <2>1, <3>1, ProductMonotone
    <3> QED
      BY <1>1, <1>2, <1>3, <3>2, <3>3
  <2> QED
    BY <2>1
<1>5. q <= hi
  <2>1. CASE hi <= q - 1
    <3>1. PICK n \in Int, x \in Int : n = hi + 1 /\ x = n * k
      BY ProductInt
    <3>2. x = h + k
      BY <1>2, <3>1
    <3>3. x <= p
      BY <1>2, <2>1, <3>1, ProductMonotone
    <3> QED
      BY <1>1, <1>2, <1>3, <3>2, <3>3
  <2> QED
    BY <2>1
<1> QED
  BY <1>1, <1>4, <1>5

(* What both components make of a mean of count samples and one more. *)
NextMean(scale, mean, sample, count) ==
  mean + (sample * scale - mean) \div (count + 1)

(* A new mean lies between the old one and the sample. *)
LEMMA MeanBetween ==
  ASSUME NEW scale \in Nat \ {0}, NEW mean \in Int, NEW sample \in Nat,
         NEW count \in Nat
  PROVE  LET new == NextMean(scale, mean, sample, count)
         IN  /\ new \in Int
             /\ \A lo \in Int :
                  lo <= mean /\ lo <= sample * scale => lo <= new
             /\ \A hi \in Int :
                  mean <= hi /\ sample * scale <= hi => new <= hi
<1>1. PICK x \in Int, k \in Nat \ {0}, d \in Int :
        x = sample * scale /\ k = count + 1 /\ d = x - mean
  <2>1. sample * scale \in Int
    BY ProductInt
  <2>2. count + 1 \in Nat \ {0}
    OBVIOUS
  <2> QED
    BY <2>1, <2>2
<1>2. PICK e \in Int :
        /\ e = d \div k
        /\ d >= 0 => 0 <= e /\ e <= d
        /\ d <= 0 => d <= e /\ e <= 0
  BY QuotientBetween
<1>3. NextMean(scale, mean, sample, count) = mean + e
  BY <1>1, <1>2 DEF NextMean
<1> QED
  BY <1>1, <1>2, <1>3

(* The first mean is the sample. *)
LEMMA FirstMean ==
  ASSUME NEW scale \in Nat, NEW mean \in Int, NEW sample \in Nat
  PROVE  NextMean(scale, mean, sample, 0) = sample * scale
<1>1. PICK x \in Int : x = sample * scale
  BY ProductInt
<1>2. (x - mean) \div (0 + 1) = x - mean
  OBVIOUS
<1> QED
  BY <1>1, <1>2 DEF NextMean

LEMMA ProductAssociates ==
  ASSUME NEW a \in Int, NEW b \in Int, NEW c \in Int
  PROVE  (a * b) * c = a * (b * c)
  OBVIOUS

LEMMA ProductDistributes ==
  ASSUME NEW a \in Int, NEW b \in Int, NEW c \in Int
  PROVE  a * (b + c) = a * b + a * c /\ a * (b - c) = a * b - a * c
  OBVIOUS

LEMMA ExactQuotient ==
  ASSUME NEW k \in Nat \ {0}, NEW e \in Int
  PROVE  (k * e) \div k = e
<1>1. PICK d \in Int : d = k * e
  BY ProductInt
<1>2. PICK q \in Int, r \in 0 .. k - 1 : d = k * q + r /\ q = d \div k
  BY Quotient
<1>3. PICK f \in Int : f = e - q /\ k * f = r
  <2>1. k * (e - q) = k * e - k * q
    BY ProductDistributes
  <2>2. k * e \in Int /\ k * q \in Int
    BY ProductInt
  <2> QED
    BY <1>1, <1>2, <2>1, <2>2
<1>4. f = 0
  <2>1. f >= 1 => k * f >= k
    OBVIOUS
  <2>2. f <= -1 => k * f < 0
    OBVIOUS
  <2> QED
    BY <1>2, <1>3, <2>1, <2>2
<1> QED
  BY <1>1, <1>2, <1>3, <1>4

(* The new mean of n + 1 samples is that of the n old ones and the new.    *)
IsMean(scale, mean, n, sum) == mean * n = scale * sum

LEMMA MeanOfOneMore ==
  ASSUME NEW scale \in Nat \ {0}, NEW mean \in Int, NEW x \in Nat,
         NEW n \in Nat, NEW m \in Nat \ {0}, m = n + 1, NEW sum \in Int,
         scale % m = 0, IsMean(scale, mean, n, sum)
  PROVE  IsMean(scale, NextMean(scale, mean, x, n), m, sum + x)
<1> USE DEF IsMean
<1>1. PICK k \in Int : scale = m * k
  <2>1. scale = m * (scale \div m) /\ scale \div m \in Int
    OBVIOUS
  <2> QED
    BY <2>1
<1>2. PICK a \in Int, b \in Int : a = k * sum /\ b = k * x
  BY ProductInt
<1>3. scale * sum = m * a /\ scale * x = m * b
  BY <1>1, <1>2, ProductAssociates
<1>4. mean = m * (mean - a)
  <2>1. m * mean = mean * n + mean
    BY <1>1
  <2>2. m * (mean - a) = m * mean - m * a
    BY ProductDistributes
  <2>3. m * mean \in Int /\ m * a \in Int /\ mean * n \in Int
    BY ProductInt
  <2> QED
    BY <1>3, <2>1, <2>2, <2>3
<1>5. PICK e \in Int : e = b - (mean - a) /\ m * e = x * scale - mean
  <2>1. PICK y \in Int, z \in Int, e \in Int :
          y = mean - a /\ z = m * b /\ e = b - y
    BY ProductInt
  <2>2. m * e = m * b - m * y
    BY <2>1, ProductDistributes
  <2>3. m * y = mean
    BY <1>4, <2>1
  <2>4. x * scale = scale * x
    OBVIOUS
  <2>5. m * e = x * scale - mean
    BY <1>3, <2>2, <2>3, <2>4
  <2> QED
    BY <2>1, <2>5
<1>6. NextMean(scale, mean, x, n) = a + b
  <2>1. (x * scale - mean) \div (n + 1) = e
    BY <1>1, <1>5, ExactQuotient
  <2> QED
    BY <1>5, <2>1 DEF NextMean
<1>7. NextMean(scale, mean, x, n) * m = m * a + m * b
  BY <1>1, <1>6, ProductDistributes
<1>8. scale * (sum + x) = scale * sum + scale * x
  BY ProductDistributes
<1> QED
  BY <1>3, <1>7, <1>8

-----------------------------------------------------------------------------
(* RequestProcessing: the inductive invariant.                             *)

LEMMA ScaleNat == Scale \in Nat \ {0}
BY ProcessingAssumption

LEMMA QuotientMonotone ==
  ASSUME NEW a \in Int, NEW b \in Int, NEW k \in Nat \ {0}, a <= b
  PROVE  a \div k <= b \div k
<1>1. PICK q \in Int, r \in 0 .. k - 1 : a = k * q + r /\ q = a \div k
  BY Quotient
<1>2. PICK p \in Int, s \in 0 .. k - 1 : b = k * p + s /\ p = b \div k
  BY Quotient
<1>3. CASE p <= q - 1
  <2>1. PICK n \in Int, x \in Int, y \in Int, z \in Int :
          n = p + 1 /\ x = k * n /\ y = k * q /\ z = k * p
    BY ProductInt
  <2>2. x <= y
    BY <1>3, <2>1, ScaledMonotone
  <2>3. x = z + k
    BY <2>1
  <2> QED
    BY <1>1, <1>2, <2>1, <2>2, <2>3
<1> QED
  BY <1>1, <1>2, <1>3

(* The conversion of the clock keeps the order of moments.                 *)
LEMMA NsOrder ==
  ASSUME NEW a \in Nat, NEW b \in Nat, a <= b
  PROVE  Ns(a) \in Nat /\ Ns(b) \in Nat /\ Ns(a) <= Ns(b)
<1>1. PICK n \in Nat, k \in Nat \ {0} :
        n = NANOSECOND_IN_SECOND /\ k = ClockFrequency
  BY ProcessingAssumption
<1>2. PICK x \in Int, y \in Int : x = a * n /\ y = b * n
  BY ProductInt
<1>3. 0 <= x /\ x <= y
  <2>1. 0 * n <= a * n /\ a * n <= b * n
    BY ProductMonotone
  <2>2. 0 * n = 0
    OBVIOUS
  <2> QED
    BY <1>2, <2>1, <2>2
<1>4. x \div k \in Nat /\ y \div k \in Nat /\ x \div k <= y \div k
  BY <1>3, QuotientBetween, QuotientMonotone
<1> QED
  BY <1>1, <1>2, <1>4 DEF Ns

Steps == {"idle", "activated", "readsBefore", "user", "readsAfter",
          "executed", "deactivated", "minimum", "maximum", "mean", "counter"}

Reading == [step : {"idle", "minimum", "average", "done"},
            interface : Threads \cup {Reader},
            disturbed : BOOLEAN,
            counted : BOOLEAN,
            max : Nat, min : Nat, average : Int]

TypeInv ==
  /\ time \in 0 .. MaxTime
  /\ began \in [Threads -> -1 .. time]
  /\ overtaken \subseteq Threads
  /\ elapsed \in [Threads -> Nat]
  /\ pc \in [Threads -> Steps]
  /\ time_before_execution \in [Threads -> Int]
  /\ thread_execution_time \in [Threads -> Nat]
  /\ min_thread_execution_time \in [Threads -> Nat]
  /\ max_thread_execution_time \in [Threads -> Nat]
  /\ mean_thread_execution_time \in [Threads -> Int]
  /\ execution_time_counter \in [Threads -> Nat]
  /\ bounds \in [Threads -> [least : Int, most : Int, exact : BOOLEAN]]
  /\ reading \in Reading
  /\ reading.step # "idle" => reading.interface \in Threads

(* A thread is in a call of the clock just while it reads; nothing that    *)
(* could overtake it runs while the thread of highest priority reads.      *)
Reads(t) == pc[t] \in {"readsBefore", "readsAfter"}
Top(t)   == \A u \in Threads : u <= t

ClockInv ==
  \A t \in Threads :
    /\ t \in C!Calling => Reads(t)
    /\ Top(t) => t \notin overtaken /\ bounds[t].exact

(* The first reading is of a time between the two bounds kept of it, and   *)
(* not after the second reading; so, later, is the difference of the two.  *)
Measures(t) ==
  /\ pc[t] \in {"user", "readsAfter"} =>
       /\ 0 <= bounds[t].most
       /\ bounds[t].most <= time_before_execution[t]
       /\ time_before_execution[t] <= bounds[t].least
       /\ bounds[t].least <= Ns(time)
  /\ pc[t] = "readsAfter" /\ began[t] # -1 => bounds[t].least <= Ns(began[t])
  /\ pc[t] \in {"executed", "deactivated"} =>
       /\ 0 <= bounds[t].least
       /\ bounds[t].least <= elapsed[t] - time_before_execution[t]
       /\ elapsed[t] - time_before_execution[t] <= bounds[t].most
       /\ bounds[t].most < Word
  /\ pc[t] = "minimum" =>
       /\ bounds[t].least <= thread_execution_time[t]
       /\ thread_execution_time[t] <= bounds[t].most

MeasureInv == \A t \in Threads : bounds[t].exact => Measures(t)

(* After the first execution the fields of a thread are always in order,   *)
(* also between the updates of the later ones.                             *)
Ordered(t) ==
  /\ min_thread_execution_time[t] <= max_thread_execution_time[t]
  /\ min_thread_execution_time[t] * Scale <= mean_thread_execution_time[t]
  /\ mean_thread_execution_time[t] <= max_thread_execution_time[t] * Scale

Updated(t) ==
  /\ execution_time_counter[t] > 0 \/ pc[t] = "counter" => Ordered(t)
  /\ pc[t] \in {"maximum", "mean"} =>
       min_thread_execution_time[t] <= thread_execution_time[t]
  /\ pc[t] = "mean" =>
       thread_execution_time[t] <= max_thread_execution_time[t]

FieldsInv == \A t \in Threads : Updated(t)

(* What the reader has read bounds what it will read. *)
ReadInv ==
  LET i == reading.interface
  IN  reading.step # "idle" /\ reading.counted =>
        /\ execution_time_counter[i] > 0
        /\ reading.step = "minimum" =>
             min_thread_execution_time[i] <= reading.max
        /\ reading.step # "minimum" => reading.min <= reading.max
        /\ ~reading.disturbed =>
             /\ reading.step # "done" =>
                  mean_thread_execution_time[i] <= reading.max * Scale
             /\ reading.step = "average" =>
                  reading.min * Scale <= mean_thread_execution_time[i]
             /\ reading.step = "done" =>
                  /\ reading.min <= reading.average
                  /\ reading.average <= reading.max

HistoryType ==
  /\ samples \in [Threads -> Seq(Nat)]
  /\ total \in [Threads -> Nat]
  /\ initial \in Nat

(* Once measured, a time is a sample before it is counted.                 *)
Uncounted(t) == pc[t] \in {"minimum", "maximum", "mean", "counter"}

Counted(t) ==
  /\ Len(samples[t])
       = execution_time_counter[t] + (IF Uncounted(t) THEN 1 ELSE 0)
  /\ Len(samples[t]) <= MaxRuns
  /\ pc[t] # "idle" => execution_time_counter[t] < MaxRuns
  /\ pc[t] \in {"minimum", "maximum", "mean"} =>
       thread_execution_time[t] = samples[t][Len(samples[t])]

(* Of how many samples the minimum and the maximum are, how many the mean  *)
(* divides, and what: all of them but one that is still to be looked at.   *)
InMinimum(t) ==
  IF pc[t] = "minimum" THEN Len(samples[t]) - 1 ELSE Len(samples[t])
InMaximum(t) ==
  IF pc[t] \in {"minimum", "maximum"}
    THEN Len(samples[t]) - 1 ELSE Len(samples[t])
InMean(t) ==
  execution_time_counter[t] + (IF pc[t] = "counter" THEN 1 ELSE 0)
Averaged(t) ==
  IF pc[t] \in {"minimum", "maximum", "mean"}
    THEN total[t] - thread_execution_time[t] ELSE total[t]

First(s, n)     == {s[i] : i \in 1 .. n}
IsMinimum(x, S) == x \in S /\ \A y \in S : x <= y
IsMaximum(x, S) == x \in S /\ \A y \in S : y <= x

Kept(t) ==
  /\ IsMinimum(min_thread_execution_time[t],
               First(samples[t], InMinimum(t)) \cup {initial})
  /\ IsMaximum(max_thread_execution_time[t],
               First(samples[t], InMaximum(t)) \cup {0})
  /\ IsMean(Scale, mean_thread_execution_time[t], InMean(t), Averaged(t))

HistoryInv ==
  /\ HistoryType
  /\ \A t \in Threads : Counted(t) /\ Kept(t)

IInv == TypeInv /\ ClockInv /\ MeasureInv /\ FieldsInv /\ ReadInv /\ HistoryInv

LEMMA Initially == ProcessingInit => IInv
<1> SUFFICES ASSUME ProcessingInit PROVE IInv
  OBVIOUS
<1>1. TypeInv
  <2>1. reading \in Reading
    BY ProcessingAssumption DEF ProcessingInit, NotReading, Reading
  <2>2. initial \in Nat
    BY ProcessingAssumption DEF ProcessingInit
  <2>3. /\ time = 0
        /\ began = [t \in Threads |-> -1]
        /\ overtaken = {}
        /\ elapsed = [t \in Threads |-> Ns(0)]
    BY DEF ProcessingInit, C!ClockInit, C!NoCall
  <2>4. Ns(0) \in Nat /\ 0 \in 0 .. MaxTime
    BY NsOrder, ProcessingAssumption
  <2> QED
    BY <2>1, <2>2, <2>3, <2>4
    DEF ProcessingInit, TypeInv, Steps, NoBounds, NotReading
<1>c. ClockInv
  BY DEF ProcessingInit, C!ClockInit, C!Calling, C!NoCall, ClockInv, NoBounds
<1>2. MeasureInv
  BY DEF ProcessingInit, MeasureInv, Measures
<1>3. FieldsInv
  BY DEF ProcessingInit, FieldsInv, Updated
<1>4. ReadInv
  BY DEF ProcessingInit, NotReading, ReadInv
<1>5. HistoryInv
  <2>type. HistoryType
    BY ProcessingAssumption DEF ProcessingInit, HistoryType
  <2> SUFFICES ASSUME NEW t \in Threads PROVE Counted(t) /\ Kept(t)
    BY <2>type DEF HistoryInv
  <2>1. /\ samples[t] = <<>> /\ Len(samples[t]) = 0
        /\ pc[t] = "idle"
        /\ execution_time_counter[t] = 0
        /\ min_thread_execution_time[t] = initial
        /\ max_thread_execution_time[t] = 0
        /\ mean_thread_execution_time[t] = 0
        /\ total[t] = 0
    BY DEF ProcessingInit
  <2>2. Counted(t)
    BY <2>1, ProcessingAssumption DEF Counted, Uncounted
  <2>3. IsMinimum(initial, {initial}) /\ IsMaximum(0, {0})
    BY <2>type DEF IsMinimum, IsMaximum, HistoryType
  <2>4. First(samples[t], 0) = {}
    BY DEF First
  <2>5. IsMean(Scale, mean_thread_execution_time[t], InMean(t), Averaged(t))
    BY <2>1, ScaleNat DEF InMean, Averaged, IsMean
  <2> QED
    BY <2>1, <2>2, <2>3, <2>4, <2>5 DEF Kept, InMinimum, InMaximum
<1> QED
  BY <1>1, <1>c, <1>2, <1>3, <1>4, <1>5 DEF IInv

-----------------------------------------------------------------------------
(* What the clock and the scheduling of a step contribute.                 *)

LEMMA CallersThreads == C!Calling \subseteq Threads
BY DEF C!Calling

LEMMA ClockBegins ==
  ASSUME TypeInv, NEW t \in Threads, C!Begin(t)
  PROVE  /\ UNCHANGED <<time, elapsed>>
         /\ began' = [began EXCEPT ![t] = time]
         /\ began' \in [Threads -> -1 .. time]
         /\ overtaken' \subseteq Threads
         /\ overtaken' = overtaken \cup C!Calling
         /\ t \notin C!Calling
<1>1. time \in Nat /\ began \in [Threads -> -1 .. time]
  BY ProcessingAssumption DEF TypeInv
<1>2. [began EXCEPT ![t] = time] \in [Threads -> -1 .. time]
  <2>1. time \in -1 .. time
    BY <1>1
  <2> QED
    BY <1>1, <2>1
<1>3. C!Calling \subseteq Threads
  BY DEF C!Calling
<1> QED
  BY <1>2, <1>3 DEF C!Begin, TypeInv

(* A call of the clock returns the time of a moment of the call.           *)
LEMMA ClockReturns ==
  ASSUME TypeInv, NEW t \in Threads, C!Return(t)
  PROVE  /\ time' = time
         /\ began[t] \in Nat /\ began[t] <= time
         /\ C!Earliest(t) \in Nat
         /\ t \notin overtaken => C!Earliest(t) = began[t]
         /\ Ns(C!Earliest(t)) \in Nat /\ Ns(time) \in Nat
         /\ elapsed'[t] \in Nat
         /\ Ns(C!Earliest(t)) <= elapsed'[t]
         /\ elapsed'[t] <= Ns(time)
         /\ elapsed' = [elapsed EXCEPT ![t] = elapsed'[t]]
         /\ began' = [began EXCEPT ![t] = -1]
         /\ began' \in [Threads -> -1 .. time]
         /\ overtaken' \subseteq overtaken
<1>1. began[t] \in Nat /\ began[t] <= time /\ time \in Nat
  BY ProcessingAssumption DEF TypeInv, C!Return, C!Calling, C!NoCall
<1>2. C!Earliest(t) \in Nat /\ (t \notin overtaken => C!Earliest(t) = began[t])
  BY <1>1, ProcessingAssumption DEF C!Earliest
<1>3. PICK x \in C!Earliest(t) .. time :
        elapsed' = [elapsed EXCEPT ![t] = Ns(x)]
  BY DEF C!Return
<1>4. x \in Nat /\ C!Earliest(t) <= x /\ x <= time
  BY <1>1, <1>2, <1>3
<1>5. /\ Ns(C!Earliest(t)) \in Nat /\ Ns(x) \in Nat /\ Ns(time) \in Nat
      /\ Ns(C!Earliest(t)) <= Ns(x) /\ Ns(x) <= Ns(time)
  BY <1>1, <1>2, <1>4, NsOrder
<1>6. began' = [began EXCEPT ![t] = -1] /\ began' \in [Threads -> -1 .. time]
  BY <1>1 DEF C!Return, C!NoCall, TypeInv
<1> QED
  BY <1>1, <1>2, <1>3, <1>5, <1>6 DEF C!Return, TypeInv

(* What moving on does to the moments already seen.                        *)
LEMMA ClockAdvances ==
  ASSUME TypeInv, Tick
  PROVE  /\ time' \in 0 .. MaxTime
         /\ began' = began /\ began' \in [Threads -> -1 .. time']
         /\ Ns(time) \in Nat /\ Ns(time') \in Nat
         /\ Ns(time) <= Ns(time')
<1>1. time \in Nat /\ time' \in Nat /\ time <= time' /\ time' <= MaxTime
  BY ProcessingAssumption DEF TypeInv, Tick
<1>2. began' = began /\ began \in [Threads -> -1 .. time]
  BY DEF Tick, C!Advance, TypeInv
<1>3. \A t \in Threads : began[t] \in -1 .. time'
  BY <1>1, <1>2
<1> QED
  BY <1>1, <1>2, <1>3, NsOrder, ProcessingAssumption

(* Only a thread that is not below those that read can overtake them.      *)
LEMMA OvertakesBelow ==
  ASSUME TypeInv, ClockInv, NEW t \in Threads, Runs(t), ~Reads(t),
         NEW u \in C!Calling
  PROVE  u \in Threads /\ ~Top(u)
<1>1. u \in Threads /\ Reads(u)
  BY DEF ClockInv, C!Calling
<1>2. u # t /\ u \in Nat /\ t \in Nat
  BY <1>1, ProcessingAssumption
<1>3. ~(u > t)
  BY <1>1 DEF Runs, Reads
<1> QED
  BY <1>1, <1>2, <1>3 DEF Top

LEMMA WordPositive == Word \in Nat \ {0} /\ Ns(MaxTime) < Word
<1>1. MaxTime \in Nat /\ Word \in Nat /\ Word > Ns(MaxTime)
  BY ProcessingAssumption
<1>2. Ns(MaxTime) \in Nat
  BY <1>1, NsOrder
<1> QED
  BY <1>1, <1>2

(* The reader changes nothing but its own state.                           *)
LEMMA ReaderKeeps == Monitor_GetUsageData => UNCHANGED unchangedByReader
<1>1. \A i \in Threads : ReadMaximum(i) => UNCHANGED unchangedByReader
  BY Zenon DEF ReadMaximum
<1>2. ReadMinimum \/ ReadAverage \/ ReturnUsage => UNCHANGED unchangedByReader
  BY Zenon DEF ReadMinimum, ReadAverage, ReturnUsage
<1> QED
  BY <1>1, <1>2, Zenon DEF Monitor_GetUsageData

(* What storing an activation changes.                                     *)
LEMMA Indicates ==
  ASSUME TypeInv, NEW t \in Threads,
         \/ Monitor_IndicateInterfaceActivated(t)
         \/ Monitor_IndicateInterfaceDeactivated(t)
  PROVE  /\ Runs(t) /\ ~Reads(t)
         /\ pc' \in [Threads -> Steps]
         /\ \A v \in Threads : Reads(v) => Reads(v)'
         /\ UNCHANGED <<time, began, elapsed, time_before_execution, infoVars,
                        reading, bounds, samples, total, initial>>
         /\ overtaken' \subseteq overtaken \cup C!Calling
         /\ overtaken' \subseteq Threads
<1>1. /\ Runs(t) /\ pc[t] \in {"idle", "executed"}
      /\ \E to \in {"activated", "deactivated"} : pc' = [pc EXCEPT ![t] = to]
      /\ LogReadsClock
      /\ UNCHANGED <<time_before_execution, infoVars, reading, histVars>>
  <2>1. CASE Monitor_IndicateInterfaceActivated(t)
    BY <2>1, Zenon DEF Monitor_IndicateInterfaceActivated, Step
  <2>2. CASE Monitor_IndicateInterfaceDeactivated(t)
    BY <2>2, Zenon DEF Monitor_IndicateInterfaceDeactivated, Step
  <2> QED
    BY <2>1, <2>2
<1>2. pc \in [Threads -> Steps] /\ overtaken \subseteq Threads
  BY DEF TypeInv
<1>3. pc' \in [Threads -> Steps]
  BY <1>1, <1>2 DEF Steps
<1>4. ~Reads(t) /\ \A v \in Threads : Reads(v) => Reads(v)'
  BY <1>1, <1>2 DEF Reads
<1> QED
  BY <1>1, <1>2, <1>3, <1>4, CallersThreads DEF LogReadsClock, histVars

(* What the updates of the statistics leave alone.                         *)
LEMMA UpdatesKeep ==
  ASSUME TypeInv, NEW t \in Threads,
         Measure(t) \/ update_execution_time_data(t)
  PROVE  /\ UNCHANGED clockVars
         /\ ~Reads(t)
         /\ \A v \in Threads : Reads(v) => Reads(v)'
         /\ bounds' = bounds \/ bounds' = [bounds EXCEPT ![t] = NoBounds]
<1>1. /\ UNCHANGED clockVars
      /\ bounds' = bounds \/ bounds' = [bounds EXCEPT ![t] = NoBounds]
  BY DEF Measure, update_execution_time_data, UpdateMinimum, UpdateMaximum,
         UpdateMean, UpdateCounter, histVars
<1>2. /\ pc[t] \in {"deactivated", "minimum", "maximum", "mean", "counter"}
      /\ \E to \in Steps : pc' = [pc EXCEPT ![t] = to]
  BY DEF Measure, update_execution_time_data, UpdateMinimum, UpdateMaximum,
         UpdateMean, UpdateCounter, Step, Steps
<1>3. pc \in [Threads -> Steps]
  BY DEF TypeInv
<1>4. ~Reads(t) /\ \A v \in Threads : Reads(v) => Reads(v)'
  BY <1>2, <1>3 DEF Reads
<1> QED
  BY <1>1, <1>4

LEMMA MeasuredNat ==
  ASSUME NEW b \in Int, NEW a \in Int
  PROVE  Measured(b, a) \in Nat
<1>1. PICK d \in Int : d = a - b
  OBVIOUS
<1>2. d % Word \in Nat
  BY <1>1, WordPositive
<1> QED
  BY <1>1, <1>2 DEF Measured

LEMMA Disturbs ==
  ASSUME TypeInv, NEW t \in Threads, Disturb(t)
  PROVE  /\ reading' \in Reading
         /\ reading' = [reading EXCEPT !.disturbed = reading'.disturbed]
         /\ reading'.step = reading.step
         /\ reading'.interface = reading.interface
         /\ reading.disturbed => reading'.disturbed
         /\ reading.interface = t => reading'.disturbed
         /\ reading.interface # t => reading' = reading
<1>1. reading \in Reading
  BY DEF TypeInv
<1>2. CASE reading.interface = t
  BY <1>1, <1>2 DEF Disturb, Reading
<1>3. CASE reading.interface # t
  BY <1>1, <1>3 DEF Disturb, Reading
<1> QED
  BY <1>2, <1>3

(* The reader looks at the fields of one of the threads. *)
LEMMA ReaderReads ==
  ASSUME TypeInv, Monitor_GetUsageData
  PROVE  /\ reading' \in Reading
         /\ reading'.step # "idle" => reading'.interface \in Threads
<1>1. reading \in Reading
  BY DEF TypeInv
<1>2. ASSUME NEW i \in Threads, ReadMaximum(i)
      PROVE  reading' \in Reading /\ reading'.interface = i
  <2>1. PICK c \in BOOLEAN : c = (execution_time_counter[i] > 0)
    <3>1. (execution_time_counter[i] > 0) \in BOOLEAN
      OBVIOUS
    <3> QED
      BY <3>1, Zenon
  <2>2. max_thread_execution_time[i] \in Nat
    BY DEF TypeInv
  <2>3. reading' = [reading EXCEPT !.step = "minimum", !.interface = i,
                      !.counted = c, !.max = max_thread_execution_time[i]]
    BY <1>2, <2>1 DEF ReadMaximum
  <2> QED
    BY <1>1, <2>2, <2>3 DEF Reading
<1>3. CASE ReadMinimum
  <2>1. /\ reading.interface \in Threads
        /\ min_thread_execution_time[reading.interface] \in Nat
    BY <1>3 DEF ReadMinimum, TypeInv
  <2> QED
    BY <1>1, <1>3, <2>1 DEF ReadMinimum, Reading
<1>4. CASE ReadAverage
  <2>1. /\ reading.interface \in Threads
        /\ mean_thread_execution_time[reading.interface] \in Int
    BY <1>4 DEF ReadAverage, TypeInv
  <2>2. PICK a \in Int :
          a = mean_thread_execution_time[reading.interface] \div Scale
    BY <2>1, QuotientBetween, ProcessingAssumption
  <2> QED
    BY <1>1, <1>4, <2>1, <2>2 DEF ReadAverage, Reading
<1>5. CASE ReturnUsage
  BY <1>5, ProcessingAssumption DEF ReturnUsage, NotReading, Reading
<1> QED
  BY <1>2, <1>3, <1>4, <1>5 DEF Monitor_GetUsageData

-----------------------------------------------------------------------------
(* Each step preserves each part of the invariant.                         *)

LEMMA TypeStep == TypeInv /\ [ProcessingNext]_processingVars => TypeInv'
<1> SUFFICES ASSUME TypeInv, [ProcessingNext]_processingVars PROVE TypeInv'
  OBVIOUS
<1> USE DEF TypeInv, Step
<1>1. CASE UNCHANGED processingVars
  BY <1>1 DEF processingVars, clockVars, infoVars, histVars
<1>2. CASE Tick
  <2>1. time' \in 0 .. MaxTime /\ began' \in [Threads -> -1 .. time']
    BY <1>2, ClockAdvances
  <2> QED
    BY <1>2, <2>1 DEF Tick, C!Advance, infoVars, histVars
<1>3. ASSUME NEW t \in Threads, Monitor_IndicateInterfaceActivated(t)
      PROVE  TypeInv'
  BY <1>3, Indicates DEF infoVars
<1>4. ASSUME NEW t \in Threads, BeginBefore(t) PROVE TypeInv'
  BY <1>4, ClockBegins DEF BeginBefore, infoVars, histVars, Steps
<1>5. ASSUME NEW t \in Threads, ReturnBefore(t) PROVE TypeInv'
  <2>1. PICK b \in [least : Int, most : Int, exact : BOOLEAN] :
          bounds' = [bounds EXCEPT ![t] = b]
    <3>1. C!Return(t)
      BY <1>5 DEF ReturnBefore
    <3>2. Ns(time) \in Int /\ Ns(C!Earliest(t)) \in Int
      BY <3>1, ClockReturns
    <3>3. PICK e \in BOOLEAN : e = (t \notin overtaken)
      <4>1. (t \notin overtaken) \in BOOLEAN
        OBVIOUS
      <4> QED
        BY <4>1, Zenon
    <3> QED
      BY <1>5, <3>2, <3>3 DEF ReturnBefore
  <2> QED
    BY <1>5, <2>1, ClockReturns DEF ReturnBefore, infoVars, Steps
<1>6. ASSUME NEW t \in Threads, BeginAfter(t) PROVE TypeInv'
  BY <1>6, ClockBegins DEF BeginAfter, infoVars, histVars, Steps
<1>7. ASSUME NEW t \in Threads, ReturnAfter(t) PROVE TypeInv'
  <2>1. PICK b \in [least : Int, most : Int, exact : BOOLEAN] :
          bounds' = [bounds EXCEPT ![t] = b]
    <3>1. C!Return(t)
      BY <1>7 DEF ReturnAfter
    <3>2. /\ Ns(time) - bounds[t].most \in Int
          /\ Ns(C!Earliest(t)) - bounds[t].least \in Int
      BY <3>1, ClockReturns
    <3>3. PICK e \in BOOLEAN : e = (bounds[t].exact /\ t \notin overtaken)
      <4>1. (bounds[t].exact /\ t \notin overtaken) \in BOOLEAN
        OBVIOUS
      <4> QED
        BY <4>1, Zenon
    <3> QED
      BY <1>7, <3>2, <3>3 DEF ReturnAfter
  <2>2. bounds' \in [Threads -> [least : Int, most : Int, exact : BOOLEAN]]
    BY <2>1
  <2>3. pc' \in [Threads -> Steps]
    BY <1>7 DEF ReturnAfter, Steps
  <2>4. C!Return(t) /\ UNCHANGED <<time_before_execution, infoVars, reading>>
    BY <1>7 DEF ReturnAfter
  <2>5. /\ time' = time /\ began' \in [Threads -> -1 .. time]
        /\ elapsed' \in [Threads -> Nat] /\ overtaken' \subseteq Threads
    BY <2>4, ClockReturns
  <2> QED
    BY <2>2, <2>3, <2>4, <2>5 DEF infoVars
<1>8. ASSUME NEW t \in Threads, Monitor_IndicateInterfaceDeactivated(t)
      PROVE  TypeInv'
  BY <1>8, Indicates DEF infoVars
<1>9. ASSUME NEW t \in Threads, Measure(t) PROVE TypeInv'
  <2>1. Measured(time_before_execution[t], elapsed[t]) \in Nat
    BY MeasuredNat
  <2>2. pc' \in [Threads -> Steps]
    BY <1>9 DEF Measure, Steps
  <2>3. /\ thread_execution_time' \in [Threads -> Nat]
        /\ time_before_execution' \in [Threads -> Int]
    BY <1>9, <2>1 DEF Measure
  <2> QED
    BY <1>9, <2>2, <2>3 DEF Measure, clockVars
<1>10. ASSUME NEW t \in Threads, UpdateMinimum(t) PROVE TypeInv'
  BY <1>10, Disturbs DEF UpdateMinimum, clockVars, NoBounds, Steps
<1>11. ASSUME NEW t \in Threads, UpdateMaximum(t) PROVE TypeInv'
  BY <1>11, Disturbs
     DEF UpdateMaximum, NewMaximum, clockVars, histVars, Steps
<1>12. ASSUME NEW t \in Threads, UpdateMean(t) PROVE TypeInv'
  <2>1. NewMean(mean_thread_execution_time[t], thread_execution_time[t],
                execution_time_counter[t]) \in Int
    BY ScaleNat, MeanBetween DEF NewMean, NextMean
  <2> QED
    BY <1>12, <2>1, Disturbs DEF UpdateMean, clockVars, histVars, Steps
<1>13. ASSUME NEW t \in Threads, UpdateCounter(t) PROVE TypeInv'
  BY <1>13 DEF UpdateCounter, clockVars, histVars, Steps
<1>14. CASE Monitor_GetUsageData
  <2>1. UNCHANGED unchangedByReader
    BY <1>14, ReaderKeeps
  <2> QED
    BY <1>14, <2>1, ReaderReads
       DEF unchangedByReader, clockVars, infoVars, histVars
<1> QED
  BY <1>1, <1>2, <1>3, <1>4, <1>5, <1>6, <1>7, <1>8, <1>9, <1>10, <1>11,
     <1>12, <1>13, <1>14
     DEF ProcessingNext, ThreadsCommon_ProcessRequest,
         update_execution_time_data

LEMMA ClockStep ==
  TypeInv /\ ClockInv /\ [ProcessingNext]_processingVars => ClockInv'
<1> SUFFICES ASSUME TypeInv, ClockInv, [ProcessingNext]_processingVars,
                    NEW u \in Threads
             PROVE  /\ (u \in C!Calling => Reads(u))'
                    /\ (Top(u) => u \notin overtaken /\ bounds[u].exact)'
  BY DEF ClockInv
<1>top. Top(u)' <=> Top(u)
  BY DEF Top
<1>u. /\ u \in C!Calling => Reads(u)
      /\ Top(u) => u \notin overtaken /\ bounds[u].exact
  BY DEF ClockInv
<1>same. ASSUME began' = began, overtaken' = overtaken, bounds' = bounds,
                Reads(u) => Reads(u)'
         PROVE  /\ (u \in C!Calling => Reads(u))'
                /\ (Top(u) => u \notin overtaken /\ bounds[u].exact)'
  BY <1>u, <1>top, <1>same DEF C!Calling, C!NoCall
<1>1. CASE UNCHANGED processingVars
  BY <1>1, <1>same DEF processingVars, clockVars, histVars, Reads
<1>2. CASE Tick
  BY <1>2, <1>same DEF Tick, C!Advance, histVars, Reads
<1>3. ASSUME NEW t \in Threads,
             \/ Monitor_IndicateInterfaceActivated(t)
             \/ Monitor_IndicateInterfaceDeactivated(t)
      PROVE  /\ (u \in C!Calling => Reads(u))'
             /\ (Top(u) => u \notin overtaken /\ bounds[u].exact)'
  <2>1. /\ Runs(t) /\ ~Reads(t)
        /\ \A v \in Threads : Reads(v) => Reads(v)'
        /\ began' = began /\ bounds' = bounds
        /\ overtaken' \subseteq overtaken \cup C!Calling
    BY <1>3, Indicates
  <2>2. Top(u) => u \notin overtaken'
    BY <1>u, <2>1, OvertakesBelow
  <2> QED
    BY <1>u, <1>top, <2>1, <2>2 DEF C!Calling, C!NoCall
<1>4. ASSUME NEW t \in Threads, BeginBefore(t) \/ BeginAfter(t)
      PROVE  /\ (u \in C!Calling => Reads(u))'
             /\ (Top(u) => u \notin overtaken /\ bounds[u].exact)'
  <2>1. /\ Runs(t) /\ ~Reads(t) /\ Reads(t)'
        /\ \A v \in Threads : Reads(v) => Reads(v)'
        /\ C!Begin(t) /\ bounds' = bounds
    BY <1>4 DEF BeginBefore, BeginAfter, Step, histVars, TypeInv, Reads
  <2>2. /\ began' = [began EXCEPT ![t] = time]
        /\ overtaken' = overtaken \cup C!Calling
    BY <2>1, ClockBegins
  <2>3. Top(u) => u \notin overtaken'
    BY <1>u, <2>1, <2>2, OvertakesBelow
  <2>4. (u \in C!Calling)' => u \in C!Calling \/ u = t
    BY <2>2 DEF C!Calling, C!NoCall, TypeInv
  <2> QED
    BY <1>u, <1>top, <2>1, <2>3, <2>4
<1>5. ASSUME NEW t \in Threads, ReturnBefore(t) \/ ReturnAfter(t)
      PROVE  /\ (u \in C!Calling => Reads(u))'
             /\ (Top(u) => u \notin overtaken /\ bounds[u].exact)'
  <2>1. /\ u # t => UNCHANGED <<pc[u], bounds[u]>>
        /\ C!Return(t)
    BY <1>5 DEF ReturnBefore, ReturnAfter, Step, TypeInv
  <2>2. began' = [began EXCEPT ![t] = -1] /\ overtaken' \subseteq overtaken
    BY <2>1, ClockReturns
  <2>3. (u \in C!Calling)' => u \in C!Calling /\ u # t
    BY <2>2 DEF C!Calling, C!NoCall, TypeInv
  <2>4. t \notin overtaken /\ bounds[t].exact => bounds'[t].exact
    BY <1>5 DEF ReturnBefore, ReturnAfter, TypeInv
  <2>5. Top(u) => u \notin overtaken' /\ bounds'[u].exact
    BY <1>u, <2>1, <2>2, <2>4
  <2> QED
    BY <1>u, <1>top, <2>1, <2>3, <2>5 DEF Reads
<1>6. ASSUME NEW t \in Threads, Measure(t) \/ update_execution_time_data(t)
      PROVE  /\ (u \in C!Calling => Reads(u))'
             /\ (Top(u) => u \notin overtaken /\ bounds[u].exact)'
  <2>1. /\ began' = began /\ overtaken' = overtaken
        /\ \A v \in Threads : Reads(v) => Reads(v)'
        /\ bounds' = bounds \/ bounds' = [bounds EXCEPT ![t] = NoBounds]
    BY <1>6, UpdatesKeep DEF clockVars
  <2>2. bounds'[u] = bounds[u] \/ bounds'[u].exact
    BY <2>1 DEF TypeInv, NoBounds
  <2> QED
    BY <1>u, <1>top, <2>1, <2>2 DEF C!Calling, C!NoCall
<1>7. CASE Monitor_GetUsageData
  BY <1>7, <1>same, ReaderKeeps
     DEF unchangedByReader, clockVars, histVars, Reads
<1> QED
  BY <1>1, <1>2, <1>3, <1>4, <1>5, <1>6, <1>7
     DEF ProcessingNext, ThreadsCommon_ProcessRequest

LEMMA MeasureStep ==
  TypeInv /\ ClockInv /\ MeasureInv /\ [ProcessingNext]_processingVars => MeasureInv'
<1> SUFFICES ASSUME TypeInv, ClockInv, MeasureInv,
                    [ProcessingNext]_processingVars,
                    NEW u \in Threads, bounds'[u].exact
             PROVE  Measures(u)'
  BY DEF MeasureInv
<1>now. time \in Nat /\ Ns(time) \in Nat
  BY NsOrder, ProcessingAssumption DEF TypeInv
(* A step that leaves the thread and its call alone, though time may pass. *)
<1>same. ASSUME UNCHANGED <<pc[u], began[u], elapsed[u], bounds[u],
                            time_before_execution[u],
                            thread_execution_time[u]>>,
                Ns(time') \in Nat, Ns(time) <= Ns(time')
         PROVE  Measures(u)'
  <2>1. Measures(u) /\ bounds[u].least \in Int
    BY <1>same DEF MeasureInv, TypeInv
  <2> QED
    BY <1>now, <1>same, <2>1 DEF Measures
<1>1. CASE UNCHANGED processingVars
  BY <1>1, <1>now, <1>same DEF processingVars, clockVars, infoVars, histVars
<1>2. CASE Tick
  <2>1. Ns(time') \in Nat /\ Ns(time) <= Ns(time')
    BY <1>2, ClockAdvances
  <2> QED
    BY <1>2, <1>same, <2>1 DEF Tick, C!Advance, infoVars, histVars
<1>3. ASSUME NEW t \in Threads,
             \/ Monitor_IndicateInterfaceActivated(t)
             \/ Monitor_IndicateInterfaceDeactivated(t)
      PROVE  Measures(u)'
  <2>1. /\ UNCHANGED <<time, began[u], elapsed[u], bounds[u],
                       time_before_execution[u], thread_execution_time[u]>>
        /\ u # t => pc'[u] = pc[u]
        /\ u = t => \/ pc'[u] = "activated"
                    \/ pc[u] = "executed" /\ pc'[u] = "deactivated"
    <3>1. UNCHANGED <<time, began[u], elapsed[u], bounds[u],
                      time_before_execution[u], thread_execution_time[u]>>
      BY <1>3, Indicates DEF infoVars
    <3>2. \/ pc' = [pc EXCEPT ![t] = "activated"]
          \/ pc[t] = "executed" /\ pc' = [pc EXCEPT ![t] = "deactivated"]
      BY <1>3, Zenon
         DEF Monitor_IndicateInterfaceActivated,
             Monitor_IndicateInterfaceDeactivated, Step
    <3>3. pc \in [Threads -> Steps]
      BY DEF TypeInv
    <3> QED
      BY <3>1, <3>2, <3>3
  <2>2. CASE pc'[u] = pc[u]
    BY <1>now, <1>same, <2>1, <2>2
  <2>3. CASE pc'[u] = "activated"
    BY <2>3 DEF Measures
  <2>4. CASE pc[u] = "executed" /\ pc'[u] = "deactivated"
    <3>1. Measures(u)
      BY <2>1 DEF MeasureInv
    <3> QED
      BY <2>1, <2>4, <3>1 DEF Measures
  <2> QED
    BY <2>1, <2>2, <2>3, <2>4
<1>4. ASSUME NEW t \in Threads, BeginBefore(t) \/ BeginAfter(t)
      PROVE  Measures(u)'
  <2>1. /\ C!Begin(t)
        /\ UNCHANGED <<bounds[u], time_before_execution[u],
                       thread_execution_time[u]>>
        /\ u # t => pc'[u] = pc[u]
        /\ u = t => \/ pc'[u] = "readsBefore"
                    \/ pc[u] = "user" /\ pc'[u] = "readsAfter"
    BY <1>4 DEF BeginBefore, BeginAfter, Step, infoVars, histVars, TypeInv
  <2>2. /\ UNCHANGED <<time, elapsed>>
        /\ u # t => began'[u] = began[u]
        /\ began'[t] = time
    BY <2>1, ClockBegins DEF TypeInv
  <2>3. CASE u # t
    BY <1>now, <1>same, <2>1, <2>2, <2>3
  <2>4. CASE u = t /\ pc'[u] = "readsBefore"
    BY <2>4 DEF Measures
  <2>5. CASE u = t /\ pc[u] = "user" /\ pc'[u] = "readsAfter"
    <3>1. Measures(u)
      BY <2>1 DEF MeasureInv
    <3> QED
      BY <2>1, <2>2, <2>5, <3>1 DEF Measures
  <2> QED
    BY <2>1, <2>3, <2>4, <2>5
<1>5. ASSUME NEW t \in Threads, ReturnBefore(t) PROVE Measures(u)'
  <2>1. /\ C!Return(t)
        /\ time_before_execution'
              = [time_before_execution EXCEPT ![t] = elapsed'[t]]
        /\ thread_execution_time' = thread_execution_time
        /\ pc' = [pc EXCEPT ![t] = "user"]
    BY <1>5 DEF ReturnBefore, Step, infoVars
  <2>2. /\ time' = time
        /\ Ns(C!Earliest(t)) \in Nat
        /\ Ns(C!Earliest(t)) <= elapsed'[t] /\ elapsed'[t] <= Ns(time)
        /\ elapsed' = [elapsed EXCEPT ![t] = elapsed'[t]]
        /\ began' = [began EXCEPT ![t] = -1]
    BY <2>1, ClockReturns
  <2>3. CASE u # t
    <3>1. UNCHANGED <<pc[u], began[u], elapsed[u], bounds[u],
                      time_before_execution[u], thread_execution_time[u]>>
      BY <1>5, <2>1, <2>2, <2>3 DEF ReturnBefore, TypeInv
    <3> QED
      BY <1>now, <1>same, <2>2, <3>1
  <2>4. CASE u = t
    <3>1. /\ bounds'[u].least = Ns(time)
          /\ bounds'[u].most = Ns(C!Earliest(t))
      BY <1>5, <2>4 DEF ReturnBefore, TypeInv
    <3>2. pc'[u] = "user" /\ time_before_execution'[u] = elapsed'[t]
      BY <2>1, <2>4 DEF TypeInv
    <3> QED
      BY <1>now, <2>2, <3>1, <3>2 DEF Measures
  <2> QED
    BY <2>3, <2>4
<1>7. ASSUME NEW t \in Threads, ReturnAfter(t) PROVE Measures(u)'
  <2>1. /\ C!Return(t)
        /\ time_before_execution' = time_before_execution
        /\ thread_execution_time' = thread_execution_time
        /\ pc[t] = "readsAfter" /\ pc' = [pc EXCEPT ![t] = "executed"]
    BY <1>7 DEF ReturnAfter, Step, infoVars
  <2>2. /\ time' = time /\ began[t] \in Nat
        /\ t \notin overtaken => C!Earliest(t) = began[t]
        /\ Ns(C!Earliest(t)) \in Nat
        /\ Ns(C!Earliest(t)) <= elapsed'[t] /\ elapsed'[t] <= Ns(time)
        /\ elapsed'[t] \in Nat
        /\ elapsed' = [elapsed EXCEPT ![t] = elapsed'[t]]
        /\ began' = [began EXCEPT ![t] = -1]
    BY <2>1, ClockReturns
  <2>3. CASE u # t
    <3>1. UNCHANGED <<pc[u], began[u], elapsed[u], bounds[u],
                      time_before_execution[u], thread_execution_time[u]>>
      BY <1>7, <2>1, <2>2, <2>3 DEF ReturnAfter, TypeInv
    <3> QED
      BY <1>now, <1>same, <2>2, <3>1
  <2>4. CASE u = t
    <3>1. /\ bounds'[u].least = Ns(C!Earliest(t)) - bounds[u].least
          /\ bounds'[u].most = Ns(time) - bounds[u].most
          /\ bounds[u].exact /\ t \notin overtaken
      BY <1>7, <2>4 DEF ReturnAfter, TypeInv
    <3>2. /\ 0 <= bounds[u].most
          /\ bounds[u].most <= time_before_execution[u]
          /\ time_before_execution[u] <= bounds[u].least
          /\ bounds[u].least <= Ns(C!Earliest(t))
          /\ bounds[u].most \in Int /\ bounds[u].least \in Int
          /\ time_before_execution[u] \in Int
      BY <2>1, <2>2, <2>4, <3>1 DEF MeasureInv, Measures, TypeInv
    <3>3. Ns(time) < Word /\ Word \in Nat
      <4>1. time <= MaxTime /\ MaxTime \in Nat
        BY ProcessingAssumption DEF TypeInv
      <4>2. Ns(time) <= Ns(MaxTime) /\ Ns(MaxTime) \in Nat
        BY <1>now, <4>1, NsOrder
      <4> QED
        BY <1>now, <4>2, WordPositive
    <3>4. /\ pc'[u] = "executed"
          /\ time_before_execution'[u] = time_before_execution[u]
      BY <2>1, <2>4 DEF TypeInv
    <3>5. /\ 0 <= bounds'[u].least
          /\ bounds'[u].least <= elapsed'[u] - time_before_execution'[u]
          /\ elapsed'[u] - time_before_execution'[u] <= bounds'[u].most
          /\ bounds'[u].most < Word
      BY <1>now, <2>2, <2>4, <3>1, <3>2, <3>3, <3>4
    <3> QED
      BY <3>4, <3>5 DEF Measures
  <2> QED
    BY <2>3, <2>4
<1>9. ASSUME NEW t \in Threads, Measure(t) PROVE Measures(u)'
  <2>1. /\ pc[t] = "deactivated" /\ pc' = [pc EXCEPT ![t] = "minimum"]
        /\ UNCHANGED <<time, began, elapsed, bounds>>
        /\ thread_execution_time' = [thread_execution_time EXCEPT
             ![t] = Measured(time_before_execution[t], elapsed[t])]
    BY <1>9 DEF Measure, Step, clockVars
  <2>2. CASE u # t
    <3>1. UNCHANGED <<pc[u], began[u], elapsed[u], bounds[u],
                      time_before_execution[u], thread_execution_time[u]>>
      BY <1>9, <2>1, <2>2 DEF Measure, TypeInv
    <3> QED
      BY <1>now, <1>same, <2>1, <3>1
  <2>3. CASE u = t
    <3>1. PICK d \in 0 .. Word - 1 :
            /\ d = elapsed[t] - time_before_execution[t]
            /\ bounds[t].least <= d /\ d <= bounds[t].most
      <4>1. Measures(t)
        BY <2>1, <2>3 DEF MeasureInv
      <4>2. elapsed[t] - time_before_execution[t] \in Int
        BY DEF TypeInv
      <4>3. bounds[t].least \in Int /\ bounds[t].most \in Int
        BY DEF TypeInv
      <4> QED
        BY <2>1, <4>1, <4>2, <4>3, WordPositive DEF Measures
    <3>2. d % Word = d
      BY <3>1, WordPositive
    <3>3. thread_execution_time'[t] = d
      BY <2>1, <3>1, <3>2 DEF Measured, TypeInv
    <3>4. pc'[u] = "minimum"
      BY <2>1, <2>3 DEF TypeInv
    <3> QED
      BY <2>1, <2>3, <3>1, <3>3, <3>4 DEF Measures
  <2> QED
    BY <2>2, <2>3
<1>10. ASSUME NEW t \in Threads, update_execution_time_data(t)
       PROVE  Measures(u)'
  <2>1. /\ UNCHANGED <<time, began[u], elapsed[u], time_before_execution[u],
                       thread_execution_time[u]>>
        /\ u # t => pc'[u] = pc[u]
        /\ u = t => pc'[u] \in {"maximum", "mean", "counter", "idle"}
    BY <1>10 DEF update_execution_time_data, UpdateMinimum, UpdateMaximum,
                 UpdateMean, UpdateCounter, Step, clockVars, TypeInv
  <2>2. bounds' = bounds \/ bounds' = [bounds EXCEPT ![t] = NoBounds]
    BY <1>10, UpdatesKeep
  <2>3. CASE u # t
    BY <1>now, <1>same, <2>1, <2>2, <2>3 DEF TypeInv
  <2>4. CASE u = t
    BY <2>1, <2>4 DEF Measures
  <2> QED
    BY <2>3, <2>4
<1>14. CASE Monitor_GetUsageData
  BY <1>14, <1>now, <1>same, ReaderKeeps
     DEF unchangedByReader, clockVars, infoVars, histVars
<1> QED
  BY <1>1, <1>2, <1>3, <1>4, <1>5, <1>7, <1>9, <1>10, <1>14
     DEF ProcessingNext, ThreadsCommon_ProcessRequest

(* Only the updates of a thread disturb its own fields.                    *)
LEMMA FieldsStep ==
  TypeInv /\ FieldsInv /\ [ProcessingNext]_processingVars => FieldsInv'
<1> SUFFICES ASSUME TypeInv, FieldsInv, [ProcessingNext]_processingVars,
                    NEW u \in Threads
             PROVE  Updated(u)'
  BY DEF FieldsInv
<1>u. Updated(u)
  BY DEF FieldsInv
<1> USE DEF TypeInv, Updated, Ordered, Step
<1>1. CASE UNCHANGED processingVars
  BY <1>1, <1>u DEF processingVars, clockVars, infoVars, histVars
<1>2. CASE Tick
  BY <1>2, <1>u DEF Tick, infoVars
<1>3. ASSUME NEW t \in Threads, Monitor_IndicateInterfaceActivated(t)
      PROVE  Updated(u)'
  <2>1. UNCHANGED infoVars
    BY <1>3, Indicates
  <2>2. pc'[u] \in {"maximum", "mean", "counter"} => pc'[u] = pc[u]
    BY <1>3 DEF Monitor_IndicateInterfaceActivated
  <2> QED
    BY <1>u, <2>1, <2>2 DEF infoVars
<1>4. ASSUME NEW t \in Threads, BeginBefore(t) PROVE Updated(u)'
  BY <1>4, <1>u DEF BeginBefore, infoVars
<1>5. ASSUME NEW t \in Threads, ReturnBefore(t) PROVE Updated(u)'
  BY <1>5, <1>u DEF ReturnBefore, infoVars
<1>6. ASSUME NEW t \in Threads, BeginAfter(t) PROVE Updated(u)'
  BY <1>6, <1>u DEF BeginAfter, infoVars
<1>7. ASSUME NEW t \in Threads, ReturnAfter(t) PROVE Updated(u)'
  BY <1>7, <1>u DEF ReturnAfter, infoVars
<1>8. ASSUME NEW t \in Threads, Monitor_IndicateInterfaceDeactivated(t)
      PROVE  Updated(u)'
  BY <1>8, <1>u DEF Monitor_IndicateInterfaceDeactivated, infoVars
<1>9. ASSUME NEW t \in Threads, Measure(t) PROVE Updated(u)'
  BY <1>9, <1>u DEF Measure
<1>10. ASSUME NEW t \in Threads, UpdateMinimum(t) PROVE Updated(u)'
  <2>1. CASE u # t
    BY <1>10, <1>u, <2>1 DEF UpdateMinimum
  <2>2. CASE u = t
    <3>1. /\ min_thread_execution_time'[t] <= min_thread_execution_time[t]
          /\ min_thread_execution_time'[t] <= thread_execution_time[t]
          /\ min_thread_execution_time'[t] \in Nat
      BY <1>10 DEF UpdateMinimum
    <3>2. min_thread_execution_time'[t] * Scale
            <= min_thread_execution_time[t] * Scale
      BY <3>1, ProductMonotone, ProcessingAssumption
    <3>3. PICK x \in Int, y \in Int, z \in Int :
            /\ x = min_thread_execution_time'[t] * Scale
            /\ y = min_thread_execution_time[t] * Scale
            /\ z = max_thread_execution_time[t] * Scale
      BY <3>1, ProductInt, ProcessingAssumption
    <3>4. /\ pc[t] = "minimum" /\ pc'[t] = "maximum"
          /\ UNCHANGED <<thread_execution_time, max_thread_execution_time,
                         mean_thread_execution_time, execution_time_counter>>
      BY <1>10 DEF UpdateMinimum
    <3> QED
      BY <1>u, <2>2, <3>1, <3>2, <3>3, <3>4
  <2> QED
    BY <2>1, <2>2
<1>11. ASSUME NEW t \in Threads, UpdateMaximum(t) PROVE Updated(u)'
  <2>1. CASE u # t
    BY <1>11, <1>u, <2>1 DEF UpdateMaximum
  <2>2. CASE u = t
    <3>1. /\ max_thread_execution_time[t] <= max_thread_execution_time'[t]
          /\ thread_execution_time[t] <= max_thread_execution_time'[t]
          /\ max_thread_execution_time'[t] \in Nat
      BY <1>11 DEF UpdateMaximum, NewMaximum
    <3>2. max_thread_execution_time[t] * Scale
            <= max_thread_execution_time'[t] * Scale
      BY <3>1, ProductMonotone, ProcessingAssumption
    <3>3. PICK x \in Int, y \in Int, z \in Int :
            /\ x = max_thread_execution_time'[t] * Scale
            /\ y = max_thread_execution_time[t] * Scale
            /\ z = min_thread_execution_time[t] * Scale
      BY <3>1, ProductInt, ProcessingAssumption
    <3>4. /\ pc[t] = "maximum" /\ pc'[t] = "mean"
          /\ UNCHANGED <<thread_execution_time, min_thread_execution_time,
                         mean_thread_execution_time, execution_time_counter>>
      BY <1>11 DEF UpdateMaximum
    <3> QED
      BY <1>u, <2>2, <3>1, <3>2, <3>3, <3>4
  <2> QED
    BY <2>1, <2>2
<1>12. ASSUME NEW t \in Threads, UpdateMean(t) PROVE Updated(u)'
  <2>1. CASE u # t
    BY <1>12, <1>u, <2>1 DEF UpdateMean
  <2>2. CASE u = t
    <3> DEFINE new == NextMean(Scale, mean_thread_execution_time[t],
                        thread_execution_time[t], execution_time_counter[t])
               sample == thread_execution_time[t]
    <3>1. /\ min_thread_execution_time[t] * Scale <= sample * Scale
          /\ sample * Scale <= max_thread_execution_time[t] * Scale
      <4>1. /\ min_thread_execution_time[t] <= sample
            /\ sample <= max_thread_execution_time[t]
        BY <1>12, <1>u, <2>2 DEF UpdateMean
      <4> QED
        BY <4>1, ProductMonotone, ProcessingAssumption
    <3>2. PICK lo \in Int, hi \in Int :
            /\ lo = min_thread_execution_time[t] * Scale
            /\ hi = max_thread_execution_time[t] * Scale
      BY ProductInt, ProcessingAssumption
    <3>3. lo <= new /\ new <= hi
      <4>1. CASE execution_time_counter[t] > 0
        <5>1. /\ lo <= mean_thread_execution_time[t]
              /\ mean_thread_execution_time[t] <= hi
          BY <1>u, <2>2, <3>2, <4>1
        <5> QED
          BY <3>1, <3>2, <5>1, ScaleNat, MeanBetween
      <4>2. CASE execution_time_counter[t] = 0
        BY <3>1, <3>2, <4>2, ScaleNat, FirstMean
      <4> QED
        BY <4>1, <4>2
    <3>4. /\ mean_thread_execution_time'[t] = new
          /\ pc[t] = "mean" /\ pc'[t] = "counter"
          /\ UNCHANGED <<min_thread_execution_time, max_thread_execution_time>>
      BY <1>12 DEF UpdateMean, NewMean, NextMean
    <3>5. min_thread_execution_time[t] <= max_thread_execution_time[t]
      BY <1>12, <1>u, <2>2 DEF UpdateMean
    <3> QED
      BY <2>2, <3>2, <3>3, <3>4, <3>5
  <2> QED
    BY <2>1, <2>2
<1>13. ASSUME NEW t \in Threads, UpdateCounter(t) PROVE Updated(u)'
  BY <1>13, <1>u DEF UpdateCounter
<1>14. CASE Monitor_GetUsageData
  BY <1>14, <1>u, ReaderKeeps DEF unchangedByReader, infoVars
<1> QED
  BY <1>1, <1>2, <1>3, <1>4, <1>5, <1>6, <1>7, <1>8, <1>9, <1>10, <1>11,
     <1>12, <1>13, <1>14
     DEF ProcessingNext, ThreadsCommon_ProcessRequest,
         update_execution_time_data

(* Updates of the interface that is read move its minimum only down and    *)
(* its maximum only up; other steps leave its fields alone.                *)
LEMMA OtherStepsKeepReading ==
  ASSUME ReadInv, UNCHANGED reading,
         reading.step # "idle" =>
           LET i == reading.interface
           IN  /\ execution_time_counter[i] > 0 =>
                    execution_time_counter'[i] > 0
               /\ min_thread_execution_time'[i] = min_thread_execution_time[i]
               /\ mean_thread_execution_time'[i]
                    = mean_thread_execution_time[i]
  PROVE  ReadInv'
  BY DEF ReadInv

LEMMA UpdatesKeepReading ==
  ASSUME TypeInv, TypeInv', ReadInv, NEW t \in Threads, Disturb(t),
         UNCHANGED execution_time_counter,
         \A u \in Threads : min_thread_execution_time'[u]
                              <= min_thread_execution_time[u],
         \A u \in Threads \ {t} :
           /\ min_thread_execution_time'[u] = min_thread_execution_time[u]
           /\ mean_thread_execution_time'[u] = mean_thread_execution_time[u]
  PROVE  ReadInv'
<1>1. CASE reading.interface # t
  <2>1. UNCHANGED reading
    BY <1>1, Disturbs
  <2>2. reading.step # "idle" => reading.interface \in Threads \ {t}
    BY <1>1 DEF TypeInv
  <2> QED
    BY <2>1, <2>2, OtherStepsKeepReading
<1>2. CASE reading.interface = t
  <2>1. /\ reading \in Reading
        /\ reading'.disturbed
        /\ reading' = [reading EXCEPT !.disturbed = reading'.disturbed]
    BY <1>2, Disturbs DEF TypeInv
  <2>2. /\ reading'.step = reading.step
        /\ reading'.interface = reading.interface
        /\ reading'.max = reading.max
        /\ reading'.min = reading.min
    BY <2>1 DEF Reading
  <2>3. reading'.counted = reading.counted
    BY <2>1, Zenon DEF Reading
  <2>4. /\ min_thread_execution_time'[t] <= min_thread_execution_time[t]
        /\ min_thread_execution_time'[t] \in Nat
        /\ min_thread_execution_time[t] \in Nat
        /\ reading.max \in Nat
    BY DEF TypeInv, Reading
  <2> QED
    BY <1>2, <2>1, <2>2, <2>3, <2>4 DEF ReadInv
<1> QED
  BY <1>1, <1>2

LEMMA ReaderKeepsReading ==
  ASSUME TypeInv, FieldsInv, ReadInv, Monitor_GetUsageData
  PROVE  ReadInv'
<1>1. reading \in Reading /\ reading' \in Reading
  BY ReaderReads DEF TypeInv
<1>2. UNCHANGED infoVars
  BY DEF Monitor_GetUsageData, ReadMaximum, ReadMinimum, ReadAverage,
         ReturnUsage, unchangedByReader
<1>3. ASSUME NEW i \in Threads, ReadMaximum(i) PROVE ReadInv'
  <2>1. /\ reading'.step = "minimum"
        /\ reading'.interface = i
        /\ reading'.max = max_thread_execution_time[i]
    BY <1>1, <1>3 DEF ReadMaximum, Reading
  <2>2. reading'.counted = (execution_time_counter[i] > 0)
    BY <1>1, <1>3, Zenon DEF ReadMaximum, Reading
  <2>3. CASE execution_time_counter[i] > 0
    <3>1. Ordered(i)
      BY <2>3 DEF FieldsInv, Updated
    <3> QED
      BY <1>2, <2>1, <2>2, <2>3, <3>1 DEF ReadInv, Ordered, infoVars
  <2>4. CASE ~(execution_time_counter[i] > 0)
    BY <2>2, <2>4 DEF ReadInv
  <2> QED
    BY <2>3, <2>4
<1>4. CASE ReadMinimum
  <2>1. /\ reading.step = "minimum"
        /\ reading'.step = "average"
        /\ reading'.interface = reading.interface
        /\ reading'.max = reading.max
        /\ reading'.min = min_thread_execution_time[reading.interface]
    BY <1>1, <1>4 DEF ReadMinimum, Reading
  <2>2. reading'.counted = reading.counted
    BY <1>1, <1>4, Zenon DEF ReadMinimum, Reading
  <2>3. reading'.disturbed = reading.disturbed
    BY <1>1, <1>4, Zenon DEF ReadMinimum, Reading
  <2>4. reading.counted => Ordered(reading.interface)
    BY <2>1 DEF TypeInv, ReadInv, FieldsInv, Updated
  <2> QED
    BY <1>2, <2>1, <2>2, <2>3, <2>4 DEF ReadInv, Ordered, infoVars
<1>5. CASE ReadAverage
  <2> DEFINE i == reading.interface
  <2>1. /\ reading.step = "average"
        /\ reading'.step = "done"
        /\ reading'.interface = i
        /\ reading'.max = reading.max
        /\ reading'.min = reading.min
        /\ reading'.average = mean_thread_execution_time[i] \div Scale
    BY <1>1, <1>5 DEF ReadAverage, Reading
  <2>2. reading'.counted = reading.counted
    BY <1>1, <1>5, Zenon DEF ReadAverage, Reading
  <2>3. reading'.disturbed = reading.disturbed
    BY <1>1, <1>5, Zenon DEF ReadAverage, Reading
  <2>4. ASSUME reading.counted, ~reading.disturbed
        PROVE  /\ reading.min <= reading'.average
               /\ reading'.average <= reading.max
    <3>1. /\ reading.min * Scale <= mean_thread_execution_time[i]
          /\ mean_thread_execution_time[i] <= reading.max * Scale
      BY <2>1, <2>4 DEF ReadInv
    <3>2. /\ mean_thread_execution_time[i] \in Int
          /\ reading.min \in Int
          /\ reading.max \in Int
      BY <1>1, <2>1 DEF TypeInv, Reading
    <3> QED
      BY <2>1, <3>1, <3>2, TruncatedBetween, ProcessingAssumption
  <2> QED
    BY <1>2, <2>1, <2>2, <2>3, <2>4 DEF ReadInv, infoVars
<1>6. CASE ReturnUsage
  BY <1>6 DEF ReturnUsage, NotReading, ReadInv
<1> QED
  BY <1>3, <1>4, <1>5, <1>6 DEF Monitor_GetUsageData

LEMMA ReadStep ==
  TypeInv /\ TypeInv' /\ FieldsInv /\ ReadInv /\ [ProcessingNext]_processingVars
    => ReadInv'
<1> SUFFICES ASSUME TypeInv, TypeInv', FieldsInv, ReadInv,
                    [ProcessingNext]_processingVars
             PROVE  ReadInv'
  OBVIOUS
<1>type. /\ execution_time_counter \in [Threads -> Nat]
         /\ min_thread_execution_time \in [Threads -> Nat]
         /\ mean_thread_execution_time \in [Threads -> Int]
         /\ thread_execution_time \in [Threads -> Nat]
         /\ reading.step # "idle" => reading.interface \in Threads
  BY DEF TypeInv
<1>1. CASE UNCHANGED <<infoVars, reading>>
  BY <1>1, OtherStepsKeepReading DEF infoVars
<1>2. CASE UNCHANGED processingVars
  BY <1>1, <1>2 DEF processingVars
<1>3. CASE Tick
  BY <1>1, <1>3 DEF Tick
<1>4. ASSUME NEW t \in Threads,
             \/ Monitor_IndicateInterfaceActivated(t)
             \/ BeginBefore(t) \/ ReturnBefore(t)
             \/ BeginAfter(t) \/ ReturnAfter(t)
             \/ Monitor_IndicateInterfaceDeactivated(t)
      PROVE  ReadInv'
  BY <1>1, <1>4
     DEF Monitor_IndicateInterfaceActivated, BeginBefore, ReturnBefore,
         BeginAfter, ReturnAfter, Monitor_IndicateInterfaceDeactivated
<1>5. ASSUME NEW t \in Threads, Measure(t) PROVE ReadInv'
  BY <1>5, OtherStepsKeepReading DEF Measure
<1>6. ASSUME NEW t \in Threads, UpdateMinimum(t) PROVE ReadInv'
  <2>1. /\ \A u \in Threads : min_thread_execution_time'[u]
                                <= min_thread_execution_time[u]
        /\ \A u \in Threads \ {t} :
             min_thread_execution_time'[u] = min_thread_execution_time[u]
    BY <1>6, <1>type DEF UpdateMinimum
  <2>2. /\ Disturb(t)
        /\ UNCHANGED <<mean_thread_execution_time, execution_time_counter>>
    BY <1>6 DEF UpdateMinimum
  <2> QED
    BY <2>1, <2>2, UpdatesKeepReading
<1>7. ASSUME NEW t \in Threads, UpdateMaximum(t) PROVE ReadInv'
  <2>1. /\ Disturb(t)
        /\ UNCHANGED <<min_thread_execution_time, mean_thread_execution_time,
                       execution_time_counter>>
    BY <1>7 DEF UpdateMaximum
  <2> QED
    BY <1>type, <2>1, UpdatesKeepReading
<1>8. ASSUME NEW t \in Threads, UpdateMean(t) PROVE ReadInv'
  <2>1. /\ Disturb(t)
        /\ UNCHANGED <<min_thread_execution_time, execution_time_counter>>
    BY <1>8 DEF UpdateMean
  <2>2. \A u \in Threads \ {t} :
          mean_thread_execution_time'[u] = mean_thread_execution_time[u]
    BY <1>8, <1>type DEF UpdateMean
  <2> QED
    BY <1>type, <2>1, <2>2, UpdatesKeepReading
<1>9. ASSUME NEW t \in Threads, UpdateCounter(t) PROVE ReadInv'
  <2>1. \A u \in Threads :
          execution_time_counter[u] > 0 => execution_time_counter'[u] > 0
    BY <1>9, <1>type DEF UpdateCounter
  <2>2. UNCHANGED <<min_thread_execution_time, mean_thread_execution_time,
                    reading>>
    BY <1>9 DEF UpdateCounter
  <2> QED
    BY <1>type, <2>1, <2>2, OtherStepsKeepReading
<1>10. CASE Monitor_GetUsageData
  BY <1>10, ReaderKeepsReading
<1> QED
  BY <1>2, <1>3, <1>4, <1>5, <1>6, <1>7, <1>8, <1>9, <1>10
     DEF ProcessingNext, ThreadsCommon_ProcessRequest,
         update_execution_time_data


-----------------------------------------------------------------------------
(* The fields as statistics of the samples.                                *)

LEMMA FirstAppended ==
  ASSUME NEW s \in Seq(Nat), NEW x \in Nat
  PROVE  /\ Append(s, x) \in Seq(Nat)
         /\ Len(Append(s, x)) = Len(s) + 1
         /\ Append(s, x)[Len(s) + 1] = x
         /\ First(Append(s, x), Len(s)) = First(s, Len(s))
<1>1. /\ Append(s, x) \in Seq(Nat)
      /\ Len(Append(s, x)) = Len(s) + 1
      /\ Append(s, x)[Len(s) + 1] = x
      /\ \A i \in 1 .. Len(s) : Append(s, x)[i] = s[i]
  OBVIOUS
<1> QED
  BY <1>1 DEF First

LEMMA FirstExtended ==
  ASSUME NEW s, NEW n \in Nat
  PROVE  First(s, n + 1) = First(s, n) \cup {s[n + 1]}
<1>1. 1 .. n + 1 = (1 .. n) \cup {n + 1}
  OBVIOUS
<1> QED
  BY <1>1 DEF First

LEMMA FirstNat ==
  ASSUME NEW s \in Seq(Nat), NEW n \in 0 .. Len(s)
  PROVE  First(s, n) \subseteq Nat
  BY DEF First

LEMMA MinimumExtended ==
  ASSUME NEW S \in SUBSET Nat, NEW m, NEW x \in Nat, IsMinimum(m, S)
  PROVE  IsMinimum(IF x < m THEN x ELSE m, S \cup {x})
<1>1. m \in Nat /\ \A y \in S : y \in Nat /\ m <= y
  BY DEF IsMinimum
<1> QED
  BY <1>1 DEF IsMinimum

LEMMA MaximumExtended ==
  ASSUME NEW S \in SUBSET Nat, NEW m, NEW x \in Nat, IsMaximum(m, S)
  PROVE  IsMaximum(NewMaximum(m, x), S \cup {x})
<1>1. m \in Nat /\ \A y \in S : y \in Nat /\ y <= m
  BY DEF IsMaximum
<1> QED
  BY <1>1 DEF IsMaximum, NewMaximum

LEMMA MinimumIsMin ==
  ASSUME NEW S \in SUBSET Nat, NEW m, IsMinimum(m, S)
  PROVE  m = Min(S)
<1>1. \A y \in S : y <= m /\ m <= y => y = m
  BY DEF IsMinimum
<1> QED
  BY <1>1 DEF IsMinimum, Min

LEMMA MaximumIsMax ==
  ASSUME NEW S \in SUBSET Nat, NEW m, IsMaximum(m, S)
  PROVE  m = Max(S)
<1>1. \A y \in S : y <= m /\ m <= y => y = m
  BY DEF IsMaximum
<1> QED
  BY <1>1 DEF IsMaximum, Max

(* Steps outside update_execution_time_data.                               *)
Outside == {"idle", "activated", "readsBefore", "user", "readsAfter",
            "executed", "deactivated"}

LEMMA HistoryUntouched ==
  ASSUME TypeInv, NEW u \in Threads, Counted(u), Kept(u),
         UNCHANGED <<samples[u], total[u], initial,
                     min_thread_execution_time[u],
                     max_thread_execution_time[u],
                     mean_thread_execution_time[u],
                     execution_time_counter[u], thread_execution_time[u]>>,
         \/ pc'[u] = pc[u]
         \/ /\ pc[u] \in Outside /\ pc'[u] \in Outside \ {"idle"}
            /\ pc[u] = "idle" => Len(samples[u]) < MaxRuns
  PROVE  Counted(u)' /\ Kept(u)'
<1>1. CASE pc'[u] = pc[u]
  BY <1>1 DEF Counted, Kept, Uncounted, InMinimum, InMaximum, InMean, Averaged
<1>2. CASE /\ pc[u] \in Outside /\ pc'[u] \in Outside \ {"idle"}
           /\ pc[u] = "idle" => Len(samples[u]) < MaxRuns
  <2>1. /\ ~Uncounted(u) /\ ~Uncounted(u)'
        /\ InMinimum(u) = Len(samples[u]) /\ InMinimum(u)' = Len(samples[u])
        /\ InMaximum(u) = Len(samples[u]) /\ InMaximum(u)' = Len(samples[u])
        /\ InMean(u)' = InMean(u)
        /\ Averaged(u)' = Averaged(u)
    BY <1>2 DEF Outside, Uncounted, InMinimum, InMaximum, InMean, Averaged
  <2>2. Counted(u)'
    <3>1. Len(samples[u]) = execution_time_counter[u]
      BY <2>1 DEF Counted, TypeInv
    <3> QED
      BY <1>2, <2>1, <3>1 DEF Counted, Outside, TypeInv
  <2>3. Kept(u)'
    BY <2>1 DEF Kept
  <2> QED
    BY <2>2, <2>3
<1> QED
  BY <1>1, <1>2

LEMMA MeasureKeepsHistory ==
  ASSUME TypeInv, TypeInv', HistoryType, NEW t \in Threads, Measure(t),
         Counted(t), Kept(t)
  PROVE  Counted(t)' /\ Kept(t)'
<1> DEFINE s == samples[t]
           x == thread_execution_time'[t]
<1>1. /\ s \in Seq(Nat) /\ Len(s) \in Nat /\ x \in Nat
      /\ samples'[t] = Append(s, x)
      /\ total'[t] = total[t] + x
      /\ total[t] \in Nat
      /\ pc[t] = "deactivated" /\ pc'[t] = "minimum"
      /\ UNCHANGED <<min_thread_execution_time, max_thread_execution_time,
                     mean_thread_execution_time, execution_time_counter,
                     initial>>
  <2>1. s \in Seq(Nat) /\ Len(s) \in Nat /\ total[t] \in Nat /\ x \in Nat
    BY DEF TypeInv, HistoryType
  <2>2. samples'[t] = Append(s, x) /\ total'[t] = total[t] + x
    BY DEF Measure, HistoryType
  <2>3. pc[t] = "deactivated" /\ pc'[t] = "minimum"
    BY DEF Measure, Step, TypeInv
  <2> QED
    BY <2>1, <2>2, <2>3 DEF Measure
<1>2. /\ Len(samples'[t]) = Len(s) + 1
      /\ samples'[t][Len(s) + 1] = x
      /\ First(samples'[t], Len(s)) = First(s, Len(s))
  BY <1>1, FirstAppended
<1>3. Len(s) = execution_time_counter[t] /\ Len(s) < MaxRuns
  <2>1. ~Uncounted(t) /\ pc[t] # "idle"
    BY <1>1 DEF Uncounted
  <2>2. execution_time_counter[t] \in Nat
    BY DEF TypeInv
  <2> QED
    BY <2>1, <2>2 DEF Counted
<1>4. Counted(t)'
  BY <1>1, <1>2, <1>3, ProcessingAssumption DEF Counted, Uncounted
<1>5. /\ InMinimum(t) = Len(s) /\ InMinimum(t)' = Len(s)
      /\ InMaximum(t) = Len(s) /\ InMaximum(t)' = Len(s)
      /\ InMean(t)' = InMean(t)
      /\ Averaged(t)' = Averaged(t)
  BY <1>1, <1>2 DEF InMinimum, InMaximum, InMean, Averaged
<1>6. Kept(t)'
  BY <1>1, <1>2, <1>5 DEF Kept
<1> QED
  BY <1>4, <1>6

(* The last sample is the measured time until the mean is updated.         *)
LEMMA LastSample ==
  ASSUME TypeInv, HistoryType, NEW t \in Threads, Counted(t), Uncounted(t)
  PROVE  \E n \in Nat :
           /\ Len(samples[t]) = n + 1 /\ execution_time_counter[t] = n
           /\ n < MaxRuns
           /\ First(samples[t], n) \subseteq Nat
           /\ pc[t] # "counter" =>
                First(samples[t], n + 1)
                  = First(samples[t], n) \cup {thread_execution_time[t]}
<1>1. PICK n \in Nat :
        Len(samples[t]) = n + 1 /\ execution_time_counter[t] = n
  BY DEF Counted, TypeInv
<1>2. n < MaxRuns
  BY <1>1 DEF Counted, Uncounted
<1>3. First(samples[t], n) \subseteq Nat
  <2>1. samples[t] \in Seq(Nat) /\ n \in 0 .. Len(samples[t])
    BY <1>1 DEF HistoryType
  <2> QED
    BY <2>1, FirstNat
<1>4. pc[t] # "counter" => thread_execution_time[t] = samples[t][n + 1]
  BY <1>1 DEF Counted, Uncounted
<1> QED
  BY <1>1, <1>2, <1>3, <1>4, FirstExtended

LEMMA UpdatesKeepHistory ==
  ASSUME TypeInv, TypeInv', HistoryType, NEW t \in Threads,
         update_execution_time_data(t), Counted(t), Kept(t)
  PROVE  Counted(t)' /\ Kept(t)'
<1> DEFINE x == thread_execution_time[t]
<1>1. /\ Uncounted(t)
      /\ UNCHANGED <<samples, total, initial, thread_execution_time>>
  BY DEF update_execution_time_data, UpdateMinimum, UpdateMaximum, UpdateMean,
         UpdateCounter, Step, Uncounted, histVars
<1>2. PICK n \in Nat :
        /\ Len(samples[t]) = n + 1 /\ execution_time_counter[t] = n
        /\ n < MaxRuns
        /\ First(samples[t], n) \subseteq Nat
        /\ pc[t] # "counter" =>
             First(samples[t], n + 1) = First(samples[t], n) \cup {x}
  BY <1>1, LastSample
<1>3. x \in Nat /\ initial \in Nat /\ total[t] \in Nat
  BY DEF TypeInv, HistoryType
<1>4. CASE UpdateMinimum(t)
  <2>1. /\ pc[t] = "minimum" /\ pc'[t] = "maximum"
        /\ min_thread_execution_time'[t] =
             IF x < min_thread_execution_time[t]
               THEN x ELSE min_thread_execution_time[t]
        /\ UNCHANGED <<max_thread_execution_time, mean_thread_execution_time,
                       execution_time_counter>>
    BY <1>4 DEF UpdateMinimum, Step, TypeInv
  <2>2. Counted(t)'
    BY <1>1, <2>1 DEF Counted, Uncounted
  <2>3. /\ InMinimum(t) = n /\ InMinimum(t)' = n + 1
        /\ InMaximum(t)' = InMaximum(t)
        /\ InMean(t)' = InMean(t)
        /\ Averaged(t)' = Averaged(t)
    BY <1>1, <1>2, <2>1 DEF InMinimum, InMaximum, InMean, Averaged
  <2>4. PICK S \in SUBSET Nat : S = First(samples[t], n) \cup {initial}
    BY <1>2, <1>3
  <2>5. IsMinimum(min_thread_execution_time[t], S)
    BY <2>3, <2>4 DEF Kept
  <2>6. IsMinimum(min_thread_execution_time'[t], S \cup {x})
    BY <1>3, <2>1, <2>5, MinimumExtended
  <2>7. S \cup {x} = First(samples[t], n + 1) \cup {initial}
    BY <1>2, <2>1, <2>4
  <2> QED
    BY <1>1, <2>1, <2>2, <2>3, <2>6, <2>7 DEF Kept
<1>5. CASE UpdateMaximum(t)
  <2>1. /\ pc[t] = "maximum" /\ pc'[t] = "mean"
        /\ max_thread_execution_time'[t] =
             NewMaximum(max_thread_execution_time[t], x)
        /\ UNCHANGED <<min_thread_execution_time, mean_thread_execution_time,
                       execution_time_counter>>
    BY <1>5 DEF UpdateMaximum, Step, TypeInv
  <2>2. Counted(t)'
    BY <1>1, <2>1 DEF Counted, Uncounted
  <2>3. /\ InMaximum(t) = n /\ InMaximum(t)' = n + 1
        /\ InMinimum(t)' = InMinimum(t)
        /\ InMean(t)' = InMean(t)
        /\ Averaged(t)' = Averaged(t)
    BY <1>1, <1>2, <2>1 DEF InMinimum, InMaximum, InMean, Averaged
  <2>4. PICK S \in SUBSET Nat : S = First(samples[t], n) \cup {0}
    <3>1. 0 \in Nat
      OBVIOUS
    <3> QED
      BY <1>2, <3>1, Zenon
  <2>5. IsMaximum(max_thread_execution_time[t], S)
    BY <2>3, <2>4 DEF Kept
  <2>6. IsMaximum(max_thread_execution_time'[t], S \cup {x})
    BY <1>3, <2>1, <2>5, MaximumExtended
  <2>7. S \cup {x} = First(samples[t], n + 1) \cup {0}
    BY <1>2, <2>1, <2>4
  <2> QED
    BY <1>1, <2>1, <2>2, <2>3, <2>6, <2>7 DEF Kept
<1>6. CASE UpdateMean(t)
  <2> DEFINE mean == mean_thread_execution_time[t]
  <2>1. /\ pc[t] = "mean" /\ pc'[t] = "counter"
        /\ mean_thread_execution_time'[t] = NextMean(Scale, mean, x, n)
        /\ UNCHANGED <<min_thread_execution_time, max_thread_execution_time,
                       execution_time_counter>>
    BY <1>2, <1>6 DEF UpdateMean, NewMean, NextMean, Step, TypeInv
  <2>2. Counted(t)'
    BY <1>1, <2>1 DEF Counted, Uncounted
  <2>3. /\ InMinimum(t)' = InMinimum(t)
        /\ InMaximum(t)' = InMaximum(t)
        /\ InMean(t) = n /\ InMean(t)' = n + 1
        /\ Averaged(t) = total[t] - x /\ Averaged(t)' = total[t]
    BY <1>1, <1>2, <2>1 DEF InMinimum, InMaximum, InMean, Averaged
  <2>4. PICK sum \in Int : sum = total[t] - x /\ sum + x = total[t]
    BY <1>3
  <2>5. mean \in Int /\ IsMean(Scale, mean, n, sum)
    BY <2>3, <2>4 DEF Kept, TypeInv
  <2>6. IsMean(Scale, NextMean(Scale, mean, x, n), n + 1, sum + x)
    <3>1. PICK m \in Nat \ {0} : m = n + 1 /\ m \in 1 .. MaxRuns
      BY <1>2, ProcessingAssumption
    <3>2. Scale % m = 0
      BY <3>1, ProcessingAssumption
    <3> QED
      BY <1>3, <2>5, <3>1, <3>2, ScaleNat, MeanOfOneMore
  <2> QED
    BY <1>1, <2>1, <2>2, <2>3, <2>4, <2>6 DEF Kept
<1>7. CASE UpdateCounter(t)
  <2>1. /\ pc[t] = "counter" /\ pc'[t] = "idle"
        /\ execution_time_counter'[t] = n + 1
        /\ UNCHANGED <<min_thread_execution_time, max_thread_execution_time,
                       mean_thread_execution_time>>
    BY <1>2, <1>7 DEF UpdateCounter, Step, TypeInv
  <2>2. Counted(t)'
    BY <1>1, <1>2, <2>1 DEF Counted, Uncounted
  <2>3. /\ InMinimum(t)' = InMinimum(t)
        /\ InMaximum(t)' = InMaximum(t)
        /\ InMean(t)' = InMean(t)
        /\ Averaged(t)' = Averaged(t)
    BY <1>1, <1>2, <2>1 DEF InMinimum, InMaximum, InMean, Averaged
  <2> QED
    BY <1>1, <2>1, <2>2, <2>3 DEF Kept
<1> QED
  BY <1>4, <1>5, <1>6, <1>7 DEF update_execution_time_data

(* A thread's own steps keep its history; those of others do not touch it. *)
LEMMA HistoryStep == TypeInv /\ TypeInv' /\ HistoryInv /\ [ProcessingNext]_processingVars
                       => HistoryInv'
<1> SUFFICES ASSUME TypeInv, TypeInv', HistoryInv, [ProcessingNext]_processingVars
             PROVE  HistoryInv'
  OBVIOUS
<1>type. HistoryType
  BY DEF HistoryInv
<1>kept. ASSUME NEW u \in Threads PROVE Counted(u) /\ Kept(u)
  BY <1>kept DEF HistoryInv
<1>1. CASE UNCHANGED <<pc, infoVars, samples, total, initial>>
  <2>1. HistoryType'
    BY <1>1, <1>type DEF HistoryType
  <2>2. ASSUME NEW u \in Threads PROVE Counted(u)' /\ Kept(u)'
    BY <1>1, <1>kept, HistoryUntouched DEF infoVars
  <2> QED
    BY <2>1, <2>2 DEF HistoryInv
<1>2. CASE UNCHANGED processingVars
  BY <1>1, <1>2 DEF processingVars, histVars
<1>3. CASE Tick
  BY <1>1, <1>3 DEF Tick, histVars
<1>4. ASSUME NEW t \in Threads,
             \/ Monitor_IndicateInterfaceActivated(t)
             \/ BeginBefore(t) \/ ReturnBefore(t)
             \/ BeginAfter(t) \/ ReturnAfter(t)
             \/ Monitor_IndicateInterfaceDeactivated(t)
      PROVE  HistoryInv'
  <2>1. UNCHANGED <<infoVars, samples, total, initial>>
    BY <1>4
       DEF Monitor_IndicateInterfaceActivated, BeginBefore, ReturnBefore,
           BeginAfter, ReturnAfter, Monitor_IndicateInterfaceDeactivated,
           histVars
  <2>2. /\ pc[t] \in Outside /\ pc'[t] \in Outside \ {"idle"}
        /\ pc[t] = "idle" => Len(samples[t]) < MaxRuns
        /\ \A u \in Threads \ {t} : pc'[u] = pc[u]
    BY <1>4
       DEF Monitor_IndicateInterfaceActivated, BeginBefore, ReturnBefore,
           BeginAfter, ReturnAfter, Monitor_IndicateInterfaceDeactivated,
           Step, TypeInv, Outside
  <2>3. HistoryType'
    BY <1>type, <2>1 DEF HistoryType
  <2>4. ASSUME NEW u \in Threads PROVE Counted(u)' /\ Kept(u)'
    BY <1>kept, <2>1, <2>2, HistoryUntouched DEF infoVars
  <2> QED
    BY <2>3, <2>4 DEF HistoryInv
<1>5. ASSUME NEW t \in Threads,
             Measure(t) \/ update_execution_time_data(t)
      PROVE  HistoryInv'
  <2>1. HistoryType'
    <3>1. CASE Measure(t)
      <4>1. thread_execution_time'[t] \in Nat
        BY DEF TypeInv
      <4> QED
        BY <1>type, <3>1, <4>1 DEF Measure, HistoryType
    <3>2. CASE update_execution_time_data(t)
      BY <1>type, <3>2
         DEF update_execution_time_data, UpdateMinimum, UpdateMaximum,
             UpdateMean, UpdateCounter, histVars, HistoryType
    <3> QED
      BY <1>5, <3>1, <3>2
  <2>2. Counted(t)' /\ Kept(t)'
    BY <1>5, <1>type, <1>kept, MeasureKeepsHistory, UpdatesKeepHistory
  <2>3. ASSUME NEW u \in Threads \ {t} PROVE Counted(u)' /\ Kept(u)'
    <3>1. UNCHANGED <<pc[u], samples[u], total[u], initial,
                      min_thread_execution_time[u],
                      max_thread_execution_time[u],
                      mean_thread_execution_time[u],
                      execution_time_counter[u], thread_execution_time[u]>>
      BY <1>5, <1>type
         DEF Measure, update_execution_time_data, UpdateMinimum,
             UpdateMaximum, UpdateMean, UpdateCounter, Step, histVars,
             TypeInv, HistoryType
    <3> QED
      BY <1>kept, <3>1, HistoryUntouched
  <2> QED
    BY <2>1, <2>2, <2>3 DEF HistoryInv
<1>6. CASE Monitor_GetUsageData
  BY <1>1, <1>6
     DEF Monitor_GetUsageData, ReadMaximum, ReadMinimum, ReadAverage,
         ReturnUsage, unchangedByReader, histVars
<1> QED
  BY <1>2, <1>3, <1>4, <1>5, <1>6
  DEF ProcessingNext, ThreadsCommon_ProcessRequest

LEMMA Inductive == ProcessingSpec => []IInv
<1>1. IInv /\ [ProcessingNext]_processingVars => IInv'
  BY TypeStep, ClockStep, MeasureStep, FieldsStep, ReadStep, HistoryStep DEF IInv
<1> QED
  BY Initially, <1>1, PTL DEF ProcessingSpec

-----------------------------------------------------------------------------
(* The theorems.                                                           *)

(* ThreadsCommon_ProcessRequest measures a time between that of the user   *)
(* function and that of the whole call, without wrapping round, if neither *)
(* of its two readings of the clock was overtaken; and those of the thread *)
(* of highest priority never are.  The clock is Clock's, so this is about  *)
(* requests processed before the product of Hal_GetElapsedTimeInNs wraps.  *)
THEOREM MeasuredRight == ProcessingSpec => []MeasuredWithinCall
<1>1. IInv => MeasuredWithinCall
  BY DEF IInv, ClockInv, Top, MeasureInv, Measures, MeasuredWithinCall
<1> QED
  BY Inductive, <1>1, PTL

(* Monitor_GetUsageData takes no lock, and yet never returns a minimum     *)
(* above the maximum for an interface that has executed; the average lies  *)
(* between the two unless an update of that interface ran during the call. *)
THEOREM BoundsOrdered == ProcessingSpec => []UsageBoundsOrdered
<1>1. IInv => UsageBoundsOrdered
  BY DEF IInv, ReadInv, UsageBoundsOrdered
<1> QED
  BY Inductive, <1>1, PTL

(* Between requests the incrementally kept fields of a thread are the      *)
(* minimum, maximum, mean and number of all its samples.                   *)
THEOREM StatisticsRight == ProcessingSpec => []StatisticsOfHistory
<1>1. IInv => StatisticsOfHistory
  <2> SUFFICES ASSUME IInv, NEW t \in Threads, pc[t] = "idle"
      PROVE  LET n == Len(samples[t])
                 all == {samples[t][i] : i \in 1 .. n}
             IN  /\ execution_time_counter[t] = n
                 /\ min_thread_execution_time[t] = Min(all \cup {initial})
                 /\ max_thread_execution_time[t] = Max(all \cup {0})
                 /\ mean_thread_execution_time[t] * n = Scale * total[t]
    BY DEF StatisticsOfHistory
  <2> DEFINE n == Len(samples[t])
             all == {samples[t][i] : i \in 1 .. n}
  <2>1. Counted(t) /\ Kept(t) /\ execution_time_counter[t] \in Nat
    BY DEF IInv, HistoryInv, TypeInv
  <2>2. n = execution_time_counter[t]
    BY <2>1 DEF Counted, Uncounted
  <2>3. /\ InMinimum(t) = n /\ InMaximum(t) = n
        /\ InMean(t) = n /\ Averaged(t) = total[t]
    BY <2>1, <2>2 DEF InMinimum, InMaximum, InMean, Averaged
  <2>4. First(samples[t], n) = all
    BY DEF First
  <2>5. /\ all \cup {initial} \subseteq Nat
        /\ all \cup {0} \subseteq Nat
    <3>1. /\ samples[t] \in Seq(Nat) /\ n \in 0 .. Len(samples[t])
          /\ initial \in Nat /\ 0 \in Nat
      BY DEF IInv, HistoryInv, HistoryType
    <3>2. all \subseteq Nat
      BY <2>4, <3>1, FirstNat
    <3> QED
      BY <3>1, <3>2, Zenon
  <2>6. min_thread_execution_time[t] = Min(all \cup {initial})
    <3>1. IsMinimum(min_thread_execution_time[t], all \cup {initial})
      BY <2>1, <2>3, <2>4 DEF Kept
    <3> QED
      BY <2>5, <3>1, MinimumIsMin
  <2>7. max_thread_execution_time[t] = Max(all \cup {0})
    <3>1. IsMaximum(max_thread_execution_time[t], all \cup {0})
      BY <2>1, <2>3, <2>4 DEF Kept
    <3> QED
      BY <2>5, <3>1, MaximumIsMax
  <2>8. mean_thread_execution_time[t] * n = Scale * total[t]
    BY <2>1, <2>3 DEF Kept, IsMean
  <2> HIDE DEF n, all
  <2> QED
    BY <2>2, <2>6, <2>7, <2>8 DEF n, all
<1> QED
  BY Inductive, <1>1, PTL

-----------------------------------------------------------------------------
(* CpuUsage: the record is that of the samples, whatever preempts the tick.*)

TickSteps == {"idle", "minimum", "maximum", "average", "count"}
CopySteps == {"idle", "minimum", "average", "done"}

CpuType ==
  /\ tick \in [step : TickSteps, percent : Nat]
  /\ benchmarking_ticks \in Nat
  /\ idle_cpu_usage_data \in [maximum : Nat, minimum : Nat, average : Int]
  /\ copy \in [step : CopySteps, maximum : Nat, minimum : Nat,
               average : Int, disturbed : BOOLEAN]
  /\ sampled \in Seq(Nat)
  /\ sampledTotal \in Nat

(* The sample of the tick in progress is the last one; the maximum, the    *)
(* average and the count take it up one after the other.                   *)
TickInv ==
  IF tick.step = "idle"
    THEN Len(sampled) = benchmarking_ticks
    ELSE /\ Len(sampled) = benchmarking_ticks + 1
         /\ benchmarking_ticks < MaxTicks
         /\ tick.percent = sampled[Len(sampled)]

Maximized ==
  IF tick.step \in {"minimum", "maximum"}
    THEN Len(sampled) - 1 ELSE Len(sampled)
AveragedTicks ==
  benchmarking_ticks + (IF tick.step = "count" THEN 1 ELSE 0)
AveragedTotal ==
  IF tick.step \in {"minimum", "maximum", "average"}
    THEN sampledTotal - tick.percent ELSE sampledTotal

UsageInv ==
  /\ IsMaximum(idle_cpu_usage_data.maximum,
               First(sampled, Maximized) \cup {0})
  /\ IsMean(AverageScale, idle_cpu_usage_data.average, AveragedTicks,
            AveragedTotal)

(* The average never exceeds the maximum, in the record and in an          *)
(* undisturbed copy of it.                                                 *)
CopyInv ==
  /\ idle_cpu_usage_data.average
       <= AverageScale * idle_cpu_usage_data.maximum
  /\ tick.step = "average" => tick.percent <= idle_cpu_usage_data.maximum
  /\ copy.step \in {"minimum", "average"} /\ ~copy.disturbed =>
       idle_cpu_usage_data.average <= AverageScale * copy.maximum
  /\ copy.step = "done" /\ ~copy.disturbed =>
       copy.average <= AverageScale * copy.maximum

CpuInv == CpuType /\ TickInv /\ UsageInv /\ CopyInv

LEMMA AverageScaleNat == AverageScale \in Nat \ {0}
BY CpuUsageAssumption

LEMMA CpuInitially == CpuInit => CpuInv
<1> SUFFICES ASSUME CpuInit PROVE CpuInv
  OBVIOUS
<1>1. CpuType
  BY DEF CpuInit, CpuType, Idle, NotCopied, TickSteps, CopySteps
<1>2. /\ sampled = <<>> /\ Len(sampled) = 0 /\ sampledTotal = 0
      /\ benchmarking_ticks = 0 /\ tick.step = "idle"
      /\ copy.step = "idle"
      /\ idle_cpu_usage_data = [maximum |-> 0, minimum |-> 0, average |-> 0]
  BY DEF CpuInit, Idle, NotCopied
<1>3. TickInv
  BY <1>2 DEF TickInv
<1>4. UsageInv
  <2>1. First(sampled, 0) = {}
    BY DEF First
  <2>2. IsMaximum(0, {0})
    BY DEF IsMaximum
  <2>3. Maximized = 0 /\ AveragedTicks = 0 /\ AveragedTotal = 0
    BY <1>2 DEF Maximized, AveragedTicks, AveragedTotal
  <2>4. IsMean(AverageScale, 0, 0, 0)
    BY AverageScaleNat DEF IsMean
  <2> QED
    BY <1>2, <2>1, <2>2, <2>3, <2>4 DEF UsageInv
<1>5. CopyInv
  <2>1. 0 <= AverageScale * 0
    BY AverageScaleNat
  <2> QED
    BY <1>2, <2>1 DEF CopyInv
<1> QED
  BY <1>1, <1>3, <1>4, <1>5 DEF CpuInv

(* An update disturbs a copy in progress and leaves others alone. *)
LEMMA CopyDisturbed ==
  ASSUME CpuType, DisturbCopy
  PROVE  /\ copy' \in [step : CopySteps, maximum : Nat, minimum : Nat,
                       average : Int, disturbed : BOOLEAN]
         /\ \/ copy.step \in {"minimum", "average"} /\ copy'.disturbed
               /\ copy'.step = copy.step
            \/ copy.step \notin {"minimum", "average"} /\ copy' = copy
<1>1. CASE copy.step \in {"minimum", "average"}
  BY <1>1 DEF CpuType, DisturbCopy
<1>2. CASE copy.step \notin {"minimum", "average"}
  BY <1>2 DEF CpuType, DisturbCopy
<1> QED
  BY <1>1, <1>2

LEMMA SampleStep == CpuInv /\ Sample => CpuInv'
<1> SUFFICES ASSUME CpuInv, Sample PROVE CpuInv'
  OBVIOUS
<1> USE DEF CpuInv
<1>1. PICK p \in Nat :
        /\ tick' = [step |-> "minimum", percent |-> p]
        /\ sampled' = Append(sampled, p)
        /\ sampledTotal' = sampledTotal + p
  BY CpuUsageAssumption DEF Sample
<1>2. /\ tick.step = "idle" /\ benchmarking_ticks < MaxTicks
      /\ UNCHANGED <<benchmarking_ticks, idle_cpu_usage_data, copy>>
  BY DEF Sample, Idle
<1>3. /\ sampled \in Seq(Nat) /\ Len(sampled) = benchmarking_ticks
      /\ benchmarking_ticks \in Nat /\ sampledTotal \in Nat
  BY <1>2 DEF CpuType, TickInv
<1>4. /\ sampled' \in Seq(Nat)
      /\ Len(sampled') = Len(sampled) + 1
      /\ sampled'[Len(sampled) + 1] = p
      /\ First(sampled', Len(sampled)) = First(sampled, Len(sampled))
  BY <1>1, <1>3, FirstAppended
<1>5. CpuType'
  <2>1. tick' \in [step : TickSteps, percent : Nat]
    BY <1>1 DEF TickSteps
  <2> QED
    BY <1>1, <1>2, <1>3, <1>4, <2>1 DEF CpuType
<1>6. tick'.step = "minimum" /\ tick'.percent = p
  BY <1>1
<1>7. TickInv'
  BY <1>2, <1>3, <1>4, <1>6 DEF TickInv
<1>8. UsageInv'
  <2>1. /\ Maximized = Len(sampled) /\ Maximized' = Len(sampled)
        /\ AveragedTicks' = AveragedTicks
        /\ AveragedTotal' = AveragedTotal
    BY <1>1, <1>2, <1>3, <1>4, <1>6
       DEF Maximized, AveragedTicks, AveragedTotal
  <2> QED
    BY <1>2, <1>4, <2>1 DEF UsageInv
<1>9. CopyInv'
  BY <1>2, <1>6 DEF CopyInv
<1> QED
  BY <1>5, <1>7, <1>8, <1>9

(* What the four updates of a tick have in common. *)
LEMMA TickStepTakes ==
  ASSUME CpuInv, NEW from \in TickSteps, NEW to \in TickSteps,
         TickStep(from, to), from # "idle"
  PROVE  /\ tick.step = from /\ tick'.step = to
         /\ tick'.percent = tick.percent
         /\ tick' \in [step : TickSteps, percent : Nat]
         /\ tick.percent \in Nat
         /\ UNCHANGED <<benchmarking_ticks, sampled, sampledTotal>>
         /\ Len(sampled) = benchmarking_ticks + 1
         /\ benchmarking_ticks < MaxTicks
         /\ benchmarking_ticks \in Nat
         /\ First(sampled, Len(sampled)) =
              First(sampled, Len(sampled) - 1) \cup {tick.percent}
         /\ First(sampled, Len(sampled) - 1) \subseteq Nat
         /\ to # "idle" => TickInv'
<1>1. /\ tick.step = from /\ tick'.step = to
      /\ tick'.percent = tick.percent
      /\ tick' \in [step : TickSteps, percent : Nat]
      /\ tick.percent \in Nat
  BY DEF CpuInv, CpuType, TickStep
<1>2. UNCHANGED <<benchmarking_ticks, sampled, sampledTotal>>
  BY DEF TickStep
<1>3. /\ Len(sampled) = benchmarking_ticks + 1
      /\ benchmarking_ticks < MaxTicks
      /\ tick.percent = sampled[Len(sampled)]
      /\ benchmarking_ticks \in Nat
      /\ sampled \in Seq(Nat)
  BY <1>1 DEF CpuInv, CpuType, TickInv
<1>4. /\ First(sampled, benchmarking_ticks + 1) =
           First(sampled, benchmarking_ticks) \cup {tick.percent}
      /\ First(sampled, benchmarking_ticks) \subseteq Nat
  <2>1. benchmarking_ticks \in 0 .. Len(sampled)
    BY <1>3
  <2>2. First(sampled, benchmarking_ticks) \subseteq Nat
    BY <1>3, <2>1, FirstNat
  <2> QED
    BY <1>3, <2>2, FirstExtended
<1>5. to # "idle" => TickInv'
  BY <1>1, <1>2, <1>3 DEF TickInv
<1>6. Len(sampled) - 1 = benchmarking_ticks
  BY <1>3
<1> QED
  BY <1>1, <1>2, <1>3, <1>4, <1>5, <1>6

LEMMA MinimumUsageStep == CpuInv /\ UpdateMinimumUsage => CpuInv'
<1> SUFFICES ASSUME CpuInv, UpdateMinimumUsage PROVE CpuInv'
  OBVIOUS
<1>1. /\ tick.step = "minimum" /\ tick'.step = "maximum"
      /\ tick'.percent = tick.percent
      /\ tick' \in [step : TickSteps, percent : Nat]
      /\ tick.percent \in Nat
      /\ UNCHANGED <<benchmarking_ticks, sampled, sampledTotal>>
      /\ TickInv'
  BY TickStepTakes DEF UpdateMinimumUsage, TickSteps
<1>2. /\ idle_cpu_usage_data' \in
           [maximum : Nat, minimum : Nat, average : Int]
      /\ idle_cpu_usage_data'.maximum = idle_cpu_usage_data.maximum
      /\ idle_cpu_usage_data'.average = idle_cpu_usage_data.average
  <2>1. idle_cpu_usage_data \in
          [maximum : Nat, minimum : Nat, average : Int]
    BY DEF CpuInv, CpuType
  <2>2. PICK m \in Nat :
          idle_cpu_usage_data' = [idle_cpu_usage_data EXCEPT !.minimum = m]
    BY <1>1, <2>1 DEF UpdateMinimumUsage
  <2> QED
    BY <2>1, <2>2
<1>3. /\ copy' \in [step : CopySteps, maximum : Nat, minimum : Nat,
                    average : Int, disturbed : BOOLEAN]
      /\ \/ copy.step \in {"minimum", "average"} /\ copy'.disturbed
            /\ copy'.step = copy.step
         \/ copy.step \notin {"minimum", "average"} /\ copy' = copy
  BY CopyDisturbed DEF CpuInv, UpdateMinimumUsage
<1>4. CpuType'
  BY <1>1, <1>2, <1>3 DEF CpuInv, CpuType
<1>5. UsageInv'
  BY <1>1, <1>2
     DEF CpuInv, UsageInv, Maximized, AveragedTicks, AveragedTotal
<1>6. CopyInv'
  BY <1>1, <1>2, <1>3 DEF CpuInv, CopyInv
<1> QED
  BY <1>1, <1>4, <1>5, <1>6 DEF CpuInv

LEMMA MaximumUsageStep == CpuInv /\ UpdateMaximumUsage => CpuInv'
<1> SUFFICES ASSUME CpuInv, UpdateMaximumUsage PROVE CpuInv'
  OBVIOUS
<1> DEFINE old == idle_cpu_usage_data.maximum
           n   == Len(sampled) - 1
<1>1. /\ tick.step = "maximum" /\ tick'.step = "average"
      /\ tick'.percent = tick.percent
      /\ tick' \in [step : TickSteps, percent : Nat]
      /\ tick.percent \in Nat
      /\ UNCHANGED <<benchmarking_ticks, sampled, sampledTotal>>
      /\ First(sampled, Len(sampled)) = First(sampled, n) \cup {tick.percent}
      /\ First(sampled, n) \subseteq Nat
      /\ TickInv'
  BY TickStepTakes DEF UpdateMaximumUsage, TickSteps
<1>2. /\ idle_cpu_usage_data \in [maximum : Nat, minimum : Nat, average : Int]
      /\ old \in Nat
  BY DEF CpuInv, CpuType
<1>3. /\ idle_cpu_usage_data'.maximum = NewMaximum(old, tick.percent)
      /\ idle_cpu_usage_data'.minimum = idle_cpu_usage_data.minimum
      /\ idle_cpu_usage_data'.average = idle_cpu_usage_data.average
      /\ idle_cpu_usage_data' \in [maximum : Nat, minimum : Nat, average : Int]
  BY <1>1, <1>2 DEF UpdateMaximumUsage, NewMaximum
<1>4. /\ copy' \in [step : CopySteps, maximum : Nat, minimum : Nat,
                    average : Int, disturbed : BOOLEAN]
      /\ \/ copy.step \in {"minimum", "average"} /\ copy'.disturbed
            /\ copy'.step = copy.step
         \/ copy.step \notin {"minimum", "average"} /\ copy' = copy
  BY CopyDisturbed DEF CpuInv, UpdateMaximumUsage
<1>5. CpuType'
  BY <1>1, <1>3, <1>4 DEF CpuInv, CpuType
<1>6. UsageInv'
  <2>1. /\ Maximized = n /\ Maximized' = Len(sampled)
        /\ AveragedTicks' = AveragedTicks
        /\ AveragedTotal' = AveragedTotal
    BY <1>1 DEF Maximized, AveragedTicks, AveragedTotal
  <2>2. PICK S \in SUBSET Nat : S = First(sampled, n) \cup {0}
    <3>1. 0 \in Nat
      OBVIOUS
    <3> QED
      BY <1>1, <3>1, Zenon
  <2>3. IsMaximum(old, S)
    BY <2>1, <2>2 DEF CpuInv, UsageInv
  <2>4. IsMaximum(NewMaximum(old, tick.percent), S \cup {tick.percent})
    BY <1>1, <2>3, MaximumExtended
  <2>5. S \cup {tick.percent} = First(sampled, Len(sampled)) \cup {0}
    BY <1>1, <2>2
  <2> QED
    BY <1>1, <1>3, <2>1, <2>4, <2>5 DEF CpuInv, UsageInv
<1>7. CopyInv'
  <2>1. /\ old <= NewMaximum(old, tick.percent)
        /\ tick.percent <= NewMaximum(old, tick.percent)
        /\ NewMaximum(old, tick.percent) \in Nat
    BY <1>1, <1>2 DEF NewMaximum
  <2>2. AverageScale * old <= AverageScale * NewMaximum(old, tick.percent)
    BY <1>2, <2>1, AverageScaleNat, ScaledMonotone
  <2>3. idle_cpu_usage_data'.average
          <= AverageScale * idle_cpu_usage_data'.maximum
    <3>1. PICK x \in Int, y \in Int :
            /\ x = AverageScale * old
            /\ y = AverageScale * NewMaximum(old, tick.percent)
      BY <1>2, <2>1, AverageScaleNat, ProductInt
    <3>2. idle_cpu_usage_data.average \in Int
      BY <1>2
    <3>3. idle_cpu_usage_data.average <= x
      BY <3>1 DEF CpuInv, CopyInv
    <3> QED
      BY <1>3, <2>2, <3>1, <3>2, <3>3
  <2> QED
    BY <1>1, <1>3, <1>4, <2>1, <2>3 DEF CpuInv, CopyInv
<1> QED
  BY <1>1, <1>5, <1>6, <1>7 DEF CpuInv

LEMMA AverageUsageStep == CpuInv /\ UpdateAverageUsage => CpuInv'
<1> SUFFICES ASSUME CpuInv, UpdateAverageUsage PROVE CpuInv'
  OBVIOUS
<1> DEFINE old == idle_cpu_usage_data.average
           n   == benchmarking_ticks
           new == NextMean(AverageScale, old, tick.percent, n)
<1>1. /\ tick.step = "average" /\ tick'.step = "count"
      /\ tick'.percent = tick.percent
      /\ tick' \in [step : TickSteps, percent : Nat]
      /\ tick.percent \in Nat
      /\ UNCHANGED <<benchmarking_ticks, sampled, sampledTotal>>
      /\ n < MaxTicks /\ n \in Nat
      /\ TickInv'
  BY TickStepTakes DEF UpdateAverageUsage, TickSteps
<1>2. /\ idle_cpu_usage_data \in [maximum : Nat, minimum : Nat, average : Int]
      /\ old \in Int /\ idle_cpu_usage_data.maximum \in Nat
      /\ sampledTotal \in Nat
  BY DEF CpuInv, CpuType
<1>3. new \in Int
  BY <1>1, <1>2, AverageScaleNat, MeanBetween
<1>4. /\ idle_cpu_usage_data'.average = new
      /\ idle_cpu_usage_data'.minimum = idle_cpu_usage_data.minimum
      /\ idle_cpu_usage_data'.maximum = idle_cpu_usage_data.maximum
      /\ idle_cpu_usage_data' \in [maximum : Nat, minimum : Nat, average : Int]
  <2>1. idle_cpu_usage_data' = [idle_cpu_usage_data EXCEPT !.average = new]
    BY <1>2 DEF UpdateAverageUsage, NewAverage, NextMean
  <2> HIDE DEF new
  <2> QED
    BY <1>2, <1>3, <2>1
<1>5. /\ copy' \in [step : CopySteps, maximum : Nat, minimum : Nat,
                    average : Int, disturbed : BOOLEAN]
      /\ \/ copy.step \in {"minimum", "average"} /\ copy'.disturbed
            /\ copy'.step = copy.step
         \/ copy.step \notin {"minimum", "average"} /\ copy' = copy
  BY CopyDisturbed DEF CpuInv, UpdateAverageUsage
<1>6. CpuType'
  BY <1>1, <1>4, <1>5 DEF CpuInv, CpuType
<1>7. UsageInv'
  <2>1. PICK sum \in Int :
          /\ sum = sampledTotal - tick.percent
          /\ sum + tick.percent = sampledTotal
    BY <1>1, <1>2
  <2>2. /\ Maximized = Len(sampled) /\ Maximized' = Len(sampled)
        /\ AveragedTicks = n /\ AveragedTicks' = n + 1
        /\ AveragedTotal = sum /\ AveragedTotal' = sum + tick.percent
    BY <1>1, <2>1 DEF Maximized, AveragedTicks, AveragedTotal
  <2>3. PICK m \in Nat \ {0} : m = n + 1 /\ m \in 1 .. MaxTicks
    BY <1>1, CpuUsageAssumption
  <2>4. AverageScale % m = 0
    BY <2>3, CpuUsageAssumption
  <2>5. IsMean(AverageScale, old, n, sum)
    BY <2>2 DEF CpuInv, UsageInv
  <2>6. IsMean(AverageScale, new, m, sum + tick.percent)
    BY <1>1, <1>2, <2>3, <2>4, <2>5, AverageScaleNat, MeanOfOneMore
  <2> HIDE DEF new
  <2> QED
    BY <1>1, <1>4, <2>2, <2>3, <2>6 DEF CpuInv, UsageInv
<1>8. CopyInv'
  <2>1. PICK hi \in Int : hi = AverageScale * idle_cpu_usage_data.maximum
    BY <1>2, AverageScaleNat, ProductInt
  <2>2. tick.percent * AverageScale <= hi
    <3>1. tick.percent <= idle_cpu_usage_data.maximum
      BY <1>1 DEF CpuInv, CopyInv
    <3>2. AverageScale * tick.percent <= hi
      BY <1>1, <1>2, <2>1, <3>1, AverageScaleNat, ScaledMonotone
    <3> QED
      BY <1>1, <3>2, AverageScaleNat
  <2>3. old <= hi
    BY <2>1 DEF CpuInv, CopyInv
  <2>4. new <= hi
    BY <1>1, <1>2, <2>2, <2>3, AverageScaleNat, MeanBetween
  <2> HIDE DEF new
  <2> QED
    BY <1>1, <1>4, <1>5, <2>1, <2>4 DEF CpuInv, CopyInv
<1> QED
  BY <1>1, <1>6, <1>7, <1>8 DEF CpuInv

LEMMA CountTickStep == CpuInv /\ CountTick => CpuInv'
<1> SUFFICES ASSUME CpuInv, CountTick PROVE CpuInv'
  OBVIOUS
<1>1. /\ tick.step = "count" /\ tick' = Idle
      /\ tick'.step = "idle" /\ tick' \in [step : TickSteps, percent : Nat]
      /\ benchmarking_ticks' = benchmarking_ticks + 1
      /\ benchmarking_ticks \in Nat
      /\ UNCHANGED <<idle_cpu_usage_data, copy, sampled, sampledTotal>>
  BY DEF CountTick, Idle, TickSteps, CpuInv, CpuType
<1>2. CpuType'
  BY <1>1 DEF CpuInv, CpuType
<1>3. TickInv'
  BY <1>1 DEF CpuInv, TickInv
<1>4. UsageInv'
  BY <1>1 DEF CpuInv, UsageInv, Maximized, AveragedTicks, AveragedTotal
<1>5. CopyInv'
  BY <1>1 DEF CpuInv, CopyInv
<1> QED
  BY <1>2, <1>3, <1>4, <1>5 DEF CpuInv

LEMMA CopyStep == CpuInv /\ Monitor_GetIdleCPUUsageData => CpuInv'
<1> SUFFICES ASSUME CpuInv, Monitor_GetIdleCPUUsageData PROVE CpuInv'
  OBVIOUS
<1> DEFINE data == idle_cpu_usage_data
<1>1. UNCHANGED <<tick, benchmarking_ticks, idle_cpu_usage_data, sampled,
                  sampledTotal>>
  BY DEF Monitor_GetIdleCPUUsageData
<1>2. /\ data \in [maximum : Nat, minimum : Nat, average : Int]
      /\ copy \in [step : CopySteps, maximum : Nat, minimum : Nat,
                   average : Int, disturbed : BOOLEAN]
  BY DEF CpuInv, CpuType
<1>3. /\ copy' \in [step : CopySteps, maximum : Nat, minimum : Nat,
                    average : Int, disturbed : BOOLEAN]
      /\ \/ copy'.step = "minimum" /\ copy'.maximum = data.maximum
         \/ /\ copy.step = "minimum" /\ copy'.step = "average"
            /\ copy'.maximum = copy.maximum
            /\ copy'.disturbed = copy.disturbed
         \/ /\ copy.step = "average" /\ copy'.step = "done"
            /\ copy'.maximum = copy.maximum
            /\ copy'.average = data.average
            /\ copy'.disturbed = copy.disturbed
  <2>1. CASE CopyMaximum
    <3>1. data.maximum \in Nat
      BY <1>2
    <3>2. copy' = [step |-> "minimum", maximum |-> data.maximum, minimum |-> 0,
                   average |-> 0, disturbed |-> FALSE]
      BY <2>1 DEF CopyMaximum, NotCopied
    <3> QED
      BY <3>1, <3>2 DEF CopySteps
  <2>2. CASE CopyMinimum
    BY <1>2, <2>2 DEF CopyMinimum, CopySteps
  <2>3. CASE CopyAverage
    BY <1>2, <2>3 DEF CopyAverage, CopySteps
  <2> QED
    BY <2>1, <2>2, <2>3 DEF Monitor_GetIdleCPUUsageData
<1>4. CpuType'
  BY <1>1, <1>3 DEF CpuInv, CpuType
<1>5. TickInv' /\ UsageInv'
  BY <1>1 DEF CpuInv, TickInv, UsageInv, Maximized, AveragedTicks,
              AveragedTotal
<1>6. CopyInv'
  BY <1>1, <1>3 DEF CpuInv, CopyInv
<1> QED
  BY <1>4, <1>5, <1>6 DEF CpuInv

LEMMA CpuInductive == CpuSpec => []CpuInv
<1>1. CpuInv /\ [CpuNext]_cpuVars => CpuInv'
  <2> SUFFICES ASSUME CpuInv, [CpuNext]_cpuVars PROVE CpuInv'
    OBVIOUS
  <2>1. CASE UNCHANGED cpuVars
    BY <2>1 DEF cpuVars, CpuInv, CpuType, TickInv, UsageInv, CopyInv,
                Maximized, AveragedTicks, AveragedTotal
  <2>2. CASE CpuNext
    BY <2>2, SampleStep, MinimumUsageStep, MaximumUsageStep,
       AverageUsageStep, CountTickStep, CopyStep
       DEF CpuNext, Monitor_MonitoringTick, cpu_usage_visitor
  <2> QED
    BY <2>1, <2>2
<1> QED
  BY CpuInitially, <1>1, PTL DEF CpuSpec

-----------------------------------------------------------------------------
(* StackUsage: the scan against a running thread.                          *)

StackType ==
  /\ sp \in 0 .. StackWords
  /\ deepest \in 0 .. sp
  /\ stack \subseteq deepest .. StackWords - 1
  /\ scan \in -1 .. StackWords

(* Words without pattern since the scan began are still so, and the scan   *)
(* has not passed them.                                                    *)
ScanInv ==
  /\ steady \subseteq stack
  /\ \A w \in steady : scan <= w

StackInv == StackType /\ ScanInv /\ StackUsageOfScan

(* A set of naturals has a least element. *)
LEMMA LeastExists ==
  ASSUME NEW S \in SUBSET Nat, S # {}
  PROVE  \E x \in S : \A y \in S : x <= y
<1>1. PICK x \in S : \A y \in S : ~ (<<y, x>> \in OpToRel(<, Nat))
  BY NatLessThanWellFounded, WFMin
<1>2. ASSUME NEW y \in S PROVE x <= y
  <2>1. ~ (<<y, x>> \in OpToRel(<, Nat))
    BY <1>1
  <2>2. ~ (y < x)
    BY <2>1 DEF OpToRel
  <2> QED
    BY <2>2
<1> QED
  BY <1>2

LEMMA MinOfNaturals ==
  ASSUME NEW S \in SUBSET Nat, S # {}
  PROVE  IsMinimum(Min(S), S)
<1>1. PICK x \in S : \A y \in S : x <= y
  BY LeastExists
<1>2. IsMinimum(x, S)
  BY <1>1 DEF IsMinimum
<1> QED
  BY <1>2, MinimumIsMin

LEMMA MinOfTwo ==
  ASSUME NEW a \in Nat, NEW b \in Nat
  PROVE  Min({a, b}) = IF a <= b THEN a ELSE b
<1>1. IsMinimum(IF a <= b THEN a ELSE b, {a, b})
  BY DEF IsMinimum
<1>2. {a, b} \in SUBSET Nat
  OBVIOUS
<1> QED
  BY <1>1, <1>2, MinimumIsMin

(* The use seen by a set of words is that of its lowest one. *)
LEMMA UsedInBounds ==
  ASSUME NEW S \in SUBSET (0 .. StackWords - 1), NEW w \in 0 .. StackWords
  PROVE  /\ (\A x \in S : w <= x) =>
              UsedIn(S) <= BytesPerWord * (StackWords - w)
         /\ w \in S => BytesPerWord * (StackWords - w) <= UsedIn(S)
         /\ UsedIn(S) >= 0
<1>1. StackWords \in Nat
  BY StackUsageAssumption
<1>2. CASE S = {}
  <2>1. UsedIn(S) = 0
    BY <1>2 DEF UsedIn
  <2>2. BytesPerWord * (StackWords - w) >= 0
    BY <1>1 DEF BytesPerWord
  <2> QED
    BY <1>2, <2>1, <2>2
<1>3. CASE S # {}
  <2>1. S \in SUBSET Nat
    BY <1>1
  <2>2. PICK m \in S : m = Min(S) /\ \A x \in S : m <= x
    BY <1>3, <2>1, MinOfNaturals DEF IsMinimum
  <2>3. UsedIn(S) = BytesPerWord * (StackWords - m)
    BY <1>3, <2>2 DEF UsedIn
  <2> QED
    BY <1>1, <2>2, <2>3 DEF BytesPerWord
<1> QED
  BY <1>2, <1>3

LEMMA StackInitially == StackInit => StackInv
<1> SUFFICES ASSUME StackInit PROVE StackInv
  OBVIOUS
<1>1. StackType
  BY StackUsageAssumption DEF StackInit, StackType, NotScanning
<1> QED
  BY <1>1 DEF StackInit, StackInv, ScanInv, StackUsageOfScan

LEMMA ThreadStep == StackInv /\ MeasuredThread => StackInv'
<1> SUFFICES ASSUME StackInv, MeasuredThread PROVE StackInv'
  OBVIOUS
<1> USE StackUsageAssumption DEF StackInv, StackType, ScanInv
<1>1. StackUsageOfScan'
  BY DEF MeasuredThread, StackUsageOfScan
<1>2. CASE Push
  <2>1. /\ sp' \in 0 .. StackWords - 1
        /\ deepest' = Min({deepest, sp'})
        /\ deepest \in Nat /\ sp' \in Nat
    BY <1>2 DEF Push
  <2>2. deepest' = IF deepest <= sp' THEN deepest ELSE sp'
    BY <2>1, MinOfTwo
  <2>3. stack' \subseteq stack \cup {sp'} /\ steady' = steady \cap stack'
    BY <1>2 DEF Push
  <2>4. UNCHANGED scan
    BY DEF MeasuredThread
  <2>5. /\ deepest' \in 0 .. StackWords
        /\ deepest' <= deepest
        /\ deepest' <= sp'
    BY <2>1, <2>2
  <2>6. stack' \in SUBSET (deepest' .. StackWords - 1)
    <3>1. ASSUME NEW w \in stack' PROVE w \in deepest' .. StackWords - 1
      <4>1. CASE w = sp'
        BY <2>1, <2>5, <4>1
      <4>2. CASE w \in stack
        BY <2>5, <4>2
      <4> QED
        BY <2>3, <3>1, <4>1, <4>2
    <3> QED
      BY <3>1
  <2>7. steady' \subseteq stack' /\ steady' \subseteq steady
    BY <2>3
  <2>8. StackType'
    BY <2>1, <2>4, <2>5, <2>6, <2>7
  <2>9. ScanInv'
    BY <2>4, <2>6, <2>7
  <2> QED
    BY <1>1, <2>8, <2>9
<1>3. CASE Pop
  BY <1>1, <1>3 DEF MeasuredThread, Pop
<1> QED
  BY <1>2, <1>3 DEF MeasuredThread

LEMMA ScanStep == StackInv /\ Monitor_GetMaximumStackUsage => StackInv'
<1> SUFFICES ASSUME StackInv, Monitor_GetMaximumStackUsage PROVE StackInv'
  OBVIOUS
<1>1. /\ StackType /\ ScanInv /\ StackWords \in Nat
      /\ UNCHANGED <<stack, sp, deepest>>
  BY StackUsageAssumption DEF StackInv, Monitor_GetMaximumStackUsage
<1>2. /\ steady \in SUBSET (0 .. StackWords - 1)
      /\ deepest .. StackWords - 1 \in SUBSET (0 .. StackWords - 1)
  BY <1>1 DEF StackType, ScanInv
<1>3. CASE NothingToScan
  BY <1>1, <1>3
     DEF NothingToScan, StackInv, StackType, ScanInv, StackUsageOfScan
<1>4. CASE BeginScan
  <2>1. StackUsageOfScan'
    BY <1>4 DEF BeginScan, StackInv, StackUsageOfScan
  <2> QED
    BY <1>1, <1>4, <2>1 DEF BeginScan, StackInv, StackType, ScanInv
<1>5. CASE SkipPattern
  <2>1. StackUsageOfScan'
    BY <1>5 DEF SkipPattern, StackInv, StackUsageOfScan
  <2> QED
    BY <1>1, <1>5, <2>1 DEF SkipPattern, StackInv, StackType, ScanInv
<1>6. ASSUME NEW bytes, Returns(bytes),
             UsedIn(steady) <= bytes,
             bytes <= UsedIn(deepest .. StackWords - 1)
      PROVE  StackInv'
  <2>1. StackUsageOfScan'
    BY <1>6 DEF Returns, StackUsageOfScan
  <2>2. scan' = -1 /\ steady' = {}
    BY <1>6 DEF Returns, NotScanning
  <2> QED
    BY <1>1, <2>1, <2>2 DEF StackInv, StackType, ScanInv
<1>7. CASE HighWaterMark
  <2>1. /\ scan \in 0 .. StackWords
        /\ scan \in deepest .. StackWords - 1
        /\ \A w \in steady : scan <= w
        /\ Returns(calculate_used_stack(scan))
    BY <1>1, <1>7 DEF HighWaterMark, StackType, ScanInv
  <2>2. /\ UsedIn(steady) <= calculate_used_stack(scan)
        /\ calculate_used_stack(scan) <= UsedIn(deepest .. StackWords - 1)
    BY <1>2, <2>1, UsedInBounds DEF calculate_used_stack
  <2> QED
    BY <1>6, <2>1, <2>2
<1>8. CASE NoHighWaterMark
  <2>1. steady = {} /\ Returns(0)
    BY <1>1, <1>8 DEF NoHighWaterMark, StackType, ScanInv
  <2>2. UsedIn(steady) <= 0
    BY <2>1 DEF UsedIn
  <2>3. 0 <= UsedIn(deepest .. StackWords - 1)
    <3>1. StackWords \in 0 .. StackWords
      BY <1>1
    <3>2. UsedIn(deepest .. StackWords - 1) >= 0
      BY <1>2, <3>1, UsedInBounds
    <3> QED
      BY <3>2
  <2> QED
    BY <1>6, <2>1, <2>2, <2>3
<1> QED
  BY <1>3, <1>4, <1>5, <1>7, <1>8
     DEF Monitor_GetMaximumStackUsage, find_high_water_mark

LEMMA StackInductive == StackSpec => []StackInv
<1>1. StackInv /\ [StackNext]_stackVars => StackInv'
  <2> SUFFICES ASSUME StackInv, [StackNext]_stackVars PROVE StackInv'
    OBVIOUS
  <2>1. CASE UNCHANGED stackVars
    BY <2>1 DEF stackVars, StackInv, StackType, ScanInv, StackUsageOfScan
  <2>2. CASE StackNext
    BY <2>2, ThreadStep, ScanStep DEF StackNext
  <2> QED
    BY <2>1, <2>2
<1> QED
  BY StackInitially, <1>1, PTL DEF StackSpec

(* Between two ticks the record of the idle task's share is the maximum    *)
(* and the mean of all samples; a copy no tick disturbed has no average    *)
(* above its maximum.                                                      *)
THEOREM UsageOfTicks == CpuSpec => []IdleUsageOfTicks
<1>1. CpuInv => IdleUsageOfTicks
  <2> SUFFICES ASSUME CpuInv PROVE IdleUsageOfTicks
    OBVIOUS
  <2> DEFINE n   == Len(sampled)
             all == {sampled[i] : i \in 1 .. n}
  <2>1. (copy.step = "done" /\ ~copy.disturbed) =>
          copy.average <= AverageScale * copy.maximum
    BY DEF CpuInv, CopyInv
  <2>2. ASSUME tick = Idle
        PROVE  /\ benchmarking_ticks = n
               /\ idle_cpu_usage_data.maximum = Max(all \cup {0})
               /\ idle_cpu_usage_data.average * n = AverageScale * sampledTotal
    <3>1. tick.step = "idle"
      BY <2>2 DEF Idle
    <3>2. /\ n = benchmarking_ticks /\ n \in Nat /\ sampled \in Seq(Nat)
          /\ UsageInv
      BY <3>1 DEF CpuInv, CpuType, TickInv
    <3>3. Maximized = n /\ AveragedTicks = n /\ AveragedTotal = sampledTotal
      BY <3>1, <3>2 DEF Maximized, AveragedTicks, AveragedTotal
    <3>4. First(sampled, n) = all
      BY DEF First
    <3>5. all \cup {0} \in SUBSET Nat
      <4>1. all \subseteq Nat /\ 0 \in Nat
        BY <3>2, <3>4, FirstNat
      <4> QED
        BY <4>1, Zenon
    <3>6. IsMaximum(idle_cpu_usage_data.maximum, all \cup {0})
      BY <3>2, <3>3, <3>4 DEF UsageInv
    <3>7. idle_cpu_usage_data.maximum = Max(all \cup {0})
      BY <3>5, <3>6, MaximumIsMax
    <3> QED
      BY <3>2, <3>3, <3>7 DEF UsageInv, IsMean
  <2> QED
    BY <2>1, <2>2 DEF IdleUsageOfTicks
<1> QED
  BY CpuInductive, <1>1, PTL

(* Whatever the measured thread pushes and pops during the scan, the bytes *)
(* reported are at most its deepest use and at least that of the words     *)
(* without their pattern throughout.                                       *)
THEOREM UsageOfScan == StackSpec => []StackUsageOfScan
<1>1. StackInv => StackUsageOfScan
  BY DEF StackInv
<1> QED
  BY StackInductive, <1>1, PTL
=============================================================================
