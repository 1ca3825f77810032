--------------------------- MODULE HalClockProofs ---------------------------
(***************************************************************************)
(* Proofs about HalClock: for every set of readers and every width of the  *)
(* counters, the handler counts every wrap once, and an undisturbed call   *)
(* of Hal_GetElapsedTimeInNs reads its two words at one instant, provided  *)
(* the interrupt is taken within one access of the wrap it signals.  Under *)
(* that proviso, and while no product overflows, it implements Clock.      *)
(***************************************************************************)
EXTENDS HalClock, TLAPS

(* The interrupt is taken before the thread completes a second access: the *)
(* only property of the processor the retry loop relies on.                *)
PromptIrq == IrqDelay <= 1

-----------------------------------------------------------------------------
(* Arithmetic of the conversions. *)

LEMMA ModSmall ==
  ASSUME NEW a \in Nat, NEW m \in Nat \ {0}, a < m
  PROVE  a % m = a
  BY SMT

LEMMA ModRange ==
  ASSUME NEW a \in Nat, NEW m \in Nat \ {0}
  PROVE  a % m \in 0 .. m - 1
  BY SMT

LEMMA DivNat ==
  ASSUME NEW a \in Nat, NEW m \in Nat \ {0}
  PROVE  a \div m \in Nat
  BY SMT

LEMMA ProductNat ==
  ASSUME NEW a \in Nat, NEW b \in Nat
  PROVE  a * b \in Nat
  BY SMT

(* What a call returns is a natural number. *)
LEMMA ElapsedNat ==
  ASSUME NEW r \in Nat, NEW t \in Nat
  PROVE  ElapsedNs(TotalTicks(r, t)) \in Nat
<1>1. (r * TICKS_PER_RELOAD) % UlongPeriod \in Nat
  <2>1. r * TICKS_PER_RELOAD \in Nat
    BY ProductNat, ClockAssumption
  <2> QED
    BY <2>1, ModRange, ClockAssumption
<1>2. TotalTicks(r, t) \in Nat
  BY <1>1 DEF TotalTicks
<1>3. TotalTicks(r, t) * NANOSECOND_IN_SECOND \in Nat
  BY <1>2, ProductNat, ClockAssumption
<1> QED
  BY <1>3, DivNat, ClockAssumption DEF ElapsedNs

-----------------------------------------------------------------------------
(* Type correctness of the clock: every step, the handler's and the        *)
(* readers', keeps every variable in its range; in particular the counter  *)
(* of reloads stays an unsigned long and what a call returns is a natural  *)
(* number.                                                                 *)
LEMMA TypeInit == Init => TypeOK
<1> SUFFICES ASSUME Init
             PROVE  TypeOK
  OBVIOUS
<1>1. Origin \in Instant
  BY DEF Origin, Instant
<1>2. began \in [Readers -> Instant]
  BY <1>1 DEF Init
<1>3. disturbed \in [Readers -> BOOLEAN]
  BY Zenon DEF Init
<1>4. /\ 0 \in 0 .. CounterPeriod - 1
      /\ 0 \in 0 .. UlongPeriod - 1
      /\ 0 \in 0 .. IrqDelay
      /\ 0 \in 0 .. MaxReloads
  BY ClockAssumption
<1>5. /\ pc \in [Readers -> Places]
      /\ reloads \in [Readers -> Nat]
      /\ elapsed \in [Readers -> Nat]
      /\ sampledAt \in [Readers -> Nat]
  BY DEF Init, Places
<1>6. ticks \in [Readers -> 0 .. CounterPeriod - 1]
  BY <1>4, Zenon DEF Init
<1> QED
  BY <1>2, <1>3, <1>4, <1>5, <1>6, Zenon DEF Init, TypeOK

LEMMA TypeNext == TypeOK /\ [Next]_vars => TypeOK'
<1> SUFFICES ASSUME TypeOK, [Next]_vars
             PROVE  TypeOK'
  OBVIOUS
<1> USE ClockAssumption DEF TypeOK, Places
<1>1. CASE CountUp
  BY <1>1 DEF CountUp, callVars
<1>2. CASE Overflow
  BY <1>2 DEF Overflow, callVars
<1>3. CASE IrqCount
  <2>1. (reloads_counter + 1) % UlongPeriod \in 0 .. UlongPeriod - 1
    BY ModRange
  <2> QED
    BY <1>3, <2>1 DEF IrqCount, callVars
<1>4. CASE IrqMark
  BY <1>4 DEF IrqMark, callVars
<1>5. CASE IrqAcknowledge
  BY <1>5 DEF IrqAcknowledge, callVars
<1>6. ASSUME NEW r \in Readers, Access(r)
      PROVE  /\ counter' = counter
             /\ irq' = irq
             /\ late' \in 0 .. IrqDelay
             /\ reloads_counter' = reloads_counter
             /\ overflows' = overflows
  BY <1>6 DEF Access, Running
<1>7. ASSUME NEW r \in Readers, ResetFlag(r)
      PROVE  TypeOK'
  <2>1. Now \in Instant
    BY DEF Now, Instant
  <2>2. began' \in [Readers -> Instant]
    BY <1>7, <2>1 DEF ResetFlag
  <2>3. disturbed' \in [Readers -> BOOLEAN]
    BY <1>7, Zenon DEF ResetFlag, InCall
  <2> QED
    BY <1>6, <1>7, <2>2, <2>3 DEF ResetFlag, Goto
<1>8. ASSUME NEW r \in Readers, LoadReloads(r)
      PROVE  TypeOK'
  BY <1>6, <1>8 DEF LoadReloads, Goto
<1>9. ASSUME NEW r \in Readers, ReadTicks(r)
      PROVE  TypeOK'
  BY <1>6, <1>9 DEF ReadTicks, Goto
<1>10. ASSUME NEW r \in Readers, CheckFlag(r)
       PROVE  TypeOK'
  BY <1>6, <1>10 DEF CheckFlag, Goto
<1>11. ASSUME NEW r \in Readers, ReturnNs(r)
       PROVE  TypeOK'
  <2>1. ElapsedNs(TotalTicks(reloads[r], ticks[r])) \in Nat
    BY ElapsedNat
  <2>2. Origin \in Instant
    BY DEF Origin, Instant
  <2> QED
    BY <1>6, <1>11, <2>1, <2>2 DEF ReturnNs, Goto
<1>12. CASE UNCHANGED vars
  BY <1>12 DEF vars, timerVars, callVars
<1> QED
  BY <1>1, <1>2, <1>3, <1>4, <1>5, <1>7, <1>8, <1>9, <1>10, <1>11, <1>12
  DEF Next, timer_irq_handler, Hal_GetElapsedTimeInNs

THEOREM TypeCorrect == Spec => []TypeOK
  BY TypeInit, TypeNext, PTL DEF Spec

-----------------------------------------------------------------------------
(* The handler counts every wrap exactly once: reloads_counter plus the    *)
(* wrap still to be counted is the number of wraps, for ever.              *)
LEMMA CountNext ==
  TypeOK /\ WrapsCountedOnce /\ [Next]_vars => WrapsCountedOnce'
<1> SUFFICES ASSUME TypeOK, WrapsCountedOnce, [Next]_vars
             PROVE  WrapsCountedOnce'
  OBVIOUS
<1> USE DEF WrapsCountedOnce
<1>1. CASE CountUp
  BY <1>1 DEF CountUp
<1>2. CASE Overflow
  BY <1>2 DEF Overflow, TypeOK
<1>3. CASE IrqCount
  <2>1. reloads_counter + 1 = overflows
    BY <1>3 DEF IrqCount, TypeOK
  <2>2. overflows < UlongPeriod
    BY ClockAssumption DEF TypeOK
  <2>3. (reloads_counter + 1) % UlongPeriod = reloads_counter + 1
    BY <2>1, <2>2, ModSmall, ClockAssumption DEF TypeOK
  <2> QED
    BY <1>3, <2>1, <2>3 DEF IrqCount, TypeOK
<1>4. CASE IrqMark
  BY <1>4 DEF IrqMark
<1>5. CASE IrqAcknowledge
  BY <1>5 DEF IrqAcknowledge
<1>6. ASSUME NEW r \in Readers, Hal_GetElapsedTimeInNs(r)
      PROVE  WrapsCountedOnce'
  BY <1>6 DEF Hal_GetElapsedTimeInNs, ResetFlag, LoadReloads, ReadTicks,
              CheckFlag, ReturnNs, Access
<1>7. CASE UNCHANGED vars
  BY <1>7 DEF vars, timerVars
<1> QED
  BY <1>1, <1>2, <1>3, <1>4, <1>5, <1>6, <1>7 DEF Next, timer_irq_handler

THEOREM EveryWrapIsCounted == Spec => []WrapsCountedOnce
<1>1. Init => WrapsCountedOnce
  BY DEF Init, WrapsCountedOnce
<1> QED
  BY <1>1, TypeInit, TypeNext, CountNext, PTL DEF Spec

-----------------------------------------------------------------------------
(* Why the loop works.  Between the load of reloads and the read of the    *)
(* counter, and between that read and the check, a wrap may come: then     *)
(* either the flag is set already or the handler that will set it has      *)
(* begun, or is about to begin and no access can slip in before it.        *)
Safe(r) ==
  /\ pc[r] = "ticks" =>
       \/ reloads_modified_flag
       \/ reloads[r] = reloads_counter
       \/ irq = "counted"
  /\ pc[r] = "check" =>
       \/ reloads_modified_flag
       \/ reloads[r] = sampledAt[r]
       \/ irq = "counted"
       \/ irq = "pending" /\ late >= IrqDelay
  /\ pc[r] = "convert" => reloads[r] = sampledAt[r]

PairInv ==
  /\ irq = "marked" => reloads_modified_flag
  /\ \A r \in Readers : ~disturbed[r] => Safe(r)

LEMMA PairIrq ==
  ASSUME TypeOK, PairInv, WrapsCountedOnce,
         CountUp \/ Overflow \/ timer_irq_handler
  PROVE  PairInv'
<1> USE DEF PairInv, Safe, WrapsCountedOnce
<1>1. CASE CountUp
  BY <1>1 DEF CountUp, callVars
<1>2. CASE Overflow
  BY <1>2 DEF Overflow, callVars
<1>3. CASE IrqCount
  BY <1>3 DEF IrqCount, callVars
<1>4. CASE IrqMark
  BY <1>4 DEF IrqMark, callVars
<1>5. CASE IrqAcknowledge
  BY <1>5 DEF IrqAcknowledge, callVars
<1> QED
  BY <1>1, <1>2, <1>3, <1>4, <1>5 DEF timer_irq_handler

(* A thread's step: the caller's own place moves on ... *)
LEMMA PairOwnStep ==
  ASSUME PromptIrq, TypeOK, PairInv, WrapsCountedOnce,
         NEW r \in Readers, Hal_GetElapsedTimeInNs(r), ~disturbed'[r]
  PROVE  Safe(r)'
<1> USE DEF PairInv, Safe, WrapsCountedOnce, Access, Running
<1>1. CASE ResetFlag(r)
  BY <1>1 DEF ResetFlag, Goto, TypeOK
<1>2. CASE LoadReloads(r)
  BY <1>2 DEF LoadReloads, Goto, TypeOK
<1>3. CASE ReadTicks(r)
  BY <1>3, ClockAssumption DEF ReadTicks, Goto, TypeOK, PromptIrq
<1>4. CASE CheckFlag(r)
  <2>1. pc'[r] = "convert" => reloads[r] = sampledAt[r]
    BY <1>4, ClockAssumption DEF CheckFlag, Goto, TypeOK
  <2> QED
    BY <1>4, <2>1 DEF CheckFlag, Goto, TypeOK
<1>5. CASE ReturnNs(r)
  BY <1>5 DEF ReturnNs, Goto, TypeOK
<1> QED
  BY <1>1, <1>2, <1>3, <1>4, <1>5 DEF Hal_GetElapsedTimeInNs

(* ... and no other call loses what it relies on, unless it is disturbed.  *)
LEMMA PairOtherStep ==
  ASSUME TypeOK, PairInv, WrapsCountedOnce,
         NEW r \in Readers, Hal_GetElapsedTimeInNs(r),
         NEW q \in Readers, q # r, ~disturbed'[q]
  PROVE  Safe(q)'
<1> USE DEF PairInv, Safe, WrapsCountedOnce, Access, Running
<1>1. CASE ResetFlag(r)
  BY <1>1 DEF ResetFlag, Goto, TypeOK, InCall
<1>2. CASE LoadReloads(r)
  BY <1>2, ClockAssumption DEF LoadReloads, Goto, TypeOK
<1>3. CASE ReadTicks(r)
  BY <1>3, ClockAssumption DEF ReadTicks, Goto, TypeOK
<1>4. CASE CheckFlag(r)
  BY <1>4, ClockAssumption DEF CheckFlag, Goto, TypeOK
<1>5. CASE ReturnNs(r)
  BY <1>5, ClockAssumption DEF ReturnNs, Goto, TypeOK
<1> QED
  BY <1>1, <1>2, <1>3, <1>4, <1>5 DEF Hal_GetElapsedTimeInNs

LEMMA PairNext ==
  ASSUME PromptIrq
  PROVE  TypeOK /\ WrapsCountedOnce /\ PairInv /\ [Next]_vars => PairInv'
<1> SUFFICES ASSUME TypeOK, WrapsCountedOnce, PairInv, [Next]_vars
             PROVE  PairInv'
  OBVIOUS
<1>1. CASE CountUp \/ Overflow \/ timer_irq_handler
  BY <1>1, PairIrq
<1>2. ASSUME NEW r \in Readers, Hal_GetElapsedTimeInNs(r)
      PROVE  PairInv'
  <2>1. irq' = "marked" => reloads_modified_flag'
    BY <1>2 DEF PairInv, Hal_GetElapsedTimeInNs, ResetFlag, LoadReloads,
                ReadTicks, CheckFlag, ReturnNs, Access, Running
  <2>2. ASSUME NEW q \in Readers, ~disturbed'[q]
        PROVE  Safe(q)'
    BY <1>2, <2>2, PairOwnStep, PairOtherStep
  <2> QED
    BY <2>1, <2>2 DEF PairInv
<1>3. CASE UNCHANGED vars
  BY <1>3 DEF vars, timerVars, callVars, PairInv, Safe
<1> QED
  BY <1>1, <1>2, <1>3 DEF Next

(* The guarantee of the retry loop of Hal_GetElapsedTimeInNs: if the       *)
(* interrupt is prompt, the pair an undisturbed call converts is the pair  *)
(* of one instant.                                                         *)
THEOREM UndisturbedPair == PromptIrq => (Spec => []PairOfOneInstant)
<1> SUFFICES ASSUME PromptIrq
             PROVE  Spec => []PairOfOneInstant
  OBVIOUS
<1>1. Init => PairInv
  BY DEF Init, PairInv, Safe
<1>2. Init => WrapsCountedOnce
  BY DEF Init, WrapsCountedOnce
<1>3. PairInv => PairOfOneInstant
  BY DEF PairInv, Safe, PairOfOneInstant
<1>4. TypeOK /\ WrapsCountedOnce /\ PairInv /\ [Next]_vars => PairInv'
  BY PairNext
<1> QED
  BY <1>1, <1>2, <1>3, <1>4, TypeInit, TypeNext, CountNext, PTL DEF Spec

-----------------------------------------------------------------------------
(* No caller outranks the top one, so none resets the flag under it.       *)
TopUndisturbed ==
  \A r \in Readers : (\A q \in Readers : q <= r) => ~disturbed[r]

LEMMA TopNext == TypeOK /\ TopUndisturbed /\ [Next]_vars => TopUndisturbed'
<1> SUFFICES ASSUME TypeOK, TopUndisturbed, [Next]_vars,
                    NEW r \in Readers, \A q \in Readers : q <= r
             PROVE  ~disturbed'[r]
  BY DEF TopUndisturbed
<1>1. ~disturbed[r]
  BY DEF TopUndisturbed
<1>2. ASSUME NEW q \in Readers, ResetFlag(q)
      PROVE  ~disturbed'[r]
  <2>1. q # r => ~InCall(r)
    BY <1>2, ClockAssumption DEF ResetFlag, Access, Running
  <2> QED
    BY <1>1, <1>2, <2>1 DEF ResetFlag
<1>3. ASSUME NEW q \in Readers, ReturnNs(q)
      PROVE  ~disturbed'[r]
  BY <1>1, <1>3 DEF ReturnNs, TypeOK
<1> QED
  BY <1>1, <1>2, <1>3 DEF Next, vars, callVars, timer_irq_handler, CountUp,
     Overflow, IrqCount, IrqMark, IrqAcknowledge, Hal_GetElapsedTimeInNs,
     LoadReloads, ReadTicks, CheckFlag

(* So the caller of highest priority always gets a pair of one instant,    *)
(* whatever the others do.                                                 *)
THEOREM TopReaderPair == PromptIrq => (Spec => []TopReaderPairOfOneInstant)
<1>1. Init => TopUndisturbed
  BY DEF Init, TopUndisturbed
<1>2. TopUndisturbed /\ PairOfOneInstant => TopReaderPairOfOneInstant
  BY DEF TopUndisturbed, PairOfOneInstant, TopReaderPairOfOneInstant
<1> QED
  BY <1>1, <1>2, TypeInit, TypeNext, TopNext, UndisturbedPair, PTL DEF Spec

-----------------------------------------------------------------------------
(* Refinement of Clock.  The code's time never goes back although a wrap   *)
(* is worth one tick less than it lasts, and total_ticks is exact as long  *)
(* as its product fits an unsigned long.                                   *)
WrapLosesOneTick == CounterPeriod - 1 <= TICKS_PER_RELOAD
ProductFits      == MaxReloads * TICKS_PER_RELOAD < UlongPeriod

LEMMA ProductMonotone ==
  ASSUME NEW a \in Nat, NEW b \in Nat, NEW c \in Nat, a <= b
  PROVE  a * c <= b * c
<1>1. PICK d \in Nat : b = a + d
  BY a <= b, b = a + (b - a)
<1>2. b * c = a * c + d * c
  BY <1>1
<1>3. d * c \in Nat /\ a * c \in Nat
  BY ProductNat
<1> QED
  BY <1>2, <1>3

(* Later instants have later times, a wrap adds a reload. *)
LEMMA NextReload ==
  ASSUME NEW n \in Nat
  PROVE  (n + 1) * TICKS_PER_RELOAD = n * TICKS_PER_RELOAD + TICKS_PER_RELOAD
  BY ClockAssumption

LEMMA CodeTimeNat ==
  ASSUME NEW i \in Instant
  PROVE  CodeTime(i) \in Nat
<1>1. i.wraps \in Nat /\ i.count \in Nat
  BY DEF Instant
<1>2. i.wraps * TICKS_PER_RELOAD \in Nat
  BY <1>1, ProductNat, ClockAssumption
<1> QED
  BY <1>1, <1>2 DEF CodeTime

LEMMA NowInstant ==
  ASSUME TypeOK
  PROVE  Now \in Instant
  BY ClockAssumption DEF TypeOK, Now, Instant

(* Before the product wraps, the conversion is of the code's time. *)
LEMMA ExactTicks ==
  ASSUME ProductFits, NEW r \in 0 .. MaxReloads, NEW t \in Nat
  PROVE  TotalTicks(r, t) = r * TICKS_PER_RELOAD + t
<1>1. r * TICKS_PER_RELOAD <= MaxReloads * TICKS_PER_RELOAD
  BY ProductMonotone, ClockAssumption
<1>2. PICK p \in Nat : p = r * TICKS_PER_RELOAD
  BY ProductNat, ClockAssumption
<1>3. p < UlongPeriod
  <2>1. MaxReloads * TICKS_PER_RELOAD \in Nat
    BY ProductNat, ClockAssumption
  <2> QED
    BY <1>1, <1>2, <2>1, ClockAssumption DEF ProductFits
<1>4. p % UlongPeriod = p
  BY <1>3, ModSmall, ClockAssumption
<1> QED
  BY <1>2, <1>4 DEF TotalTicks

(* The code's time never goes back. *)
LEMMA TimeAdvances ==
  ASSUME WrapLosesOneTick, TypeOK, [Next]_vars
  PROVE  CodeTime(Now) <= CodeTime(Now)'
<1>1. CASE CountUp
  <2>1. PICK p \in Nat : p = overflows * TICKS_PER_RELOAD
    BY ProductNat, ClockAssumption DEF TypeOK
  <2> QED
    BY <1>1, <2>1 DEF CountUp, CodeTime, Now, TypeOK
<1>2. CASE Overflow
  <2>1. PICK n \in Nat, p \in Nat :
          n = overflows /\ p = n * TICKS_PER_RELOAD
    BY ProductNat, ClockAssumption DEF TypeOK
  <2>2. (n + 1) * TICKS_PER_RELOAD = p + TICKS_PER_RELOAD
    BY <2>1, NextReload
  <2>3. CodeTime(Now) = p + (CounterPeriod - 1)
    BY <1>2, <2>1 DEF Overflow, CodeTime, Now
  <2>4. CodeTime(Now)' = p + TICKS_PER_RELOAD + 0
    BY <1>2, <2>1, <2>2 DEF Overflow, CodeTime, Now
  <2> QED
    BY <2>1, <2>3, <2>4, ClockAssumption DEF WrapLosesOneTick
<1>3. CASE UNCHANGED <<overflows, counter>>
  BY <1>3, CodeTimeNat, NowInstant DEF CodeTime, Now
<1> QED
  BY <1>1, <1>2, <1>3 DEF Next, timer_irq_handler, IrqCount, IrqMark,
     IrqAcknowledge, Hal_GetElapsedTimeInNs, ResetFlag, LoadReloads,
     ReadTicks, CheckFlag, ReturnNs, Access, vars, timerVars

(* What a call has read is of its own time, except that a disturbed one    *)
(* may add the ticks of a later wrap to the reloads it loaded.             *)
Sample(r) == [wraps |-> sampledAt[r], count |-> ticks[r]]

Begun(r) ==
  /\ CodeTime(began[r]) <= CodeTime(Now)
  /\ began[r].count < CounterPeriod
  /\ \/ began[r].wraps <= reloads_counter
     \/ /\ irq = "pending"
        /\ late >= IrqDelay
        /\ began[r].wraps <= overflows

Loaded(r) == began[r].wraps <= reloads[r] /\ reloads[r] <= overflows

Sampled(r) ==
  /\ reloads[r] <= sampledAt[r]
  /\ CodeTime(began[r]) <= CodeTime(Sample(r))
  /\ CodeTime(Sample(r)) <= CodeTime(Now)

Span(r) ==
  /\ InCall(r) => Begun(r)
  /\ pc[r] \in {"ticks", "check", "convert"} => Loaded(r)
  /\ pc[r] \in {"check", "convert"} => Sampled(r)

SpanInv == \A r \in Readers : Span(r)

(* A call that was preempted by another has been disturbed by it. *)
NestedInv ==
  \A q, r \in Readers :
    q < r /\ InCall(q) /\ InCall(r) => disturbed[q]

(* The timer's steps, and those of other callers. *)
LEMMA SpanKept ==
  ASSUME WrapLosesOneTick, TypeOK, TypeOK', [Next]_vars, WrapsCountedOnce,
         NEW r \in Readers, Span(r),
         UNCHANGED <<pc[r], began[r], reloads[r], ticks[r], sampledAt[r]>>
  PROVE  Span(r)'
<1> USE DEF Span
<1>1. CodeTime(Now) <= CodeTime(Now)'
  BY TimeAdvances
<1>2. /\ CodeTime(Now) \in Nat
      /\ CodeTime(Now)' \in Nat
      /\ CodeTime(began[r]) \in Nat
      /\ CodeTime(Sample(r)) \in Nat
  <2>1. Sample(r) \in Instant
    BY ClockAssumption DEF Sample, Instant, TypeOK
  <2>2. Now \in Instant /\ began[r] \in Instant
    BY NowInstant DEF TypeOK
  <2>3. Now' \in Instant
    BY ClockAssumption DEF TypeOK, Now, Instant
  <2>4. CodeTime(Now') \in Nat
    BY <2>3, CodeTimeNat
  <2> QED
    BY <2>1, <2>2, <2>4, CodeTimeNat DEF CodeTime, Now
<1>3. overflows <= overflows'
  BY DEF Next, timer_irq_handler, CountUp, Overflow, IrqCount, IrqMark,
     IrqAcknowledge, Hal_GetElapsedTimeInNs, ResetFlag, LoadReloads,
     ReadTicks, CheckFlag, ReturnNs, Access, vars, timerVars, TypeOK
<1>4. UNCHANGED <<CodeTime(began[r]), CodeTime(Sample(r)), InCall(r)>>
  BY DEF CodeTime, Sample, InCall
<1>5. began[r].wraps \in Nat /\ overflows \in Nat /\ reloads[r] \in Nat
  BY ClockAssumption DEF TypeOK, Instant
<1>6. ASSUME InCall(r) PROVE Begun(r)'
  <2>1. CASE IrqCount
    <3>1. reloads_counter' = overflows
      <4>1. reloads_counter + 1 = overflows /\ overflows < UlongPeriod
        BY <2>1, ClockAssumption DEF IrqCount, WrapsCountedOnce, TypeOK
      <4>2. (reloads_counter + 1) % UlongPeriod = reloads_counter + 1
        <5>1. PICK n \in Nat : n = reloads_counter + 1
          BY ClockAssumption DEF TypeOK
        <5> QED
          BY <4>1, <5>1, ModSmall, ClockAssumption
      <4> QED
        BY <2>1, <4>1, <4>2 DEF IrqCount
    <3>2. began[r].wraps <= overflows
      BY <1>5, <1>6, ClockAssumption DEF Begun, WrapsCountedOnce, TypeOK
    <3> QED
      BY <1>1, <1>2, <1>4, <1>6, <3>1, <3>2 DEF Begun
  <2>2. CASE ~IrqCount
    <3>1. /\ reloads_counter' = reloads_counter
          /\ irq = "pending" => irq' = "pending" /\ late' >= late
      BY <2>2 DEF Next, timer_irq_handler, CountUp, Overflow, IrqMark,
         IrqAcknowledge, Hal_GetElapsedTimeInNs, ResetFlag, LoadReloads,
         ReadTicks, CheckFlag, ReturnNs, Access, vars, timerVars, TypeOK
    <3> QED
      BY <1>1, <1>2, <1>3, <1>4, <1>5, <1>6, <3>1, ClockAssumption
         DEF Begun, TypeOK
  <2> QED
    BY <2>1, <2>2
<1>7. ASSUME Loaded(r) PROVE Loaded(r)'
  BY <1>3, <1>5, <1>7, ClockAssumption DEF Loaded, TypeOK
<1>8. ASSUME Sampled(r) PROVE Sampled(r)'
  BY <1>1, <1>2, <1>4, <1>8 DEF Sampled
<1> QED
  BY <1>4, <1>6, <1>7, <1>8

(* The caller's own steps. *)
LEMMA SpanOwnStep ==
  ASSUME PromptIrq, WrapLosesOneTick, TypeOK, TypeOK', WrapsCountedOnce,
         NEW r \in Readers, Span(r), Hal_GetElapsedTimeInNs(r)
  PROVE  Span(r)'
<1> USE DEF Span
<1>a. /\ UNCHANGED <<counter, irq, reloads_counter, overflows, Now,
                     CodeTime(Now)>>
      /\ irq = "none" \/ (irq = "pending" /\ late < IrqDelay)
      /\ late' = IF irq = "pending" THEN late + 1 ELSE late
  BY DEF Hal_GetElapsedTimeInNs, ResetFlag, LoadReloads, ReadTicks,
         CheckFlag, ReturnNs, Access, Running, CodeTime, Now
<1>b. irq = "pending" => late' >= IrqDelay
  BY <1>a, ClockAssumption DEF PromptIrq, TypeOK
<1>c. /\ CodeTime(Now) \in Nat
      /\ CodeTime(began[r]) \in Nat
      /\ began[r].wraps \in Nat
      /\ overflows \in Nat
      /\ reloads_counter \in Nat
  BY CodeTimeNat, NowInstant, ClockAssumption DEF TypeOK, Instant
(* An access while the interrupt is pending leaves no room for another. *)
<1>d. ASSUME InCall(r), began'[r] = began[r]
      PROVE  Begun(r)' /\ (irq = "pending" \/ began[r].wraps <= overflows)
  <2>1. Begun(r)
    BY <1>d
  <2>2. began[r].wraps <= reloads_counter
    BY <2>1, <1>a, <1>c, ClockAssumption DEF Begun, TypeOK
  <2>3. CodeTime(began[r])' = CodeTime(began[r])
    BY <1>d DEF CodeTime
  <2> QED
    BY <2>1, <2>2, <2>3, <1>a, <1>c, <1>d, ClockAssumption
       DEF Begun, WrapsCountedOnce, TypeOK
<1>1. CASE ResetFlag(r)
  <2>1. pc'[r] = "load" /\ InCall(r)'
    BY <1>1 DEF ResetFlag, Goto, InCall, TypeOK
  <2>2. CASE InCall(r)
    BY <1>1, <1>d, <2>1, <2>2 DEF ResetFlag
  <2>3. CASE ~InCall(r)
    <3>1. began'[r] = Now
      BY <1>1, <2>3 DEF ResetFlag, TypeOK
    <3>2. CodeTime(began[r])' = CodeTime(Now)
      BY <3>1 DEF CodeTime
    <3>3. began'[r].count = counter /\ began'[r].wraps = overflows
      BY <3>1 DEF Now
    <3> QED
      BY <1>a, <1>b, <1>c, <2>1, <3>2, <3>3, ClockAssumption
         DEF Begun, WrapsCountedOnce, TypeOK
  <2> QED
    BY <2>2, <2>3
<1>2. CASE LoadReloads(r)
  <2>1. /\ pc[r] = "load" /\ pc'[r] = "ticks"
        /\ began' = began
        /\ reloads'[r] = reloads_counter
    BY <1>2 DEF LoadReloads, Goto, TypeOK
  <2>2. InCall(r)
    BY <2>1 DEF InCall
  <2>3. began[r].wraps <= reloads_counter
    BY <2>2, <1>a, <1>c, ClockAssumption DEF Begun, TypeOK
  <2>4. reloads_counter <= overflows
    BY <1>a, <1>c DEF WrapsCountedOnce
  <2> QED
    BY <1>a, <1>d, <2>1, <2>2, <2>3, <2>4 DEF Loaded
<1>3. CASE ReadTicks(r)
  <2>1. /\ pc[r] = "ticks" /\ pc'[r] = "check"
        /\ began' = began /\ reloads' = reloads
        /\ ticks'[r] = counter
        /\ sampledAt'[r] = overflows
    BY <1>3 DEF ReadTicks, Goto, TypeOK
  <2>2. InCall(r)
    BY <2>1 DEF InCall
  <2>3. CodeTime(Sample(r))' = CodeTime(Now)
    BY <2>1 DEF Sample, Now, CodeTime
  <2>4. CodeTime(began[r])' = CodeTime(began[r])
    BY <2>1 DEF CodeTime
  <2>5. Sampled(r)'
    BY <1>a, <1>c, <2>1, <2>2, <2>3, <2>4 DEF Begun, Loaded, Sampled
  <2> QED
    BY <1>a, <1>d, <2>1, <2>2, <2>5 DEF Loaded
<1>4. CASE CheckFlag(r)
  <2>1. /\ pc[r] = "check" /\ pc'[r] \in {"reset", "convert"}
        /\ UNCHANGED <<began, reloads, ticks, sampledAt>>
    BY <1>4 DEF CheckFlag, Goto, TypeOK
  <2>2. InCall(r)
    BY <2>1 DEF InCall
  <2>3. UNCHANGED <<CodeTime(Sample(r)), CodeTime(began[r])>>
    BY <2>1 DEF Sample, CodeTime
  <2>4. Sampled(r)' /\ Loaded(r)'
    BY <1>a, <2>1, <2>3 DEF Loaded, Sampled
  <2> QED
    BY <1>d, <2>1, <2>2, <2>4
<1>5. CASE ReturnNs(r)
  BY <1>5 DEF ReturnNs, Goto, TypeOK, InCall
<1> QED
  BY <1>1, <1>2, <1>3, <1>4, <1>5 DEF Hal_GetElapsedTimeInNs

LEMMA SpanNext ==
  ASSUME PromptIrq, WrapLosesOneTick
  PROVE  TypeOK /\ WrapsCountedOnce /\ SpanInv /\ [Next]_vars => SpanInv'
<1> SUFFICES ASSUME TypeOK, WrapsCountedOnce, SpanInv, [Next]_vars,
                    NEW r \in Readers
             PROVE  Span(r)'
  BY DEF SpanInv
<1>1. TypeOK' /\ Span(r)
  BY TypeNext DEF SpanInv
<1>2. CASE Hal_GetElapsedTimeInNs(r)
  BY <1>1, <1>2, SpanOwnStep
<1>3. CASE ~Hal_GetElapsedTimeInNs(r)
  <2>1. UNCHANGED <<pc[r], began[r], reloads[r], ticks[r], sampledAt[r]>>
    <3>1. ASSUME NEW q \in Readers, q # r, Hal_GetElapsedTimeInNs(q)
          PROVE  UNCHANGED <<pc[r], began[r], reloads[r], ticks[r],
                             sampledAt[r]>>
      BY <3>1 DEF Hal_GetElapsedTimeInNs, ResetFlag, LoadReloads, ReadTicks,
                  CheckFlag, ReturnNs, Goto, TypeOK
    <3> QED
      BY <1>3, <3>1
         DEF Next, timer_irq_handler, CountUp, Overflow, IrqCount, IrqMark,
             IrqAcknowledge, vars, callVars
  <2> QED
    BY <1>1, <2>1, SpanKept
<1> QED
  BY <1>2, <1>3

LEMMA NestedNext ==
  TypeOK /\ NestedInv /\ [Next]_vars => NestedInv'
<1> SUFFICES ASSUME TypeOK, NestedInv, [Next]_vars,
                    NEW q \in Readers, NEW r \in Readers,
                    q < r, InCall(q)', InCall(r)'
             PROVE  disturbed'[q]
  BY DEF NestedInv
<1> USE DEF InCall
<1>1. ASSUME NEW p \in Readers, ResetFlag(p) PROVE disturbed'[q]
  <2>1. CASE p = q
    <3>1. ~InCall(r)
      BY <1>1, <2>1 DEF ResetFlag, Access, Running
    <3>2. q # r
      BY ClockAssumption
    <3> QED
      BY <1>1, <2>1, <3>1, <3>2 DEF ResetFlag, Goto, TypeOK
  <2>2. CASE p # q
    <3>1. InCall(q)
      BY <1>1, <2>2 DEF ResetFlag, Goto, TypeOK
    <3> QED
      BY <1>1, <2>2, <3>1 DEF ResetFlag
  <2> QED
    BY <2>1, <2>2
<1>2. ASSUME NEW p \in Readers, ReturnNs(p) PROVE disturbed'[q]
  <2>1. p # q /\ p # r
    BY <1>2 DEF ReturnNs, Goto, TypeOK
  <2>2. InCall(q) /\ InCall(r) /\ disturbed'[q] = disturbed[q]
    BY <1>2, <2>1 DEF ReturnNs, Goto, TypeOK
  <2> QED
    BY <2>2 DEF NestedInv
<1>3. ASSUME NEW p \in Readers,
             LoadReloads(p) \/ ReadTicks(p) \/ CheckFlag(p)
      PROVE  disturbed'[q]
  <2>1. /\ pc[p] # "idle"
        /\ \A s \in Readers : s # p => pc'[s] = pc[s]
        /\ disturbed' = disturbed
    BY <1>3 DEF LoadReloads, ReadTicks, CheckFlag, Goto, TypeOK
  <2> QED
    BY <2>1 DEF NestedInv
<1>4. CASE UNCHANGED <<pc, disturbed>>
  BY <1>4 DEF NestedInv
<1> QED
  BY <1>1, <1>2, <1>3, <1>4
     DEF Next, timer_irq_handler, CountUp, Overflow, IrqCount, IrqMark,
         IrqAcknowledge, Hal_GetElapsedTimeInNs, vars, callVars

(* The call of Hal_GetElapsedTimeInNs that returns does what Clock lets a  *)
(* call do.                                                                *)
LEMMA ReturnRefines ==
  ASSUME WrapLosesOneTick, ProductFits, TypeOK, PairInv, SpanInv,
         NEW r \in Readers, ReturnNs(r)
  PROVE  C!Return(r)
<1> DEFINE pair == reloads[r] * TICKS_PER_RELOAD + ticks[r]
<1>1. pc[r] = "convert" /\ InCall(r)
  BY DEF ReturnNs, InCall
<1>2. Begun(r) /\ Loaded(r) /\ Sampled(r) /\ (~disturbed[r] => Safe(r))
  BY <1>1 DEF SpanInv, Span, PairInv
<1>3. /\ CodeTime(began[r]) \in Nat
      /\ CodeTime(Sample(r)) \in Nat
      /\ CodeTime(Now) \in Nat
  <2>1. Sample(r) \in Instant /\ began[r] \in Instant
    BY ClockAssumption DEF Sample, Instant, TypeOK
  <2> QED
    BY <2>1, CodeTimeNat, NowInstant
<1>4. /\ reloads[r] \in Nat /\ sampledAt[r] \in Nat
      /\ ticks[r] \in Nat /\ began[r].count \in Nat
      /\ began[r].wraps \in Nat
  BY ClockAssumption DEF TypeOK, Instant
<1>5. PICK b \in Nat, l \in Nat, s \in Nat :
        /\ b = began[r].wraps * TICKS_PER_RELOAD
        /\ l = reloads[r] * TICKS_PER_RELOAD
        /\ s = sampledAt[r] * TICKS_PER_RELOAD
  BY <1>4, ProductNat, ClockAssumption
<1>6. b <= l /\ l <= s
  <2>1. began[r].wraps <= reloads[r] /\ reloads[r] <= sampledAt[r]
    BY <1>2 DEF Loaded, Sampled
  <2> QED
    BY <1>4, <1>5, <2>1, ProductMonotone, ClockAssumption
<1>7. /\ pair = l + ticks[r]
      /\ CodeTime(began[r]) = b + began[r].count
      /\ CodeTime(Sample(r)) = s + ticks[r]
  BY <1>5 DEF CodeTime, Sample
<1>8. pair \in Nat /\ pair <= CodeTime(Now)
  BY <1>2, <1>3, <1>4, <1>6, <1>7 DEF Sampled
<1>9. C!Earliest(r) <= pair
  <2>1. TicksBegan[r] = CodeTime(began[r])
    BY <1>1 DEF TicksBegan
  <2>2. CASE r \notin Disturbed
    <3>1. reloads[r] = sampledAt[r]
      BY <1>1, <1>2, <2>2 DEF Disturbed, Safe
    <3>2. C!Earliest(r) = CodeTime(began[r])
      BY <2>1, <2>2 DEF C!Earliest
    <3>3. pair = CodeTime(Sample(r))
      BY <1>5, <1>7, <3>1
    <3> QED
      BY <1>2, <3>2, <3>3 DEF Sampled
  <2>3. CASE r \in Disturbed
    <3>1. CodeTime(began[r]) - TICKS_PER_RELOAD <= pair
      BY <1>2, <1>4, <1>6, <1>7, ClockAssumption
         DEF Begun, WrapLosesOneTick
    <3>2. \/ C!Earliest(r) = CodeTime(began[r]) - TICKS_PER_RELOAD
          \/ C!Earliest(r) = 0
      BY <2>1, <2>3 DEF C!Earliest
    <3> QED
      BY <1>8, <3>1, <3>2
  <2> QED
    BY <2>2, <2>3
<1>10. elapsed' = [elapsed EXCEPT ![r] = ElapsedNs(pair)]
  <2>1. reloads[r] \in 0 .. MaxReloads
    BY <1>2, <1>4, ClockAssumption DEF Loaded, TypeOK
  <2>2. TotalTicks(reloads[r], ticks[r]) = pair
    BY <1>4, <2>1, ExactTicks
  <2> QED
    BY <2>2 DEF ReturnNs
<1>11. \E t \in C!Earliest(r) .. CodeTime(Now) :
         elapsed' = [elapsed EXCEPT ![r] = ElapsedNs(t)]
  <2>1. C!Earliest(r) \in Int
    BY <1>1, <1>3, ClockAssumption DEF C!Earliest, TicksBegan
  <2>2. pair \in C!Earliest(r) .. CodeTime(Now)
    BY <1>3, <1>8, <1>9, <2>1
  <2> QED
    BY <1>10, <2>2
<1>12. r \in C!Calling
  BY <1>1, <1>3 DEF C!Calling, C!NoCall, TicksBegan
<1>13. TicksBegan' = [TicksBegan EXCEPT ![r] = C!NoCall]
  <2>1. \A q \in Readers : q # r => /\ InCall(q)' <=> InCall(q)
                                    /\ began'[q] = began[q]
    BY DEF ReturnNs, Goto, InCall, TypeOK
  <2>2. ~InCall(r)'
    BY DEF ReturnNs, Goto, InCall, TypeOK
  <2>3. \A q \in Readers :
          TicksBegan'[q] = IF q = r THEN -1 ELSE TicksBegan[q]
    BY <2>1, <2>2 DEF TicksBegan, CodeTime
  <2> QED
    BY <2>3 DEF TicksBegan, C!NoCall
<1>14. Disturbed' = Disturbed \ {r}
  BY DEF ReturnNs, Disturbed, TypeOK
<1>15. CodeTime(Now)' = CodeTime(Now)
  BY DEF ReturnNs, Access, CodeTime, Now
<1> QED
  BY <1>11, <1>12, <1>13, <1>14, <1>15 DEF C!Return

(* A call begins; a retry is seen by nobody. *)
LEMMA ResetRefines ==
  ASSUME TypeOK, NestedInv, NEW r \in Readers, ResetFlag(r)
  PROVE  C!Begin(r) \/ UNCHANGED C!clockVars
<1>1. UNCHANGED <<elapsed, CodeTime(Now)>>
  BY DEF ResetFlag, Access, CodeTime, Now
<1>2. /\ \A q \in Readers : q # r => /\ InCall(q)' <=> InCall(q)
                                     /\ began'[q] = began[q]
      /\ InCall(r)'
  BY DEF ResetFlag, Goto, InCall, TypeOK
<1>3. /\ disturbed'[r] <=> disturbed[r]
      /\ \A q \in Readers : q # r =>
           (disturbed'[q] <=> disturbed[q] \/ InCall(q))
  BY Zenon DEF ResetFlag
<1>4. CASE ~InCall(r)
  <2>1. began'[r] = Now
    BY <1>4 DEF ResetFlag, TypeOK
  <2>2. r \notin C!Calling
    BY <1>4 DEF C!Calling, C!NoCall, TicksBegan
  <2>3. TicksBegan' = [TicksBegan EXCEPT ![r] = CodeTime(Now)]
    <3>1. \A q \in Readers :
            TicksBegan'[q] = IF q = r THEN CodeTime(Now) ELSE TicksBegan[q]
      BY <1>2, <2>1 DEF TicksBegan, CodeTime
    <3> QED
      BY <3>1 DEF TicksBegan
  <2>4. Disturbed' = Disturbed \cup C!Calling
    <3>1. \A q \in Readers : q \in C!Calling <=> InCall(q)
      <4> SUFFICES ASSUME NEW q \in Readers
                   PROVE  q \in C!Calling <=> InCall(q)
        OBVIOUS
      <4>1. CodeTime(began[q]) # -1
        BY CodeTimeNat DEF TypeOK
      <4>2. TicksBegan[q] = IF InCall(q) THEN CodeTime(began[q]) ELSE -1
        BY DEF TicksBegan
      <4> QED
        BY <4>1, <4>2 DEF C!Calling, C!NoCall
    <3>2. C!Calling \subseteq Readers
      BY DEF C!Calling
    <3>3. \A q \in Readers : disturbed'[q] <=> disturbed[q] \/ InCall(q)
      BY <1>3, <1>4
    <3> QED
      BY <3>1, <3>2, <3>3, Zenon DEF Disturbed
  <2> QED
    BY <1>1, <2>2, <2>3, <2>4 DEF C!Begin
<1>5. CASE InCall(r)
  <2>1. began' = began
    BY <1>5 DEF ResetFlag
  <2>2. \A q \in Readers : InCall(q) /\ q # r => disturbed[q]
    BY <1>5, ClockAssumption
       DEF NestedInv, ResetFlag, Access, Running
  <2>3. \A q \in Readers : disturbed'[q] <=> disturbed[q]
    BY <1>3, <2>2
  <2>4. Disturbed' = Disturbed
    BY <2>3, Zenon DEF Disturbed
  <2>5. \A q \in Readers : InCall(q)' <=> InCall(q)
    BY <1>2, <1>5
  <2>6. TicksBegan' = TicksBegan
    BY <2>1, <2>5 DEF TicksBegan, CodeTime
  <2> QED
    BY <1>1, <2>4, <2>6 DEF C!clockVars
<1> QED
  BY <1>4, <1>5

LEMMA ClockStep ==
  ASSUME WrapLosesOneTick, ProductFits, TypeOK, PairInv, SpanInv, NestedInv,
         [Next]_vars
  PROVE  [C!ClockNext]_(C!clockVars)
<1>1. ASSUME NEW r \in Readers, ReturnNs(r)
      PROVE  C!ClockNext
  BY <1>1, ReturnRefines DEF C!ClockNext
<1>2. ASSUME NEW r \in Readers, ResetFlag(r)
      PROVE  C!ClockNext \/ UNCHANGED C!clockVars
  BY <1>2, ResetRefines DEF C!ClockNext
<1>3. ASSUME NEW r \in Readers,
             LoadReloads(r) \/ ReadTicks(r) \/ CheckFlag(r)
      PROVE  UNCHANGED C!clockVars
  <2>1. /\ UNCHANGED <<elapsed, began, disturbed, overflows, counter>>
        /\ \A q \in Readers : InCall(q)' <=> InCall(q)
    BY <1>3 DEF LoadReloads, ReadTicks, CheckFlag, Access, Goto, InCall,
                TypeOK
  <2> QED
    BY <2>1 DEF C!clockVars, TicksBegan, Disturbed, CodeTime, Now
<1>4. CASE UNCHANGED callVars
  <2>1. UNCHANGED <<elapsed, TicksBegan, Disturbed>>
    BY <1>4 DEF callVars, TicksBegan, Disturbed, InCall, CodeTime
  <2>2. CodeTime(Now) <= CodeTime(Now)'
    BY TimeAdvances
  <2>3. CodeTime(Now) \in Nat /\ CodeTime(Now)' \in Nat
    <3>1. TypeOK'
      BY TypeNext
    <3>2. Now' \in Instant
      BY <3>1, ClockAssumption DEF TypeOK, Now, Instant
    <3>3. CodeTime(Now') \in Nat
      BY <3>2, CodeTimeNat
    <3> QED
      BY <3>3, CodeTimeNat, NowInstant DEF CodeTime, Now
  <2> QED
    BY <2>1, <2>2, <2>3 DEF C!ClockNext, C!Advance, C!clockVars
<1> QED
  BY <1>1, <1>2, <1>3, <1>4
     DEF Next, timer_irq_handler, CountUp, Overflow, IrqCount, IrqMark,
         IrqAcknowledge, Hal_GetElapsedTimeInNs, vars

(* Whoever calls Hal_GetElapsedTimeInNs, and however calls and wraps       *)
(* interleave, gets a time that Clock allows, until the product of         *)
(* total_ticks leaves its unsigned long.                                   *)
THEOREM ClockRefinement ==
  PromptIrq /\ WrapLosesOneTick /\ ProductFits => (Spec => ImplementsClock)
<1> SUFFICES ASSUME PromptIrq, WrapLosesOneTick, ProductFits
             PROVE  Spec => ImplementsClock
  OBVIOUS
<1> DEFINE Inv == /\ TypeOK /\ WrapsCountedOnce /\ PairInv /\ SpanInv
                  /\ NestedInv
<1>1. Init => Inv
  <2>1. Init => /\ WrapsCountedOnce /\ PairInv /\ SpanInv /\ NestedInv
    BY DEF Init, WrapsCountedOnce, PairInv, Safe, SpanInv, Span, NestedInv,
           InCall
  <2> QED
    BY <2>1, TypeInit
<1>2. Inv /\ [Next]_vars => Inv'
  BY TypeNext, CountNext, PairNext, SpanNext, NestedNext
<1>3. Init => C!ClockInit
  <2> SUFFICES ASSUME Init PROVE C!ClockInit
    OBVIOUS
  <2>1. CodeTime(Now) = 0
    BY ClockAssumption DEF Init, CodeTime, Now
  <2>2. TicksBegan = [r \in Readers |-> C!NoCall]
    BY DEF Init, TicksBegan, InCall, C!NoCall
  <2>3. Disturbed = {}
    BY DEF Init, Disturbed
  <2>4. ElapsedNs(0) = 0
    BY ClockAssumption DEF ElapsedNs
  <2> QED
    BY <2>1, <2>2, <2>3, <2>4 DEF Init, C!ClockInit
<1>4. Inv /\ [Next]_vars => [C!ClockNext]_(C!clockVars)
  BY ClockStep
<1> QED
  BY <1>1, <1>2, <1>3, <1>4, PTL DEF Spec, ImplementsClock, C!ClockSpec
=============================================================================
