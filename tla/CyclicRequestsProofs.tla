------------------------ MODULE CyclicRequestsProofs ------------------------
(***************************************************************************)
(* Proofs about CyclicRequests: for any number of slots, any width of the  *)
(* tick counter, any intervals and any preemption of the creating thread,  *)
(* timers expire on schedule although tick counts wrap, only the first     *)
(* expiry is late, and a timer whose first expiry is late by less than its *)
(* interval is never left without a next one.                              *)
(***************************************************************************)
EXTENDS CyclicRequests, TLAPS

-----------------------------------------------------------------------------
(* Arithmetic modulo p, which the provers only know as quotient and        *)
(* remainder.                                                              *)

LEMMA Split ==
  ASSUME NEW p \in Nat \ {0}, NEW a \in Int
  PROVE  \E q \in Int, r \in 0 .. p - 1 : a = p * q + r /\ r = a % p
<1>1. /\ a % p \in 0 .. p - 1
      /\ a \div p \in Int
      /\ a = p * (a \div p) + (a % p)
  OBVIOUS
<1> QED
  BY <1>1

LEMMA RemainderUnique ==
  ASSUME NEW p \in Nat \ {0}, NEW q \in Int, NEW r \in 0 .. p - 1
  PROVE  (p * q + r) % p = r
<1>1. PICK a \in Int : a = p * q + r
  OBVIOUS
<1>2. PICK u \in Int, s \in 0 .. p - 1 : a = p * u + s /\ s = a % p
  BY Split
<1>3. PICK d \in Int : d = q - u
  OBVIOUS
<1>4. p * d = s - r
  BY <1>1, <1>2, <1>3
<1>5. CASE d > 0
  <2>1. p * d >= p
    BY <1>5
  <2> QED
    BY <2>1, <1>4
<1>6. CASE d < 0
  <2>1. p * d <= -p
    BY <1>6
  <2> QED
    BY <2>1, <1>4
<1>7. CASE d = 0
  BY <1>7, <1>4, <1>2, <1>1
<1> QED
  BY <1>5, <1>6, <1>7

LEMMA RemainderOfSmall ==
  ASSUME NEW p \in Nat \ {0}, NEW r \in 0 .. p - 1
  PROVE  r % p = r
<1>1. (p * 0 + r) % p = r
  BY RemainderUnique
<1> QED
  BY <1>1

LEMMA AddMultiple ==
  ASSUME NEW p \in Nat \ {0}, NEW a \in Int, NEW k \in Int
  PROVE  (a + p * k) % p = a % p
<1>1. PICK q \in Int, r \in 0 .. p - 1 : a = p * q + r /\ r = a % p
  BY Split
<1>2. PICK s \in Int : s = q + k
  OBVIOUS
<1>3. a + p * k = p * s + r
  BY <1>1, <1>2
<1>4. (p * s + r) % p = r
  BY RemainderUnique
<1> QED
  BY <1>1, <1>3, <1>4

LEMMA AddRemainder ==
  ASSUME NEW p \in Nat \ {0}, NEW a \in Int, NEW b \in Int
  PROVE  ((a % p) + b) % p = (a + b) % p
<1>1. PICK q \in Int, r \in 0 .. p - 1 : a = p * q + r /\ r = a % p
  BY Split
<1>2. PICK c \in Int : c = r + b
  OBVIOUS
<1>3. a + b = c + p * q
  BY <1>1, <1>2
<1>4. (c + p * q) % p = c % p
  BY AddMultiple
<1> QED
  BY <1>1, <1>2, <1>3, <1>4

LEMMA SubtractRemainder ==
  ASSUME NEW p \in Nat \ {0}, NEW a \in Int, NEW b \in Int
  PROVE  (a - (b % p)) % p = (a - b) % p
<1>1. PICK q \in Int, r \in 0 .. p - 1 : b = p * q + r /\ r = b % p
  BY Split
<1>2. PICK c \in Int, m \in Int : c = a - b /\ m = p * q
  <2>1. p * q \in Int
    OBVIOUS
  <2> QED
    BY <2>1
<1>3. b = m + r
  BY <1>1, <1>2
<1>4. a - r = c + m
  BY <1>2, <1>3
<1>5. (c + p * q) % p = c % p
  BY AddMultiple
<1>6. (a - r) % p = c % p
  BY <1>2, <1>4, <1>5
<1> QED
  BY <1>1, <1>2, <1>6

-----------------------------------------------------------------------------
(* What schedule_next_tick computes, and one tick of the clock.            *)

LEMMA TicksType ==
  ASSUME NEW ns \in Nat
  PROVE  TicksOf(ns) \in Interval
<1>1. PICK ms \in Int : ms = ns \div NANOSECONDS_IN_MILLISECOND
  BY CyclicAssumption
<1>2. ms % TickPeriod \in 0 .. TickPeriod - 1
  BY CyclicAssumption
<1> QED
  BY <1>1, <1>2 DEF TicksOf, Interval

(* The delay leads to the next wakeup. *)
LEMMA DeltaReachesWakeup ==
  ASSUME tick \in Interval, NEW next \in Interval, NEW interval \in Interval
  PROVE  /\ NextWakeup(next, interval) \in Interval
         /\ Delta(next, interval) \in Interval
         /\ (tick + Delta(next, interval)) % TickPeriod =
              NextWakeup(next, interval) % TickPeriod
<1>1. PICK w \in Int : w = NextWakeup(next, interval) /\ w \in Interval
  <2>1. (next + interval) % TickPeriod \in 0 .. TickPeriod - 1
    BY CyclicAssumption DEF Interval
  <2> QED
    BY <2>1 DEF NextWakeup, Interval
<1>2. PICK a \in Int, t \in Int : a = w - t /\ t = tick
  BY DEF Interval
<1>3. a % TickPeriod \in Interval
  BY CyclicAssumption DEF Interval
<1>4. ((a % TickPeriod) + t) % TickPeriod = (a + t) % TickPeriod
  BY AddRemainder, CyclicAssumption
<1>5. Delta(next, interval) = a % TickPeriod
  BY <1>1, <1>2 DEF Delta
<1>6. a + t = w
  BY <1>1, <1>2
<1>7. tick + (a % TickPeriod) = (a % TickPeriod) + t
  BY <1>2, <1>3 DEF Interval
<1> QED
  BY <1>1, <1>3, <1>4, <1>5, <1>6, <1>7

(* Lateness of less than an interval shortens the delay and is made up. *)
LEMMA DeltaMakesUp ==
  ASSUME tick \in Interval, NEW next \in Interval, NEW interval \in Interval,
         NEW lateness \in Nat, lateness < interval,
         tick % TickPeriod = (next + lateness) % TickPeriod
  PROVE  Delta(next, interval) = interval - lateness
<1> DEFINE P == TickPeriod
<1>1. P \in Nat \ {0}
  BY CyclicAssumption
<1>2. tick = (next + lateness) % P
  BY <1>1, RemainderOfSmall DEF Interval
<1>3. PICK n \in Int, m \in Int, t \in Int :
        n = next + interval /\ m = next + lateness /\ t = m % P /\ t = tick
  BY <1>1, <1>2 DEF Interval
<1>4. PICK b \in Int : b = -t
  BY <1>3
<1>5. ((n % P) + b) % P = (n + b) % P
  BY <1>1, AddRemainder
<1>6. (n - (m % P)) % P = (n - m) % P
  BY <1>1, SubtractRemainder
<1>7. PICK r \in 0 .. P - 1 : r = n - m /\ r = interval - lateness
  BY <1>1, <1>3 DEF Interval
<1>8. r % P = r
  BY <1>1, RemainderOfSmall
<1>9. n % P \in Int
  BY <1>1
<1>10. /\ (n % P) + b = (n % P) - t
       /\ n + b = n - t
  BY <1>3, <1>4, <1>9
<1>11. Delta(next, interval) = ((n % P) - t) % P
  BY <1>3 DEF Delta, NextWakeup
<1> QED
  BY <1>3, <1>5, <1>6, <1>7, <1>8, <1>10, <1>11

(* A tick nearer to an expiry, a tick further from a wakeup that waits.    *)
LEMMA TickNearer ==
  ASSUME NEW t \in Int, NEW r \in Int
  PROVE  (((t + 1) % TickPeriod) + (r - 1)) % TickPeriod = (t + r) % TickPeriod
<1>1. PICK a \in Int, b \in Int : a = t + 1 /\ b = r - 1
  OBVIOUS
<1>2. ((a % TickPeriod) + b) % TickPeriod = (a + b) % TickPeriod
  BY AddRemainder, CyclicAssumption
<1>3. a + b = t + r
  BY <1>1
<1> QED
  BY <1>1, <1>2, <1>3

LEMMA TickLater ==
  ASSUME NEW t \in Int, NEW d \in Int, NEW w \in Int,
         (t + d) % TickPeriod = w % TickPeriod
  PROVE  (((t + 1) % TickPeriod) + d) % TickPeriod = (w + 1) % TickPeriod
<1>1. PICK a \in Int, c \in Int, one \in Int :
        a = t + one /\ c = t + d /\ one = 1
  OBVIOUS
<1>2. ((a % TickPeriod) + d) % TickPeriod = (a + d) % TickPeriod
  BY AddRemainder, CyclicAssumption
<1>3. (c + one) % TickPeriod = (w + one) % TickPeriod
  <2>1. ((c % TickPeriod) + one) % TickPeriod = (c + one) % TickPeriod
    BY AddRemainder, CyclicAssumption
  <2>2. ((w % TickPeriod) + one) % TickPeriod = (w + one) % TickPeriod
    BY AddRemainder, CyclicAssumption
  <2> QED
    BY <1>1, <2>1, <2>2
<1>4. a + d = c + one
  BY <1>1
<1> QED
  BY <1>1, <1>2, <1>3, <1>4
-----------------------------------------------------------------------------
(* The inductive invariant.                                                *)

(* A slot not created yet has no timer, sent nothing and is not late,      *)
(* unless its creation is at the call of rtems_timer_fire_after.           *)
UnusedInv ==
  \A i \in CyclicSlots :
    ~Created(i) =>
      /\ ~Armed(i)
      /\ i \notin sent
      /\ late[i] = 0 \/ (creating = "fire" /\ i = cyclic_requests_count)

(* The delay that waits to be used leads from now to the wakeup, and       *)
(* beyond it by the ticks it has waited.                                   *)
PendingInv ==
  creating = "fire" =>
    (tick + delay) % TickPeriod =
      (next_wakeup_ticks[cyclic_requests_count]
         + late[cyclic_requests_count]) % TickPeriod

(* A timer whose callback is due has expired. *)
DueInv == \A i \in due : remaining[i] = 0

IInv ==
  /\ TypeOK
  /\ UnusedInv
  /\ PendingInv
  /\ DueInv
  /\ ExpiryOnSchedule
  /\ TimelyKeepsGoing

LEMMA ExpiredInterval == 0 \in Interval
  BY CyclicAssumption DEF Interval

LEMMA PendingSlot ==
  ASSUME TypeOK, ~Full
  PROVE  cyclic_requests_count \in CyclicSlots
  BY CyclicAssumption DEF TypeOK, Full, CyclicSlots

LEMMA Initially == Init => IInv
<1> SUFFICES ASSUME Init PROVE IInv
  OBVIOUS
<1>1. TypeOK
  BY CyclicAssumption DEF Init, TypeOK, Interval, CyclicSlots
<1>2. UnusedInv
  BY DEF Init, UnusedInv, Armed
<1>3. ExpiryOnSchedule
  BY DEF Init, ExpiryOnSchedule, Armed
<1> QED
  BY <1>1, <1>2, <1>3
     DEF Init, IInv, PendingInv, DueInv, TimelyKeepsGoing

LEMMA TypeStep == TypeOK /\ [Next]_vars => TypeOK'
<1> SUFFICES ASSUME TypeOK, [Next]_vars PROVE TypeOK'
  OBVIOUS
<1>1. CASE Tick
  <2>1. (tick + 1) % TickPeriod \in Interval
    BY CyclicAssumption DEF TypeOK, Interval
  <2>2. remaining' \in [CyclicSlots -> Interval]
    <3> SUFFICES ASSUME NEW i \in CyclicSlots, remaining[i] > 0
                 PROVE  remaining[i] - 1 \in Interval
      BY <1>1, ExpiredInterval DEF Tick
    <3> QED
      BY CyclicAssumption DEF TypeOK, Interval
  <2>3. late' \in [CyclicSlots -> 0 .. MaxPreemption]
    BY <1>1, PendingSlot, CyclicAssumption DEF Tick, TypeOK
  <2> QED
    BY <1>1, <2>1, <2>2, <2>3 DEF Tick, TypeOK, dataVars, callVars, Full
<1>2. ASSUME NEW i \in CyclicSlots, timer_callback(i)
      PROVE  TypeOK'
  <2>1. /\ NextWakeup(next_wakeup_ticks[i], interval_ticks[i]) \in Interval
        /\ Delta(next_wakeup_ticks[i], interval_ticks[i]) \in Interval
    BY DeltaReachesWakeup DEF TypeOK
  <2> QED
    BY <1>2, <2>1 DEF timer_callback, FireAfter, TypeOK, callVars, Full
<1>3. CASE CreationFails
  BY <1>3 DEF CreationFails, TypeOK, dataVars, Full
<1>4. ASSUME NEW interval_ns \in Intervals, NEW offset_ns \in Offsets,
             CreateBegins(interval_ns, offset_ns)
      PROVE  TypeOK'
  <2>1. /\ TicksOf(interval_ns) \in Interval
        /\ TicksOf(offset_ns) \in Interval
    BY TicksType, CyclicAssumption
  <2>2. /\ NextWakeup(TicksOf(offset_ns), TicksOf(interval_ns)) \in Interval
        /\ Delta(TicksOf(offset_ns), TicksOf(interval_ns)) \in Interval
    BY <2>1, DeltaReachesWakeup DEF TypeOK
  <2> QED
    BY <1>4, <2>1, <2>2 DEF CreateBegins, TypeOK, Full
<1>5. CASE CreateFires
  BY <1>5, PendingSlot, ExpiredInterval, CyclicAssumption
     DEF CreateFires, FireAfter, TypeOK, dataVars, Full
<1>6. CASE UNCHANGED vars
  BY <1>6 DEF vars, dataVars, callVars, TypeOK, Full
<1> QED
  BY <1>1, <1>2, <1>3, <1>4, <1>5, <1>6
     DEF Next, ThreadsCommon_CreateCyclicRequest

LEMMA UnusedStep == IInv /\ [Next]_vars => UnusedInv'
<1> SUFFICES ASSUME IInv, [Next]_vars PROVE UnusedInv'
  OBVIOUS
<1> USE DEF IInv, UnusedInv, Armed, Created
<1>1. CASE Tick
  BY <1>1, PendingSlot, CyclicAssumption
     DEF Tick, TypeOK, callVars, Interval
<1>2. ASSUME NEW i \in CyclicSlots, timer_callback(i)
      PROVE  UnusedInv'
  BY <1>2 DEF timer_callback, FireAfter, TypeOK, callVars
<1>3. CASE CreationFails
  BY <1>3 DEF CreationFails, TypeOK
<1>4. ASSUME NEW interval_ns \in Intervals, NEW offset_ns \in Offsets,
             CreateBegins(interval_ns, offset_ns)
      PROVE  UnusedInv'
  BY <1>4 DEF CreateBegins
<1>5. CASE CreateFires
  BY <1>5 DEF CreateFires, FireAfter, TypeOK, dataVars, CyclicSlots
<1>6. CASE UNCHANGED vars
  BY <1>6 DEF vars, callVars
<1> QED
  BY <1>1, <1>2, <1>3, <1>4, <1>5, <1>6
     DEF Next, ThreadsCommon_CreateCyclicRequest

LEMMA PendingStep == IInv /\ [Next]_vars => PendingInv'
<1> SUFFICES ASSUME IInv, [Next]_vars, (creating = "fire")'
             PROVE  PendingInv'
  BY DEF PendingInv
<1> USE DEF IInv
<1>1. CASE Tick
  <2> DEFINE slot == cyclic_requests_count
  <2>1. creating = "fire" /\ slot \in CyclicSlots
    BY <1>1, PendingSlot DEF Tick, callVars, TypeOK
  <2>2. PICK t \in Int, d \in Int, w \in Int :
          /\ t = tick
          /\ d = delay
          /\ w = next_wakeup_ticks[slot] + late[slot]
    BY <2>1, CyclicAssumption DEF TypeOK, Interval
  <2>3. (t + d) % TickPeriod = w % TickPeriod
    BY <2>1, <2>2 DEF PendingInv
  <2>4. (((t + 1) % TickPeriod) + d) % TickPeriod = (w + 1) % TickPeriod
    BY <2>3, TickLater
  <2>5. tick' = (t + 1) % TickPeriod /\ delay' = d
    BY <1>1, <2>2 DEF Tick, callVars
  <2>6. (next_wakeup_ticks[slot] + late[slot])' = w + 1
    BY <1>1, <2>1, <2>2, CyclicAssumption
       DEF Tick, callVars, dataVars, TypeOK, Interval
  <2>7. slot' = slot
    BY <1>1 DEF Tick, callVars
  <2> QED
    BY <2>4, <2>5, <2>6, <2>7 DEF PendingInv
<1>2. ASSUME NEW i \in CyclicSlots, timer_callback(i)
      PROVE  PendingInv'
  <2>1. cyclic_requests_count # i
    BY <1>2, CyclicAssumption
       DEF timer_callback, UnusedInv, Armed, Created, TypeOK
  <2> QED
    BY <1>2, <2>1 DEF timer_callback, callVars, PendingInv, TypeOK
<1>3. CASE CreationFails
  BY <1>3 DEF CreationFails, dataVars, PendingInv
<1>4. ASSUME NEW interval_ns \in Intervals, NEW offset_ns \in Offsets,
             CreateBegins(interval_ns, offset_ns)
      PROVE  PendingInv'
  <2> DEFINE slot == cyclic_requests_count
             next == TicksOf(offset_ns)
             interval == TicksOf(interval_ns)
  <2>1. next \in Interval /\ interval \in Interval
    BY TicksType, CyclicAssumption
  <2>2. /\ NextWakeup(next, interval) \in Interval
        /\ (tick + Delta(next, interval)) % TickPeriod =
             NextWakeup(next, interval) % TickPeriod
    BY <2>1, DeltaReachesWakeup DEF TypeOK
  <2>3. slot \in CyclicSlots
    BY <1>4, PendingSlot DEF CreateBegins
  <2>4. late[slot] = 0
    BY <1>4, <2>3, CyclicAssumption
       DEF CreateBegins, UnusedInv, Created, TypeOK
  <2>5. NextWakeup(next, interval) + 0 = NextWakeup(next, interval)
    BY <2>2 DEF Interval
  <2> HIDE DEF next, interval
  <2>6. /\ next_wakeup_ticks'[slot] = NextWakeup(next, interval)
        /\ delay' = Delta(next, interval)
        /\ UNCHANGED <<tick, cyclic_requests_count, late>>
    BY <1>4, <2>3 DEF CreateBegins, TypeOK, next, interval
  <2> QED
    BY <2>2, <2>4, <2>5, <2>6 DEF PendingInv
<1>5. CASE CreateFires
  BY <1>5 DEF CreateFires
<1>6. CASE UNCHANGED vars
  BY <1>6 DEF vars, callVars, dataVars, PendingInv
<1> QED
  BY <1>1, <1>2, <1>3, <1>4, <1>5, <1>6
     DEF Next, ThreadsCommon_CreateCyclicRequest

LEMMA DueStep == IInv /\ [Next]_vars => DueInv'
<1> SUFFICES ASSUME IInv, [Next]_vars PROVE DueInv'
  OBVIOUS
<1> USE DEF IInv, DueInv
<1>1. CASE Tick
  BY <1>1 DEF Tick, TypeOK
<1>2. ASSUME NEW i \in CyclicSlots, timer_callback(i)
      PROVE  DueInv'
  BY <1>2 DEF timer_callback, FireAfter, TypeOK
<1>3. CASE CreationFails
  BY <1>3 DEF CreationFails
<1>4. ASSUME NEW interval_ns \in Intervals, NEW offset_ns \in Offsets,
             CreateBegins(interval_ns, offset_ns)
      PROVE  DueInv'
  BY <1>4 DEF CreateBegins
<1>5. CASE CreateFires
  BY <1>5 DEF CreateFires
<1>6. CASE UNCHANGED vars
  BY <1>6 DEF vars
<1> QED
  BY <1>1, <1>2, <1>3, <1>4, <1>5, <1>6
     DEF Next, ThreadsCommon_CreateCyclicRequest

LEMMA ScheduleStep == IInv /\ [Next]_vars => ExpiryOnSchedule'
<1> DEFINE lateness(i) == IF i \in sent THEN 0 ELSE late[i]
           On(i) == (tick + remaining[i]) % TickPeriod =
                      (next_wakeup_ticks[i] + lateness(i)) % TickPeriod
<1> SUFFICES ASSUME IInv, [Next]_vars, NEW k \in CyclicSlots, Armed(k)'
             PROVE  On(k)'
  BY DEF ExpiryOnSchedule
<1>kept. Armed(k) => On(k)
  BY DEF IInv, ExpiryOnSchedule
<1> USE DEF IInv
<1>1. CASE Tick
  <2>1. Armed(k) /\ remaining[k] > 0 /\ remaining'[k] = remaining[k] - 1
    BY <1>1 DEF Tick, Armed, TypeOK, Interval
  <2>2. PICK t \in Int, r \in Int : t = tick /\ r = remaining[k]
    BY DEF TypeOK, Interval
  <2>3. (((t + 1) % TickPeriod) + (r - 1)) % TickPeriod = (t + r) % TickPeriod
    BY TickNearer
  <2>4. late'[k] = late[k]
    BY <1>1, <2>1, CyclicAssumption
       DEF Tick, UnusedInv, Created, TypeOK
  <2>5. /\ tick' = (t + 1) % TickPeriod
        /\ remaining'[k] = r - 1
        /\ UNCHANGED <<next_wakeup_ticks, sent>>
    BY <1>1, <2>1, <2>2 DEF Tick, dataVars
  <2> QED
    BY <1>kept, <2>1, <2>2, <2>3, <2>4, <2>5
<1>2. ASSUME NEW i \in CyclicSlots, timer_callback(i)
      PROVE  On(k)'
  <2>1. CASE k # i
    <3>1. /\ Armed(k)
          /\ UNCHANGED <<tick, remaining[k], next_wakeup_ticks[k], late>>
          /\ k \in sent' <=> k \in sent
      BY <1>2, <2>1 DEF timer_callback, FireAfter, Armed, TypeOK
    <3> QED
      BY <1>kept, <3>1
  <2>2. CASE k = i
    <3> DEFINE next == next_wakeup_ticks[i]
               interval == interval_ticks[i]
    <3>1. next \in Interval /\ interval \in Interval
      BY DEF TypeOK
    <3>2. /\ NextWakeup(next, interval) \in Interval
          /\ (tick + Delta(next, interval)) % TickPeriod =
               NextWakeup(next, interval) % TickPeriod
      BY <3>1, DeltaReachesWakeup DEF TypeOK
    <3>3. remaining[i] = 0 /\ i \notin due'
      BY <1>2 DEF timer_callback, DueInv
    <3>4. remaining'[i] = Delta(next, interval)
      BY <1>2, <2>2, <3>3 DEF timer_callback, FireAfter, Armed, TypeOK
    <3>5. /\ next_wakeup_ticks'[i] = NextWakeup(next, interval)
          /\ i \in sent'
          /\ tick' = tick
      BY <1>2 DEF timer_callback, TypeOK
    <3>6. NextWakeup(next, interval) + 0 = NextWakeup(next, interval)
      BY <3>2 DEF Interval
    <3> HIDE DEF next, interval
    <3> QED
      BY <2>2, <3>2, <3>4, <3>5, <3>6
  <2> QED
    BY <2>1, <2>2
<1>3. CASE CreationFails
  BY <1>kept, <1>3 DEF CreationFails, Armed, dataVars
<1>4. ASSUME NEW interval_ns \in Intervals, NEW offset_ns \in Offsets,
             CreateBegins(interval_ns, offset_ns)
      PROVE  On(k)'
  <2>1. Armed(k) /\ k # cyclic_requests_count
    BY <1>4, CyclicAssumption
       DEF CreateBegins, Armed, UnusedInv, Created, TypeOK
  <2> QED
    BY <1>kept, <1>4, <2>1 DEF CreateBegins, TypeOK
<1>5. CASE CreateFires
  <2>1. CASE k # cyclic_requests_count
    BY <1>kept, <1>5, <2>1 DEF CreateFires, FireAfter, Armed, TypeOK, dataVars
  <2>2. CASE k = cyclic_requests_count
    <3>1. ~Armed(k) /\ k \notin sent
      BY <2>2, CyclicAssumption DEF UnusedInv, Created, TypeOK
    <3>2. remaining'[k] = delay
      BY <1>5, <2>2, <3>1 DEF CreateFires, FireAfter, Armed, TypeOK, Interval
    <3>3. UNCHANGED <<tick, next_wakeup_ticks, late, sent>>
      BY <1>5 DEF CreateFires, dataVars
    <3> QED
      BY <1>5, <2>2, <3>1, <3>2, <3>3 DEF CreateFires, PendingInv
  <2> QED
    BY <2>1, <2>2
<1>6. CASE UNCHANGED vars
  BY <1>kept, <1>6 DEF vars, dataVars, Armed
<1> QED
  BY <1>1, <1>2, <1>3, <1>4, <1>5, <1>6
     DEF Next, ThreadsCommon_CreateCyclicRequest

LEMMA GoingStep == IInv /\ [Next]_vars => TimelyKeepsGoing'
<1> SUFFICES ASSUME IInv, [Next]_vars, NEW k \in sent',
                    late'[k] < interval_ticks'[k]
             PROVE  Armed(k)' /\ remaining'[k] <= interval_ticks'[k]
  BY DEF TimelyKeepsGoing
<1> USE DEF IInv
<1>kept. k \in sent /\ late[k] < interval_ticks[k] =>
        Armed(k) /\ remaining[k] <= interval_ticks[k]
  BY DEF TimelyKeepsGoing
<1>created. k \in sent =>
              k \in CyclicSlots /\ Created(k) /\ k # cyclic_requests_count
  BY CyclicAssumption DEF UnusedInv, Created, TypeOK
<1>1. CASE Tick
  <2>1. k \in sent /\ UNCHANGED <<late[k], interval_ticks>>
    BY <1>1, <1>created, CyclicAssumption DEF Tick, TypeOK, dataVars
  <2> QED
    BY <1>kept, <1>created, <1>1, <2>1 DEF Tick, Armed, TypeOK, Interval
<1>2. ASSUME NEW i \in CyclicSlots, timer_callback(i)
      PROVE  Armed(k)' /\ remaining'[k] <= interval_ticks'[k]
  <2>1. CASE k # i
    BY <1>kept, <1>created, <1>2, <2>1
       DEF timer_callback, FireAfter, Armed, TypeOK
  <2>2. CASE k = i
    <3> DEFINE next == next_wakeup_ticks[i]
               interval == interval_ticks[i]
    <3>1. PICK lateness \in Nat :
            lateness = IF i \in sent THEN 0 ELSE late[i]
      BY CyclicAssumption DEF TypeOK
    <3>2. lateness < interval /\ remaining[i] = 0 /\ Armed(i)
      BY <1>2, <2>2, <3>1, CyclicAssumption
         DEF timer_callback, DueInv, Armed, TypeOK, Interval
    <3>3. tick % TickPeriod = (next + lateness) % TickPeriod
      <4>1. tick + remaining[i] = tick
        BY <3>2 DEF TypeOK, Interval
      <4> QED
        BY <3>1, <3>2, <4>1 DEF ExpiryOnSchedule
    <3>4. Delta(next, interval) = interval - lateness
      <4>1. next \in Interval /\ interval \in Interval
        BY DEF TypeOK
      <4> HIDE DEF next, interval
      <4> QED
        BY <3>2, <3>3, <4>1, DeltaMakesUp DEF TypeOK
    <3>5. Delta(next, interval) > 0 /\ Delta(next, interval) <= interval
      BY <3>1, <3>2, <3>4 DEF TypeOK, Interval
    <3>6. /\ remaining' = [remaining EXCEPT ![i] = Delta(next, interval)]
          /\ interval_ticks' = interval_ticks
      BY <1>2, <3>5 DEF timer_callback, FireAfter
    <3> QED
      BY <2>2, <3>5, <3>6 DEF Armed, TypeOK
  <2> QED
    BY <2>1, <2>2
<1>3. CASE CreationFails
  BY <1>kept, <1>3 DEF CreationFails, Armed, dataVars
<1>4. ASSUME NEW interval_ns \in Intervals, NEW offset_ns \in Offsets,
             CreateBegins(interval_ns, offset_ns)
      PROVE  Armed(k)' /\ remaining'[k] <= interval_ticks'[k]
  BY <1>kept, <1>created, <1>4 DEF CreateBegins, Armed, TypeOK
<1>5. CASE CreateFires
  BY <1>kept, <1>created, <1>5
     DEF CreateFires, FireAfter, Armed, TypeOK, dataVars
<1>6. CASE UNCHANGED vars
  BY <1>kept, <1>6 DEF vars, dataVars, Armed
<1> QED
  BY <1>1, <1>2, <1>3, <1>4, <1>5, <1>6
     DEF Next, ThreadsCommon_CreateCyclicRequest

LEMMA Inductive == Spec => []IInv
<1>1. IInv /\ [Next]_vars => IInv'
  BY TypeStep, UnusedStep, PendingStep, DueStep, ScheduleStep, GoingStep
     DEF IInv
<1> QED
  BY <1>1, Initially, PTL DEF Spec

-----------------------------------------------------------------------------
(* The theorems.                                                           *)

(* Tick counts stay in an rtems_interval, slots within the table.          *)
THEOREM TypeCorrect == Spec => []TypeOK
<1>1. IInv => TypeOK
  BY DEF IInv
<1> QED
  BY <1>1, Inductive, PTL

(* However the tick count wraps and whenever the creating thread is        *)
(* preempted, a timer expires when its slot says, only the first time late *)
(* (schedule_next_tick).                                                   *)
THEOREM TimersOnSchedule == Spec => []ExpiryOnSchedule
<1>1. IInv => ExpiryOnSchedule
  BY DEF IInv
<1> QED
  BY <1>1, Inductive, PTL

(* The delay computed at an expiry that is late by less than an interval   *)
(* is never the zero that rtems_timer_fire_after refuses.                  *)
THEOREM TimelyArmedForEver == Spec => []TimelyKeepsGoing
<1>1. IInv => TimelyKeepsGoing
  BY DEF IInv
<1> QED
  BY <1>1, Inductive, PTL
=============================================================================
