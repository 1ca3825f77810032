------------------------------ MODULE HalClock ------------------------------
(***************************************************************************)
(* The elapsed-time service of Hal.c.                                      *)
(*                                                                         *)
(* Channel 0 of timer 0 counts master clock / 8 in 16 bits.  When it wraps *)
(* it raises an interrupt; timer_irq_handler counts the wrap in            *)
(* reloads_counter and sets reloads_modified_flag.                         *)
(* Hal_GetElapsedTimeInNs reads the pair (reloads, ticks) without a lock:  *)
(* it resets the flag, reads both, and starts again when the flag was set  *)
(* in between.  Each access of that protocol is an action here.            *)
(*                                                                         *)
(* One processor, preemptive priorities, no time slicing: a thread is      *)
(* named by its priority (larger preempts smaller), no thread runs while   *)
(* the handler does.                                                       *)
(***************************************************************************)
EXTENDS Integers

CONSTANTS
  Readers,              \* threads that call Hal_GetElapsedTimeInNs
  CounterPeriod,        \* counter values between two wraps: 2^16 in hardware
  TICKS_PER_RELOAD,     \* what the code adds for each wrap: 65535
  UlongPeriod,          \* 2^32: uint32_t and unsigned long of the target
  NANOSECOND_IN_SECOND, \* nanoseconds per ...
  ClockFrequency,       \* ... and counter ticks per the same stretch of time
  IrqDelay,             \* accesses a thread may complete between a wrap and
                        \* the moment the interrupt preempts it
  MaxReloads            \* bound: wraps a behaviour contains

ASSUME ClockAssumption ==
  /\ Readers \subseteq Nat
  /\ CounterPeriod \in Nat \ {0}
  /\ TICKS_PER_RELOAD \in Nat
  /\ UlongPeriod \in Nat \ {0}
  /\ NANOSECOND_IN_SECOND \in Nat
  /\ ClockFrequency \in Nat \ {0}
  /\ IrqDelay \in Nat
  /\ MaxReloads \in Nat
  /\ MaxReloads < UlongPeriod   \* reloads_counter itself does not wrap

VARIABLES
  counter,               \* the hardware counter
  irq,                   \* progress of the wrap interrupt
  late,                  \* accesses completed since the pending wrap
  reloads_counter,
  reloads_modified_flag,
  pc,                    \* next access of each reader
  reloads, ticks,        \* locals of Hal_GetElapsedTimeInNs
  elapsed,               \* last value each reader got, in nanoseconds
  overflows,             \* history: wraps so far
  sampledAt,             \* history: wraps when ticks was read
  began,                 \* history: the instant the call began
  disturbed              \* history: another call reset the flag meanwhile

timerVars == <<counter, irq, late, reloads_counter, overflows>>
callVars  == <<pc, reloads, ticks, elapsed, sampledAt, began, disturbed>>
vars      == <<timerVars, reloads_modified_flag, callVars>>

-----------------------------------------------------------------------------
(* Instants and the values the code derives from them. *)

Instant == [wraps : Nat, count : Nat]
Now     == [wraps |-> overflows, count |-> counter]
Origin  == [wraps |-> 0, count |-> 0]

(* Mutants: the product in a signed type; the counter left out. *)
TotalTicks_Signed(r, t) ==
  LET p == (r * TICKS_PER_RELOAD) % UlongPeriod
  IN  (IF 2 * p >= UlongPeriod THEN p - UlongPeriod ELSE p) + t
TotalTicks_ReloadsOnly(r, t) == (r * TICKS_PER_RELOAD) % UlongPeriod

(* total_ticks: the product is computed in 32 bits, the sum in 64. *)
TotalTicks(r, t) == ((r * TICKS_PER_RELOAD) % UlongPeriod) + t

(* The conversion to nanoseconds truncates. *)
ElapsedNs(t) == (t * NANOSECOND_IN_SECOND) \div ClockFrequency

(* The time the code means by an instant, were its product exact.  The     *)
(* ticks that really went by are wraps * CounterPeriod + count, one more   *)
(* per wrap: a drift of 1 in 65536 that nothing here makes a claim about.  *)
CodeTime(i) == i.wraps * TICKS_PER_RELOAD + i.count

-----------------------------------------------------------------------------
Init ==
  /\ counter = 0
  /\ irq = "none"
  /\ late = 0
  /\ reloads_counter = 0
  /\ reloads_modified_flag = FALSE
  /\ pc = [r \in Readers |-> "idle"]
  /\ reloads = [r \in Readers |-> 0]
  /\ ticks = [r \in Readers |-> 0]
  /\ elapsed = [r \in Readers |-> 0]
  /\ overflows = 0
  /\ sampledAt = [r \in Readers |-> 0]
  /\ began = [r \in Readers |-> Origin]
  /\ disturbed = [r \in Readers |-> FALSE]

(* The hardware counter, between wraps. *)
CountUp ==
  /\ counter < CounterPeriod - 1
  /\ counter' = counter + 1
  /\ UNCHANGED <<irq, late, reloads_counter, overflows,
                 reloads_modified_flag, callVars>>

(* The wrap.  The handler of the previous one has long finished: a reload  *)
(* period lasts 7 ms.                                                      *)
Overflow ==
  /\ counter = CounterPeriod - 1
  /\ irq = "none"
  /\ overflows < MaxReloads
  /\ counter' = 0
  /\ overflows' = overflows + 1
  /\ irq' = "pending"
  /\ late' = 0
  /\ UNCHANGED <<reloads_counter, reloads_modified_flag, callVars>>

(* timer_irq_handler: count, mark, acknowledge. *)
IrqCount ==
  /\ irq = "pending"
  /\ reloads_counter' = (reloads_counter + 1) % UlongPeriod
  /\ irq' = "counted"
  /\ UNCHANGED <<counter, late, overflows, reloads_modified_flag, callVars>>

(* Mutant: a handler that counts without telling the readers. *)
IrqMark_FlagNotSet ==
  /\ irq = "counted"
  /\ irq' = "marked"
  /\ UNCHANGED <<counter, late, reloads_counter, overflows,
                 reloads_modified_flag, callVars>>

IrqMark ==
  /\ irq = "counted"
  /\ reloads_modified_flag' = TRUE
  /\ irq' = "marked"
  /\ UNCHANGED <<counter, late, reloads_counter, overflows, callVars>>

(* Mutant: the status register is not read, so the interrupt stays raised. *)
IrqAcknowledge_StatusNotRead ==
  /\ irq = "marked"
  /\ irq' \in {"none", "pending"}
  /\ UNCHANGED <<counter, late, reloads_counter, overflows,
                 reloads_modified_flag, callVars>>

IrqAcknowledge ==
  /\ irq = "marked"
  /\ irq' = "none"
  /\ UNCHANGED <<counter, late, reloads_counter, overflows,
                 reloads_modified_flag, callVars>>

-----------------------------------------------------------------------------
InCall(r) == pc[r] # "idle"

(* r has the processor: no handler, no call of higher priority. *)
Running(r) ==
  /\ irq = "none" \/ (irq = "pending" /\ late < IrqDelay)
  /\ \A q \in Readers : q > r => ~InCall(q)

(* An access of a thread, counted against the delay of a pending interrupt. *)
Access(r) ==
  /\ Running(r)
  /\ late' = IF irq = "pending" THEN late + 1 ELSE late
  /\ UNCHANGED <<counter, irq, reloads_counter, overflows>>

Goto(r, place) == pc' = [pc EXCEPT ![r] = place]

(* ConcurrentAccessFlag_reset: first access of a call, and of each retry. *)
ResetFlag(r) ==
  /\ pc[r] \in {"idle", "reset"}
  /\ Access(r)
  /\ reloads_modified_flag' = FALSE
  /\ began' = IF InCall(r) THEN began ELSE [began EXCEPT ![r] = Now]
  /\ disturbed' = [q \in Readers |->
                     IF q = r THEN disturbed[r]
                              ELSE disturbed[q] \/ InCall(q)]
  /\ Goto(r, "load")
  /\ UNCHANGED <<reloads, ticks, elapsed, sampledAt>>

LoadReloads(r) ==
  /\ pc[r] = "load"
  /\ Access(r)
  /\ reloads' = [reloads EXCEPT ![r] = reloads_counter]
  /\ Goto(r, "ticks")
  /\ UNCHANGED <<reloads_modified_flag, ticks, elapsed, sampledAt, began,
                 disturbed>>

(* Tic_getCounterValue *)
ReadTicks(r) ==
  /\ pc[r] = "ticks"
  /\ Access(r)
  /\ ticks' = [ticks EXCEPT ![r] = counter]
  /\ sampledAt' = [sampledAt EXCEPT ![r] = overflows]
  /\ Goto(r, "check")
  /\ UNCHANGED <<reloads_modified_flag, reloads, elapsed, began, disturbed>>

(* Mutant: no second try. *)
CheckFlag_NoRetry(r) ==
  /\ pc[r] = "check"
  /\ Access(r)
  /\ Goto(r, "convert")
  /\ UNCHANGED <<reloads_modified_flag, reloads, ticks, elapsed, sampledAt,
                 began, disturbed>>

(* ConcurrentAccessFlag_check: the loop's condition. *)
CheckFlag(r) ==
  /\ pc[r] = "check"
  /\ Access(r)
  /\ Goto(r, IF reloads_modified_flag THEN "reset" ELSE "convert")
  /\ UNCHANGED <<reloads_modified_flag, reloads, ticks, elapsed, sampledAt,
                 began, disturbed>>

(* total_ticks to nanoseconds, and return: the locals cease to exist. *)
ReturnNs(r) ==
  /\ pc[r] = "convert"
  /\ Access(r)
  /\ elapsed' = [elapsed EXCEPT
                   ![r] = ElapsedNs(TotalTicks(reloads[r], ticks[r]))]
  /\ reloads' = [reloads EXCEPT ![r] = 0]
  /\ ticks' = [ticks EXCEPT ![r] = 0]
  /\ sampledAt' = [sampledAt EXCEPT ![r] = 0]
  /\ began' = [began EXCEPT ![r] = Origin]
  /\ disturbed' = [disturbed EXCEPT ![r] = FALSE]
  /\ Goto(r, "idle")
  /\ UNCHANGED reloads_modified_flag

timer_irq_handler == IrqCount \/ IrqMark \/ IrqAcknowledge

Hal_GetElapsedTimeInNs(r) ==
  \/ ResetFlag(r)
  \/ LoadReloads(r)
  \/ ReadTicks(r)
  \/ CheckFlag(r)
  \/ ReturnNs(r)

Next ==
  \/ CountUp
  \/ Overflow
  \/ timer_irq_handler
  \/ \E r \in Readers : Hal_GetElapsedTimeInNs(r)

Spec == Init /\ [][Next]_vars

-----------------------------------------------------------------------------
Places == {"idle", "reset", "load", "ticks", "check", "convert"}

TypeOK ==
  /\ counter \in 0 .. CounterPeriod - 1
  /\ irq \in {"none", "pending", "counted", "marked"}
  /\ late \in 0 .. IrqDelay
  /\ reloads_counter \in 0 .. UlongPeriod - 1
  /\ reloads_modified_flag \in BOOLEAN
  /\ pc \in [Readers -> Places]
  /\ reloads \in [Readers -> Nat]
  /\ ticks \in [Readers -> 0 .. CounterPeriod - 1]
  /\ elapsed \in [Readers -> Nat]
  /\ overflows \in 0 .. MaxReloads
  /\ sampledAt \in [Readers -> Nat]
  /\ began \in [Readers -> Instant]
  /\ disturbed \in [Readers -> BOOLEAN]

(* Every wrap is counted exactly once: reloads_counter is the number of    *)
(* wraps, one less between a wrap and the handler's first statement        *)
(* (timer_irq_handler).                                                    *)
WrapsCountedOnce ==
  overflows = reloads_counter + (IF irq = "pending" THEN 1 ELSE 0)

(* What the retry loop of Hal_GetElapsedTimeInNs is for: when it ends,     *)
(* the two words it read belong to the same instant.  It relies on the     *)
(* flag being the caller's own, so it is claimed for a call during which   *)
(* no other call reset the flag.                                           *)
PairOfOneInstant ==
  \A r \in Readers :
    pc[r] = "convert" /\ ~disturbed[r] => reloads[r] = sampledAt[r]

(* The thread of highest priority among the callers is never disturbed,    *)
(* so the pair it reads always belongs to one instant.                     *)
TopReaderPairOfOneInstant ==
  \A r \in Readers :
    /\ pc[r] = "convert"
    /\ \A q \in Readers : q <= r
    => reloads[r] = sampledAt[r]

(* The time a call returns, for every caller, by refinement of Clock: the  *)
(* time of some instant of the call, and for a call that was disturbed one *)
(* at most a reload before it (Hal_GetElapsedTimeInNs).                    *)
TicksBegan == [r \in Readers |-> IF InCall(r) THEN CodeTime(began[r]) ELSE -1]
Disturbed  == {r \in Readers : disturbed[r]}

C == INSTANCE Clock WITH
       Callers   <- Readers,
       ToNs      <- ElapsedNs,
       time      <- CodeTime(Now),
       began     <- TicksBegan,
       overtaken <- Disturbed

ImplementsClock == C!ClockSpec

(* Elapsed time, as Hal.h describes it, never goes back for a caller.      *)
ElapsedNeverDecreases ==
  [][\A r \in Readers : elapsed'[r] >= elapsed[r]]_vars
=============================================================================
