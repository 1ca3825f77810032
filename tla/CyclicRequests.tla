--------------------------- MODULE CyclicRequests ---------------------------
(***************************************************************************)
(* Cyclic requests of ThreadsCommon.c: RTEMS timers that send a request to *)
(* the queue of a cyclic interface.                                        *)
(*                                                                         *)
(* ThreadsCommon_CreateCyclicRequest fills the next slot and fires its     *)
(* timer; each time the timer expires, timer_callback sends the request    *)
(* and schedule_next_tick fires the timer again, with a delay computed     *)
(* from absolute tick counts so that lateness does not add up.  All tick   *)
(* arithmetic is that of rtems_interval, modulo TickPeriod.                *)
(*                                                                         *)
(* The clock interrupt counts a tick and then runs the callbacks that are  *)
(* due; no thread runs before it has ended.  The creating thread may be    *)
(* preempted by it between computing the delay and firing the timer.       *)
(***************************************************************************)
EXTENDS Integers

CONSTANTS
  RT_MAX_CYCLIC_INTERFACES,   \* slots
  TickPeriod,                 \* 2^32: values of an rtems_interval
  NANOSECONDS_IN_MILLISECOND, \* a tick is a millisecond
  Intervals, Offsets,         \* nanoseconds a request is created with
  MaxPreemption               \* bound: ticks that pass while a call of
                              \* ThreadsCommon_CreateCyclicRequest is preempted

ASSUME CyclicAssumption ==
  /\ RT_MAX_CYCLIC_INTERFACES \in Nat \ {0}
  /\ TickPeriod \in Nat \ {0}
  /\ NANOSECONDS_IN_MILLISECOND \in Nat \ {0}
  /\ Intervals \subseteq Nat
  /\ Offsets \subseteq Nat
  /\ MaxPreemption \in Nat

CyclicSlots == 0 .. RT_MAX_CYCLIC_INTERFACES - 1
Interval == 0 .. TickPeriod - 1      \* rtems_interval

VARIABLES
  tick,                    \* rtems_clock_get_ticks_since_boot
  due,                     \* slots whose callback the interrupt has to run
  remaining,               \* ticks to the expiry of each timer, 0: not armed
  cyclic_requests_count,
  next_wakeup_ticks, interval_ticks,
  creating,                \* progress of ThreadsCommon_CreateCyclicRequest
  delay,                   \* its delta, computed and not yet used
  result,                  \* what the last call of it returned
  dispatched,              \* slots whose request this tick's interrupt sent
  late,                    \* history: ticks while delay waited to be used
  sent                     \* history: slots that sent a request

dataVars == <<next_wakeup_ticks, interval_ticks>>
callVars == <<creating, delay, result, cyclic_requests_count>>
vars     == <<tick, due, remaining, dataVars, callVars, dispatched, late, sent>>

Init ==
  /\ tick = 0
  /\ due = {}
  /\ remaining = [i \in CyclicSlots |-> 0]
  /\ cyclic_requests_count = 0
  /\ next_wakeup_ticks = [i \in CyclicSlots |-> 0]
  /\ interval_ticks = [i \in CyclicSlots |-> 0]
  /\ creating = "idle"
  /\ delay = 0
  /\ result = "none"
  /\ dispatched = {}
  /\ late = [i \in CyclicSlots |-> 0]
  /\ sent = {}

-----------------------------------------------------------------------------
(* Both divisions truncate, and the result is an rtems_interval. *)
TicksOf(ns) == (ns \div NANOSECONDS_IN_MILLISECOND) % TickPeriod

(* Mutants: the sum is not an rtems_interval; the wakeup is not advanced. *)
NextWakeup_Unbounded(next, interval) == next + interval
NextWakeup_Kept(next, interval) == next

(* The two statements of schedule_next_tick: the next wakeup, and the      *)
(* delay until then.                                                       *)
NextWakeup(next, interval) == (next + interval) % TickPeriod

(* Mutant: a delay relative to now, as if the callback were never late.    *)
Delta_Relative(next, interval) == interval

Delta(next, interval) == (NextWakeup(next, interval) - tick) % TickPeriod

(* rtems_timer_fire_after: a delay of zero is refused, the timer stays     *)
(* as it was, and nobody looks at the status.                              *)
FireAfter(i, delta) ==
  remaining' = IF delta = 0 THEN remaining ELSE [remaining EXCEPT ![i] = delta]

-----------------------------------------------------------------------------
(* The clock interrupt. *)
Tick ==
  /\ due = {}
  /\ creating = "fire" => late[cyclic_requests_count] < MaxPreemption
  /\ tick' = (tick + 1) % TickPeriod
  /\ due' = {i \in CyclicSlots : remaining[i] = 1}
  /\ remaining' = [i \in CyclicSlots |->
                     IF remaining[i] > 0 THEN remaining[i] - 1 ELSE 0]
  /\ dispatched' = {}
  /\ late' = IF creating = "fire"
               THEN [late EXCEPT ![cyclic_requests_count] = @ + 1] ELSE late
  /\ UNCHANGED <<dataVars, callVars, sent>>

(* Mutant: the callback sends and does not fire the timer again. *)
timer_callback_Once(i) ==
  /\ i \in due
  /\ due' = due \ {i}
  /\ dispatched' = dispatched \cup {i}
  /\ sent' = sent \cup {i}
  /\ UNCHANGED <<tick, remaining, dataVars, callVars, late>>

timer_callback(i) ==
  /\ i \in due
  /\ due' = due \ {i}
  /\ dispatched' = dispatched \cup {i}
  /\ sent' = sent \cup {i}
  /\ next_wakeup_ticks' = [next_wakeup_ticks EXCEPT
                             ![i] = NextWakeup(@, interval_ticks[i])]
  /\ FireAfter(i, Delta(next_wakeup_ticks[i], interval_ticks[i]))
  /\ UNCHANGED <<tick, interval_ticks, callVars, late>>

-----------------------------------------------------------------------------
(* ThreadsCommon_CreateCyclicRequest. *)

Full == cyclic_requests_count >= RT_MAX_CYCLIC_INTERFACES

(* No slot left, or rtems_timer_create fails. *)
CreationFails ==
  /\ due = {}
  /\ creating = "idle"
  /\ result' = "FALSE"
  /\ UNCHANGED <<tick, due, remaining, dataVars, creating, delay,
                 cyclic_requests_count, dispatched, late, sent>>

(* The slot is filled and the first delay computed. *)
CreateBegins(interval_ns, dispatch_offset_ns) ==
  LET slot     == cyclic_requests_count
      offset   == TicksOf(dispatch_offset_ns)
      interval == TicksOf(interval_ns)
  IN  /\ due = {}
      /\ creating = "idle"
      /\ ~Full
      /\ interval_ticks' = [interval_ticks EXCEPT ![slot] = interval]
      /\ next_wakeup_ticks' = [next_wakeup_ticks EXCEPT
                                 ![slot] = NextWakeup(offset, interval)]
      /\ delay' = Delta(offset, interval)
      /\ creating' = "fire"
      /\ UNCHANGED <<tick, due, remaining, result, cyclic_requests_count,
                     dispatched, late, sent>>

CreateFires ==
  /\ due = {}
  /\ creating = "fire"
  /\ FireAfter(cyclic_requests_count, delay)
  /\ cyclic_requests_count' = cyclic_requests_count + 1
  /\ delay' = 0
  /\ creating' = "idle"
  /\ result' = "TRUE"
  /\ UNCHANGED <<tick, due, dataVars, dispatched, late, sent>>

ThreadsCommon_CreateCyclicRequest ==
  \/ CreationFails
  \/ \E interval \in Intervals, offset \in Offsets :
       CreateBegins(interval, offset)
  \/ CreateFires

Next ==
  \/ Tick
  \/ \E i \in CyclicSlots : timer_callback(i)
  \/ ThreadsCommon_CreateCyclicRequest

Spec == Init /\ [][Next]_vars

(* The clock keeps ticking, its interrupt ends, and a call that has begun  *)
(* is not preempted for ever.                                              *)
CyclicFairness ==
  /\ WF_vars(Tick)
  /\ \A i \in CyclicSlots : WF_vars(timer_callback(i))
  /\ WF_vars(CreateFires)

FairSpec == Spec /\ CyclicFairness

-----------------------------------------------------------------------------
Armed(i)   == remaining[i] > 0 \/ i \in due
Created(i) == i < cyclic_requests_count

TypeOK ==
  /\ tick \in Interval
  /\ due \subseteq CyclicSlots
  /\ remaining \in [CyclicSlots -> Interval]
  /\ cyclic_requests_count \in 0 .. RT_MAX_CYCLIC_INTERFACES
  /\ next_wakeup_ticks \in [CyclicSlots -> Interval]
  /\ interval_ticks \in [CyclicSlots -> Interval]
  /\ creating \in {"idle", "fire"}
  /\ delay \in Interval
  /\ result \in {"none", "TRUE", "FALSE"}
  /\ dispatched \subseteq CyclicSlots
  /\ late \in [CyclicSlots -> 0 .. MaxPreemption]
  /\ sent \subseteq CyclicSlots
  /\ creating = "fire" => ~Full

(* An armed timer expires at its next_wakeup_ticks; only the first expiry  *)
(* is late, by the ticks its creation was preempted for, and the lateness  *)
(* is made up at the second (schedule_next_tick).                          *)
ExpiryOnSchedule ==
  \A i \in CyclicSlots :
    Armed(i) =>
      (tick + remaining[i]) % TickPeriod =
        (next_wakeup_ticks[i] + IF i \in sent THEN 0 ELSE late[i]) % TickPeriod

(* A timer that once expired and whose creation was preempted for less     *)
(* than its interval is armed for ever, and never for longer than its      *)
(* interval (timer_callback, schedule_next_tick).                          *)
TimelyKeepsGoing ==
  \A i \in sent :
    late[i] < interval_ticks[i] =>
      Armed(i) /\ remaining[i] <= interval_ticks[i]

(* ... so its request is sent again and again. *)
TimelySendsForever ==
  \A i \in CyclicSlots :
    [](i \in sent /\ late[i] < interval_ticks[i] => <>(i \in dispatched))

(* A request whose creation succeeded is sent (ThreadsCommon.h: the        *)
(* function "creates a timer that periodically sends a request").          *)
CreatedIsSent == \A i \in CyclicSlots : Created(i) ~> i \in sent
=============================================================================
