-------------------------- MODULE RequestProcessing --------------------------
(***************************************************************************)
(* ThreadsCommon_ProcessRequest: a thread runs the user function of a      *)
(* request between two readings of the clock and brings the minimum, the   *)
(* maximum, the mean and the number of its execution times up to date.     *)
(* Monitor_GetUsageData reads them from another thread, field by field.    *)
(*                                                                         *)
(* The clock is the abstract one of Clock.  HalClock implements it as long *)
(* as the 32-bit product of Hal_GetElapsedTimeInNs does not overflow; what *)
(* follows is about requests processed before that.  Storing an activation *)
(* in the log reads the clock too, so it overtakes the calls it preempts;  *)
(* the log itself is ActivationLog.                                        *)
(*                                                                         *)
(* One processor, preemptive priorities: a thread is named by its          *)
(* priority.  A user function may block, so threads below it may run.      *)
(*                                                                         *)
(* 64-bit fields are taken to be read and written whole.  The mean is      *)
(* exact: rounding of doubles is left out.                                 *)
(***************************************************************************)
EXTENDS Integers, Sequences, FiniteSetsExt

CONSTANTS
  Threads,          \* priorities of the threads that process requests
  Reader,           \* priority of the thread that reads the statistics
  TICKS_PER_RELOAD, \* how far an overtaken call may be behind
  InitialMinima,    \* minimum before the first execution: the generated
                    \* table decides it, the one in Mocks has 0
  NANOSECOND_IN_SECOND, ClockFrequency,   \* the clock's conversion
  Word,             \* 2^64
  Scale,            \* what means are multiplied by to be whole numbers
  MaxTime,          \* bound: the last instant
  MaxRuns,          \* bound: requests a thread processes
  AllRuns           \* bound: requests processed before the last one begins

(* The truncating conversion at the end of Hal_GetElapsedTimeInNs. *)
Ns(t) == (t * NANOSECOND_IN_SECOND) \div ClockFrequency

ASSUME ProcessingAssumption ==
  /\ Threads \subseteq Nat
  /\ Reader \in Nat \ Threads
  /\ TICKS_PER_RELOAD \in Nat
  /\ MaxTime \in Nat /\ MaxRuns \in Nat /\ AllRuns \in Nat
  /\ NANOSECOND_IN_SECOND \in Nat
  /\ ClockFrequency \in Nat \ {0}
  /\ Word \in Nat /\ Word > Ns(MaxTime)
  /\ InitialMinima \subseteq 0 .. Word - 1
  /\ Scale \in Nat \ {0}
  /\ \A n \in 1 .. MaxRuns : Scale % n = 0

VARIABLES
  time, began, overtaken, elapsed,  \* the clock
  pc,                               \* next step of each thread
  time_before_execution,
  thread_execution_time,
  min_thread_execution_time,
  max_thread_execution_time,
  mean_thread_execution_time,       \* times Scale
  execution_time_counter,
  reading,                          \* the reader's call
  bounds,                           \* history: how long it may have run, and
                                    \* whether a reading was overtaken
  samples,                          \* history: measured execution times
  total,                            \* history: their sum
  initial                           \* history: the initial minimum

C == INSTANCE Clock WITH Callers <- Threads, ToNs <- Ns

clockVars == <<time, began, overtaken, elapsed>>
infoVars  == <<thread_execution_time, min_thread_execution_time,
               max_thread_execution_time, mean_thread_execution_time,
               execution_time_counter>>
histVars  == <<bounds, samples, total, initial>>
processingVars ==
  <<clockVars, pc, time_before_execution, infoVars, reading, histVars>>

NoBounds   == [least |-> 0, most |-> 0, exact |-> TRUE]
NotReading == [step |-> "idle", interface |-> Reader, disturbed |-> FALSE,
               counted |-> FALSE, max |-> 0, min |-> 0, average |-> 0]

ProcessingInit ==
  /\ C!ClockInit
  /\ pc = [t \in Threads |-> "idle"]
  /\ time_before_execution = [t \in Threads |-> 0]
  /\ thread_execution_time = [t \in Threads |-> 0]
  /\ initial \in InitialMinima
  /\ min_thread_execution_time = [t \in Threads |-> initial]
  /\ max_thread_execution_time = [t \in Threads |-> 0]
  /\ mean_thread_execution_time = [t \in Threads |-> 0]
  /\ execution_time_counter = [t \in Threads |-> 0]
  /\ reading = NotReading
  /\ bounds = [t \in Threads |-> NoBounds]
  /\ samples = [t \in Threads |-> <<>>]
  /\ total = [t \in Threads |-> 0]

-----------------------------------------------------------------------------
(* Scheduling *)

(* A thread runs unless one above it does; a user function may be blocked. *)
Runs(p) ==
  /\ \A u \in Threads : u > p => pc[u] \in {"idle", "user"}
  /\ Reader > p => reading.step = "idle"

Step(t, from, to) ==
  /\ Runs(t)
  /\ pc[t] = from
  /\ pc' = [pc EXCEPT ![t] = to]

Tick ==
  /\ time' \in time + 1 .. MaxTime
  /\ C!Advance
  /\ UNCHANGED <<pc, time_before_execution, infoVars, reading, histVars>>

-----------------------------------------------------------------------------
(* ThreadsCommon_ProcessRequest *)

(* The log stores the entry, reading the clock, or is frozen. *)
LogReadsClock ==
  /\ overtaken' \in {overtaken, overtaken \cup C!Calling}
  /\ UNCHANGED <<time, began, elapsed>>

Monitor_IndicateInterfaceActivated(t) ==
  /\ Step(t, "idle", "activated")
  /\ Len(samples[t]) < MaxRuns
  /\ MapThenSumSet(LAMBDA u : Len(samples[u]), Threads) < AllRuns
  /\ LogReadsClock
  /\ UNCHANGED <<time_before_execution, infoVars, reading, histVars>>

BeginBefore(t) ==
  /\ Step(t, "activated", "readsBefore")
  /\ C!Begin(t)
  /\ UNCHANGED <<time_before_execution, infoVars, reading, histVars>>

(* The user function runs from here until BeginAfter. *)
ReturnBefore(t) ==
  /\ Step(t, "readsBefore", "user")
  /\ C!Return(t)
  /\ time_before_execution' = [time_before_execution EXCEPT ![t] = elapsed'[t]]
  /\ bounds' = [bounds EXCEPT ![t] =
       [least |-> Ns(time), most |-> Ns(C!Earliest(t)),
        exact |-> t \notin overtaken]]
  /\ UNCHANGED <<infoVars, reading, samples, total, initial>>

BeginAfter(t) ==
  /\ Step(t, "user", "readsAfter")
  /\ C!Begin(t)
  /\ UNCHANGED <<time_before_execution, infoVars, reading, histVars>>

ReturnAfter(t) ==
  /\ Step(t, "readsAfter", "executed")
  /\ C!Return(t)
  /\ bounds' = [bounds EXCEPT ![t] =
       [least |-> Ns(C!Earliest(t)) - @.least, most |-> Ns(time) - @.most,
        exact |-> @.exact /\ t \notin overtaken]]
  /\ UNCHANGED <<time_before_execution, infoVars, reading, samples, total,
                 initial>>

Monitor_IndicateInterfaceDeactivated(t) ==
  /\ Step(t, "executed", "deactivated")
  /\ LogReadsClock
  /\ UNCHANGED <<time_before_execution, infoVars, reading, histVars>>

(* A mutant of Measured: the difference is taken the wrong way round. *)
Measured_Reversed(before, after) == (before - after) % Word
Measured(before, after) == (after - before) % Word

Measure(t) ==
  /\ Step(t, "deactivated", "minimum")
  /\ thread_execution_time' = [thread_execution_time EXCEPT
       ![t] = Measured(time_before_execution[t], elapsed[t])]
  /\ samples' = [samples EXCEPT ![t] = Append(@, thread_execution_time'[t])]
  /\ total' = [total EXCEPT ![t] = @ + thread_execution_time'[t]]
  /\ time_before_execution' = [time_before_execution EXCEPT ![t] = 0]
  /\ UNCHANGED <<clockVars, min_thread_execution_time,
                 max_thread_execution_time, mean_thread_execution_time,
                 execution_time_counter, reading, bounds, initial>>

-----------------------------------------------------------------------------
(* update_execution_time_data.  A reader whose call is about this thread   *)
(* learns that its fields are of different moments.                        *)

Disturb(t) ==
  reading' = IF reading.interface = t
               THEN [reading EXCEPT !.disturbed = TRUE] ELSE reading

UpdateMinimum(t) ==
  /\ Step(t, "minimum", "maximum")
  /\ min_thread_execution_time' = [min_thread_execution_time EXCEPT
       ![t] = IF thread_execution_time[t] < @
                THEN thread_execution_time[t] ELSE @]
  /\ Disturb(t)
  /\ bounds' = [bounds EXCEPT ![t] = NoBounds]
  /\ UNCHANGED <<clockVars, time_before_execution, thread_execution_time,
                 max_thread_execution_time, mean_thread_execution_time,
                 execution_time_counter, samples, total, initial>>

(* A mutant of NewMaximum: the comparison the wrong way round. *)
NewMaximum_Lower(old, sample) == IF sample < old THEN sample ELSE old
NewMaximum(old, sample) == IF sample > old THEN sample ELSE old

UpdateMaximum(t) ==
  /\ Step(t, "maximum", "mean")
  /\ max_thread_execution_time' = [max_thread_execution_time EXCEPT
       ![t] = NewMaximum(@, thread_execution_time[t])]
  /\ Disturb(t)
  /\ UNCHANGED <<clockVars, time_before_execution, thread_execution_time,
                 min_thread_execution_time, mean_thread_execution_time,
                 execution_time_counter, histVars>>

(* A mutant of NewMean: divides as if the sample were already counted. *)
NewMean_Counted(mean, sample, count) ==
  mean + (sample * Scale - mean) \div (count + 2)
NewMean(mean, sample, count) ==
  mean + (sample * Scale - mean) \div (count + 1)

UpdateMean(t) ==
  /\ Step(t, "mean", "counter")
  /\ mean_thread_execution_time' = [mean_thread_execution_time EXCEPT
       ![t] = NewMean(@, thread_execution_time[t], execution_time_counter[t])]
  /\ Disturb(t)
  /\ UNCHANGED <<clockVars, time_before_execution, thread_execution_time,
                 min_thread_execution_time, max_thread_execution_time,
                 execution_time_counter, histVars>>

UpdateCounter(t) ==
  /\ Step(t, "counter", "idle")
  /\ execution_time_counter' = [execution_time_counter EXCEPT ![t] = @ + 1]
  /\ UNCHANGED <<clockVars, time_before_execution, thread_execution_time,
                 min_thread_execution_time, max_thread_execution_time,
                 mean_thread_execution_time, reading, histVars>>

update_execution_time_data(t) ==
  UpdateMinimum(t) \/ UpdateMaximum(t) \/ UpdateMean(t) \/ UpdateCounter(t)

ThreadsCommon_ProcessRequest(t) ==
  \/ Monitor_IndicateInterfaceActivated(t)
  \/ BeginBefore(t) \/ ReturnBefore(t)
  \/ BeginAfter(t) \/ ReturnAfter(t)
  \/ Monitor_IndicateInterfaceDeactivated(t)
  \/ Measure(t)
  \/ update_execution_time_data(t)

-----------------------------------------------------------------------------
(* Monitor_GetUsageData: the maximum, the minimum, the average. *)

unchangedByReader ==
  <<clockVars, pc, time_before_execution, infoVars, histVars>>

ReadMaximum(i) ==
  /\ Runs(Reader)
  /\ reading.step = "idle"
  /\ reading' = [reading EXCEPT !.step = "minimum", !.interface = i,
                   !.counted = execution_time_counter[i] > 0,
                   !.max = max_thread_execution_time[i]]
  /\ UNCHANGED unchangedByReader

ReadMinimum ==
  /\ Runs(Reader)
  /\ reading.step = "minimum"
  /\ reading' = [reading EXCEPT !.step = "average",
                   !.min = min_thread_execution_time[reading.interface]]
  /\ UNCHANGED unchangedByReader

(* The conversion from double to uint64_t drops the fraction. *)
ReadAverage ==
  /\ Runs(Reader)
  /\ reading.step = "average"
  /\ reading' = [reading EXCEPT !.step = "done",
                   !.average = mean_thread_execution_time[reading.interface]
                                 \div Scale]
  /\ UNCHANGED unchangedByReader

ReturnUsage ==
  /\ Runs(Reader)
  /\ reading.step = "done"
  /\ reading' = NotReading
  /\ UNCHANGED unchangedByReader

Monitor_GetUsageData ==
  \/ \E i \in Threads : ReadMaximum(i)
  \/ ReadMinimum \/ ReadAverage \/ ReturnUsage

ProcessingNext ==
  \/ Tick
  \/ \E t \in Threads : ThreadsCommon_ProcessRequest(t)
  \/ Monitor_GetUsageData

ProcessingSpec ==
  ProcessingInit /\ [][ProcessingNext]_processingVars

-----------------------------------------------------------------------------
(* Properties *)

(* The execution time ThreadsCommon_ProcessRequest measures is not less    *)
(* than the time between the end of the first reading and the beginning of *)
(* the last, which is the user function's, and not more than that between  *)
(* the beginning of the first and the end of the last: the unsigned        *)
(* difference does not wrap round.  So it is if no other call of           *)
(* Hal_GetElapsedTimeInNs began during either reading, hence always for    *)
(* the thread of highest priority.                                         *)
MeasuredWithinCall ==
  \A t \in Threads :
    /\ pc[t] = "minimum"
    /\ bounds[t].exact \/ (\A u \in Threads : u <= t)
    => /\ bounds[t].least <= thread_execution_time[t]
       /\ thread_execution_time[t] <= bounds[t].most

(* Between two requests the four fields that update_execution_time_data    *)
(* keeps incrementally are the minimum, maximum, mean and number of all    *)
(* the execution times measured, however the requests were interleaved;    *)
(* the minimum starts where the table says, and at 0 it stays 0.           *)
StatisticsOfHistory ==
  \A t \in Threads :
    LET n == Len(samples[t])
        all == {samples[t][i] : i \in 1 .. n}
    IN  pc[t] = "idle" =>
          /\ execution_time_counter[t] = n
          /\ min_thread_execution_time[t] = Min(all \cup {initial})
          /\ max_thread_execution_time[t] = Max(all \cup {0})
          /\ mean_thread_execution_time[t] * n = Scale * total[t]

(* What Monitor_GetUsageData returns for an interface that had executed    *)
(* when the call began: the minimum never exceeds the maximum, although    *)
(* updates run between the reads of the two and reads between the updates. *)
(* The average lies between them unless an update ran during the call.     *)
UsageBoundsOrdered ==
  (reading.step = "done" /\ reading.counted) =>
    /\ reading.min <= reading.max
    /\ ~reading.disturbed =>
         reading.min <= reading.average /\ reading.average <= reading.max
=============================================================================
