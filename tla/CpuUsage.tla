------------------------------ MODULE CpuUsage ------------------------------
(***************************************************************************)
(* The processor usage of Monitor.c.                                       *)
(*                                                                         *)
(* Monitor_MonitoringTick samples the share of the idle task and keeps its *)
(* minimum, maximum and average; Monitor_GetIdleCPUUsageData copies them   *)
(* from another thread, field after field.  Either may preempt the other   *)
(* at any step.  The share itself is what the kernel counted since         *)
(* Monitor_Init.                                                           *)
(*                                                                         *)
(* Averages are exact; the rounding of floats is left out.                 *)
(***************************************************************************)
EXTENDS Integers, Sequences, FiniteSetsExt

CONSTANTS
  Percents,         \* idle shares a tick may find
  MaxTicks,         \* bound: samples taken
  AverageScale      \* what averages are multiplied by to be whole numbers

ASSUME CpuUsageAssumption ==
  /\ Percents \subseteq Nat
  /\ MaxTicks \in Nat
  /\ AverageScale \in Nat \ {0}
  /\ \A n \in 1 .. MaxTicks : AverageScale % n = 0

VARIABLES
  tick,                  \* progress of Monitor_MonitoringTick
  benchmarking_ticks,
  idle_cpu_usage_data,   \* the average times AverageScale
  copy,                  \* progress and result of Monitor_GetIdleCPUUsageData
  sampled,               \* history: the samples
  sampledTotal           \* history: their sum

cpuVars == <<tick, benchmarking_ticks, idle_cpu_usage_data, copy, sampled,
             sampledTotal>>

Idle      == [step |-> "idle", percent |-> 0]
NotCopied == [step |-> "idle", maximum |-> 0, minimum |-> 0, average |-> 0,
              disturbed |-> FALSE]

CpuInit ==
  /\ tick = Idle
  /\ benchmarking_ticks = 0
  /\ idle_cpu_usage_data = [maximum |-> 0, minimum |-> 0, average |-> 0]
  /\ copy = NotCopied
  /\ sampled = <<>>
  /\ sampledTotal = 0

-----------------------------------------------------------------------------
(* Monitor_MonitoringTick *)

(* A copy in progress has its fields from different moments. *)
DisturbCopy ==
  copy' = IF copy.step \in {"minimum", "average"}
            THEN [copy EXCEPT !.disturbed = TRUE] ELSE copy

Sample ==
  /\ tick = Idle
  /\ benchmarking_ticks < MaxTicks
  /\ \E p \in Percents :
       /\ tick' = [step |-> "minimum", percent |-> p]
       /\ sampled' = Append(sampled, p)
       /\ sampledTotal' = sampledTotal + p
  /\ UNCHANGED <<benchmarking_ticks, idle_cpu_usage_data, copy>>

TickStep(from, to) ==
  /\ tick.step = from
  /\ tick' = [tick EXCEPT !.step = to]
  /\ UNCHANGED <<benchmarking_ticks, sampled, sampledTotal>>

UpdateMinimumUsage ==
  /\ TickStep("minimum", "maximum")
  /\ idle_cpu_usage_data' = [idle_cpu_usage_data EXCEPT
       !.minimum = IF tick.percent < @ THEN tick.percent ELSE @]
  /\ DisturbCopy

UpdateMaximumUsage ==
  /\ TickStep("maximum", "average")
  /\ idle_cpu_usage_data' = [idle_cpu_usage_data EXCEPT
       !.maximum = IF tick.percent > @ THEN tick.percent ELSE @]
  /\ DisturbCopy

(* A mutant of NewAverage: divides by the samples before this one. *)
NewAverage_Before(average, percent, ticks) ==
  average + (percent * AverageScale - average)
              \div (IF ticks = 0 THEN 1 ELSE ticks)
NewAverage(average, percent, ticks) ==
  average + (percent * AverageScale - average) \div (ticks + 1)

UpdateAverageUsage ==
  /\ TickStep("average", "count")
  /\ idle_cpu_usage_data' = [idle_cpu_usage_data EXCEPT
       !.average = NewAverage(@, tick.percent, benchmarking_ticks)]
  /\ DisturbCopy

CountTick ==
  /\ tick.step = "count"
  /\ tick' = Idle
  /\ benchmarking_ticks' = benchmarking_ticks + 1
  /\ UNCHANGED <<idle_cpu_usage_data, copy, sampled, sampledTotal>>

cpu_usage_visitor ==
  Sample \/ UpdateMinimumUsage \/ UpdateMaximumUsage \/ UpdateAverageUsage

Monitor_MonitoringTick == cpu_usage_visitor \/ CountTick

-----------------------------------------------------------------------------
(* Monitor_GetIdleCPUUsageData: the fields in the order of the structure. *)

CopyMaximum ==
  /\ copy.step \in {"idle", "done"}
  /\ copy' = [NotCopied EXCEPT !.step = "minimum",
                                !.maximum = idle_cpu_usage_data.maximum]

CopyMinimum ==
  /\ copy.step = "minimum"
  /\ copy' = [copy EXCEPT !.step = "average",
                          !.minimum = idle_cpu_usage_data.minimum]

CopyAverage ==
  /\ copy.step = "average"
  /\ copy' = [copy EXCEPT !.step = "done",
                          !.average = idle_cpu_usage_data.average]

Monitor_GetIdleCPUUsageData ==
  /\ CopyMaximum \/ CopyMinimum \/ CopyAverage
  /\ UNCHANGED <<tick, benchmarking_ticks, idle_cpu_usage_data, sampled,
                 sampledTotal>>

CpuNext == Monitor_MonitoringTick \/ Monitor_GetIdleCPUUsageData

CpuSpec == CpuInit /\ [][CpuNext]_cpuVars

-----------------------------------------------------------------------------
(* Properties *)

(* Between two ticks of Monitor_MonitoringTick the record is the maximum   *)
(* and the mean of all samples of the idle task's share.  A copy that      *)
(* Monitor_GetIdleCPUUsageData takes has an average above its maximum      *)
(* only if a tick ran during the copy.  Nothing is claimed of the minimum: *)
(* it starts at 0 and no share is less, so it is not that of the samples.  *)
IdleUsageOfTicks ==
  /\ tick = Idle =>
       LET n == Len(sampled)
       IN  /\ benchmarking_ticks = n
           /\ idle_cpu_usage_data.maximum =
                Max({sampled[i] : i \in 1 .. n} \cup {0})
           /\ idle_cpu_usage_data.average * n =
                AverageScale * sampledTotal
  /\ (copy.step = "done" /\ ~copy.disturbed) =>
       copy.average <= AverageScale * copy.maximum
=============================================================================
