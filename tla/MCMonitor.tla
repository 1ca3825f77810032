------------------------------ MODULE MCMonitor ------------------------------
(***************************************************************************)
(* What Monitor.c records, in one run: the log of activations, the times   *)
(* and numbers of executed requests, the load of the processor and the use *)
(* of the stacks.  They share no state, so a behaviour is of one of them.  *)
(*                                                                         *)
(* The log has two writers, no slot or two, and enough calls to come round *)
(* the buffer.  Two ticks of the clock are three nanoseconds, so durations *)
(* are truncated, and the initial minimum is above some durations and      *)
(* below others.                                                           *)
(***************************************************************************)
EXTENDS ActivationLog, RequestProcessing, CpuUsage, StackUsage, TLC

CONSTANTS w1, w2

VARIABLE part

MonitorInit ==
  /\ part \in {"log", "requests", "cpu", "stack"}
  /\ Init
  /\ ProcessingInit
  /\ CpuInit
  /\ StackInit
  /\ part # "log" => size = 0

LogPart ==
  /\ part = "log"
  /\ Next
  /\ UNCHANGED <<part, processingVars, cpuVars, stackVars>>

RequestsPart ==
  /\ part = "requests"
  /\ ProcessingNext
  /\ UNCHANGED <<part, vars, cpuVars, stackVars>>

CpuPart ==
  /\ part = "cpu"
  /\ CpuNext
  /\ UNCHANGED <<part, vars, processingVars, stackVars>>

StackPart ==
  /\ part = "stack"
  /\ StackNext
  /\ UNCHANGED <<part, vars, processingVars, cpuVars>>

MonitorNext == LogPart \/ RequestsPart \/ CpuPart \/ StackPart

MonitorSpec ==
  /\ MonitorInit
  /\ [][MonitorNext]_<<part, vars, processingVars, cpuVars, stackVars>>

Symmetry == Permutations({w1, w2})
=============================================================================
