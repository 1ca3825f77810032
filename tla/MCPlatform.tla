----------------------------- MODULE MCPlatform -----------------------------
(***************************************************************************)
(* The cyclic requests of ThreadsCommon.c, the semaphores and the watchdog *)
(* of Hal.c, and the clock and the memory protection unit of               *)
(* CoreConfiguration, in one run.  They share no state, so a behaviour is  *)
(* of one of them: interleaving them would only multiply their states.     *)
(*                                                                         *)
(* A millisecond has 2 units, so that the odd intervals and offsets of     *)
(* cyclic requests are truncated: an interval of 1 is zero ticks, 3 is one *)
(* tick, 7 is three.                                                       *)
(***************************************************************************)
EXTENDS CyclicRequests, Semaphores, Watchdog, CoreConfiguration

VARIABLE part

PlatformInit ==
  /\ part \in {"cyclic", "semaphores", "watchdog", "clock", "mpu"}
  /\ Init
  /\ SemaphoresInit
  /\ WatchdogInit
  /\ CoreInit
  /\ part # "watchdog" => build = "neither"

CyclicPart ==
  /\ part = "cyclic"
  /\ Next
  /\ UNCHANGED <<part, semaphoreVars, watchdogVars, coreVars>>

SemaphoresPart ==
  /\ part = "semaphores"
  /\ SemaphoresNext
  /\ UNCHANGED <<part, vars, watchdogVars, coreVars>>

WatchdogPart ==
  /\ part = "watchdog"
  /\ WatchdogNext
  /\ UNCHANGED <<part, vars, semaphoreVars, coreVars>>

CorePart ==
  /\ \/ part = "clock" /\ SamV71Core_Init /\ UNCHANGED mpuVars
     \/ part = "mpu" /\ SamV71Core_DisableDataCacheInRegion /\ UNCHANGED clockVars
  /\ UNCHANGED <<part, vars, semaphoreVars, watchdogVars>>

PlatformNext == CyclicPart \/ SemaphoresPart \/ WatchdogPart \/ CorePart

(* The fairness of the modules, each for the behaviours of its part.       *)
PlatformFairness ==
  /\ WF_vars(part = "cyclic" /\ Tick)
  /\ \A i \in CyclicSlots : WF_vars(part = "cyclic" /\ timer_callback(i))
  /\ WF_vars(part = "cyclic" /\ CreateFires)
  /\ WF_semaphoreVars(part = "semaphores" /\ Start)
  /\ \A t \in Threads :
       /\ WF_semaphoreVars(part = "semaphores" /\ Resume(t))
       /\ WF_semaphoreVars(part = "semaphores" /\ BeginLeaving(t))
       /\ \A s \in KernelIds :
            WF_semaphoreVars(part = "semaphores" /\ Release(t, s))
  /\ WF_watchdogVars(part = "watchdog" /\ WatchdogCounts)
  /\ WF_watchdogVars(part = "watchdog" /\ WatchdogBites)

PlatformSpec ==
  /\ PlatformInit
  /\ [][PlatformNext]_<<part, vars, semaphoreVars, watchdogVars, coreVars>>
  /\ PlatformFairness
=============================================================================
