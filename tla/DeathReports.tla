----------------------------- MODULE DeathReports -----------------------------
(***************************************************************************)
(* Faults of the processor, and the death report that survives the reset   *)
(* they end in (FaultHandler.c, CustomExceptionVector.c,                   *)
(* DeathReportWriter.c, BootHelper.c).                                     *)
(*                                                                         *)
(* A fault enters Fault_Handler, which copies the registers into a report  *)
(* at a fixed address, saves the stack, marks the report unseen, computes  *)
(* its checksum, cleans the data cache and resets the system.  Reading the *)
(* stack may itself fault: out of a usage fault that is a hard fault,      *)
(* handled by the same handler; out of a hard fault the processor locks    *)
(* up.  The cache may write back any part of the report at any time, and a *)
(* reset from outside may come between any two steps; what memory then     *)
(* holds is what the boot software finds.                                  *)
(*                                                                         *)
(* The parts of a report, down to the words of the stack, are named by the *)
(* fault they were written for.                                            *)
(* The 16-bit CRC is ideal: it is the data it was computed over.           *)
(***************************************************************************)
EXTENDS Integers

CONSTANTS
  DEATH_REPORT_STACK_TRACE_SIZE,   \* words of stack a report has room for
  MaxFaults,       \* bound: faults in a behaviour
  WatchdogBuilds   \* values of "the watchdog is enabled" in the builds considered

ASSUME ReportsAssumption ==
  /\ DEATH_REPORT_STACK_TRACE_SIZE \in Nat
  /\ MaxFaults \in Nat
  /\ WatchdogBuilds \subseteq BOOLEAN

VARIABLES
  watchdog,             \* RT_RTOS_USE_WATCHDOG
  cpu,                  \* what the processor does
  active,               \* the exception it handles
  usageFaultEnabled,    \* SHCSR.USGFAULTENA
  cache, memory,        \* the report as the processor and as a reset sees it
  reset_type,           \* Rstc_getLastResetType
  faults                \* history: faults so far, the last one handled now

vars == <<watchdog, cpu, active, usageFaultEnabled, cache, memory, reset_type,
          faults>>

Faults  == 0 .. MaxFaults       \* 0: none, garbage
Causes  == {"memManage", "busFault", "usageFault"}
Words   == 1 .. DEATH_REPORT_STACK_TRACE_SIZE
Lengths == 0 .. DEATH_REPORT_STACK_TRACE_SIZE
Fields  == {"exception_id", "registers", "stack_trace_length", "was_seen",
            "checksum"}        \* and the words of the stack_trace
Garbage == << >>               \* no report has this checksum

Init ==
  /\ watchdog \in WatchdogBuilds
  /\ cpu = "boot"
  /\ active = "none"
  /\ usageFaultEnabled = FALSE
  /\ memory = [exception_id |-> "none", registers |-> 0,
               stack_trace_length |-> 0, stack_trace |-> [i \in Words |-> 0],
               was_seen |-> FALSE, checksum |-> Garbage]
  /\ cache = memory
  /\ reset_type \in {"Powerup", "Backup"}
  /\ faults = 0

-----------------------------------------------------------------------------
(* Mutant: a checksum that leaves the stack out. *)
calculate_report_crc_NoStack(report) ==
  <<report.exception_id, report.registers, report.stack_trace_length,
    report.was_seen>>

(* Everything behind the checksum itself. *)
calculate_report_crc(report) ==
  <<report.exception_id, report.registers, report.stack_trace_length,
    report.stack_trace, report.was_seen>>

Valid(report) == report.checksum = calculate_report_crc(report)

(* Mutant: all configurable faults taken by name. *)
Taken_ByName(cause) ==
  IF usageFaultEnabled /\ active = "none" THEN cause ELSE "HardFault"

(* The exception a cause is taken as: bus and memory faults are not        *)
(* enabled, and a fault of a handler is a hard fault.                      *)
Taken(cause) ==
  IF cause = "usageFault" /\ usageFaultEnabled /\ active = "none"
    THEN "UsageFault" ELSE "HardFault"

(* The steps of the handler, in their order. *)
Handling == {"entry", "stack", "seal", "clean", "reset"}

(* Mutant: the initialization erases the report. *)
FaultHandler_Init_Erases ==
  \/ /\ cpu = "boot"
     /\ cpu' = "init"
     /\ usageFaultEnabled' = TRUE
     /\ UNCHANGED <<watchdog, active, cache, memory, reset_type, faults>>
  \/ /\ cpu = "init"
     /\ cpu' = "app"
     /\ cache' = [cache EXCEPT !.checksum = Garbage]
     /\ UNCHANGED <<watchdog, active, usageFaultEnabled, memory, reset_type,
                    faults>>

(* Usage faults on; then the vectors of all faults are Fault_Handler's.    *)
FaultHandler_Init ==
  \/ /\ cpu = "boot"
     /\ cpu' = "init"
     /\ usageFaultEnabled' = TRUE
     /\ UNCHANGED <<watchdog, active, cache, memory, reset_type, faults>>
  \/ /\ cpu = "init"
     /\ cpu' = "app"
     /\ UNCHANGED <<watchdog, active, usageFaultEnabled, cache, memory,
                    reset_type, faults>>

(* Before that RTEMS handles the fault: the program stops (external). *)
EarlyFault ==
  /\ cpu \in {"boot", "init"}
  /\ cpu' = "stopped"
  /\ UNCHANGED <<watchdog, active, usageFaultEnabled, cache, memory, reset_type,
                 faults>>

Fault(cause) ==
  /\ cpu = "app"
  /\ faults < MaxFaults
  /\ faults' = faults + 1
  /\ active' = Taken(cause)
  /\ cpu' = "entry"
  /\ UNCHANGED <<watchdog, usageFaultEnabled, cache, memory, reset_type>>

(* Exception number and registers; the watchdog is restarted, so it does   *)
(* not end the handler.                                                    *)
Fault_Handler ==
  /\ cpu = "entry"
  /\ cache' = [cache EXCEPT !.exception_id = active, !.registers = faults]
  /\ cpu' = "stack"
  /\ UNCHANGED <<watchdog, active, usageFaultEnabled, memory, reset_type, faults>>

(* The first words replaced, the others as an earlier fault left them.     *)
Copied(trace, words) == [i \in Words |-> IF i <= words THEN faults ELSE trace[i]]

(* The length depends on where the stack pointer is. *)
save_stack ==
  /\ cpu = "stack"
  /\ \E length \in Lengths :
       cache' = [cache EXCEPT !.stack_trace_length = length,
                              !.stack_trace = Copied(@, length)]
  /\ cpu' = "seal"
  /\ UNCHANGED <<watchdog, active, usageFaultEnabled, memory, reset_type, faults>>

(* The stack pointer, or the end of the stack, is wild: reading the frame  *)
(* (the exception number is stored by then) or a word of the stack faults. *)
FrameFaults ==
  /\ cpu = "entry"
  /\ cache' = [cache EXCEPT !.exception_id = active]

StackFaults ==
  /\ cpu = "stack"
  /\ \E length \in Lengths : \E words \in 0 .. length - 1 :
       cache' = [cache EXCEPT !.stack_trace_length = length,
                              !.stack_trace = Copied(@, words)]

HandlerFaults ==
  /\ FrameFaults \/ StackFaults
  /\ IF active = "HardFault"
       THEN /\ cpu' = "lockup"
            /\ UNCHANGED <<active, faults>>
       ELSE /\ faults < MaxFaults
            /\ faults' = faults + 1
            /\ active' = Taken("busFault")
            /\ cpu' = "entry"
  /\ UNCHANGED <<watchdog, usageFaultEnabled, memory, reset_type>>

(* Mutant: the checksum is computed, then the report marked unseen. *)
SealReport_ChecksumFirst ==
  /\ cpu = "seal"
  /\ cache' = [cache EXCEPT !.was_seen = FALSE,
                            !.checksum = calculate_report_crc(cache)]
  /\ cpu' = "clean"
  /\ UNCHANGED <<watchdog, active, usageFaultEnabled, memory, reset_type, faults>>

(* The rest of DeathReportWriter_GenerateDeathReport. *)
SealReport ==
  /\ cpu = "seal"
  /\ LET unseen == [cache EXCEPT !.was_seen = FALSE]
     IN  cache' = [unseen EXCEPT !.checksum = calculate_report_crc(unseen)]
  /\ cpu' = "clean"
  /\ UNCHANGED <<watchdog, active, usageFaultEnabled, memory, reset_type, faults>>

CleanDCache ==
  /\ cpu = "clean"
  /\ memory' = cache
  /\ cpu' = "reset"
  /\ UNCHANGED <<watchdog, active, usageFaultEnabled, cache, reset_type, faults>>

(* The processor starts anew with what memory holds. *)
Reset(type) ==
  /\ reset_type' = type
  /\ cpu' = "boot"
  /\ active' = "none"
  /\ usageFaultEnabled' = FALSE
  /\ cache' = memory
  /\ UNCHANGED <<watchdog, memory, faults>>

(* Mutant: the reset is not requested, and the handler loops. *)
ResetSystem_Loop == cpu = "reset" /\ UNCHANGED vars

(* Rstc_resetSystem *)
ResetSystem == cpu = "reset" /\ Reset("Software")

Fault_HandlerTail ==
  save_stack \/ SealReport \/ CleanDCache \/ ResetSystem

-----------------------------------------------------------------------------
(* The rest of the world (external). *)

WriteBackField(field) ==
  /\ memory[field] # cache[field]
  /\ memory' = [memory EXCEPT ![field] = cache[field]]

WriteBackWord(i) ==
  /\ memory.stack_trace[i] # cache.stack_trace[i]
  /\ memory' = [memory EXCEPT !.stack_trace[i] = cache.stack_trace[i]]

WriteBack ==
  /\ \/ \E field \in Fields : WriteBackField(field)
     \/ \E i \in Words : WriteBackWord(i)
  /\ UNCHANGED <<watchdog, cpu, active, usageFaultEnabled, cache, reset_type,
                 faults>>

WatchdogReset ==
  /\ watchdog
  /\ cpu \notin Handling
  /\ Reset("Watchdog")

UserReset == Reset("User")

(* The power of the core is cut, or was in the backup mode. *)
PowerCycle ==
  /\ watchdog' = watchdog
  /\ memory' = [memory EXCEPT !.checksum = Garbage]
  /\ cache' = memory'
  /\ cpu' = "boot"
  /\ active' = "none"
  /\ usageFaultEnabled' = FALSE
  /\ reset_type' \in {"Powerup", "Backup"}
  /\ UNCHANGED faults

(* The boot software reads the report and marks it seen. *)
BootSoftwareReads ==
  /\ cpu = "boot"
  /\ Valid(memory)
  /\ ~memory.was_seen
  /\ LET seen == [memory EXCEPT !.was_seen = TRUE]
     IN  memory' = [seen EXCEPT !.checksum = calculate_report_crc(seen)]
  /\ cache' = memory'
  /\ UNCHANGED <<watchdog, cpu, active, usageFaultEnabled, reset_type, faults>>

BootHelper_GetResetReason ==
  CASE reset_type = "Powerup"  -> "Reset_Reason_Powerup"
    [] reset_type = "Backup"   -> "Reset_Reason_Backup"
    [] reset_type = "Watchdog" -> "Reset_Reason_Watchdog"
    [] reset_type = "Software" -> "Reset_Reason_Software"
    [] reset_type = "User"     -> "Reset_Reason_User"
    [] OTHER                   -> "Reset_Reason_Unknown"

Next ==
  \/ FaultHandler_Init
  \/ EarlyFault
  \/ \E cause \in Causes : Fault(cause)
  \/ Fault_Handler
  \/ Fault_HandlerTail
  \/ HandlerFaults
  \/ WriteBack
  \/ WatchdogReset
  \/ UserReset
  \/ PowerCycle
  \/ BootSoftwareReads

Spec == Init /\ [][Next]_vars

(* The processor executes its handler, and an enabled watchdog is not fed  *)
(* by a processor that has locked up.                                      *)
Fairness ==
  /\ WF_vars(Fault_Handler)
  /\ WF_vars(Fault_HandlerTail)
  /\ WF_vars(cpu = "lockup" /\ WatchdogReset)

FairSpec == Spec /\ Fairness

-----------------------------------------------------------------------------
Places     == {"boot", "init", "app", "stopped", "lockup"} \cup Handling
Exceptions == {"HardFault", "UsageFault"}
Traces     == [Words -> Faults]
Checksums  == (Exceptions \cup {"none"}) \X Faults \X Lengths \X Traces \X BOOLEAN
Resets     == {"Powerup", "Backup", "Watchdog", "Software", "User"}
Reports ==
  [exception_id       : Exceptions \cup {"none"},
   registers          : Faults,
   stack_trace_length : Lengths,
   stack_trace        : Traces,
   was_seen           : BOOLEAN,
   checksum           : {Garbage} \cup Checksums]

TypeOK ==
  /\ watchdog \in WatchdogBuilds
  /\ cpu \in Places
  /\ active \in Exceptions \cup {"none"}
  /\ (active = "none") <=> (cpu \notin Handling \cup {"lockup"})
  /\ usageFaultEnabled \in BOOLEAN
  /\ cache \in Reports
  /\ memory \in Reports
  /\ reset_type \in Resets
  /\ faults \in Faults

(* The words behind the length may be of earlier faults. *)
OfOneFault(report) ==
  \A i \in 1 .. report.stack_trace_length :
    report.stack_trace[i] = report.registers

(* A report whose checksum is right has the registers and the stack of one *)
(* fault, wherever the handler that wrote it was cut off, by a reset or by *)
(* a fault of its own (DeathReportWriter_GenerateDeathReport).             *)
ValidReportIsOfOneFault == Valid(memory) => OfOneFault(memory)

(* When the program starts and is told that the reset was one by software, *)
(* the report of the fault that led to it is there, valid, and not yet     *)
(* seen unless the boot software has looked at it (Fault_HandlerTail).     *)
SoftwareResetHasReport ==
  BootHelper_GetResetReason = "Reset_Reason_Software" /\ cpu \in {"boot", "init"} =>
    /\ Valid(memory)
    /\ memory.registers = faults
    /\ cache = memory

(* A report the boot software has not seen stays until it is seen, memory  *)
(* loses it, or the handler of a later fault replaces it.                  *)
UnseenReportIsKept ==
  [][Valid(memory) /\ ~memory.was_seen /\ ~Valid(memory') =>
       PowerCycle \/ cpu \in Handling \cup {"lockup"}]_vars

(* Every fault ends in a restart, except a fault of the handler of a hard  *)
(* fault in a build without the watchdog.                                  *)
FaultLeadsToRestart ==
  cpu = "entry" ~> cpu = "boot" \/ (cpu = "lockup" /\ ~watchdog)
=============================================================================
