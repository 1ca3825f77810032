-------------------------- MODULE DeathReportsProofs --------------------------
(***************************************************************************)
(* Proofs about DeathReports: for any number of faults and stack traces of *)
(* any size, with and without the watchdog, a report with a right checksum *)
(* is the report of one fault, a program told of a software reset finds    *)
(* the report of the latest, and a report nobody has seen is kept.         *)
(*                                                                         *)
(* None of the properties is inductive by itself: the first needs that     *)
(* only sealed reports have a checksum at all, the second follows the      *)
(* report through the steps of the handler, and the third needs that       *)
(* outside the handler the cache has nothing to write back.                *)
(***************************************************************************)
EXTENDS DeathReports, TLAPS

(* A checksum was computed over the parts of one fault, if at all. *)
Sealed(report) ==
  \/ report.checksum = Garbage
  \/ \E id \in Exceptions \cup {"none"}, n \in Faults, l \in Lengths,
        w \in Traces, seen \in BOOLEAN :
       /\ report.checksum = <<id, n, l, w, seen>>
       /\ \A i \in 1 .. l : w[i] = n

SealedInv == Sealed(cache) /\ Sealed(memory)

(* How far the handler has come with the report of the latest fault. *)
ProgressInv ==
  /\ cpu \in {"stack", "seal", "clean", "reset"} => cache.registers = faults
  /\ cpu \in {"seal", "clean", "reset"} => OfOneFault(cache)
  /\ cpu \in {"clean", "reset"} => Valid(cache)
  /\ cpu = "reset" => memory = cache

(* What a software reset has left. *)
AfterReset ==
  cpu \in {"boot", "init"} /\ reset_type = "Software" =>
    /\ Valid(memory)
    /\ memory.registers = faults
    /\ cache = memory

-----------------------------------------------------------------------------
(* A tuple is not the empty sequence, so a sealed report that is valid     *)
(* holds the parts of one fault.                                           *)
LEMMA SealedValid ==
  ASSUME NEW report \in Reports, Sealed(report), Valid(report)
  PROVE  OfOneFault(report)
<1>1. report.checksum # Garbage
  BY DEF Valid, calculate_report_crc, Garbage
<1>2. PICK id \in Exceptions \cup {"none"}, n \in Faults, l \in Lengths,
           w \in Traces, seen \in BOOLEAN :
        /\ report.checksum = <<id, n, l, w, seen>>
        /\ \A i \in 1 .. l : w[i] = n
  BY <1>1 DEF Sealed
<1>3. <<report.exception_id, report.registers, report.stack_trace_length,
        report.stack_trace, report.was_seen>> = <<id, n, l, w, seen>>
  BY <1>2 DEF Valid, calculate_report_crc
<1>4. /\ report.registers = n /\ report.stack_trace_length = l
      /\ report.stack_trace = w
  BY <1>3
<1> QED
  BY <1>2, <1>4 DEF OfOneFault

(* The checksum of a report is a checksum. *)
LEMMA ChecksumType ==
  ASSUME NEW report \in Reports
  PROVE  calculate_report_crc(report) \in Checksums
  BY DEF calculate_report_crc, Reports, Checksums

(* So is what copying the stack leaves, as far as it got.                  *)
LEMMA CopiedTrace ==
  ASSUME NEW trace \in Traces, NEW words \in Int, faults \in Faults
  PROVE  /\ Copied(trace, words) \in Traces
         /\ \A i \in Words : i <= words => Copied(trace, words)[i] = faults
  BY DEF Copied, Traces

LEMMA WordWithinLength ==
  ASSUME NEW length \in Lengths, NEW i \in 1 .. length
  PROVE  i \in Words /\ i <= length
  BY ReportsAssumption DEF Lengths, Words

(* Writing back one part of a report leaves a report. *)
LEMMA WriteBackType ==
  ASSUME NEW m \in Reports, NEW c \in Reports, NEW field \in Fields
  PROVE  [m EXCEPT ![field] = c[field]] \in Reports
<1>1. CASE field = "exception_id"
  BY <1>1 DEF Reports
<1>2. CASE field = "registers"
  BY <1>2 DEF Reports
<1>3. CASE field = "stack_trace_length"
  BY <1>3 DEF Reports
<1>4. CASE field = "was_seen"
  BY <1>4 DEF Reports
<1>5. CASE field = "checksum"
  BY <1>5 DEF Reports
<1> QED
  BY <1>1, <1>2, <1>3, <1>4, <1>5 DEF Fields

LEMMA WriteBackWordType ==
  ASSUME NEW m \in Reports, NEW c \in Reports, NEW i \in Words
  PROVE  /\ [m EXCEPT !.stack_trace[i] = c.stack_trace[i]] \in Reports
         /\ [m EXCEPT !.stack_trace[i] = c.stack_trace[i]].checksum
              = m.checksum
<1>1. m.stack_trace \in Traces /\ c.stack_trace[i] \in Faults
  BY DEF Reports, Traces
<1>2. [m.stack_trace EXCEPT ![i] = c.stack_trace[i]] \in Traces
  BY <1>1 DEF Traces
<1> QED
  BY <1>2 DEF Reports

-----------------------------------------------------------------------------
(* Type correctness of the fault handling: an exception is active exactly  *)
(* while the handler works or the processor is locked up, and whatever     *)
(* faults, resets and write-backs do, cache and memory hold a report.      *)
LEMMA TypeInit == Init => TypeOK
<1> SUFFICES ASSUME Init
             PROVE  TypeOK
  OBVIOUS
<1>1. memory \in Reports
  <2>1. [i \in Words |-> 0] \in Traces /\ 0 \in Lengths /\ 0 \in Faults
    BY ReportsAssumption DEF Traces, Faults, Lengths
  <2> QED
    BY <2>1 DEF Init, Reports
<1>2. cache \in Reports
  BY <1>1 DEF Init
<1>3. watchdog \in WatchdogBuilds
  BY Zenon DEF Init
<1>4. cpu \in Places /\ cpu \notin Handling \cup {"lockup"}
  BY DEF Init, Places, Handling
<1>5. active = "none" /\ usageFaultEnabled \in BOOLEAN /\ reset_type \in Resets
  BY Zenon DEF Init, Resets
<1>6. faults \in Faults
  BY ReportsAssumption DEF Init, Faults
<1> QED
  BY <1>1, <1>2, <1>3, <1>4, <1>5, <1>6, Zenon DEF TypeOK

LEMMA ResetType ==
  ASSUME TypeOK, NEW type \in Resets, Reset(type)
  PROVE  TypeOK'
  BY DEF TypeOK, Reset, Places, Handling

LEMMA TypeNext == TypeOK /\ [Next]_vars => TypeOK'
<1> SUFFICES ASSUME TypeOK, [Next]_vars
             PROVE  TypeOK'
  OBVIOUS
<1>1. CASE FaultHandler_Init
  BY <1>1 DEF FaultHandler_Init, TypeOK, Places, Handling
<1>2. CASE EarlyFault
  BY <1>2 DEF EarlyFault, TypeOK, Places, Handling
<1>3. ASSUME NEW cause \in Causes, Fault(cause)
      PROVE  TypeOK'
  <2>1. Taken(cause) \in Exceptions /\ faults' \in Faults
    BY <1>3, ReportsAssumption DEF Fault, Taken, Exceptions, TypeOK, Faults
  <2> QED
    BY <1>3, <2>1 DEF Fault, TypeOK, Places, Handling, Exceptions
<1>4. CASE Fault_Handler
  <2>1. cache' \in Reports
    BY <1>4 DEF Fault_Handler, TypeOK, Reports
  <2> QED
    BY <1>4, <2>1 DEF Fault_Handler, TypeOK, Places, Handling
<1>5. CASE save_stack
  <2>1. cache' \in Reports
    <3>1. PICK length \in Lengths :
            cache' = [cache EXCEPT !.stack_trace_length = length,
                                   !.stack_trace = Copied(@, length)]
      BY <1>5 DEF save_stack
    <3>2. cache \in Reports /\ Copied(cache.stack_trace, length) \in Traces
      BY CopiedTrace DEF TypeOK, Reports, Lengths
    <3> QED
      BY <3>1, <3>2 DEF Reports
  <2> QED
    BY <1>5, <2>1 DEF save_stack, TypeOK, Places, Handling
<1>6. CASE SealReport
  <2> DEFINE unseen == [cache EXCEPT !.was_seen = FALSE]
  <2>1. unseen \in Reports
    BY DEF TypeOK, Reports
  <2>2. [unseen EXCEPT !.checksum = calculate_report_crc(unseen)] \in Reports
    <3> HIDE DEF unseen
    <3> QED
      BY <2>1, ChecksumType DEF Reports
  <2> QED
    BY <1>6, <2>2 DEF SealReport, TypeOK, Places, Handling
<1>7. CASE CleanDCache
  BY <1>7 DEF CleanDCache, TypeOK, Places, Handling
<1>8. CASE ResetSystem
  BY <1>8, ResetType DEF ResetSystem, Resets
<1>9. CASE HandlerFaults
  <2>1. cache' \in Reports
    <3>1. CASE FrameFaults
      BY <3>1 DEF FrameFaults, TypeOK, Reports
    <3>2. CASE StackFaults
      <4>1. PICK length \in Lengths : \E words \in 0 .. length - 1 :
              cache' = [cache EXCEPT !.stack_trace_length = length,
                                     !.stack_trace = Copied(@, words)]
        BY <3>2 DEF StackFaults
      <4>2. PICK words \in 0 .. length - 1 :
              cache' = [cache EXCEPT !.stack_trace_length = length,
                                     !.stack_trace = Copied(@, words)]
        BY <4>1
      <4>3. words \in Int
        BY ReportsAssumption DEF Lengths
      <4>4. cache \in Reports /\ Copied(cache.stack_trace, words) \in Traces
        BY <4>3, CopiedTrace DEF TypeOK, Reports
      <4> QED
        BY <4>2, <4>4 DEF Reports
    <3> QED
      BY <1>9, <3>1, <3>2 DEF HandlerFaults
  <2>2. Taken("busFault") \in Exceptions
    BY DEF Taken, Exceptions
  <2>3. faults' \in Faults
    BY <1>9, ReportsAssumption DEF HandlerFaults, TypeOK, Faults
  <2> QED
    BY <1>9, <2>1, <2>2, <2>3
    DEF HandlerFaults, TypeOK, Places, Handling, Exceptions
<1>10. CASE WriteBack
  <2>1. memory' \in Reports
    BY <1>10, WriteBackType, WriteBackWordType
       DEF WriteBack, WriteBackField, WriteBackWord, TypeOK
  <2> QED
    BY <1>10, <2>1 DEF WriteBack, TypeOK
<1>11. CASE WatchdogReset
  BY <1>11, ResetType DEF WatchdogReset, Resets
<1>12. CASE UserReset
  BY <1>12, ResetType DEF UserReset, Resets
<1>13. CASE PowerCycle
  <2>1. memory' \in Reports
    BY <1>13 DEF PowerCycle, TypeOK, Reports
  <2> QED
    BY <1>13, <2>1 DEF PowerCycle, TypeOK, Places, Handling, Resets
<1>14. CASE BootSoftwareReads
  <2> DEFINE seen == [memory EXCEPT !.was_seen = TRUE]
  <2>1. seen \in Reports
    BY DEF TypeOK, Reports
  <2>2. [seen EXCEPT !.checksum = calculate_report_crc(seen)] \in Reports
    <3> HIDE DEF seen
    <3> QED
      BY <2>1, ChecksumType DEF Reports
  <2> QED
    BY <1>14, <2>2 DEF BootSoftwareReads, TypeOK
<1>15. CASE UNCHANGED vars
  BY <1>15 DEF vars, TypeOK
<1> QED
  BY <1>1, <1>2, <1>3, <1>4, <1>5, <1>6, <1>7, <1>8, <1>9, <1>10, <1>11,
     <1>12, <1>13, <1>14, <1>15
  DEF Next, Fault_HandlerTail

THEOREM TypeCorrect == Spec => []TypeOK
  BY TypeInit, TypeNext, PTL DEF Spec

-----------------------------------------------------------------------------
(* Only a report whose parts are of one fault is given a checksum: where   *)
(* the handler seals it, both are of the latest fault.                     *)
LEMMA SealedInit == Init => SealedInv
  BY DEF Init, SealedInv, Sealed

LEMMA SealedKept ==
  ASSUME NEW r \in Reports, NEW q \in Reports, Sealed(r),
         q.checksum = r.checksum
  PROVE  Sealed(q)
  BY DEF Sealed

LEMMA SealedNow ==
  ASSUME NEW r \in Reports, NEW q \in Reports,
         OfOneFault(r),
         q.checksum = calculate_report_crc(r)
  PROVE  Sealed(q)
  BY DEF Sealed, OfOneFault, Reports, calculate_report_crc

LEMMA ProgressInit == Init => ProgressInv
  BY DEF Init, ProgressInv

LEMMA ProgressNext == TypeOK /\ ProgressInv /\ [Next]_vars => ProgressInv'
<1> SUFFICES ASSUME TypeOK, ProgressInv, [Next]_vars
             PROVE  ProgressInv'
  OBVIOUS
<1>1. CASE FaultHandler_Init
  BY <1>1 DEF FaultHandler_Init, ProgressInv
<1>2. CASE EarlyFault
  BY <1>2 DEF EarlyFault, ProgressInv
<1>3. ASSUME NEW cause \in Causes, Fault(cause)
      PROVE  ProgressInv'
  BY <1>3 DEF Fault, ProgressInv
<1>4. CASE Fault_Handler
  BY <1>4 DEF Fault_Handler, ProgressInv, TypeOK, Reports
<1>5. CASE save_stack
  <2>1. PICK length \in Lengths :
          cache' = [cache EXCEPT !.stack_trace_length = length,
                                 !.stack_trace = Copied(@, length)]
    BY <1>5 DEF save_stack
  <2>2. /\ cache'.stack_trace_length = length
        /\ cache'.stack_trace = Copied(cache.stack_trace, length)
        /\ cache'.registers = cache.registers
        /\ cache.stack_trace \in Traces
    BY <2>1 DEF TypeOK, Reports
  <2>3. ASSUME NEW i \in 1 .. length
        PROVE  cache'.stack_trace[i] = faults
    BY <2>2, CopiedTrace, WordWithinLength DEF TypeOK, Lengths
  <2>4. cpu = "stack" /\ cpu' = "seal" /\ UNCHANGED faults
    BY <1>5 DEF save_stack
  <2> QED
    BY <2>2, <2>3, <2>4 DEF ProgressInv, OfOneFault
<1>6. CASE SealReport
  BY <1>6 DEF SealReport, ProgressInv, TypeOK, Reports, Valid, OfOneFault,
              calculate_report_crc
<1>7. CASE CleanDCache
  BY <1>7 DEF CleanDCache, ProgressInv, Valid, OfOneFault, calculate_report_crc
<1>8. CASE ResetSystem
  BY <1>8 DEF ResetSystem, Reset, ProgressInv
<1>9. CASE HandlerFaults
  BY <1>9 DEF HandlerFaults, FrameFaults, StackFaults, ProgressInv
<1>10. CASE WriteBack
  BY <1>10 DEF WriteBack, WriteBackField, WriteBackWord, ProgressInv, Valid,
               OfOneFault, calculate_report_crc
<1>11. CASE WatchdogReset
  BY <1>11 DEF WatchdogReset, Reset, ProgressInv
<1>12. CASE UserReset
  BY <1>12 DEF UserReset, Reset, ProgressInv
<1>13. CASE PowerCycle
  BY <1>13 DEF PowerCycle, ProgressInv
<1>14. CASE BootSoftwareReads
  BY <1>14 DEF BootSoftwareReads, ProgressInv
<1>15. CASE UNCHANGED vars
  BY <1>15 DEF vars, ProgressInv, Valid, OfOneFault, calculate_report_crc
<1> QED
  BY <1>1, <1>2, <1>3, <1>4, <1>5, <1>6, <1>7, <1>8, <1>9, <1>10, <1>11,
     <1>12, <1>13, <1>14, <1>15
  DEF Next, Fault_HandlerTail

LEMMA SealedNext ==
  TypeOK /\ ProgressInv /\ SealedInv /\ [Next]_vars => SealedInv'
<1> SUFFICES ASSUME TypeOK, ProgressInv, SealedInv, [Next]_vars
             PROVE  SealedInv'
  OBVIOUS
<1>0. TypeOK'
  BY TypeNext
<1>1. ASSUME cache'.checksum = cache.checksum, memory' = memory
      PROVE  SealedInv'
  BY <1>0, <1>1, SealedKept DEF SealedInv, TypeOK
<1>2. CASE cache' = cache /\ memory' = memory
  BY <1>1, <1>2
<1>3. CASE FaultHandler_Init \/ EarlyFault \/ \E cause \in Causes : Fault(cause)
  BY <1>2, <1>3 DEF FaultHandler_Init, EarlyFault, Fault
<1>4. CASE Fault_Handler \/ save_stack \/ HandlerFaults
  <2>1. memory' = memory
    BY <1>4 DEF Fault_Handler, save_stack, HandlerFaults
  <2>2. cache'.checksum = cache.checksum
    BY <1>4 DEF Fault_Handler, save_stack, HandlerFaults, FrameFaults,
                StackFaults, TypeOK, Reports
  <2> QED
    BY <1>1, <2>1, <2>2
<1>5. CASE SealReport
  <2> DEFINE unseen == [cache EXCEPT !.was_seen = FALSE]
  <2>1. unseen \in Reports /\ OfOneFault(unseen)
    BY <1>5 DEF SealReport, ProgressInv, OfOneFault, TypeOK, Reports
  <2>2. cache'.checksum = calculate_report_crc(unseen)
    BY <1>5 DEF SealReport, TypeOK, Reports, calculate_report_crc
  <2>3. Sealed(cache')
    <3> HIDE DEF unseen
    <3> QED
      BY <1>0, <2>1, <2>2, SealedNow DEF TypeOK
  <2> QED
    BY <1>5, <2>3 DEF SealReport, SealedInv
<1>6. CASE CleanDCache
  BY <1>6 DEF CleanDCache, SealedInv
<1>7. ASSUME NEW type, Reset(type)
      PROVE  SealedInv'
  BY <1>7 DEF Reset, SealedInv
<1>8. CASE ResetSystem \/ WatchdogReset \/ UserReset
  BY <1>7, <1>8 DEF ResetSystem, WatchdogReset, UserReset
<1>9. CASE WriteBack
  <2>1. memory'.checksum \in {memory.checksum, cache.checksum}
    BY <1>9, WriteBackWordType
       DEF WriteBack, WriteBackField, WriteBackWord, TypeOK, Reports, Fields
  <2>2. Sealed(memory')
    BY <1>0, <2>1, SealedKept DEF SealedInv, TypeOK
  <2> QED
    BY <1>9, <2>2 DEF WriteBack, SealedInv
<1>10. CASE PowerCycle
  <2>1. memory'.checksum = Garbage /\ cache' = memory'
    BY <1>10 DEF PowerCycle, TypeOK, Reports
  <2> QED
    BY <2>1 DEF SealedInv, Sealed
<1>11. CASE BootSoftwareReads
  <2> DEFINE seen == [memory EXCEPT !.was_seen = TRUE]
  <2>1. OfOneFault(memory)
    BY <1>11, SealedValid DEF BootSoftwareReads, SealedInv, TypeOK
  <2>2. seen \in Reports /\ OfOneFault(seen)
    BY <2>1 DEF TypeOK, Reports, OfOneFault
  <2>3. memory'.checksum = calculate_report_crc(seen)
    BY <1>11 DEF BootSoftwareReads, TypeOK, Reports, calculate_report_crc
  <2>4. Sealed(memory')
    <3> HIDE DEF seen
    <3> QED
      BY <1>0, <2>2, <2>3, SealedNow DEF TypeOK
  <2> QED
    BY <1>11, <2>4 DEF BootSoftwareReads, SealedInv
<1>12. CASE UNCHANGED vars
  BY <1>2, <1>12 DEF vars
<1> QED
  BY <1>3, <1>4, <1>5, <1>6, <1>8, <1>9, <1>10, <1>11, <1>12
  DEF Next, Fault_HandlerTail

(* A report whose checksum is right is the report of one fault, for any    *)
(* number of faults and any interleaving with resets and write-backs.      *)
THEOREM ValidReport == Spec => []ValidReportIsOfOneFault
<1>1. TypeOK /\ SealedInv => ValidReportIsOfOneFault
  BY SealedValid DEF SealedInv, TypeOK, ValidReportIsOfOneFault
<1>2. Init => TypeOK /\ ProgressInv /\ SealedInv
  BY TypeInit, ProgressInit, SealedInit
<1>3. TypeOK /\ ProgressInv /\ SealedInv /\ [Next]_vars =>
        (TypeOK /\ ProgressInv /\ SealedInv)'
  BY TypeNext, ProgressNext, SealedNext
<1> QED
  BY <1>1, <1>2, <1>3, PTL DEF Spec

-----------------------------------------------------------------------------
(* The program is told of a software reset only after the handler cleaned  *)
(* the cache, so the report is there (BootHelper_GetResetReason).          *)
LEMMA AfterInit == Init => AfterReset
  BY DEF Init, AfterReset

LEMMA AfterNext ==
  TypeOK /\ ProgressInv /\ AfterReset /\ [Next]_vars => AfterReset'
<1> SUFFICES ASSUME TypeOK, ProgressInv, AfterReset, [Next]_vars
             PROVE  AfterReset'
  OBVIOUS
<1> USE DEF AfterReset
<1>1. CASE FaultHandler_Init
  BY <1>1 DEF FaultHandler_Init, Valid, calculate_report_crc
<1>2. CASE EarlyFault
  BY <1>2 DEF EarlyFault
<1>3. ASSUME NEW cause \in Causes, Fault(cause)
      PROVE  AfterReset'
  BY <1>3 DEF Fault
<1>4. CASE Fault_Handler \/ save_stack \/ SealReport \/ CleanDCache
  BY <1>4 DEF Fault_Handler, save_stack, SealReport, CleanDCache
<1>5. CASE HandlerFaults
  BY <1>5 DEF HandlerFaults
<1>6. CASE ResetSystem
  BY <1>6 DEF ResetSystem, Reset, ProgressInv, Valid, calculate_report_crc
<1>7. CASE WatchdogReset \/ UserReset
  BY <1>7 DEF WatchdogReset, UserReset, Reset
<1>8. CASE PowerCycle
  BY <1>8 DEF PowerCycle
<1>9. CASE WriteBack
  BY <1>9 DEF WriteBack, WriteBackField, WriteBackWord
<1>10. CASE BootSoftwareReads
  BY <1>10 DEF BootSoftwareReads, TypeOK, Reports, Valid, calculate_report_crc
<1>11. CASE UNCHANGED vars
  BY <1>11 DEF vars, Valid, calculate_report_crc
<1> QED
  BY <1>1, <1>2, <1>3, <1>4, <1>5, <1>6, <1>7, <1>8, <1>9, <1>10, <1>11
  DEF Next, Fault_HandlerTail

(* When the program starts and is told that the reset was one by software, *)
(* the valid report of the latest fault is in memory.                      *)
THEOREM ReportSurvives == Spec => []SoftwareResetHasReport
<1>1. TypeOK /\ AfterReset => SoftwareResetHasReport
  BY DEF TypeOK, AfterReset, SoftwareResetHasReport, BootHelper_GetResetReason
<1>2. Init => TypeOK /\ ProgressInv /\ AfterReset
  BY TypeInit, ProgressInit, AfterInit
<1>3. TypeOK /\ ProgressInv /\ AfterReset /\ [Next]_vars =>
        (TypeOK /\ ProgressInv /\ AfterReset)'
  BY TypeNext, ProgressNext, AfterNext
<1> QED
  BY <1>1, <1>2, <1>3, PTL DEF Spec

-----------------------------------------------------------------------------
(* Outside the handler the cache holds nothing of the report that memory   *)
(* does not: the handler alone writes the report, it ends in a reset, and  *)
(* a reset loses what the cache holds.                                     *)
WrittenBack == cpu \notin Handling \cup {"lockup"} => cache = memory

LEMMA WrittenBackInit == Init => WrittenBack
  BY DEF Init, WrittenBack

LEMMA WrittenBackNext == WrittenBack /\ [Next]_vars => WrittenBack'
<1> SUFFICES ASSUME WrittenBack, [Next]_vars
             PROVE  WrittenBack'
  OBVIOUS
<1> USE DEF WrittenBack, Handling
<1>1. CASE FaultHandler_Init \/ EarlyFault
  BY <1>1 DEF FaultHandler_Init, EarlyFault
<1>2. ASSUME NEW cause \in Causes, Fault(cause)
      PROVE  WrittenBack'
  BY <1>2 DEF Fault
<1>3. CASE Fault_Handler \/ save_stack \/ SealReport \/ CleanDCache
  BY <1>3 DEF Fault_Handler, save_stack, SealReport, CleanDCache
<1>4. CASE HandlerFaults
  BY <1>4 DEF HandlerFaults
<1>5. CASE ResetSystem \/ WatchdogReset \/ UserReset
  BY <1>5 DEF ResetSystem, WatchdogReset, UserReset, Reset
<1>6. CASE PowerCycle
  BY <1>6 DEF PowerCycle
<1>7. CASE WriteBack
  BY <1>7 DEF WriteBack, WriteBackField, WriteBackWord
<1>8. CASE BootSoftwareReads
  BY <1>8 DEF BootSoftwareReads
<1>9. CASE UNCHANGED vars
  BY <1>9 DEF vars
<1> QED
  BY <1>1, <1>2, <1>3, <1>4, <1>5, <1>6, <1>7, <1>8, <1>9
  DEF Next, Fault_HandlerTail

(* A step that makes a report in memory invalid is the power's, or is      *)
(* taken while the handler of a later fault is replacing the report.       *)
LEMMA KeptStep ==
  ASSUME TypeOK, WrittenBack, [Next]_vars, Valid(memory), ~Valid(memory')
  PROVE  PowerCycle \/ cpu \in Handling \cup {"lockup"}
<1> USE DEF Handling
<1>1. memory' # memory
  BY DEF Valid
<1>2. CASE FaultHandler_Init \/ EarlyFault \/ \E cause \in Causes : Fault(cause)
  BY <1>1, <1>2 DEF FaultHandler_Init, EarlyFault, Fault
<1>3. CASE Fault_Handler \/ Fault_HandlerTail \/ HandlerFaults
  BY <1>3 DEF Fault_Handler, Fault_HandlerTail, save_stack, SealReport,
              CleanDCache, ResetSystem, HandlerFaults
<1>4. CASE WatchdogReset \/ UserReset \/ UNCHANGED vars
  BY <1>1, <1>4 DEF WatchdogReset, UserReset, Reset, vars
<1>5. CASE WriteBack
  BY <1>5 DEF WriteBack, WriteBackField, WriteBackWord, WrittenBack
<1>6. CASE BootSoftwareReads
  <2>1. Valid(memory')
    BY <1>6 DEF BootSoftwareReads, TypeOK, Reports, Valid, calculate_report_crc
  <2> QED
    BY <2>1
<1> QED
  BY <1>2, <1>3, <1>4, <1>5, <1>6 DEF Next

(* A valid report that nobody has seen stays in memory, unless the power   *)
(* is cut or a later fault is handled.                                     *)
THEOREM ReportKept == Spec => UnseenReportIsKept
<1>1. TypeOK /\ WrittenBack /\ [Next]_vars =>
        [Valid(memory) /\ ~memory.was_seen /\ ~Valid(memory') =>
           PowerCycle \/ cpu \in Handling \cup {"lockup"}]_vars
  BY KeptStep
<1> QED
  BY TypeInit, TypeNext, WrittenBackInit, WrittenBackNext, <1>1, PTL
  DEF Spec, UnseenReportIsKept
=============================================================================
