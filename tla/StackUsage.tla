----------------------------- MODULE StackUsage -----------------------------
(***************************************************************************)
(* The stack usage of Monitor.c.                                           *)
(*                                                                         *)
(* Monitor_GetMaximumStackUsage scans the stack of a thread upwards for    *)
(* the first word that has lost its pattern, while the thread runs: it     *)
(* pushes words that may stay unwritten or get the pattern's value.        *)
(* Stacks grow down: the first branches of the code's #if are not built.   *)
(***************************************************************************)
EXTENDS Integers, FiniteSetsExt

CONSTANTS
  StackWords,       \* size of the stack
  RT_MEASURE_STACK  \* whether the build measures stacks

ASSUME StackUsageAssumption ==
  /\ StackWords \in Nat
  /\ RT_MEASURE_STACK \in BOOLEAN

VARIABLES
  stack,             \* words of the measured stack that lost their pattern
  sp,                \* its stack pointer, the lowest word in use
  scan,              \* progress of Monitor_GetMaximumStackUsage
  stack_usage,       \* what its last call returned, with its limits
  deepest,           \* history: the lowest sp
  steady             \* history: words without pattern since the scan began

stackVars == <<stack, sp, scan, stack_usage, deepest, steady>>

NotScanning  == -1
NoUsage      == [bytes |-> -1, least |-> 0, most |-> 0]
BytesPerWord == 4

StackInit ==
  /\ sp = StackWords
  /\ stack = {}
  /\ scan = NotScanning
  /\ stack_usage = NoUsage
  /\ deepest = StackWords
  /\ steady = {}

-----------------------------------------------------------------------------
(* The measured thread *)

(* A push leaves its word as it was, with the pattern's value, or with     *)
(* another one.                                                            *)
Push ==
  /\ sp > 0
  /\ sp' = sp - 1
  /\ stack' \in {stack, stack \ {sp'}, stack \cup {sp'}}
  /\ deepest' = Min({deepest, sp'})
  /\ steady' = steady \cap stack'

Pop ==
  /\ sp < StackWords
  /\ sp' = sp + 1
  /\ UNCHANGED <<stack, deepest, steady>>

MeasuredThread ==
  /\ Push \/ Pop
  /\ UNCHANGED <<scan, stack_usage>>

-----------------------------------------------------------------------------
(* Monitor_GetMaximumStackUsage *)

(* A mutant of calculate_used_stack: the word found is not counted. *)
calculate_used_stack_Next(word) == BytesPerWord * (StackWords - word - 1)
calculate_used_stack(word) == BytesPerWord * (StackWords - word)

(* Bytes from the lowest of these words to the stack's base. *)
UsedIn(words) ==
  IF words = {} THEN 0 ELSE BytesPerWord * (StackWords - Min(words))

(* The build does not measure stacks, no thread has the interface's        *)
(* identifier, or (an area of NULL) its stack is not found.                *)
NothingToScan ==
  /\ scan = NotScanning
  /\ stack_usage' = NoUsage
  /\ UNCHANGED <<scan, steady>>

BeginScan ==
  /\ RT_MEASURE_STACK
  /\ scan = NotScanning
  /\ scan' = 0
  /\ steady' = stack
  /\ UNCHANGED stack_usage

Returns(bytes) ==
  /\ stack_usage' = [bytes |-> bytes, least |-> UsedIn(steady),
                     most |-> UsedIn(deepest .. StackWords - 1)]
  /\ scan' = NotScanning
  /\ steady' = {}

(* find_high_water_mark: one word after the other. *)
SkipPattern ==
  /\ scan \in 0 .. StackWords - 1
  /\ scan \notin stack
  /\ scan' = scan + 1
  /\ UNCHANGED <<stack_usage, steady>>

HighWaterMark ==
  /\ scan \in 0 .. StackWords - 1
  /\ scan \in stack
  /\ Returns(calculate_used_stack(scan))

(* NULL: maximum_stack_usage keeps its initial 0. *)
NoHighWaterMark ==
  /\ scan = StackWords
  /\ Returns(0)

find_high_water_mark == SkipPattern \/ HighWaterMark \/ NoHighWaterMark

Monitor_GetMaximumStackUsage ==
  /\ NothingToScan \/ BeginScan \/ find_high_water_mark
  /\ UNCHANGED <<stack, sp, deepest>>

StackNext == MeasuredThread \/ Monitor_GetMaximumStackUsage

StackSpec == StackInit /\ [][StackNext]_stackVars

-----------------------------------------------------------------------------
(* Properties *)

(* The bytes Monitor_GetMaximumStackUsage returns are never more than the  *)
(* thread's deepest use of its stack, although it scans while the thread   *)
(* pushes and pops, and never less than the use seen by the words that     *)
(* had lost their pattern throughout the scan.  It is less than the        *)
(* deepest use when the deepest words were pushed unwritten, with the      *)
(* pattern's value, or below the scan.                                     *)
StackUsageOfScan ==
  stack_usage # NoUsage =>
    /\ stack_usage.least <= stack_usage.bytes
    /\ stack_usage.bytes <= stack_usage.most
=============================================================================
