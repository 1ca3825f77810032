---------------------------- MODULE ActivationLog ----------------------------
(***************************************************************************)
(* The interface activation log of Monitor.c (RT_EXEC_LOG_ACTIVE).         *)
(*                                                                         *)
(* Threads append entries to a cyclic buffer in a linker section by        *)
(* Monitor_IndicateInterfaceActivated and ...Deactivated, both of which    *)
(* are handle_activation_log_cyclic_buffer; a monitoring thread freezes,   *)
(* unfreezes, clears and reads the log.  No lock is held: the three fields *)
(* and the 64-bit counter are written one after the other, the slot is     *)
(* computed anew for each field, and other threads may run in between.     *)
(***************************************************************************)
EXTENDS Integers, Sequences, FiniteSets

CONSTANTS
  Writers,     \* threads, each with the interface it serves
  LogSizes,    \* candidates for RT_EXEC_LOG_BUFFER_SIZE, fixed by the linker
  MaxCalls     \* bound: timestamps taken, hence entries, in a behaviour

ASSUME LogAssumption ==
  /\ IsFiniteSet(Writers)
  /\ LogSizes \subseteq Nat
  /\ MaxCalls \in Nat

VARIABLES
  size,                      \* RT_EXEC_LOG_BUFFER_SIZE
  is_frozen,
  activation_entry_counter,
  activation_log_buffer,
  now,                       \* Hal_GetElapsedTimeInNs, one more each time
  wpc,                       \* next access of each writer
  entry,                     \* what each writer is writing
  slot,                      \* index it may have computed before the clock read
  loaded,                    \* the counter it is about to increment
  rpc,                       \* next access of the reader of the log
  out_latest, out_size,      \* what it has been given
  history,                   \* history: entries completed since the clear
  clean,                     \* history: no two calls overlapped since then
  readClean                  \* history: nor did a call overlap the reader's

writeVars == <<now, wpc, entry, slot, loaded>>
readVars  == <<rpc, out_latest, out_size>>
logVars   == <<activation_entry_counter, activation_log_buffer, history, clean>>
vars      == <<size, is_frozen, logVars, writeVars, readVars, readClean>>

EntryTypes == {"activation", "deactivation"}
NoEntry    == [interface |-> "none", entry_type |-> "none", timestamp |-> 0]
UINT32_MAX == -1   \* the same bits

InCall(w) == wpc[w] # "idle"
Slots     == 0 .. size - 1

Init ==
  /\ size \in LogSizes
  /\ is_frozen = TRUE
  /\ activation_entry_counter = 0
  /\ activation_log_buffer = [i \in Slots |-> NoEntry]
  /\ now = 0
  /\ wpc = [w \in Writers |-> "idle"]
  /\ entry = [w \in Writers |-> NoEntry]
  /\ slot = [w \in Writers |-> 0]
  /\ loaded = [w \in Writers |-> 0]
  /\ rpc = "idle"
  /\ out_latest = 0
  /\ out_size = 0
  /\ history = << >>
  /\ clean = TRUE
  /\ readClean = TRUE

-----------------------------------------------------------------------------
(* handle_activation_log_cyclic_buffer *)

Goto(w, place) == wpc' = [wpc EXCEPT ![w] = place]

Index == activation_entry_counter % size

(* Mutant: no test of is_frozen. *)
MayStore_Always == TRUE

MayStore == ~is_frozen

(* The test of is_frozen; a call that passes it while another writes is an *)
(* overlap.                                                                *)
Indicate(w, type) ==
  /\ ~InCall(w)
  /\ now < MaxCalls
  /\ MayStore
  /\ entry' = [entry EXCEPT ![w] = [interface |-> w, entry_type |-> type,
                                    timestamp |-> 0]]
  /\ Goto(w, "interface")
  /\ clean' = (clean /\ \A q \in Writers : ~InCall(q))
  /\ readClean' = (readClean /\ rpc = "idle")
  /\ UNCHANGED <<size, is_frozen, activation_entry_counter,
                 activation_log_buffer, history, now, slot, loaded, readVars>>

(* One field of the slot the counter points at. *)
WriteField(i, field, value) ==
  activation_log_buffer' = [activation_log_buffer EXCEPT ![i][field] = value]

WriteInterface(w) ==
  /\ wpc[w] = "interface"
  /\ WriteField(Index, "interface", entry[w].interface)
  /\ Goto(w, "type")
  /\ UNCHANGED <<size, is_frozen, activation_entry_counter, history, clean,
                 now, entry, slot, loaded, readVars, readClean>>

WriteType(w) ==
  /\ wpc[w] = "type"
  /\ WriteField(Index, "entry_type", entry[w].entry_type)
  /\ Goto(w, "clock")
  /\ UNCHANGED <<size, is_frozen, activation_entry_counter, history, clean,
                 now, entry, slot, loaded, readVars, readClean>>

(* C leaves open whether the slot is computed before or after the clock is *)
(* read.                                                                   *)
ReadClock(w) ==
  /\ wpc[w] = "clock"
  /\ now < MaxCalls
  /\ now' = now + 1
  /\ entry' = [entry EXCEPT ![w].timestamp = now']
  /\ slot' = [slot EXCEPT ![w] = Index]
  /\ Goto(w, "stamp")
  /\ UNCHANGED <<size, is_frozen, logVars, loaded, readVars, readClean>>

WriteStamp(w) ==
  /\ wpc[w] = "stamp"
  /\ \E i \in {slot[w], Index} :
       WriteField(i, "timestamp", entry[w].timestamp)
  /\ Goto(w, "load")
  /\ UNCHANGED <<size, is_frozen, activation_entry_counter, history, clean,
                 now, entry, slot, loaded, readVars, readClean>>

LoadCounter(w) ==
  /\ wpc[w] = "load"
  /\ loaded' = [loaded EXCEPT ![w] = activation_entry_counter]
  /\ Goto(w, "store")
  /\ UNCHANGED <<size, is_frozen, logVars, now, entry, slot, readVars,
                 readClean>>

(* Mutants: the counter kept below the size of the buffer; a counter that  *)
(* skips a slot.                                                           *)
Incremented_Wrapped(c) == (c + 1) % size
Incremented_ByTwo(c)   == c + 2

Incremented(c) == c + 1

StoreCounter(w) ==
  /\ wpc[w] = "store"
  /\ activation_entry_counter' = Incremented(loaded[w])
  /\ history' = Append(history, entry[w])
  /\ entry' = [entry EXCEPT ![w] = NoEntry]
  /\ slot' = [slot EXCEPT ![w] = 0]
  /\ loaded' = [loaded EXCEPT ![w] = 0]
  /\ Goto(w, "idle")
  /\ UNCHANGED <<size, is_frozen, activation_log_buffer, clean, now, readVars,
                 readClean>>

handle_activation_log_cyclic_buffer(w) ==
  \/ \E type \in EntryTypes : Indicate(w, type)
  \/ WriteInterface(w)
  \/ WriteType(w)
  \/ ReadClock(w)
  \/ WriteStamp(w)
  \/ LoadCounter(w)
  \/ StoreCounter(w)

-----------------------------------------------------------------------------
(* The controls. *)

Monitor_FreezeInterfaceActivationLogging ==
  /\ size > 0
  /\ is_frozen' = TRUE
  /\ UNCHANGED <<size, logVars, writeVars, readVars, readClean>>

Monitor_UnfreezeInterfaceActivationLogging ==
  /\ size > 0
  /\ is_frozen' = FALSE
  /\ UNCHANGED <<size, logVars, writeVars, readVars, readClean>>

(* What a call in progress writes after a clear belongs to no history: the *)
(* log is clean only if there was none.                                    *)
Monitor_ClearInterfaceActivationLog ==
  /\ size > 0
  /\ activation_entry_counter' = 0
  /\ history' = << >>
  /\ clean' = \A w \in Writers : ~InCall(w)
  /\ readClean' = (readClean /\ rpc = "idle")
  /\ UNCHANGED <<size, is_frozen, activation_log_buffer, writeVars, readVars>>

-----------------------------------------------------------------------------
(* Monitor_GetInterfaceActivationEntryLog: up to four reads of the counter. *)

GetEmpty ==
  /\ rpc = "idle"
  /\ activation_entry_counter = 0
  /\ out_latest' = 0
  /\ out_size' = 0
  /\ rpc' = "done"
  /\ readClean' = \A w \in Writers : ~InCall(w)
  /\ UNCHANGED <<size, is_frozen, logVars, writeVars>>

GetBegins ==
  /\ rpc = "idle"
  /\ activation_entry_counter # 0
  /\ rpc' = "index"
  /\ readClean' = \A w \in Writers : ~InCall(w)
  /\ UNCHANGED <<size, is_frozen, logVars, writeVars, out_latest, out_size>>

(* Mutant: the index of the next entry instead of the latest. *)
LatestIndex_Next == Index

(* In 32 bits, so that one less than zero is UINT32_MAX. *)
LatestIndex == IF Index = 0 THEN UINT32_MAX ELSE Index - 1

GetIndex ==
  /\ rpc = "index"
  /\ out_latest' = LatestIndex
  /\ rpc' = "compare"
  /\ UNCHANGED <<size, is_frozen, logVars, writeVars, out_size, readClean>>

GetCompare ==
  /\ rpc = "compare"
  /\ IF activation_entry_counter > size
       THEN out_size' = size /\ rpc' = "done"
       ELSE rpc' = "size" /\ UNCHANGED out_size
  /\ UNCHANGED <<size, is_frozen, logVars, writeVars, out_latest, readClean>>

GetSize ==
  /\ rpc = "size"
  /\ out_size' = activation_entry_counter
  /\ rpc' = "done"
  /\ UNCHANGED <<size, is_frozen, logVars, writeVars, out_latest, readClean>>

(* The reader has looked at the log it was given. *)
GetReturns ==
  /\ rpc = "done"
  /\ rpc' = "idle"
  /\ out_latest' = 0
  /\ out_size' = 0
  /\ readClean' = TRUE
  /\ UNCHANGED <<size, is_frozen, logVars, writeVars>>

Monitor_GetInterfaceActivationEntryLog ==
  GetEmpty \/ GetBegins \/ GetIndex \/ GetCompare \/ GetSize \/ GetReturns

Next ==
  \/ \E w \in Writers : handle_activation_log_cyclic_buffer(w)
  \/ Monitor_FreezeInterfaceActivationLogging
  \/ Monitor_UnfreezeInterfaceActivationLogging
  \/ Monitor_ClearInterfaceActivationLog
  \/ Monitor_GetInterfaceActivationEntryLog

Spec == Init /\ [][Next]_vars

-----------------------------------------------------------------------------
Places == {"idle", "interface", "type", "clock", "stamp", "load", "store"}

Entry == [interface : Writers \cup {"none"},
          entry_type : EntryTypes \cup {"none"},
          timestamp : 0 .. MaxCalls]

TypeOK ==
  /\ size \in LogSizes
  /\ is_frozen \in BOOLEAN
  /\ activation_entry_counter \in 0 .. MaxCalls
  /\ activation_log_buffer \in [Slots -> Entry]
  /\ now \in 0 .. MaxCalls
  /\ wpc \in [Writers -> Places]
  /\ entry \in [Writers -> Entry]
  /\ slot \in [Writers -> 0 .. MaxCalls]
  /\ loaded \in [Writers -> 0 .. MaxCalls]
  /\ rpc \in {"idle", "index", "compare", "size", "done"}
  /\ out_latest \in -1 .. MaxCalls
  /\ out_size \in 0 .. MaxCalls
  /\ history \in Seq(Entry)
  /\ clean \in BOOLEAN
  /\ readClean \in BOOLEAN

(* With an empty log section nothing ever computes a slot: the log stays   *)
(* frozen because Monitor_UnfreezeInterfaceActivationLogging refuses, and  *)
(* the counter stays 0, so no remainder by zero is taken.                  *)
NoSlotInEmptyLog ==
  size = 0 => rpc # "index" /\ \A w \in Writers : ~InCall(w)

(* As long as no two calls overlap, the buffer is the history: the k-th    *)
(* latest entry stands k slots before the counter, whole, except that the  *)
(* call in progress may already have overwritten the oldest.               *)
BufferIsHistory ==
  clean =>
    /\ activation_entry_counter = Len(history)
    /\ LET n      == Len(history)
           intact == IF \E w \in Writers : InCall(w) THEN size - 1 ELSE size
       IN  \A k \in 1 .. n :
             k <= intact =>
               activation_log_buffer[(n - k) % size] = history[n - k + 1]

(* A reader no call overlaps is told how much of the buffer is filled, and *)
(* where the latest entry is.  The index is claimed only where the counter *)
(* is not a multiple of the size; LatestIsInLog is the rest.               *)
ReaderIsToldRight ==
  rpc = "done" /\ readClean /\ clean =>
    LET n == Len(history)
    IN  /\ out_size = IF n < size THEN n ELSE size
        /\ (n > 0 /\ n % size # 0) =>
             activation_log_buffer[out_latest] = history[n]

(* Monitor.h: out_latest_activation_entry_index is "representing latest    *)
(* activation log index".  Whoever reads an unchanging log that is not     *)
(* empty is given an index of the buffer, that of the latest entry.        *)
LatestIsInLog ==
  rpc = "done" /\ readClean /\ clean /\ history # << >> =>
    /\ out_latest \in Slots
    /\ activation_log_buffer[out_latest] = history[Len(history)]
=============================================================================
