------------------------- MODULE ActivationLogProofs -------------------------
(***************************************************************************)
(* Proofs about ActivationLog: for any writers, any size of the log's      *)
(* section and any number of entries, the buffer is the history of the     *)
(* entries as long as no two calls overlap, a reader no call overlaps is   *)
(* told the truth about it, and an empty section is never indexed.         *)
(***************************************************************************)
EXTENDS ActivationLog, FiniteSetTheorems, TLAPS

-----------------------------------------------------------------------------
(* Slots: the counter modulo the size of the buffer.                       *)

LEMMA Split ==
  ASSUME NEW s \in Nat \ {0}, NEW a \in Int
  PROVE  \E q \in Int, r \in 0 .. s - 1 : a = s * q + r /\ r = a % s
<1>1. /\ a % s \in 0 .. s - 1
      /\ a \div s \in Int
      /\ a = s * (a \div s) + (a % s)
  OBVIOUS
<1> QED
  BY <1>1

(* A positive distance that is a multiple of the size is at least it. *)
LEMMA NoShortMultiple ==
  ASSUME NEW s \in Nat \ {0}, NEW d \in Int, s * d > -s, s * d < s
  PROVE  d = 0
<1>1. CASE d > 0
  <2>1. s * d >= s
    BY <1>1
  <2> QED
    BY <2>1
<1>2. CASE d < 0
  <2>1. s * d <= -s
    BY <1>2
  <2> QED
    BY <2>1
<1> QED
  BY <1>1, <1>2

SlotOf(n) == n % size

LEMMA SlotSplit ==
  ASSUME TypeOK, size > 0, NEW n \in Int
  PROVE  \E q \in Int, r \in Slots : n = size * q + r /\ r = SlotOf(n)
<1>1. PICK s \in Nat \ {0} : s = size
  BY LogAssumption DEF TypeOK
<1>2. PICK q \in Int, r \in 0 .. s - 1 : n = s * q + r /\ r = n % s
  BY Split
<1> QED
  BY <1>1, <1>2 DEF SlotOf, Slots

(* Entries less than a buffer apart stand in different slots. *)
LEMMA SlotsDiffer ==
  ASSUME TypeOK, size > 0, NEW n \in Int, NEW m \in Int, 0 < n - m,
         n - m < size
  PROVE  SlotOf(m) # SlotOf(n)
<1>1. PICK s \in Nat \ {0} : s = size
  BY LogAssumption DEF TypeOK
<1>2. PICK q \in Int, r \in 0 .. s - 1 : n = s * q + r /\ r = SlotOf(n)
  BY <1>1, SlotSplit DEF Slots
<1>3. PICK u \in Int, v \in 0 .. s - 1 : m = s * u + v /\ v = SlotOf(m)
  BY <1>1, SlotSplit DEF Slots
<1>4. PICK d \in Int : d = q - u
  OBVIOUS
<1>5. ASSUME v = r PROVE FALSE
  <2>1. PICK x \in Int, y \in Int : x = s * q /\ y = s * u
    OBVIOUS
  <2>2. s * d = x - y
    BY <1>4, <2>1
  <2>3. n = x + r /\ m = y + r
    BY <1>2, <1>3, <1>5, <2>1
  <2>4. s * d = n - m
    BY <2>2, <2>3
  <2>5. d = 0
    BY <1>1, <2>4, NoShortMultiple
  <2> QED
    BY <2>4, <2>5
<1> QED
  BY <1>2, <1>3, <1>5

(* The latest entry stands one slot before the counter's. *)
LEMMA SlotBefore ==
  ASSUME TypeOK, size > 0, NEW n \in Int, NEW m \in Int, m = n - 1,
         SlotOf(n) # 0
  PROVE  SlotOf(m) = SlotOf(n) - 1
<1>1. PICK s \in Nat \ {0} : s = size
  BY LogAssumption DEF TypeOK
<1>2. PICK q \in Int, r \in 0 .. s - 1 : n = s * q + r /\ r = SlotOf(n)
  BY <1>1, SlotSplit DEF Slots
<1>3. PICK u \in Int, v \in 0 .. s - 1 : m = s * u + v /\ v = SlotOf(m)
  BY <1>1, SlotSplit DEF Slots
<1>4. PICK d \in Int : d = q - u
  OBVIOUS
<1>5. s * d = v - (r - 1)
  <2>1. PICK x \in Int, y \in Int : x = s * q /\ y = s * u
    OBVIOUS
  <2>2. s * d = x - y
    BY <1>4, <2>1
  <2>3. n = x + r /\ m = y + v
    BY <1>2, <1>3, <2>1
  <2> QED
    BY <2>2, <2>3
<1>6. r - 1 \in 0 .. s - 1
  BY <1>2
<1>7. d = 0
  <2>1. s * d > -s /\ s * d < s
    BY <1>3, <1>5, <1>6
  <2> QED
    BY <2>1, NoShortMultiple
<1>8. v = r - 1
  BY <1>5, <1>7
<1> QED
  BY <1>2, <1>3, <1>8

LEMMA IndexInBuffer ==
  ASSUME TypeOK, size > 0
  PROVE  Index \in Slots /\ Index <= activation_entry_counter
<1>1. size \in Nat \ {0} /\ activation_entry_counter \in Nat
  BY LogAssumption DEF TypeOK
<1>2. PICK c \in Nat, s \in Nat \ {0} :
        c = activation_entry_counter /\ s = size
  BY <1>1
<1>3. PICK q \in Int, r \in 0 .. s - 1 : c = s * q + r /\ r = c % s
  BY <1>2, Split
<1>4. q >= 0
  <2>1. CASE q < 0
    <3>1. s * q <= -s
      BY <2>1
    <3> QED
      BY <3>1, <1>3
  <2> QED
    BY <2>1
<1>5. s * q >= 0
  BY <1>4
<1> QED
  BY <1>2, <1>3, <1>5 DEF Index, Slots

-----------------------------------------------------------------------------
(* What a write of one field does to the buffer.                           *)

LEMMA InterfaceWritten ==
  ASSUME TypeOK, NEW i \in Slots, NEW v \in Writers \cup {"none"},
         WriteField(i, "interface", v)
  PROVE  /\ activation_log_buffer' \in [Slots -> Entry]
         /\ \A j \in Slots :
              j # i => activation_log_buffer'[j] = activation_log_buffer[j]
         /\ activation_log_buffer'[i].interface = v
<1> DEFINE b == activation_log_buffer
<1>1. b \in [Slots -> Entry] /\ b' = [b EXCEPT ![i]["interface"] = v]
  BY DEF TypeOK, WriteField
<1>2. b' \in [Slots -> Entry]
  BY <1>1 DEF Entry
<1>3. \A j \in Slots : j # i => b'[j] = b[j]
  BY <1>1 DEF Entry
<1>4. b'[i].interface = v
  BY <1>1 DEF Entry
<1> QED
  BY <1>2, <1>3, <1>4

LEMMA TypeWritten ==
  ASSUME TypeOK, NEW i \in Slots, NEW v \in EntryTypes \cup {"none"},
         WriteField(i, "entry_type", v)
  PROVE  /\ activation_log_buffer' \in [Slots -> Entry]
         /\ \A j \in Slots :
              j # i => activation_log_buffer'[j] = activation_log_buffer[j]
         /\ activation_log_buffer'[i].interface =
              activation_log_buffer[i].interface
         /\ activation_log_buffer'[i].entry_type = v
<1> DEFINE b == activation_log_buffer
<1>1. b \in [Slots -> Entry] /\ b' = [b EXCEPT ![i]["entry_type"] = v]
  BY DEF TypeOK, WriteField
<1>2. b' \in [Slots -> Entry]
  BY <1>1 DEF Entry
<1>3. \A j \in Slots : j # i => b'[j] = b[j]
  BY <1>1 DEF Entry
<1>4. b'[i].interface = b[i].interface /\ b'[i].entry_type = v
  BY <1>1 DEF Entry
<1> QED
  BY <1>2, <1>3, <1>4

LEMMA StampWritten ==
  ASSUME TypeOK, NEW i \in Slots, NEW v \in 0 .. MaxCalls,
         WriteField(i, "timestamp", v)
  PROVE  /\ activation_log_buffer' \in [Slots -> Entry]
         /\ \A j \in Slots :
              j # i => activation_log_buffer'[j] = activation_log_buffer[j]
         /\ activation_log_buffer'[i].interface =
              activation_log_buffer[i].interface
         /\ activation_log_buffer'[i].entry_type =
              activation_log_buffer[i].entry_type
         /\ activation_log_buffer'[i].timestamp = v
<1> DEFINE b == activation_log_buffer
<1>1. b \in [Slots -> Entry] /\ b' = [b EXCEPT ![i]["timestamp"] = v]
  BY DEF TypeOK, WriteField
<1>2. b' \in [Slots -> Entry]
  BY <1>1 DEF Entry
<1>3. \A j \in Slots : j # i => b'[j] = b[j]
  BY <1>1 DEF Entry
<1>4. /\ b'[i].interface = b[i].interface
      /\ b'[i].entry_type = b[i].entry_type
      /\ b'[i].timestamp = v
  BY <1>1 DEF Entry
<1> QED
  BY <1>2, <1>3, <1>4

LEMMA EntryParts ==
  ASSUME NEW e \in Entry
  PROVE  /\ e.interface \in Writers \cup {"none"}
         /\ e.entry_type \in EntryTypes \cup {"none"}
         /\ e.timestamp \in 0 .. MaxCalls
  BY DEF Entry

LEMMA SameEntry ==
  ASSUME NEW e \in Entry, NEW f \in Entry, e.interface = f.interface,
         e.entry_type = f.entry_type, e.timestamp = f.timestamp
  PROVE  e = f
  BY DEF Entry
-----------------------------------------------------------------------------
(* The inductive invariant.                                                *)

Stamped == {w \in Writers : wpc[w] \in {"stamp", "load", "store"}}

(* Every increment of the counter is paid for by a timestamp. *)
BoundInv ==
  /\ activation_entry_counter + Cardinality(Stamped) <= now
  /\ \A w \in Writers :
       wpc[w] = "store" => loaded[w] + Cardinality(Stamped) <= now

(* An empty log stays frozen; in another one, computed slots are slots. *)
EmptyInv ==
  /\ size = 0 =>
       /\ is_frozen
       /\ activation_entry_counter = 0
       /\ rpc \in {"idle", "done"}
       /\ \A w \in Writers : ~InCall(w)
  /\ \A w \in Writers : wpc[w] = "stamp" => slot[w] \in Slots

(* Without overlap the one call in progress has written, in the slot the   *)
(* counter points at, the fields it has passed.                            *)
Written(w) ==
  LET there == activation_log_buffer[Index]
  IN  /\ wpc[w] \in {"type", "clock", "stamp", "load", "store"} =>
           there.interface = entry[w].interface
      /\ wpc[w] \in {"clock", "stamp", "load", "store"} =>
           there.entry_type = entry[w].entry_type
      /\ wpc[w] = "stamp" => slot[w] = Index
      /\ wpc[w] \in {"load", "store"} => there.timestamp = entry[w].timestamp
      /\ wpc[w] = "store" => loaded[w] = activation_entry_counter

WriteInv ==
  clean =>
    \A w \in Writers :
      /\ Written(w)
      /\ \A q \in Writers : InCall(w) /\ InCall(q) => q = w

(* While no call overlaps the reader's, the counter it looks at stands. *)
ReadInv ==
  readClean /\ rpc # "idle" =>
    /\ \A w \in Writers : ~InCall(w)
    /\ rpc \in {"index", "compare", "size"} => activation_entry_counter > 0
    /\ rpc # "index" /\ activation_entry_counter > 0 =>
         out_latest = LatestIndex
    /\ rpc = "size" => activation_entry_counter <= size
    /\ rpc = "done" =>
         out_size = IF activation_entry_counter < size
                      THEN activation_entry_counter ELSE size

IInv ==
  /\ TypeOK
  /\ BoundInv
  /\ EmptyInv
  /\ WriteInv
  /\ BufferIsHistory
  /\ ReadInv

-----------------------------------------------------------------------------
LEMMA StampedCount ==
  ASSUME TypeOK
  PROVE  /\ IsFiniteSet(Stamped)
         /\ Cardinality(Stamped) \in Nat
         /\ \A w \in Stamped : Cardinality(Stamped) >= 1
<1>1. IsFiniteSet(Stamped)
  BY LogAssumption, FS_Subset DEF Stamped
<1>2. Cardinality(Stamped) \in Nat
  BY <1>1, FS_CardinalityType
<1>3. \A w \in Stamped : Cardinality(Stamped) # 0
  BY <1>1, FS_EmptySet
<1> QED
  BY <1>1, <1>2, <1>3

LEMMA StampedKept ==
  ASSUME UNCHANGED wpc
  PROVE  Stamped' = Stamped
  BY DEF Stamped

(* What is left alone by the calls that do not write. *)
LEMMA ReaderFrame ==
  Monitor_GetInterfaceActivationEntryLog =>
    UNCHANGED <<size, is_frozen, logVars, writeVars>>
  BY DEF Monitor_GetInterfaceActivationEntryLog, GetEmpty, GetBegins,
         GetIndex, GetCompare, GetSize, GetReturns

LEMMA BusyBuffer ==
  ASSUME EmptyInv, TypeOK, NEW w \in Writers, InCall(w)
  PROVE  size > 0
  BY LogAssumption DEF EmptyInv, TypeOK

LEMMA Initially == Init => IInv
<1> SUFFICES ASSUME Init PROVE IInv
  OBVIOUS
<1>1. TypeOK
  BY LogAssumption DEF Init, TypeOK, Entry, NoEntry, Places
<1>2. BoundInv
  <2>1. Stamped = {}
    BY DEF Init, Stamped
  <2> QED
    BY <2>1, FS_EmptySet DEF Init, BoundInv
<1>3. EmptyInv
  BY DEF Init, EmptyInv, InCall
<1>4. WriteInv
  BY DEF Init, WriteInv, Written, InCall
<1>5. BufferIsHistory
  BY DEF Init, BufferIsHistory
<1>6. ReadInv
  BY DEF Init, ReadInv
<1> QED
  BY <1>1, <1>2, <1>3, <1>4, <1>5, <1>6 DEF IInv

LEMMA TypeStep == IInv /\ [Next]_vars => TypeOK'
<1> SUFFICES ASSUME IInv, [Next]_vars PROVE TypeOK'
  OBVIOUS
<1> USE DEF IInv
<1>1. ASSUME NEW w \in Writers, handle_activation_log_cyclic_buffer(w)
      PROVE  TypeOK'
  <2>1. ASSUME NEW type \in EntryTypes, Indicate(w, type) PROVE TypeOK'
    <3>1. [interface |-> w, entry_type |-> type, timestamp |-> 0] \in Entry
      BY LogAssumption DEF Entry
    <3> QED
      BY <2>1, <3>1
         DEF Indicate, Goto, TypeOK, Slots, Places, readVars
  <2>2. CASE WriteInterface(w)
    <3>1. Index \in Slots
      BY <2>2, BusyBuffer, IndexInBuffer DEF WriteInterface, InCall
    <3>2. entry[w].interface \in Writers \cup {"none"}
      BY EntryParts DEF TypeOK
    <3>3. activation_log_buffer' \in [Slots -> Entry]
      BY <2>2, <3>1, <3>2, InterfaceWritten DEF WriteInterface
    <3> QED
      BY <2>2, <3>3 DEF WriteInterface, Goto, TypeOK, Slots, Places, readVars
  <2>3. CASE WriteType(w)
    <3>1. Index \in Slots
      BY <2>3, BusyBuffer, IndexInBuffer DEF WriteType, InCall
    <3>2. entry[w].entry_type \in EntryTypes \cup {"none"}
      BY EntryParts DEF TypeOK
    <3>3. activation_log_buffer' \in [Slots -> Entry]
      BY <2>3, <3>1, <3>2, TypeWritten DEF WriteType
    <3> QED
      BY <2>3, <3>3 DEF WriteType, Goto, TypeOK, Slots, Places, readVars
  <2>4. CASE ReadClock(w)
    <3>1. Index \in 0 .. MaxCalls
      <4>1. Index \in Slots /\ Index <= activation_entry_counter
        BY <2>4, BusyBuffer, IndexInBuffer DEF ReadClock, InCall
      <4> QED
        BY <4>1, LogAssumption DEF TypeOK, Slots
    <3>2. now' \in 0 .. MaxCalls
      BY <2>4, LogAssumption DEF ReadClock, TypeOK
    <3>3. entry' \in [Writers -> Entry]
      BY <2>4, <3>2 DEF ReadClock, TypeOK, Entry
    <3> QED
      BY <2>4, <3>1, <3>2, <3>3
         DEF ReadClock, Goto, TypeOK, Slots, Places, logVars, readVars
  <2>5. CASE WriteStamp(w)
    <3>1. Index \in Slots /\ slot[w] \in Slots
      BY <2>5, BusyBuffer, IndexInBuffer DEF WriteStamp, InCall, EmptyInv
    <3>2. entry[w].timestamp \in 0 .. MaxCalls
      BY EntryParts DEF TypeOK
    <3>3. activation_log_buffer' \in [Slots -> Entry]
      BY <2>5, <3>1, <3>2, StampWritten DEF WriteStamp
    <3> QED
      BY <2>5, <3>3 DEF WriteStamp, Goto, TypeOK, Slots, Places, readVars
  <2>6. CASE LoadCounter(w)
    BY <2>6
       DEF LoadCounter, Goto, TypeOK, Slots, Places, logVars, readVars
  <2>7. CASE StoreCounter(w)
    <3>1. loaded[w] + 1 \in 0 .. MaxCalls
      BY <2>7, StampedCount, LogAssumption
         DEF StoreCounter, BoundInv, TypeOK, Stamped
    <3>2. NoEntry \in Entry
      BY LogAssumption DEF NoEntry, Entry
    <3>3. history' \in Seq(Entry)
      BY <2>7 DEF StoreCounter, TypeOK
    <3> QED
      BY <2>7, <3>1, <3>2, <3>3, LogAssumption
         DEF StoreCounter, Incremented, Goto, TypeOK, Slots, Places, readVars
  <2> QED
    BY <1>1, <2>1, <2>2, <2>3, <2>4, <2>5, <2>6, <2>7
       DEF handle_activation_log_cyclic_buffer
<1>2. CASE Monitor_FreezeInterfaceActivationLogging
  BY <1>2 DEF Monitor_FreezeInterfaceActivationLogging, logVars, writeVars,
              readVars, TypeOK, Slots
<1>3. CASE Monitor_UnfreezeInterfaceActivationLogging
  BY <1>3 DEF Monitor_UnfreezeInterfaceActivationLogging, logVars, writeVars,
              readVars, TypeOK, Slots
<1>4. CASE Monitor_ClearInterfaceActivationLog
  <2>1. history' \in Seq(Entry)
    BY <1>4 DEF Monitor_ClearInterfaceActivationLog
  <2> QED
    BY <1>4, <2>1, LogAssumption
       DEF Monitor_ClearInterfaceActivationLog, writeVars, readVars, TypeOK,
           Slots
<1>5. CASE Monitor_GetInterfaceActivationEntryLog
  <2>1. LatestIndex \in -1 .. MaxCalls \/ rpc # "index"
    <3>1. rpc = "index" => Index \in Slots /\ Index <= activation_entry_counter
      BY IndexInBuffer, LogAssumption DEF EmptyInv, TypeOK
    <3> QED
      BY <3>1, LogAssumption DEF LatestIndex, UINT32_MAX, TypeOK, Slots
  <2>2. /\ rpc' \in {"idle", "index", "compare", "size", "done"}
        /\ out_latest' \in -1 .. MaxCalls
        /\ out_size' \in 0 .. MaxCalls
        /\ readClean' \in BOOLEAN
    <3> USE LogAssumption DEF TypeOK
    <3>1. CASE GetEmpty
      BY <3>1 DEF GetEmpty
    <3>2. CASE GetBegins
      BY <3>2 DEF GetBegins
    <3>3. CASE GetIndex
      BY <2>1, <3>3 DEF GetIndex
    <3>4. CASE GetCompare
      BY <3>4 DEF GetCompare
    <3>5. CASE GetSize
      BY <3>5 DEF GetSize
    <3>6. CASE GetReturns
      BY <3>6 DEF GetReturns
    <3> QED
      BY <1>5, <3>1, <3>2, <3>3, <3>4, <3>5, <3>6
         DEF Monitor_GetInterfaceActivationEntryLog
  <2> QED
    BY <1>5, <2>2, ReaderFrame DEF TypeOK, logVars, writeVars, Slots
<1>6. CASE UNCHANGED vars
  BY <1>6 DEF vars, logVars, writeVars, readVars, TypeOK, Slots
<1> QED
  BY <1>1, <1>2, <1>3, <1>4, <1>5, <1>6 DEF Next

LEMMA BoundStep == IInv /\ [Next]_vars => BoundInv'
<1> SUFFICES ASSUME IInv, [Next]_vars PROVE BoundInv'
  OBVIOUS
<1> USE DEF IInv
<1>a. TypeOK'
  BY TypeStep
<1>c. /\ IsFiniteSet(Stamped)
      /\ Cardinality(Stamped) \in Nat
      /\ activation_entry_counter \in Nat
      /\ now \in Nat
      /\ loaded \in [Writers -> Nat]
  BY StampedCount, LogAssumption DEF TypeOK
<1>1. ASSUME NEW w \in Writers, handle_activation_log_cyclic_buffer(w)
      PROVE  BoundInv'
  <2>1. CASE \/ \E type \in EntryTypes : Indicate(w, type)
             \/ WriteInterface(w)
             \/ WriteType(w)
             \/ WriteStamp(w)
    <3>1. Stamped' = Stamped
      BY <2>1 DEF Indicate, WriteInterface, WriteType, WriteStamp, Goto,
                  Stamped, InCall, TypeOK
    <3> QED
      BY <2>1, <3>1
         DEF Indicate, WriteInterface, WriteType, WriteStamp, Goto,
             BoundInv, InCall, TypeOK
  <2>2. CASE ReadClock(w)
    <3>1. Stamped' = Stamped \cup {w} /\ w \notin Stamped
      BY <2>2 DEF ReadClock, Goto, Stamped, TypeOK
    <3>2. Cardinality(Stamped') = Cardinality(Stamped) + 1
      BY <1>c, <3>1, FS_AddElement
    <3> QED
      BY <1>c, <2>2, <3>2
         DEF ReadClock, Goto, BoundInv, TypeOK, logVars
  <2>3. CASE LoadCounter(w)
    <3>1. Stamped' = Stamped
      BY <2>3 DEF LoadCounter, Goto, Stamped, TypeOK
    <3> QED
      BY <1>c, <2>3, <3>1
         DEF LoadCounter, Goto, BoundInv, TypeOK, logVars
  <2>4. CASE StoreCounter(w)
    <3>1. Stamped' = Stamped \ {w} /\ w \in Stamped
      BY <2>4 DEF StoreCounter, Goto, Stamped, TypeOK
    <3>2. Cardinality(Stamped') = Cardinality(Stamped) - 1
      BY <1>c, <3>1, FS_RemoveElement
    <3>3. /\ wpc[w] = "store"
          /\ activation_entry_counter' = loaded[w] + 1
          /\ now' = now
      BY <2>4 DEF StoreCounter, Incremented
    <3>4. ASSUME NEW u \in Writers, wpc'[u] = "store"
          PROVE  wpc[u] = "store" /\ loaded'[u] = loaded[u]
      BY <2>4, <3>4 DEF StoreCounter, Goto, TypeOK
    <3>5. loaded[w] + Cardinality(Stamped) <= now
      BY <3>3 DEF BoundInv
    <3>6. loaded[w] \in Nat
      BY <1>c
    <3>7. activation_entry_counter' + Cardinality(Stamped') <= now'
      BY <1>c, <3>2, <3>3, <3>5, <3>6
    <3>8. ASSUME NEW u \in Writers, wpc'[u] = "store"
          PROVE  loaded'[u] + Cardinality(Stamped') <= now'
      <4>1. loaded[u] + Cardinality(Stamped) <= now /\ loaded[u] \in Nat
        BY <1>c, <3>4, <3>8 DEF BoundInv
      <4> QED
        BY <1>c, <3>2, <3>3, <3>4, <3>8, <4>1
    <3> QED
      BY <3>7, <3>8 DEF BoundInv
  <2> QED
    BY <1>1, <2>1, <2>2, <2>3, <2>4 DEF handle_activation_log_cyclic_buffer
<1>2. CASE \/ Monitor_FreezeInterfaceActivationLogging
           \/ Monitor_UnfreezeInterfaceActivationLogging
  BY <1>2, StampedKept
     DEF Monitor_FreezeInterfaceActivationLogging,
         Monitor_UnfreezeInterfaceActivationLogging, BoundInv, logVars,
         writeVars
<1>3. CASE Monitor_ClearInterfaceActivationLog
  BY <1>3, <1>c, StampedKept
     DEF Monitor_ClearInterfaceActivationLog, BoundInv, writeVars
<1>4. CASE Monitor_GetInterfaceActivationEntryLog
  BY <1>4, ReaderFrame, StampedKept DEF BoundInv, logVars, writeVars
<1>5. CASE UNCHANGED vars
  BY <1>5, StampedKept DEF vars, BoundInv, logVars, writeVars
<1> QED
  BY <1>1, <1>2, <1>3, <1>4, <1>5 DEF Next

LEMMA EmptyStep == IInv /\ [Next]_vars => EmptyInv'
<1> SUFFICES ASSUME IInv, [Next]_vars PROVE EmptyInv'
  OBVIOUS
<1> USE DEF IInv, EmptyInv, InCall
<1>1. ASSUME NEW w \in Writers, handle_activation_log_cyclic_buffer(w)
      PROVE  EmptyInv'
  <2>1. CASE \E type \in EntryTypes : Indicate(w, type)
    BY <2>1 DEF Indicate, MayStore, Goto, TypeOK, Slots, readVars
  <2>2. CASE WriteInterface(w)
    BY <2>2 DEF WriteInterface, Goto, TypeOK, Slots, readVars
  <2>3. CASE WriteType(w)
    BY <2>3 DEF WriteType, Goto, TypeOK, Slots, readVars
  <2>4. CASE ReadClock(w)
    <3>1. Index \in Slots
      BY <2>4, BusyBuffer, IndexInBuffer DEF ReadClock
    <3> QED
      BY <2>4, <3>1 DEF ReadClock, Goto, TypeOK, Slots, logVars, readVars
  <2>5. CASE WriteStamp(w)
    BY <2>5 DEF WriteStamp, Goto, TypeOK, Slots, readVars
  <2>6. CASE LoadCounter(w)
    BY <2>6 DEF LoadCounter, Goto, TypeOK, Slots, logVars, readVars
  <2>7. CASE StoreCounter(w)
    BY <2>7 DEF StoreCounter, Goto, TypeOK, Slots, readVars
  <2> QED
    BY <1>1, <2>1, <2>2, <2>3, <2>4, <2>5, <2>6, <2>7
       DEF handle_activation_log_cyclic_buffer
<1>2. CASE Monitor_FreezeInterfaceActivationLogging
  BY <1>2 DEF Monitor_FreezeInterfaceActivationLogging, logVars, writeVars,
              readVars, Slots
<1>3. CASE Monitor_UnfreezeInterfaceActivationLogging
  BY <1>3 DEF Monitor_UnfreezeInterfaceActivationLogging, logVars, writeVars,
              readVars, Slots
<1>4. CASE Monitor_ClearInterfaceActivationLog
  BY <1>4 DEF Monitor_ClearInterfaceActivationLog, writeVars, readVars, Slots
<1>5. CASE Monitor_GetInterfaceActivationEntryLog
  <2>1. size = 0 => rpc' \in {"idle", "done"}
    BY <1>5
       DEF Monitor_GetInterfaceActivationEntryLog, GetEmpty, GetBegins,
           GetIndex, GetCompare, GetSize, GetReturns
  <2> QED
    BY <1>5, <2>1, ReaderFrame DEF logVars, writeVars, Slots
<1>6. CASE UNCHANGED vars
  BY <1>6 DEF vars, logVars, writeVars, readVars, Slots
<1> QED
  BY <1>1, <1>2, <1>3, <1>4, <1>5, <1>6 DEF Next

(* The steps of the one call in progress. *)
LEMMA WriteStep == IInv /\ [Next]_vars => WriteInv'
<1> SUFFICES ASSUME IInv, [Next]_vars, clean' PROVE WriteInv'
  BY DEF WriteInv
<1> USE DEF IInv, InCall
<1>1. ASSUME NEW w \in Writers, NEW type \in EntryTypes, Indicate(w, type)
      PROVE  WriteInv'
  <2>1. \A q \in Writers : wpc[q] = "idle"
    BY <1>1 DEF Indicate
  <2>2. \A q \in Writers : wpc'[q] = IF q = w THEN "interface" ELSE "idle"
    BY <1>1, <2>1 DEF Indicate, Goto, TypeOK
  <2> QED
    BY <2>2 DEF WriteInv, Written
<1>7. ASSUME NEW w \in Writers, handle_activation_log_cyclic_buffer(w),
             ~\E type \in EntryTypes : Indicate(w, type)
      PROVE  WriteInv'
  <2>a. clean
    BY <1>7 DEF handle_activation_log_cyclic_buffer, WriteInterface,
                WriteType, ReadClock, WriteStamp, LoadCounter, StoreCounter,
                logVars
  <2>b. /\ wpc[w] # "idle"
        /\ Written(w)
        /\ \A q \in Writers : q # w => wpc[q] = "idle"
    BY <1>7, <2>a
       DEF handle_activation_log_cyclic_buffer, WriteInterface, WriteType,
           ReadClock, WriteStamp, LoadCounter, StoreCounter, WriteInv
  <2>c. wpc' = [wpc EXCEPT ![w] = wpc'[w]]
    BY <1>7 DEF handle_activation_log_cyclic_buffer, WriteInterface,
                WriteType, ReadClock, WriteStamp, LoadCounter, StoreCounter,
                Goto, TypeOK
  <2>d. SUFFICES Written(w)'
    BY <2>b, <2>c DEF WriteInv, Written, TypeOK
  <2>i. Index \in Slots
    BY <2>b, BusyBuffer, IndexInBuffer
  <2>e. entry[w] \in Entry
    BY DEF TypeOK
  <2>2. CASE WriteInterface(w)
    <3>1. activation_log_buffer'[Index].interface = entry[w].interface
      BY <2>2, <2>i, <2>e, EntryParts, InterfaceWritten DEF WriteInterface
    <3>2. Index' = Index
      BY <2>2 DEF WriteInterface, Index
    <3> QED
      BY <2>2, <3>1, <3>2 DEF WriteInterface, Goto, Written, TypeOK
  <2>3. CASE WriteType(w)
    <3>1. /\ activation_log_buffer'[Index].interface = entry[w].interface
          /\ activation_log_buffer'[Index].entry_type = entry[w].entry_type
      BY <2>3, <2>i, <2>e, <2>b, EntryParts, TypeWritten
         DEF WriteType, Written
    <3>2. Index' = Index
      BY <2>3 DEF WriteType, Index
    <3> QED
      BY <2>3, <3>1, <3>2 DEF WriteType, Goto, Written, TypeOK
  <2>4. CASE ReadClock(w)
    <3>1. Index' = Index /\ activation_log_buffer' = activation_log_buffer
      BY <2>4 DEF ReadClock, Index, logVars
    <3>2. /\ entry'[w].interface = entry[w].interface
          /\ entry'[w].entry_type = entry[w].entry_type
      BY <2>4, <2>e DEF ReadClock, TypeOK, Entry
    <3>3. slot'[w] = Index
      BY <2>4 DEF ReadClock, TypeOK
    <3> QED
      BY <2>4, <2>b, <3>1, <3>2, <3>3 DEF ReadClock, Goto, Written, TypeOK
  <2>5. CASE WriteStamp(w)
    <3>1. WriteField(Index, "timestamp", entry[w].timestamp)
      BY <2>5, <2>b DEF WriteStamp, Written
    <3>2. /\ activation_log_buffer'[Index].interface = entry[w].interface
          /\ activation_log_buffer'[Index].entry_type = entry[w].entry_type
          /\ activation_log_buffer'[Index].timestamp = entry[w].timestamp
      BY <2>5, <2>i, <2>e, <2>b, <3>1, EntryParts, StampWritten
         DEF WriteStamp, Written
    <3>3. Index' = Index
      BY <2>5 DEF WriteStamp, Index
    <3> QED
      BY <2>5, <3>2, <3>3 DEF WriteStamp, Goto, Written, TypeOK
  <2>6. CASE LoadCounter(w)
    <3>1. Index' = Index /\ activation_log_buffer' = activation_log_buffer
      BY <2>6 DEF LoadCounter, Index, logVars
    <3> QED
      BY <2>6, <2>b, <3>1 DEF LoadCounter, Goto, Written, TypeOK, logVars
  <2>7. CASE StoreCounter(w)
    BY <2>7 DEF StoreCounter, Goto, Written, TypeOK
  <2> QED
    BY <1>7, <2>2, <2>3, <2>4, <2>5, <2>6, <2>7
       DEF handle_activation_log_cyclic_buffer
<1>2. CASE Monitor_FreezeInterfaceActivationLogging
  BY <1>2 DEF Monitor_FreezeInterfaceActivationLogging, logVars, writeVars,
              WriteInv, Written, Index
<1>3. CASE Monitor_UnfreezeInterfaceActivationLogging
  BY <1>3 DEF Monitor_UnfreezeInterfaceActivationLogging, logVars, writeVars,
              WriteInv, Written, Index
<1>4. CASE Monitor_ClearInterfaceActivationLog
  BY <1>4 DEF Monitor_ClearInterfaceActivationLog, writeVars, WriteInv,
              Written
<1>5. CASE Monitor_GetInterfaceActivationEntryLog
  <2>1. UNCHANGED <<size, logVars, writeVars>>
    BY <1>5, ReaderFrame
  <2> QED
    BY <2>1 DEF logVars, writeVars, WriteInv, Written, Index
<1>6. CASE UNCHANGED vars
  BY <1>6 DEF vars, logVars, writeVars, WriteInv, Written, Index
<1> QED
  BY <1>1, <1>2, <1>3, <1>4, <1>5, <1>6, <1>7 DEF Next

(* The slots of BufferIsHistory: all but the one being overwritten. *)
Busy   == \E w \in Writers : InCall(w)
Intact == IF Busy THEN size - 1 ELSE size

Latest(k) ==
  activation_log_buffer[(Len(history) - k) % size]
    = history[Len(history) - k + 1]

LEMMA HistoryForm ==
  BufferIsHistory <=>
    (clean =>
       /\ activation_entry_counter = Len(history)
       /\ \A k \in 1 .. Len(history) : k <= Intact => Latest(k))
  BY DEF BufferIsHistory, Intact, Busy, Latest

(* A field written where the counter points leaves the other slots. *)
LEMMA OverwritesOldest ==
  ASSUME TypeOK, size > 0, Busy, NEW k \in 1 .. Len(history), k <= Intact,
         activation_entry_counter = Len(history), Latest(k),
         \A j \in Slots :
           j # Index => activation_log_buffer'[j] = activation_log_buffer[j],
         UNCHANGED <<size, history>>
  PROVE  Latest(k)'
<1>1. PICK s \in Nat \ {0}, n \in Nat : s = size /\ n = Len(history)
  <2>1. size \in Nat \ {0} /\ history \in Seq(Entry)
    BY LogAssumption DEF TypeOK
  <2> QED
    BY <2>1
<1>2. k \in 1 .. s - 1
  BY <1>1 DEF Intact
<1>3. PICK m \in Int : m = n - k
  BY <1>1
<1>4. SlotOf(m) # SlotOf(n)
  BY <1>1, <1>2, <1>3, SlotsDiffer
<1>5. SlotOf(m) \in Slots /\ SlotOf(n) = Index
  BY <1>1 DEF SlotOf, Slots, Index
<1>6. activation_log_buffer'[SlotOf(m)] = activation_log_buffer[SlotOf(m)]
  BY <1>4, <1>5
<1> QED
  BY <1>1, <1>3, <1>6 DEF Latest, SlotOf

LEMMA HistoryStep == IInv /\ [Next]_vars => BufferIsHistory'
<1> SUFFICES ASSUME IInv, [Next]_vars, clean'
             PROVE  /\ activation_entry_counter' = Len(history)'
                    /\ \A k \in 1 .. Len(history') : k <= Intact' => Latest(k)'
  BY DEF BufferIsHistory, Intact, Busy, Latest
<1> DEFINE Goal ==
      /\ activation_entry_counter' = Len(history)'
      /\ \A k \in 1 .. Len(history') : k <= Intact' => Latest(k)'
<1> USE DEF IInv
<1>n. Len(history) \in Nat /\ size \in Nat
  BY LogAssumption DEF TypeOK
<1>h. clean =>
        /\ activation_entry_counter = Len(history)
        /\ \A k \in 1 .. Len(history) : k <= Intact => Latest(k)
  BY HistoryForm
<1>s. ASSUME clean, UNCHANGED <<size, activation_entry_counter,
                                activation_log_buffer, history>>,
             Busy => Busy'
      PROVE  Goal
  <2>1. Intact' <= Intact
    BY <1>s, <1>n DEF Intact
  <2>2. \A k \in 1 .. Len(history) : k <= Intact' => k <= Intact
    BY <1>s, <1>n, <2>1 DEF Intact
  <2> QED
    BY <1>s, <1>h, <2>2 DEF Latest
<1>1. ASSUME NEW w \in Writers, handle_activation_log_cyclic_buffer(w)
      PROVE  Goal
  <2>c. clean
    BY <1>1 DEF handle_activation_log_cyclic_buffer, Indicate,
                WriteInterface, WriteType, ReadClock, WriteStamp,
                LoadCounter, StoreCounter, logVars
  <2>1. CASE \E type \in EntryTypes : Indicate(w, type)
    BY <1>s, <2>c, <2>1 DEF Indicate, Goto, Busy, InCall, TypeOK
  <2>2. ASSUME InCall(w), wpc'[w] # "idle",
               \A j \in Slots :
                 j # Index =>
                   activation_log_buffer'[j] = activation_log_buffer[j],
               UNCHANGED <<size, activation_entry_counter, history>>
        PROVE  Goal
    <3>1. Busy /\ Busy' /\ size > 0
      BY <2>2, BusyBuffer DEF Busy, InCall
    <3>2. Intact' = Intact
      BY <2>2, <3>1 DEF Intact
    <3> QED
      BY <1>h, <2>c, <2>2, <3>1, <3>2, OverwritesOldest
  <2>i. InCall(w) => Index \in Slots
    BY BusyBuffer, IndexInBuffer
  <2>e. entry[w] \in Entry
    BY DEF TypeOK
  <2>3. CASE WriteInterface(w)
    <3>1. InCall(w) /\ wpc'[w] # "idle"
      BY <2>3 DEF WriteInterface, InCall, Goto, TypeOK
    <3>2. \A j \in Slots :
            j # Index => activation_log_buffer'[j] = activation_log_buffer[j]
      BY <2>3, <2>i, <2>e, <3>1, EntryParts, InterfaceWritten
         DEF WriteInterface
    <3> QED
      BY <2>2, <2>3, <3>1, <3>2 DEF WriteInterface
  <2>4. CASE WriteType(w)
    <3>1. InCall(w) /\ wpc'[w] # "idle"
      BY <2>4 DEF WriteType, InCall, Goto, TypeOK
    <3>2. \A j \in Slots :
            j # Index => activation_log_buffer'[j] = activation_log_buffer[j]
      BY <2>4, <2>i, <2>e, <3>1, EntryParts, TypeWritten DEF WriteType
    <3> QED
      BY <2>2, <2>4, <3>1, <3>2 DEF WriteType
  <2>5. CASE ReadClock(w)
    BY <1>s, <2>c, <2>5 DEF ReadClock, Goto, Busy, InCall, TypeOK, logVars
  <2>6. CASE WriteStamp(w)
    <3>1. InCall(w) /\ wpc'[w] # "idle"
      BY <2>6 DEF WriteStamp, InCall, Goto, TypeOK
    <3>2. WriteField(Index, "timestamp", entry[w].timestamp)
      BY <2>6, <2>c DEF WriteStamp, WriteInv, Written
    <3>3. \A j \in Slots :
            j # Index => activation_log_buffer'[j] = activation_log_buffer[j]
      BY <2>i, <2>e, <3>1, <3>2, EntryParts, StampWritten
    <3> QED
      BY <2>2, <2>6, <3>1, <3>3 DEF WriteStamp
  <2>7. CASE LoadCounter(w)
    BY <1>s, <2>c, <2>7 DEF LoadCounter, Goto, Busy, InCall, TypeOK, logVars
  <2>8. CASE StoreCounter(w)
    <3>1. InCall(w) /\ Busy
      BY <2>8 DEF StoreCounter, Busy, InCall
    <3>2. size > 0
      BY <3>1, BusyBuffer
    <3>3. PICK n \in Nat, s \in Nat \ {0} : n = Len(history) /\ s = size
      BY <1>n, <3>2
    <3>4. activation_entry_counter = n
      BY <1>h, <2>c, <3>3
    <3>5. /\ history' = Append(history, entry[w])
          /\ Len(history') = n + 1
          /\ history'[n + 1] = entry[w]
          /\ \A k \in 1 .. n : history'[k] = history[k]
      BY <2>8, <3>3 DEF StoreCounter, TypeOK
    <3>6. activation_entry_counter' = n + 1
      BY <2>8, <2>c, <3>4
         DEF StoreCounter, Incremented, WriteInv, Written
    <3>7. activation_log_buffer[n % s] = entry[w]
      <4>1. activation_log_buffer[Index] \in Entry
        BY <2>i, <3>1 DEF TypeOK
      <4>2. activation_log_buffer[Index] = entry[w]
        BY <2>8, <2>c, <2>e, <4>1, SameEntry
           DEF StoreCounter, WriteInv, Written
      <4> QED
        BY <3>3, <3>4, <4>2 DEF Index
    <3>8. UNCHANGED <<size, activation_log_buffer>>
      BY <2>8 DEF StoreCounter
    <3>9. ASSUME NEW k \in 1 .. n + 1, k <= Intact' PROVE Latest(k)'
      <4>1. k <= s
        BY <1>n, <3>3, <3>8, <3>9 DEF Intact
      <4>2. CASE k = 1
        <5>1. (n + 1) - k = n /\ (n + 1) - k + 1 = n + 1
          BY <4>2
        <5> QED
          BY <3>3, <3>5, <3>7, <3>8, <5>1 DEF Latest
      <4>3. CASE k # 1
        <5>1. PICK m \in 1 .. n : m = k - 1
          BY <4>3
        <5>2. m <= Intact
          BY <1>n, <3>1, <3>3, <4>1, <5>1 DEF Intact
        <5>3. Latest(m)
          BY <1>h, <2>c, <3>3, <5>2
        <5>4. /\ (n + 1) - k = n - m
              /\ (n + 1) - k + 1 = n - m + 1
              /\ n - m + 1 \in 1 .. n
          BY <5>1
        <5> QED
          BY <3>3, <3>5, <3>8, <5>3, <5>4 DEF Latest
      <4> QED
        BY <4>2, <4>3
    <3> QED
      BY <3>5, <3>6, <3>9
  <2> QED
    BY <1>1, <2>1, <2>3, <2>4, <2>5, <2>6, <2>7, <2>8
       DEF handle_activation_log_cyclic_buffer
<1>2. CASE \/ Monitor_FreezeInterfaceActivationLogging
           \/ Monitor_UnfreezeInterfaceActivationLogging
  BY <1>s, <1>2
     DEF Monitor_FreezeInterfaceActivationLogging,
         Monitor_UnfreezeInterfaceActivationLogging, logVars, writeVars, Busy,
         InCall
<1>3. CASE Monitor_ClearInterfaceActivationLog
  BY <1>3 DEF Monitor_ClearInterfaceActivationLog
<1>4. CASE Monitor_GetInterfaceActivationEntryLog
  <2>1. UNCHANGED <<size, logVars, writeVars>>
    BY <1>4, ReaderFrame
  <2> QED
    BY <1>s, <2>1 DEF logVars, writeVars, Busy, InCall
<1>5. CASE UNCHANGED vars
  BY <1>s, <1>5 DEF vars, logVars, writeVars, Busy, InCall
<1> QED
  BY <1>1, <1>2, <1>3, <1>4, <1>5 DEF Next

LEMMA ReadStep == IInv /\ [Next]_vars => ReadInv'
<1> SUFFICES ASSUME IInv, [Next]_vars, readClean', rpc' # "idle"
             PROVE  ReadInv'
  BY DEF ReadInv
<1> USE DEF IInv
<1>s. ASSUME readClean, rpc # "idle",
             UNCHANGED <<size, activation_entry_counter, wpc, readVars>>
      PROVE  ReadInv'
  BY <1>s DEF ReadInv, readVars, InCall, LatestIndex, Index
<1>1. ASSUME NEW w \in Writers, handle_activation_log_cyclic_buffer(w)
      PROVE  ReadInv'
  <2>1. readClean /\ rpc # "idle"
    BY <1>1 DEF handle_activation_log_cyclic_buffer, Indicate,
                WriteInterface, WriteType, ReadClock, WriteStamp,
                LoadCounter, StoreCounter, readVars
  <2>2. ~InCall(w)
    BY <2>1 DEF ReadInv
  <2>3. CASE \E type \in EntryTypes : Indicate(w, type)
    BY <2>1, <2>3 DEF Indicate, readVars
  <2> QED
    BY <1>1, <2>2, <2>3
       DEF handle_activation_log_cyclic_buffer, InCall, WriteInterface,
           WriteType, ReadClock, WriteStamp, LoadCounter, StoreCounter
<1>2. CASE \/ Monitor_FreezeInterfaceActivationLogging
           \/ Monitor_UnfreezeInterfaceActivationLogging
  BY <1>s, <1>2
     DEF Monitor_FreezeInterfaceActivationLogging,
         Monitor_UnfreezeInterfaceActivationLogging, logVars, writeVars,
         readVars
<1>3. CASE Monitor_ClearInterfaceActivationLog
  BY <1>3 DEF Monitor_ClearInterfaceActivationLog, readVars
<1>4. CASE Monitor_GetInterfaceActivationEntryLog
  <2> USE DEF ReadInv, InCall, LatestIndex, Index
  <2>1. UNCHANGED <<size, activation_entry_counter, wpc>>
    BY <1>4, ReaderFrame DEF logVars, writeVars
  <2>2. activation_entry_counter \in Nat /\ size \in Nat
    BY LogAssumption DEF TypeOK
  <2>3. CASE GetEmpty
    <3>1. \A w \in Writers : wpc[w] = "idle"
      BY <2>3 DEF GetEmpty
    <3> QED
      BY <2>1, <2>2, <2>3, <3>1 DEF GetEmpty
  <2>4. CASE GetBegins
    <3>1. \A w \in Writers : wpc[w] = "idle"
      BY <2>4 DEF GetBegins
    <3> QED
      BY <2>1, <2>2, <2>4, <3>1 DEF GetBegins
  <2>5. CASE GetIndex
    BY <2>1, <2>2, <2>5 DEF GetIndex
  <2>6. CASE GetCompare
    BY <2>1, <2>2, <2>6 DEF GetCompare
  <2>7. CASE GetSize
    BY <2>1, <2>2, <2>7 DEF GetSize
  <2>8. CASE GetReturns
    BY <2>8 DEF GetReturns
  <2> QED
    BY <1>4, <2>3, <2>4, <2>5, <2>6, <2>7, <2>8
       DEF Monitor_GetInterfaceActivationEntryLog
<1>5. CASE UNCHANGED vars
  BY <1>s, <1>5 DEF vars, logVars, writeVars, readVars
<1> QED
  BY <1>1, <1>2, <1>3, <1>4, <1>5 DEF Next

LEMMA Inductive == Spec => []IInv
<1>1. IInv /\ [Next]_vars => IInv'
  BY TypeStep, BoundStep, EmptyStep, WriteStep, HistoryStep, ReadStep
     DEF IInv
<1> QED
  BY <1>1, Initially, PTL DEF Spec

-----------------------------------------------------------------------------
(* The theorems.                                                           *)

(* Fields are written where they belong; counters are within the number of *)
(* timestamps taken.                                                       *)
THEOREM TypeCorrect == Spec => []TypeOK
<1>1. IInv => TypeOK
  BY DEF IInv
<1> QED
  BY <1>1, Inductive, PTL

(* No remainder by a size of zero is ever taken.                           *)
THEOREM EmptyLogUnused == Spec => []NoSlotInEmptyLog
<1>1. IInv => NoSlotInEmptyLog
  BY DEF IInv, EmptyInv, NoSlotInEmptyLog
<1> QED
  BY <1>1, Inductive, PTL

(* handle_activation_log_cyclic_buffer keeps the history of the entries,   *)
(* however often it comes round the buffer.                                *)
THEOREM BufferKeepsHistory == Spec => []BufferIsHistory
<1>1. IInv => BufferIsHistory
  BY DEF IInv
<1> QED
  BY <1>1, Inductive, PTL

(* Monitor_GetInterfaceActivationEntryLog tells an undisturbed reader how  *)
(* much is in the buffer, and where the latest entry is unless the counter *)
(* is a multiple of the size.                                              *)
THEOREM ReaderToldRight == Spec => []ReaderIsToldRight
<1>1. ASSUME IInv PROVE ReaderIsToldRight
  <2> USE <1>1 DEF IInv
  <2> SUFFICES ASSUME rpc = "done", readClean, clean
               PROVE  LET n == Len(history)
                      IN  /\ out_size = IF n < size THEN n ELSE size
                          /\ (n > 0 /\ n % size # 0) =>
                               activation_log_buffer[out_latest] = history[n]
    BY DEF ReaderIsToldRight
  <2>1. PICK n \in Nat, s \in Nat : n = Len(history) /\ s = size
    <3>1. size \in Nat /\ history \in Seq(Entry)
      BY LogAssumption DEF TypeOK
    <3> QED
      BY <3>1
  <2>2. activation_entry_counter = n
    BY <2>1 DEF BufferIsHistory
  <2>3. out_size = IF n < s THEN n ELSE s
    BY <2>1, <2>2 DEF ReadInv
  <2>4. n > 0 => out_latest = IF n % s = 0 THEN UINT32_MAX ELSE (n % s) - 1
    BY <2>1, <2>2 DEF ReadInv, LatestIndex, Index
  <2>5. ASSUME n > 0, n % s # 0
        PROVE  activation_log_buffer[(n % s) - 1] = history[n]
    <3>1. s \in Nat \ {0}
      BY <2>1, <2>2, <2>5 DEF EmptyInv
    <3>2. PICK m \in Int : m = n - 1
      BY <2>1
    <3>3. m % s = (n % s) - 1
      <4>1. SlotOf(n) # 0
        BY <2>1, <2>5 DEF SlotOf
      <4>2. SlotOf(m) = SlotOf(n) - 1
        BY <2>1, <3>1, <3>2, <4>1, SlotBefore
      <4> QED
        BY <2>1, <4>2 DEF SlotOf
    <3>4. 1 <= Intact
      BY <2>1, <3>1 DEF Intact, Busy, ReadInv
    <3>5. Latest(1)
      BY <2>1, <2>5, <3>4, HistoryForm
    <3> QED
      BY <2>1, <3>2, <3>3, <3>5 DEF Latest
  <2> QED
    BY <2>1, <2>3, <2>4, <2>5
<1> QED
  BY <1>1, Inductive, PTL
=============================================================================
