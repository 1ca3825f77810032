------------------------- MODULE RequestQueuesProofs -------------------------
(***************************************************************************)
(* Proofs about RequestQueues: for any number of interfaces, senders and   *)
(* messages, Monitor's maximum is never more than what the queue reached,  *)
(* no count of -1 is recorded as one, a call that ran alone is counted and *)
(* only one that did not lowers a maximum, and refusals are reported.      *)
(***************************************************************************)
EXTENDS RequestQueues, TLAPS

(* The count a call carries between its look at the queue and its record   *)
(* was once reached, and is a count, not the -1 of an unmapped interface.  *)
Highest(i) == IF i \in Mapped THEN peak[i] ELSE 0

CarriedCount(s) ==
  /\ pc[s] \in {"compare", "record"} =>
       queued_items_count[s] <= Highest(target[s])
  /\ pc[s] = "record" => queued_items_count[s] > -1

PeakInv ==
  /\ \A i \in Interfaces : pending[i] <= peak[i]
  /\ \A s \in Senders : CarriedCount(s)
  /\ \A i \in Interfaces : maximum_queued_items[i] <= Highest(i)

(* A registered callback is still there; a call invokes one only on its    *)
(* way to the return, and only for a request that was refused.             *)
Tells(s) ==
  /\ registered[s] => Monitor_MessageQueueOverflowCallback # NULL
  /\ pc[s] # "return" => called[s] = None
  /\ pc[s] = "report" => result[s] = "TOO_MANY" /\ checked[s] # NULL
  /\ pc[s] = "return" =>
       /\ result[s] = "TOO_MANY" /\ registered[s] => called[s] \in Callbacks
       /\ called[s] # None => result[s] = "TOO_MANY"
       /\ outcome[s] <=> (result[s] = "SUCCESSFUL" \/ called[s] # None)

ReportInv == \A s \in Senders : Tells(s)

(* Without interruption the carried count is what the queue holds, a count *)
(* about to be recorded exceeds the maximum, and afterwards the maximum    *)
(* covers the queue.                                                       *)
CountInv ==
  \A s \in Senders :
    ~interrupted[s] =>
      /\ pc[s] \in {"compare", "record"} /\ target[s] \in Mapped =>
           queued_items_count[s] = pending[target[s]]
      /\ pc[s] = "record" =>
           queued_items_count[s] > maximum_queued_items[target[s]]
      /\ pc[s] \in {"check", "report", "return"} /\ target[s] \in Mapped =>
           pending[target[s]] <= maximum_queued_items[target[s]]

-----------------------------------------------------------------------------
(* Type correctness of the queues and of every call's locals: a queue      *)
(* never holds more than its size and no recorded maximum exceeds it.      *)
LEMMA TypeInit == Init => TypeOK
<1> SUFFICES ASSUME Init
             PROVE  TypeOK
  OBVIOUS
<1> USE DEF Init, Places
<1>1. /\ 0 \in 0 .. QueueSize
      /\ -1 \in -1 .. QueueSize
  BY QueuesAssumption
<1>2. /\ pending \in [Interfaces -> 0 .. QueueSize]
      /\ maximum_queued_items \in [Interfaces -> 0 .. QueueSize]
      /\ peak \in [Interfaces -> 0 .. QueueSize]
      /\ queued_items_count \in [Senders -> -1 .. QueueSize]
  BY <1>1
<1>3. /\ receiving \in [Interfaces -> BOOLEAN]
      /\ outcome \in [Senders -> BOOLEAN]
      /\ interrupted \in [Senders -> BOOLEAN]
      /\ registered \in [Senders -> BOOLEAN]
  BY Zenon
<1>4. /\ pc \in [Senders -> Places]
      /\ target \in [Senders -> Interfaces \cup {None}]
      /\ result \in [Senders -> {None, "SUCCESSFUL", "TOO_MANY", "INVALID_SIZE"}]
      /\ checked \in [Senders -> Callbacks \cup {NULL}]
      /\ called \in [Senders -> Callbacks \cup {NULL, None}]
      /\ Monitor_MessageQueueOverflowCallback \in Callbacks \cup {NULL}
      /\ \A s \in Senders : pc[s] # "idle" => target[s] \in Interfaces
  BY Zenon
<1> QED
  BY <1>2, <1>3, <1>4 DEF TypeOK

LEMMA EnqueueType ==
  ASSUME TypeOK, NEW i \in Interfaces, NEW status, Enqueue(i, status),
         status = "SUCCESSFUL" => receiving[i] \/ pending[i] < QueueSize
  PROVE  /\ pending' \in [Interfaces -> 0 .. QueueSize]
         /\ peak' \in [Interfaces -> 0 .. QueueSize]
         /\ receiving' \in [Interfaces -> BOOLEAN]
  BY QueuesAssumption DEF TypeOK, Enqueue

LEMMA SubmitFits ==
  ASSUME NEW i \in Interfaces, NEW fits
  PROVE  /\ Submit(i, fits) \in {"SUCCESSFUL", "TOO_MANY", "INVALID_SIZE"}
         /\ Submit(i, fits) = "SUCCESSFUL" =>
              receiving[i] \/ pending[i] < QueueSize
  BY DEF Submit

LEMMA InterruptType ==
  ASSUME TypeOK, NEW t, NEW i, Interrupt(t, i)
  PROVE  interrupted' \in [Senders -> BOOLEAN]
  BY Zenon DEF Interrupt, TypeOK

LEMMA TypeSend ==
  ASSUME TypeOK, PeakInv, NEW s \in Senders, ThreadsCommon_SendRequest(s)
  PROVE  TypeOK'
<1> USE QueuesAssumption DEF TypeOK, Goto, Places, None
<1>1. ASSUME NEW i \in Interfaces, NEW fits \in BOOLEAN, Send(s, i, fits)
      PROVE  TypeOK'
  <2>1. /\ pending' \in [Interfaces -> 0 .. QueueSize]
        /\ peak' \in [Interfaces -> 0 .. QueueSize]
        /\ receiving' \in [Interfaces -> BOOLEAN]
    BY <1>1, EnqueueType, SubmitFits DEF Send
  <2>2. interrupted' \in [Senders -> BOOLEAN]
    BY <1>1, Zenon DEF Send
  <2>3. result' \in [Senders -> {None, "SUCCESSFUL", "TOO_MANY", "INVALID_SIZE"}]
    BY <1>1, SubmitFits DEF Send
  <2> QED
    BY <1>1, <2>1, <2>2, <2>3 DEF Send
<1>2. CASE Count(s)
  <2>1. Monitor_GetQueuedItemsCount(target[s]) \in -1 .. QueueSize
    BY <1>2 DEF Count, Monitor_GetQueuedItemsCount
  <2> QED
    BY <1>2, <2>1 DEF Count, queueVars
<1>3. CASE Compare(s)
  BY <1>3 DEF Compare, queueVars, sendVars
<1>4. CASE Record(s)
  <2>1. interrupted' \in [Senders -> BOOLEAN]
    BY <1>4, InterruptType DEF Record
  <2>2. queued_items_count[s] \in 0 .. QueueSize
    BY <1>4 DEF Record, PeakInv, CarriedCount
  <2> QED
    BY <1>4, <2>1, <2>2 DEF Record, queueVars, sendVars
<1>5. CASE CheckOverflow(s)
  <2>1. outcome' \in [Senders -> BOOLEAN]
    BY <1>5, Zenon DEF CheckOverflow
  <2> QED
    BY <1>5, <2>1 DEF CheckOverflow, queueVars
<1>6. CASE Report(s)
  BY <1>6 DEF Report, queueVars
<1>7. CASE Return(s)
  BY <1>7 DEF Return, queueVars
<1> QED
  BY <1>1, <1>2, <1>3, <1>4, <1>5, <1>6, <1>7 DEF ThreadsCommon_SendRequest

LEMMA TypeNext == TypeOK /\ PeakInv /\ [Next]_vars => TypeOK'
<1> SUFFICES ASSUME TypeOK, PeakInv, [Next]_vars
             PROVE  TypeOK'
  OBVIOUS
<1>1. ASSUME NEW i \in Interfaces, Receive(i)
      PROVE  TypeOK'
  <2>1. interrupted' \in [Senders -> BOOLEAN]
    BY <1>1, InterruptType DEF Receive
  <2>2. /\ pending' \in [Interfaces -> 0 .. QueueSize]
        /\ receiving' \in [Interfaces -> BOOLEAN]
    <3>1. CASE pending[i] > 0
      <4>1. pending[i] - 1 \in 0 .. QueueSize
        BY <3>1, QueuesAssumption DEF TypeOK
      <4> QED
        BY <1>1, <3>1, <4>1, Zenon DEF Receive, TypeOK
    <3>2. CASE ~(pending[i] > 0)
      BY <1>1, <3>2, Zenon DEF Receive, TypeOK
    <3> QED
      BY <3>1, <3>2
  <2>3. UNCHANGED <<peak, maximum_queued_items,
                    Monitor_MessageQueueOverflowCallback, pc, target, result,
                    queued_items_count, checked, outcome, called, registered>>
    BY <1>1 DEF Receive, sendVars
  <2> QED
    BY <2>1, <2>2, <2>3 DEF TypeOK
<1>2. ASSUME NEW i \in Interfaces, TimerSend(i)
      PROVE  TypeOK'
  <2>1. interrupted' \in [Senders -> BOOLEAN]
    BY <1>2, InterruptType DEF TimerSend
  <2>2. /\ pending' \in [Interfaces -> 0 .. QueueSize]
        /\ peak' \in [Interfaces -> 0 .. QueueSize]
        /\ receiving' \in [Interfaces -> BOOLEAN]
    BY <1>2, EnqueueType, SubmitFits DEF TimerSend
  <2> QED
    BY <1>2, <2>1, <2>2 DEF TimerSend, TypeOK, sendVars
<1>3. ASSUME NEW c \in Callbacks \cup {NULL},
             Monitor_SetMessageQueueOverflowCallback(c)
      PROVE  TypeOK'
  <2>1. registered' \in [Senders -> BOOLEAN]
    BY <1>3, Zenon DEF Monitor_SetMessageQueueOverflowCallback, TypeOK
  <2> QED
    BY <1>3, <2>1
    DEF Monitor_SetMessageQueueOverflowCallback, TypeOK, queueVars
<1>4. CASE UNCHANGED vars
  BY <1>4 DEF vars, queueVars, sendVars, TypeOK
<1> QED
  BY <1>1, <1>2, <1>3, <1>4, TypeSend DEF Next

-----------------------------------------------------------------------------
(* Monitor's maximum was reached. *)
LEMMA PeakGrows ==
  ASSUME TypeOK, NEW i \in Interfaces, NEW status, Enqueue(i, status)
  PROVE  \A j \in Interfaces : peak[j] <= peak'[j]
  BY QueuesAssumption DEF TypeOK, Enqueue

LEMMA EnqueuePeak ==
  ASSUME TypeOK, PeakInv, NEW i \in Interfaces, NEW status, Enqueue(i, status)
  PROVE  \A j \in Interfaces : pending'[j] <= peak'[j]
  BY QueuesAssumption DEF TypeOK, Enqueue, PeakInv

LEMMA PeakSend ==
  ASSUME TypeOK, PeakInv, NEW s \in Senders, ThreadsCommon_SendRequest(s)
  PROVE  PeakInv'
<1> USE QueuesAssumption DEF TypeOK, PeakInv, CarriedCount, Highest, Goto
<1>1. ASSUME NEW i \in Interfaces, NEW fits \in BOOLEAN, Send(s, i, fits)
      PROVE  PeakInv'
  <2>1. \A j \in Interfaces : peak[j] <= peak'[j] /\ pending'[j] <= peak'[j]
    BY <1>1, PeakGrows, EnqueuePeak DEF Send
  <2>2. peak' \in [Interfaces -> 0 .. QueueSize]
    BY <1>1, EnqueueType, SubmitFits DEF Send
  <2>3. \A q \in Senders : CarriedCount(q)'
    BY <1>1, <2>1, <2>2 DEF Send, Places
  <2>4. \A j \in Interfaces : (maximum_queued_items[j] <= Highest(j))'
    BY <1>1, <2>1, <2>2 DEF Send
  <2> QED
    BY <2>1, <2>3, <2>4
<1>2. CASE Count(s)
  <2>1. Monitor_GetQueuedItemsCount(target[s]) <= Highest(target[s])
    BY <1>2 DEF Count, Monitor_GetQueuedItemsCount
  <2> QED
    BY <1>2, <2>1 DEF Count, queueVars
<1>3. CASE Compare(s)
  BY <1>3 DEF Compare, queueVars, sendVars, IsNewMaximum
<1>4. CASE Record(s)
  BY <1>4 DEF Record, queueVars, sendVars
<1>5. CASE CheckOverflow(s)
  BY <1>5 DEF CheckOverflow, queueVars
<1>6. CASE Report(s)
  BY <1>6 DEF Report, queueVars
<1>7. CASE Return(s)
  BY <1>7 DEF Return, queueVars
<1> QED
  BY <1>1, <1>2, <1>3, <1>4, <1>5, <1>6, <1>7 DEF ThreadsCommon_SendRequest

LEMMA PeakNext == TypeOK /\ PeakInv /\ [Next]_vars => PeakInv'
<1> SUFFICES ASSUME TypeOK, PeakInv, [Next]_vars
             PROVE  PeakInv'
  OBVIOUS
<1> USE QueuesAssumption DEF TypeOK, PeakInv, CarriedCount, Highest
<1>1. ASSUME NEW i \in Interfaces, Receive(i)
      PROVE  PeakInv'
  BY <1>1 DEF Receive, sendVars
<1>2. ASSUME NEW i \in Interfaces, TimerSend(i)
      PROVE  PeakInv'
  <2>1. \A j \in Interfaces : peak[j] <= peak'[j] /\ pending'[j] <= peak'[j]
    BY <1>2, PeakGrows, EnqueuePeak DEF TimerSend
  <2>2. peak' \in [Interfaces -> 0 .. QueueSize]
    BY <1>2, EnqueueType, SubmitFits DEF TimerSend
  <2> QED
    BY <1>2, <2>1, <2>2 DEF TimerSend, sendVars, Places
<1>3. ASSUME NEW c \in Callbacks \cup {NULL},
             Monitor_SetMessageQueueOverflowCallback(c)
      PROVE  PeakInv'
  BY <1>3 DEF Monitor_SetMessageQueueOverflowCallback, queueVars
<1>4. CASE UNCHANGED vars
  BY <1>4 DEF vars, queueVars, sendVars
<1> QED
  BY <1>1, <1>2, <1>3, <1>4, PeakSend DEF Next

LEMMA PeakInit == Init => PeakInv
  BY QueuesAssumption DEF Init, PeakInv, CarriedCount, Highest

-----------------------------------------------------------------------------
(* What a call tells the callback and its caller. *)
LEMMA ReportInit == Init => ReportInv
  BY DEF Init, ReportInv, Tells

LEMMA ReportSend ==
  ASSUME TypeOK, ReportInv, NEW s \in Senders, ThreadsCommon_SendRequest(s)
  PROVE  ReportInv'
<1> USE QueuesAssumption DEF TypeOK, ReportInv, Tells, Goto, Places, None
<1>1. ASSUME NEW i \in Interfaces, NEW fits \in BOOLEAN, Send(s, i, fits)
      PROVE  ReportInv'
  BY <1>1 DEF Send
<1>2. CASE Count(s)
  BY <1>2 DEF Count
<1>3. CASE Compare(s)
  BY <1>3 DEF Compare, sendVars
<1>4. CASE Record(s)
  BY <1>4 DEF Record, sendVars
<1>5. CASE CheckOverflow(s)
  <2>1. UNCHANGED <<result, called, registered,
                    Monitor_MessageQueueOverflowCallback>>
    BY <1>5 DEF CheckOverflow
  <2>2. /\ called[s] = None
        /\ \/ /\ pc' = [pc EXCEPT ![s] = "report"]
              /\ checked' = [checked EXCEPT
                               ![s] = Monitor_MessageQueueOverflowCallback]
              /\ UNCHANGED outcome
              /\ result[s] = "TOO_MANY"
              /\ Monitor_MessageQueueOverflowCallback # NULL
           \/ /\ pc' = [pc EXCEPT ![s] = "return"]
              /\ outcome' = [outcome EXCEPT ![s] = result[s] = "SUCCESSFUL"]
              /\ UNCHANGED checked
              /\ ~(result[s] = "TOO_MANY" /\ registered[s])
    BY <1>5 DEF CheckOverflow, MustReport
  <2>3. \A q \in Senders \ {s} : /\ pc'[q] = pc[q]
                                 /\ checked'[q] = checked[q]
                                 /\ outcome'[q] <=> outcome[q]
    BY <2>2
  <2>4. \/ /\ pc'[s] = "report"
           /\ checked'[s] # NULL
           /\ result[s] = "TOO_MANY"
        \/ /\ pc'[s] = "return"
           /\ outcome'[s] <=> result[s] = "SUCCESSFUL"
           /\ ~(result[s] = "TOO_MANY" /\ registered[s])
    BY <2>2
  <2>5. ASSUME NEW q \in Senders \ {s}
        PROVE  Tells(q)'
    <3>1. Tells(q)
      BY DEF ReportInv
    <3>2. /\ pc'[q] = pc[q] /\ checked'[q] = checked[q]
          /\ outcome'[q] <=> outcome[q]
      BY <2>3
    <3> QED
      BY <2>1, <3>1, <3>2, Zenon DEF Tells
  <2>6. Tells(s)'
    <3>1. registered[s] => Monitor_MessageQueueOverflowCallback # NULL
      BY DEF ReportInv, Tells
    <3>2. CASE pc'[s] = "report"
      BY <2>1, <2>2, <2>4, <3>1, <3>2 DEF Tells
    <3>3. CASE pc'[s] = "return"
      <4>1. outcome'[s] <=> result[s] = "SUCCESSFUL"
        BY <2>4, <3>3
      <4>2. ~(result[s] = "TOO_MANY" /\ registered[s])
        BY <2>4, <3>3
      <4> QED
        BY <2>1, <2>2, <3>1, <3>3, <4>1, <4>2, Zenon DEF Tells
    <3> QED
      BY <2>4, <3>2, <3>3
  <2> QED
    BY <2>5, <2>6 DEF ReportInv
<1>6. CASE Report(s)
  BY <1>6 DEF Report
<1>7. CASE Return(s)
  BY <1>7 DEF Return
<1> QED
  BY <1>1, <1>2, <1>3, <1>4, <1>5, <1>6, <1>7 DEF ThreadsCommon_SendRequest

LEMMA ReportNext == TypeOK /\ ReportInv /\ [Next]_vars => ReportInv'
<1> SUFFICES ASSUME TypeOK, ReportInv, [Next]_vars
             PROVE  ReportInv'
  OBVIOUS
<1> USE QueuesAssumption DEF TypeOK, ReportInv, Tells
<1>1. ASSUME NEW i \in Interfaces, Receive(i) \/ TimerSend(i)
      PROVE  ReportInv'
  BY <1>1 DEF Receive, TimerSend, sendVars
<1>2. ASSUME NEW c \in Callbacks \cup {NULL},
             Monitor_SetMessageQueueOverflowCallback(c)
      PROVE  ReportInv'
  BY <1>2 DEF Monitor_SetMessageQueueOverflowCallback
<1>3. CASE UNCHANGED vars
  BY <1>3 DEF vars, sendVars
<1> QED
  BY <1>1, <1>2, <1>3, ReportSend DEF Next

-----------------------------------------------------------------------------
(* What a call that nobody interrupts knows of its queue. *)
LEMMA CountInit == Init => CountInv
  BY DEF Init, CountInv

LEMMA OtherQueuesStay ==
  ASSUME TypeOK, NEW i \in Interfaces, NEW status, Enqueue(i, status)
  PROVE  \A j \in Interfaces \ {i} : pending'[j] = pending[j]
  BY DEF TypeOK, Enqueue

LEMMA InterruptMarks ==
  ASSUME NEW t, NEW i, Interrupt(t, i)
  PROVE  \A s \in Senders :
           ~interrupted'[s] =>
             ~interrupted[s] /\ (s = t \/ pc[s] = "idle" \/ target[s] # i)
  BY Zenon DEF Interrupt

LEMMA CountSend ==
  ASSUME TypeOK, CountInv, NEW s \in Senders, ThreadsCommon_SendRequest(s)
  PROVE  CountInv'
<1> USE QueuesAssumption DEF TypeOK, CountInv, Goto, Places
<1>1. ASSUME NEW i \in Interfaces, NEW fits \in BOOLEAN, Send(s, i, fits)
      PROVE  CountInv'
  <2>1. \A j \in Interfaces \ {i} : pending'[j] = pending[j]
    BY <1>1, OtherQueuesStay DEF Send
  <2> QED
    BY <1>1, <2>1 DEF Send
<1>2. CASE Count(s)
  BY <1>2 DEF Count, queueVars, Monitor_GetQueuedItemsCount
<1>3. CASE Compare(s)
  BY <1>3 DEF Compare, queueVars, sendVars, IsNewMaximum
<1>4. CASE Record(s)
  <2>1. \A q \in Senders : ~interrupted'[q] =>
          ~interrupted[q] /\ (q = s \/ pc[q] = "idle" \/ target[q] # target[s])
    BY <1>4, InterruptMarks DEF Record
  <2>2. UNCHANGED <<pending, target, queued_items_count>>
    BY <1>4 DEF Record, queueVars, sendVars
  <2>3. \A j \in Interfaces \ {target[s]} :
          maximum_queued_items'[j] = maximum_queued_items[j]
    BY <1>4 DEF Record
  <2>4. maximum_queued_items'[target[s]] = queued_items_count[s]
    BY <1>4 DEF Record
  <2> QED
    BY <1>4, <2>1, <2>2, <2>3, <2>4 DEF Record
<1>5. CASE CheckOverflow(s)
  BY <1>5 DEF CheckOverflow, queueVars
<1>6. CASE Report(s)
  BY <1>6 DEF Report, queueVars
<1>7. CASE Return(s)
  BY <1>7 DEF Return, queueVars
<1> QED
  BY <1>1, <1>2, <1>3, <1>4, <1>5, <1>6, <1>7 DEF ThreadsCommon_SendRequest

LEMMA CountNext == TypeOK /\ CountInv /\ [Next]_vars => CountInv'
<1> SUFFICES ASSUME TypeOK, CountInv, [Next]_vars
             PROVE  CountInv'
  OBVIOUS
<1> USE QueuesAssumption DEF TypeOK, CountInv
<1>1. ASSUME NEW i \in Interfaces, Receive(i) \/ TimerSend(i)
      PROVE  CountInv'
  <2>1. \A j \in Interfaces \ {i} : pending'[j] = pending[j]
    BY <1>1, OtherQueuesStay DEF Receive, TimerSend
  <2>2. \A q \in Senders : ~interrupted'[q] =>
          ~interrupted[q] /\ (pc[q] = "idle" \/ target[q] # i)
    <3>1. Interrupt(None, i)
      BY <1>1 DEF Receive, TimerSend
    <3>2. None \notin Senders
      BY QueuesAssumption DEF None
    <3> QED
      BY <3>1, <3>2, InterruptMarks
  <2>3. UNCHANGED <<pc, target, queued_items_count, maximum_queued_items>>
    BY <1>1 DEF Receive, TimerSend, sendVars
  <2> QED
    BY <1>1, <2>1, <2>2, <2>3
<1>2. ASSUME NEW c \in Callbacks \cup {NULL},
             Monitor_SetMessageQueueOverflowCallback(c)
      PROVE  CountInv'
  BY <1>2 DEF Monitor_SetMessageQueueOverflowCallback, queueVars
<1>3. CASE UNCHANGED vars
  BY <1>3 DEF vars, queueVars, sendVars
<1> QED
  BY <1>1, <1>2, <1>3, CountSend DEF Next

(* Only Record writes a maximum, and one that ran alone raises it. *)
LEMMA LowerStep ==
  ASSUME TypeOK, CountInv, [Next]_vars, NEW i \in Interfaces,
         maximum_queued_items'[i] < maximum_queued_items[i]
  PROVE  \E s \in Senders : Record(s) /\ target[s] = i /\ interrupted[s]
<1>1. maximum_queued_items' # maximum_queued_items
  BY QueuesAssumption DEF TypeOK
<1>2. PICK s \in Senders : Record(s)
  BY <1>1
  DEF Next, vars, Receive, TimerSend, Monitor_SetMessageQueueOverflowCallback,
      ThreadsCommon_SendRequest, Send, Count, Compare, CheckOverflow, Report,
      Return
<1>3. target[s] = i
  BY <1>2, QueuesAssumption DEF Record, TypeOK
<1>4. interrupted[s]
  BY <1>2, <1>3, QueuesAssumption DEF Record, CountInv, TypeOK
<1> QED
  BY <1>2, <1>3, <1>4

-----------------------------------------------------------------------------
LEMMA Inductive == Spec => [](TypeOK /\ PeakInv /\ ReportInv /\ CountInv)
  BY TypeInit, TypeNext, PeakInit, PeakNext, ReportInit, ReportNext,
     CountInit, CountNext, PTL DEF Spec

(* Every variable has its type; no count of -1 becomes a maximum. *)
THEOREM TypeCorrect == Spec => []TypeOK
  BY Inductive, PTL

(* What Monitor_GetMaximumQueuedItemsCount returns was reached, however    *)
(* the calls of ThreadsCommon_SendRequest interleave.                      *)
THEOREM MaximumReached == Spec => []MaximumWasReached
<1>1. PeakInv => MaximumWasReached
  BY DEF PeakInv, MaximumWasReached, Highest
<1> QED
  BY <1>1, Inductive, PTL

(* A refused request is reported by ThreadsCommon_SendRequest to the       *)
(* callback that was there throughout, and only a refused one.             *)
THEOREM RefusalReported == Spec => []OverflowReported
<1>1. ReportInv => OverflowReported
  BY DEF ReportInv, Tells, OverflowReported
<1> QED
  BY <1>1, Inductive, PTL

(* A call of ThreadsCommon_SendRequest that ran alone leaves a maximum     *)
(* that covers what its queue holds.                                       *)
THEOREM SendCounted == Spec => []UninterruptedSendIsCounted
<1>1. CountInv => UninterruptedSendIsCounted
  BY DEF CountInv, UninterruptedSendIsCounted
<1> QED
  BY <1>1, Inductive, PTL

(* Only calls that were interrupted lower a maximum. *)
THEOREM MaximumLoweredByRace == Spec => MaximumDecreasesOnlyByRace
<1> DEFINE Lowered ==
      \A i \in Interfaces :
        maximum_queued_items'[i] < maximum_queued_items[i] =>
          \E s \in Senders : Record(s) /\ target[s] = i /\ interrupted[s]
<1>1. TypeOK /\ CountInv /\ [Next]_vars => [Lowered]_vars
  BY LowerStep
<1> QED
  BY <1>1, Inductive, PTL DEF Spec, MaximumDecreasesOnlyByRace
=============================================================================
