---------------------------- MODULE RequestQueues ----------------------------
(***************************************************************************)
(* Requests to sporadic and cyclic interfaces, and what Monitor tells of   *)
(* their queues.                                                           *)
(*                                                                         *)
(* Each interface has one RTEMS message queue and one thread that receives *)
(* from it.  Threads send with ThreadsCommon_SendRequest, which then looks *)
(* at the queue, keeps maximum_queued_items up to date and reports an      *)
(* overflow; timer_callback sends from the clock interrupt and does none   *)
(* of that.  Nothing in ThreadsCommon_SendRequest is locked: a call is a   *)
(* sequence of steps, and other threads and the interrupt run in between.  *)
(* Which thread preempts which depends on priorities this repository does  *)
(* not fix, so every interleaving of the calls is allowed.                 *)
(***************************************************************************)
EXTENDS Integers

CONSTANTS
  Interfaces,   \* enum interfaces_enum
  Mapped,       \* those whose interface_to_queue_map entry is a queue
  Cyclic,       \* those a cyclic timer sends to
  Senders,      \* threads that call ThreadsCommon_SendRequest
  QueueSize,    \* messages an RTEMS queue holds
  Callbacks,    \* functions that can be registered for overflows
  NULL          \* no function

ASSUME QueuesAssumption ==
  /\ Mapped \subseteq Interfaces
  /\ Cyclic \subseteq Interfaces
  /\ QueueSize \in Nat \ {0}
  /\ NULL \notin Callbacks
  /\ "none" \notin Callbacks \cup {NULL} \cup Senders

VARIABLES
  pending,                              \* messages in each queue
  receiving,                            \* its thread waits for a message
  maximum_queued_items,
  Monitor_MessageQueueOverflowCallback,
  pc,                                   \* next step of each sender's call
  target, result, queued_items_count,   \* its parameter and locals
  checked,                              \* the callback it compared with NULL
  outcome,                              \* what its last call returned
  called,                               \* history: function the call invoked
  peak,                                 \* history: most pending ever
  interrupted,                          \* history: target changed meanwhile
  registered                            \* history: a callback all along

queueVars == <<pending, receiving, peak>>
sendVars  == <<target, result, queued_items_count, checked, outcome, called,
               registered>>
vars      == <<queueVars, maximum_queued_items,
               Monitor_MessageQueueOverflowCallback, pc, sendVars, interrupted>>

None == "none"   \* no interface, no status, no call

-----------------------------------------------------------------------------
(* interfaces_info.h and Monitor_Init: the maxima are zero. *)
Init ==
  /\ pending = [i \in Interfaces |-> 0]
  /\ receiving = [i \in Interfaces |-> FALSE]
  /\ maximum_queued_items = [i \in Interfaces |-> 0]
  /\ Monitor_MessageQueueOverflowCallback = NULL
  /\ pc = [s \in Senders |-> "idle"]
  /\ target = [s \in Senders |-> None]
  /\ result = [s \in Senders |-> None]
  /\ queued_items_count = [s \in Senders |-> -1]
  /\ checked = [s \in Senders |-> NULL]
  /\ outcome = [s \in Senders |-> FALSE]
  /\ called = [s \in Senders |-> None]
  /\ peak = [i \in Interfaces |-> 0]
  /\ interrupted = [s \in Senders |-> FALSE]
  /\ registered = [s \in Senders |-> FALSE]

(* A step of t, or of nobody's call, has changed the queue or the maximum  *)
(* of i.                                                                   *)
Interrupt(t, i) ==
  interrupted' = [s \in Senders |->
                    interrupted[s] \/ (s # t /\ pc[s] # "idle" /\ target[s] = i)]

-----------------------------------------------------------------------------
(* RTEMS queues, as the runtime uses them. *)

(* rtems_message_queue_send: a waiting receiver gets the message at once.  *)
Submit(i, fits) ==
  IF ~fits THEN "INVALID_SIZE"
  ELSE IF receiving[i] \/ pending[i] < QueueSize THEN "SUCCESSFUL"
  ELSE "TOO_MANY"

Enqueue(i, status) ==
  LET queued == status = "SUCCESSFUL" /\ ~receiving[i]
      count  == pending[i] + 1
  IN  /\ pending' = IF queued THEN [pending EXCEPT ![i] = count] ELSE pending
      /\ peak' = IF queued /\ count > peak[i] THEN [peak EXCEPT ![i] = count]
                                              ELSE peak
      /\ receiving' = IF status = "SUCCESSFUL"
                        THEN [receiving EXCEPT ![i] = FALSE] ELSE receiving

(* rtems_message_queue_receive in the interface's thread. *)
Receive(i) ==
  /\ ~receiving[i]
  /\ IF pending[i] > 0
       THEN /\ pending' = [pending EXCEPT ![i] = @ - 1]
            /\ UNCHANGED receiving
       ELSE /\ receiving' = [receiving EXCEPT ![i] = TRUE]
            /\ UNCHANGED pending
  /\ Interrupt(None, i)
  /\ UNCHANGED <<peak, maximum_queued_items,
                 Monitor_MessageQueueOverflowCallback, pc, sendVars>>

(* The send of timer_callback: its status is dropped, nothing is counted.  *)
TimerSend(i) ==
  /\ i \in Cyclic
  /\ Enqueue(i, Submit(i, TRUE))
  /\ Interrupt(None, i)
  /\ UNCHANGED <<maximum_queued_items, Monitor_MessageQueueOverflowCallback,
                 pc, sendVars>>

Monitor_SetMessageQueueOverflowCallback(c) ==
  /\ Monitor_MessageQueueOverflowCallback' = c
  /\ registered' = [s \in Senders |-> registered[s] /\ c # NULL]
  /\ UNCHANGED <<queueVars, maximum_queued_items, pc, target, result,
                 queued_items_count, checked, outcome, called, interrupted>>

-----------------------------------------------------------------------------
(* ThreadsCommon_SendRequest, step by step. *)

Goto(s, place) == pc' = [pc EXCEPT ![s] = place]

Send(s, i, fits) ==
  /\ pc[s] = "idle"
  /\ target' = [target EXCEPT ![s] = i]
  /\ result' = [result EXCEPT ![s] = Submit(i, fits)]
  /\ Enqueue(i, Submit(i, fits))
  /\ registered' = [registered EXCEPT
                      ![s] = Monitor_MessageQueueOverflowCallback # NULL]
  /\ interrupted' = [q \in Senders |->
                       /\ q # s
                       /\ interrupted[q] \/ (pc[q] # "idle" /\ target[q] = i)]
  /\ called' = [called EXCEPT ![s] = None]
  /\ Goto(s, "count")
  /\ UNCHANGED <<maximum_queued_items, Monitor_MessageQueueOverflowCallback,
                 queued_items_count, checked, outcome>>

(* Mutant: the size of the queue for the number of messages in it.         *)
Monitor_GetQueuedItemsCount_Capacity(i) ==
  IF pending[i] > 0 THEN QueueSize ELSE 0

Monitor_GetQueuedItemsCount(i) == IF i \in Mapped THEN pending[i] ELSE -1

Count(s) ==
  /\ pc[s] = "count"
  /\ queued_items_count' = [queued_items_count EXCEPT
                              ![s] = Monitor_GetQueuedItemsCount(target[s])]
  /\ Goto(s, "compare")
  /\ UNCHANGED <<queueVars, maximum_queued_items,
                 Monitor_MessageQueueOverflowCallback, target, result, checked,
                 outcome, called, registered, interrupted>>

(* Mutants: no test for -1, which as an unsigned number exceeds every      *)
(* maximum; a new record only when it beats the old one by two; no         *)
(* comparison at all.                                                      *)
IsNewMaximum_NoTest(count, maximum) == count = -1 \/ count > maximum
IsNewMaximum_OffByOne(count, maximum) == count > -1 /\ count > maximum + 1
IsNewMaximum_Always(count, maximum) == count > -1

IsNewMaximum(count, maximum) == count > -1 /\ count > maximum

Compare(s) ==
  /\ pc[s] = "compare"
  /\ Goto(s, IF IsNewMaximum(queued_items_count[s],
                             maximum_queued_items[target[s]])
               THEN "record" ELSE "check")
  /\ UNCHANGED <<queueVars, maximum_queued_items,
                 Monitor_MessageQueueOverflowCallback, sendVars, interrupted>>

Record(s) ==
  /\ pc[s] = "record"
  /\ maximum_queued_items' = [maximum_queued_items EXCEPT
                                ![target[s]] = queued_items_count[s]]
  /\ Interrupt(s, target[s])
  /\ Goto(s, "check")
  /\ UNCHANGED <<queueVars, Monitor_MessageQueueOverflowCallback, sendVars>>

(* Mutant: the report is the other branch of the new-maximum test. *)
MustReport_ElseBranch(s) ==
  /\ result[s] = "TOO_MANY"
  /\ Monitor_MessageQueueOverflowCallback # NULL
  /\ queued_items_count[s] < maximum_queued_items[target[s]]

MustReport(s) ==
  /\ result[s] = "TOO_MANY"
  /\ Monitor_MessageQueueOverflowCallback # NULL

CheckOverflow(s) ==
  /\ pc[s] = "check"
  /\ \/ /\ MustReport(s)
        /\ checked' = [checked EXCEPT
                         ![s] = Monitor_MessageQueueOverflowCallback]
        /\ Goto(s, "report")
        /\ UNCHANGED outcome
     \/ /\ ~MustReport(s)
        /\ outcome' = [outcome EXCEPT ![s] = result[s] = "SUCCESSFUL"]
        /\ Goto(s, "return")
        /\ UNCHANGED checked
  /\ UNCHANGED <<queueVars, maximum_queued_items,
                 Monitor_MessageQueueOverflowCallback, target, result,
                 queued_items_count, called, registered, interrupted>>

(* The pointer is not volatile: the compiler may call the value it has     *)
(* compared or load it again.                                              *)
Report(s) ==
  /\ pc[s] = "report"
  /\ \E c \in {checked[s], Monitor_MessageQueueOverflowCallback} :
       called' = [called EXCEPT ![s] = c]
  /\ outcome' = [outcome EXCEPT ![s] = TRUE]
  /\ Goto(s, "return")
  /\ UNCHANGED <<queueVars, maximum_queued_items,
                 Monitor_MessageQueueOverflowCallback, target, result,
                 queued_items_count, checked, registered, interrupted>>

(* The call is over: its locals cease to exist. *)
Return(s) ==
  /\ pc[s] = "return"
  /\ target' = [target EXCEPT ![s] = None]
  /\ result' = [result EXCEPT ![s] = None]
  /\ queued_items_count' = [queued_items_count EXCEPT ![s] = -1]
  /\ checked' = [checked EXCEPT ![s] = NULL]
  /\ called' = [called EXCEPT ![s] = None]
  /\ registered' = [registered EXCEPT ![s] = FALSE]
  /\ interrupted' = [interrupted EXCEPT ![s] = FALSE]
  /\ Goto(s, "idle")
  /\ UNCHANGED <<queueVars, maximum_queued_items,
                 Monitor_MessageQueueOverflowCallback, outcome>>

ThreadsCommon_SendRequest(s) ==
  \/ \E i \in Interfaces, fits \in BOOLEAN : Send(s, i, fits)
  \/ Count(s)
  \/ Compare(s)
  \/ Record(s)
  \/ CheckOverflow(s)
  \/ Report(s)
  \/ Return(s)

Next ==
  \/ \E s \in Senders : ThreadsCommon_SendRequest(s)
  \/ \E i \in Interfaces : Receive(i) \/ TimerSend(i)
  \/ \E c \in Callbacks \cup {NULL} : Monitor_SetMessageQueueOverflowCallback(c)

Spec == Init /\ [][Next]_vars

-----------------------------------------------------------------------------
Places == {"idle", "count", "compare", "record", "check", "report", "return"}

TypeOK ==
  /\ pending \in [Interfaces -> 0 .. QueueSize]
  /\ receiving \in [Interfaces -> BOOLEAN]
  /\ maximum_queued_items \in [Interfaces -> 0 .. QueueSize]
  /\ Monitor_MessageQueueOverflowCallback \in Callbacks \cup {NULL}
  /\ pc \in [Senders -> Places]
  /\ target \in [Senders -> Interfaces \cup {None}]
  /\ result \in [Senders -> {None, "SUCCESSFUL", "TOO_MANY", "INVALID_SIZE"}]
  /\ queued_items_count \in [Senders -> -1 .. QueueSize]
  /\ checked \in [Senders -> Callbacks \cup {NULL}]
  /\ outcome \in [Senders -> BOOLEAN]
  /\ called \in [Senders -> Callbacks \cup {NULL, None}]
  /\ peak \in [Interfaces -> 0 .. QueueSize]
  /\ interrupted \in [Senders -> BOOLEAN]
  /\ registered \in [Senders -> BOOLEAN]
  /\ \A s \in Senders : pc[s] # "idle" => target[s] \in Interfaces

(* Monitor never claims more than happened: a queue once held as many      *)
(* messages as Monitor_GetMaximumQueuedItemsCount returns, and the queue   *)
(* of an interface Monitor cannot look into is claimed empty               *)
(* (ThreadsCommon_SendRequest).                                            *)
MaximumWasReached ==
  \A i \in Interfaces :
    maximum_queued_items[i] <= IF i \in Mapped THEN peak[i] ELSE 0

(* A call of ThreadsCommon_SendRequest that nobody interfered with leaves  *)
(* a maximum that covers what the queue holds.                             *)
UninterruptedSendIsCounted ==
  \A s \in Senders :
    /\ pc[s] \in {"check", "report", "return"}
    /\ ~interrupted[s]
    /\ target[s] \in Mapped
    => pending[target[s]] <= maximum_queued_items[target[s]]

(* The maximum goes down only where two calls, or a call and the receiver, *)
(* overlap: a call that ran alone never lowers it.                         *)
MaximumDecreasesOnlyByRace ==
  [][\A i \in Interfaces :
       maximum_queued_items'[i] < maximum_queued_items[i] =>
         \E s \in Senders : Record(s) /\ target[s] = i /\ interrupted[s]]_vars

(* A request the queue refused is reported to the overflow callback if     *)
(* there was one throughout the call, no other status is, and the caller   *)
(* is told TRUE only of a request that was queued or reported.             *)
OverflowReported ==
  \A s \in Senders :
    pc[s] = "return" =>
      /\ result[s] = "TOO_MANY" /\ registered[s] => called[s] \in Callbacks
      /\ called[s] # None => result[s] = "TOO_MANY"
      /\ outcome[s] <=> (result[s] = "SUCCESSFUL" \/ called[s] # None)
=============================================================================
