----------------------------- MODULE Semaphores -----------------------------
(***************************************************************************)
(* The semaphores of Hal.c and the lock of BrokerLock.c, over the binary   *)
(* semaphores of the kernel.                                               *)
(*                                                                         *)
(* Hal_SemaphoreCreate hands out at most RT_MAX_HAL_SEMAPHORES identifiers *)
(* and is called by the Init task only, before the other threads start     *)
(* (Hal.h:59).  Obtain and release test the same limit: once the last      *)
(* semaphore is created they refuse all of them.  The broker's semaphore   *)
(* is created elsewhere and reached without the test.                      *)
(*                                                                         *)
(* The kernel is external: an owner with a nesting depth and waiting       *)
(* threads in order of arrival; a release hands the semaphore to the first *)
(* of them, whose call returns later.                                      *)
(*                                                                         *)
(* Clients lock in two phases, in ascending order of the identifiers, and  *)
(* release only what they hold: without such an order any semaphore        *)
(* deadlocks.                                                              *)
(***************************************************************************)
EXTENDS Integers, Sequences

CONSTANTS
  Threads,
  InitTask,               \* the thread that initializes the system
  KernelIds,              \* identifiers of the kernel's semaphores
  broker_Semaphore,       \* the one the broker uses
  RT_MAX_HAL_SEMAPHORES,
  MaxDepth                \* bound: how deep a client nests its obtains

ASSUME SemaphoresAssumption ==
  /\ Threads \subseteq Nat \ {0}
  /\ InitTask \in Threads
  /\ KernelIds \subseteq Nat \ {0}
  /\ broker_Semaphore \in KernelIds
  /\ RT_MAX_HAL_SEMAPHORES \in Nat
  /\ MaxDepth \in Nat

VARIABLES
  created_semaphores_count,
  hal_semaphore_ids,
  created,                     \* identifiers given to the Init task
  owner, nesting, waiters,     \* the kernel's semaphores
  started,                     \* the Init task has started the others
  call,                        \* identifier each thread is obtaining
  holds,                       \* obtains each client was told of, by identifier
  leaving,                     \* clients in the releasing phase
  answer                       \* what each thread's last call returned

kernelVars == <<owner, nesting, waiters>>
halVars    == <<created_semaphores_count, hal_semaphore_ids, created>>
semaphoreVars ==
  <<halVars, kernelVars, started, call, holds, leaving, answer>>

None == 0    \* no owner
NoId == 0    \* no identifier, and what a failed creation returns

Slots == 0 .. RT_MAX_HAL_SEMAPHORES - 1
Kept  == {hal_semaphore_ids[i] : i \in 0 .. created_semaphores_count - 1}

SemaphoresInit ==
  /\ created_semaphores_count = 0
  /\ hal_semaphore_ids = [i \in Slots |-> NoId]
  /\ created = {}
  /\ owner = [s \in KernelIds |-> None]
  /\ nesting = [s \in KernelIds |-> 0]
  /\ waiters = [s \in KernelIds |-> <<>>]
  /\ started = FALSE
  /\ call = [t \in Threads |-> NoId]
  /\ holds = [t \in Threads |-> [s \in KernelIds |-> 0]]
  /\ leaving = {}
  /\ answer = [t \in Threads |-> TRUE]

-----------------------------------------------------------------------------
(* The kernel: rtems_semaphore_obtain without a time limit, and release.   *)

Told(t, s) == holds' = [holds EXCEPT ![t][s] = @ + 1]

Answers(t, result) == answer' = [answer EXCEPT ![t] = result]

Seize(t, s) ==
  /\ owner[s] \in {None, t}
  /\ owner' = [owner EXCEPT ![s] = t]
  /\ nesting' = [nesting EXCEPT ![s] = @ + 1]
  /\ Told(t, s)
  /\ Answers(t, TRUE)
  /\ UNCHANGED <<waiters, call>>

Wait(t, s) ==
  /\ owner[s] \notin {None, t}
  /\ waiters' = [waiters EXCEPT ![s] = Append(@, t)]
  /\ call' = [call EXCEPT ![t] = s]
  /\ UNCHANGED <<owner, nesting, holds, answer>>

rtems_semaphore_obtain(t, s) == Seize(t, s) \/ Wait(t, s)

(* The waiting thread runs again and its call returns. *)
Resume(t) ==
  /\ call[t] # NoId
  /\ owner[call[t]] = t
  /\ Told(t, call[t])
  /\ Answers(t, TRUE)
  /\ call' = [call EXCEPT ![t] = NoId]
  /\ UNCHANGED <<halVars, kernelVars, started, leaving>>

Surrender(t, s) ==
  /\ owner[s] = t
  /\ IF nesting[s] > 1
       THEN /\ nesting' = [nesting EXCEPT ![s] = @ - 1]
            /\ UNCHANGED <<owner, waiters>>
     ELSE IF waiters[s] = <<>>
       THEN /\ owner' = [owner EXCEPT ![s] = None]
            /\ nesting' = [nesting EXCEPT ![s] = 0]
            /\ UNCHANGED waiters
     ELSE /\ owner' = [owner EXCEPT ![s] = Head(waiters[s])]
          /\ waiters' = [waiters EXCEPT ![s] = Tail(@)]
          /\ UNCHANGED nesting

rtems_semaphore_release(t, s) ==
  /\ Surrender(t, s)
  /\ holds' = [holds EXCEPT ![t][s] = @ - 1]
  /\ Answers(t, TRUE)
  /\ UNCHANGED call

-----------------------------------------------------------------------------
(* Hal.c *)

LimitReached == created_semaphores_count >= RT_MAX_HAL_SEMAPHORES

(* A mutant of NewCount: the next creation overwrites the identifier. *)
NewCount_Kept == created_semaphores_count
NewCount == created_semaphores_count + 1

(* At the limit, or the kernel has no semaphore left for it, which depends *)
(* on what else the application has created.                               *)
CreateFails ==
  /\ UNCHANGED halVars
  /\ Answers(InitTask, FALSE)

CreateSucceeds ==
  /\ ~LimitReached
  /\ \E s \in KernelIds \ (created \cup {broker_Semaphore}) :
       /\ hal_semaphore_ids' =
            [hal_semaphore_ids EXCEPT ![created_semaphores_count] = s]
       /\ created' = created \cup {s}
  /\ created_semaphores_count' = NewCount
  /\ Answers(InitTask, TRUE)

Hal_SemaphoreCreate ==
  /\ ~started
  /\ CreateFails \/ CreateSucceeds
  /\ UNCHANGED <<kernelVars, started, call, holds, leaving>>

ObtainRefused == LimitReached

(* A mutant of ReleaseRefused: refuses one semaphore early. *)
ReleaseRefused_OneEarly == created_semaphores_count + 1 >= RT_MAX_HAL_SEMAPHORES
ReleaseRefused == LimitReached

Refused(t) ==
  /\ Answers(t, FALSE)
  /\ UNCHANGED <<kernelVars, call, holds>>

Hal_SemaphoreObtain(t, s) ==
  \/ ObtainRefused /\ Refused(t)
  \/ ~ObtainRefused /\ rtems_semaphore_obtain(t, s)

Hal_SemaphoreRelease(t, s) ==
  \/ ReleaseRefused /\ Refused(t)
  \/ ~ReleaseRefused /\ rtems_semaphore_release(t, s)

-----------------------------------------------------------------------------
(* BrokerLock.c.  The acquisition asserts the kernel's success; the result *)
(* of the release is dropped.                                              *)

Broker_acquire_lock(t) == rtems_semaphore_obtain(t, broker_Semaphore)

Broker_release_lock(t) == rtems_semaphore_release(t, broker_Semaphore)

-----------------------------------------------------------------------------
(* Clients *)

Held(t) == {s \in KernelIds : holds[t][s] > 0}

Running(t) == (t = InitTask \/ started) /\ call[t] = NoId

(* Upwards in the order of the identifiers, or deeper into one it has. *)
MayObtain(t, s) ==
  /\ Running(t)
  /\ t \notin leaving
  /\ \A h \in Held(t) : h <= s
  /\ holds[t][s] < MaxDepth

Obtain(t) ==
  /\ \/ /\ MayObtain(t, broker_Semaphore)
        /\ Broker_acquire_lock(t)
     \/ \E s \in created : MayObtain(t, s) /\ Hal_SemaphoreObtain(t, s)
  /\ UNCHANGED <<halVars, started, leaving>>

BeginLeaving(t) ==
  /\ Running(t)
  /\ t \notin leaving
  /\ Held(t) # {}
  /\ leaving' = leaving \cup {t}
  /\ UNCHANGED <<halVars, kernelVars, started, call, holds, answer>>

Release(t, s) ==
  /\ Running(t)
  /\ t \in leaving
  /\ s \in Held(t)
  /\ IF s = broker_Semaphore THEN Broker_release_lock(t)
                             ELSE Hal_SemaphoreRelease(t, s)
  /\ leaving' = IF \A h \in KernelIds : holds'[t][h] = 0
                  THEN leaving \ {t} ELSE leaving
  /\ UNCHANGED <<halVars, started>>

Start ==
  /\ ~started
  /\ started' = TRUE
  /\ UNCHANGED <<halVars, kernelVars, call, holds, leaving, answer>>

SemaphoresNext ==
  \/ Hal_SemaphoreCreate
  \/ Start
  \/ \E t \in Threads :
       \/ Obtain(t)
       \/ Resume(t)
       \/ BeginLeaving(t)
       \/ \E s \in KernelIds : Release(t, s)

(* The system gets out of initialization, every thread gets to run, and a  *)
(* client that holds something comes to release each of it.                *)
SemaphoresFairness ==
  /\ WF_semaphoreVars(Start)
  /\ \A t \in Threads :
       /\ WF_semaphoreVars(Resume(t))
       /\ WF_semaphoreVars(BeginLeaving(t))
       /\ \A s \in KernelIds : WF_semaphoreVars(Release(t, s))

SemaphoresSpec ==
  /\ SemaphoresInit
  /\ [][SemaphoresNext]_semaphoreVars
  /\ SemaphoresFairness

-----------------------------------------------------------------------------
(* Properties *)

(* Mutual exclusion as clients see it: whoever was told that an obtain     *)
(* succeeded, of Hal_SemaphoreObtain or Broker_acquire_lock, and has not   *)
(* released since is the kernel's owner, to the very depth of its obtains; *)
(* what a refusal or a failed creation returned never counts as held.      *)
HoldsWhatItWasTold ==
  \A t \in Threads : \A s \in Held(t) :
    /\ owner[s] = t
    /\ nesting[s] = holds[t][s]
    /\ s \in Kept \cup {broker_Semaphore}

(* Nobody waits for ever in Hal_SemaphoreObtain or Broker_acquire_lock:    *)
(* the limit cannot strand a thread that is already waiting.               *)
WaitEnds == \A t \in Threads : (call[t] # NoId) ~> (call[t] = NoId)

(* Whoever holds a semaphore gets rid of it by releasing it, for           *)
(* Hal_SemaphoreRelease "releases the indicated semaphore" (Hal.h:81).  It *)
(* does not: when the last semaphore is created while one is held, that    *)
(* release and all later ones are refused (Hal.c:219).                     *)
HeldIsReleased ==
  \A t \in Threads, s \in KernelIds :
    (holds[t][s] > 0) ~> (holds[t][s] = 0)
=============================================================================
