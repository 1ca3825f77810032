----------------------------- MODULE HalProofs -----------------------------
(***************************************************************************)
(* Proofs about what Hal.c starts: its semaphores with the broker's lock   *)
(* (Semaphores), the watchdog (Watchdog), the clock and the memory         *)
(* protection unit (CoreConfiguration).  These share no state.             *)
(*                                                                         *)
(* Semaphores: mutual exclusion for every number of threads and            *)
(* semaphores, every limit and every depth of nesting.  HoldsWhatItWasTold *)
(* speaks of clients that were told they have a semaphore.  A semaphore    *)
(* that is released is handed to the first waiter before that one runs, so *)
(* the invariant has to follow owners, queues and calls in progress.       *)
(***************************************************************************)
EXTENDS Semaphores, Watchdog, CoreConfiguration, TLAPS

TypeOK ==
  /\ created_semaphores_count \in 0 .. RT_MAX_HAL_SEMAPHORES
  /\ hal_semaphore_ids \in [Slots -> KernelIds \cup {NoId}]
  /\ created \subseteq KernelIds
  /\ owner \in [KernelIds -> Threads \cup {None}]
  /\ nesting \in [KernelIds -> Nat]
  /\ waiters \in [KernelIds -> Seq(Threads)]
  /\ call \in [Threads -> KernelIds \cup {NoId}]
  /\ holds \in [Threads -> [KernelIds -> Nat]]

(* Waiters are inside their call, are not the owner, and wait once.        *)
QueueInv ==
  \A s \in KernelIds : \A i \in 1 .. Len(waiters[s]) :
    /\ call[waiters[s][i]] = s
    /\ waiters[s][i] # owner[s]
    /\ \A j \in 1 .. Len(waiters[s]) : waiters[s][i] = waiters[s][j] => i = j

(* Only the owner was told anything; a waiter that has become the owner    *)
(* has it once and has been told nothing yet.                              *)
OwnerInv ==
  /\ \A s \in KernelIds : owner[s] = None => nesting[s] = 0
  /\ \A t \in Threads, s \in KernelIds :
       /\ owner[s] # t => holds[t][s] = 0
       /\ owner[s] = t /\ call[t] = s => holds[t][s] = 0 /\ nesting[s] = 1
       /\ owner[s] = t /\ call[t] # s => holds[t][s] = nesting[s]

Usable == created \cup {broker_Semaphore}

(* Hal.c keeps the identifiers it gave away; nobody uses any other.        *)
KeptInv ==
  /\ created \subseteq Kept
  /\ \A t \in Threads, s \in KernelIds :
       holds[t][s] > 0 \/ call[t] = s => s \in Usable

IInv == TypeOK /\ QueueInv /\ OwnerInv /\ KeptInv

-----------------------------------------------------------------------------
LEMMA Constants ==
  /\ \A t \in Threads : t \in Nat /\ t # None
  /\ \A s \in KernelIds : s \in Nat /\ s # NoId
  /\ InitTask \in Threads
  /\ broker_Semaphore \in KernelIds
  /\ RT_MAX_HAL_SEMAPHORES \in Nat
BY SemaphoresAssumption DEF None, NoId

(* The empty system. *)
LEMMA InitInv == SemaphoresInit => IInv
<1> SUFFICES ASSUME SemaphoresInit PROVE IInv
  OBVIOUS
<1> USE Constants
<1>1. TypeOK
  BY DEF SemaphoresInit, TypeOK, Slots
<1>2. QueueInv
  BY DEF SemaphoresInit, QueueInv
<1>3. OwnerInv
  BY DEF SemaphoresInit, OwnerInv
<1>4. KeptInv
  BY DEF SemaphoresInit, KeptInv, Kept, Usable
<1> QED
  BY <1>1, <1>2, <1>3, <1>4 DEF IInv

(* Steps that change nothing the invariant is about. *)
LEMMA UnchangedInv ==
  IInv /\ UNCHANGED <<halVars, owner, nesting, waiters, call, holds>> => IInv'
<1> SUFFICES ASSUME IInv,
                    UNCHANGED <<halVars, owner, nesting, waiters, call, holds>>
             PROVE  IInv'
  OBVIOUS
<1>1. TypeOK'
  BY DEF IInv, TypeOK, halVars
<1>2. QueueInv' /\ OwnerInv'
  BY DEF IInv, QueueInv, OwnerInv
<1>3. KeptInv'
  BY DEF IInv, KeptInv, Kept, Usable, halVars
<1> QED
  BY <1>1, <1>2, <1>3 DEF IInv

-----------------------------------------------------------------------------
(* The kernel's part of an obtain, for a thread that is in no call. *)

LEMMA SeizeInv ==
  ASSUME IInv, NEW t \in Threads, NEW s \in Usable, call[t] = NoId,
         Seize(t, s), UNCHANGED halVars
  PROVE  IInv'
<1> USE Constants DEF IInv
<1>1. s \in KernelIds
  BY DEF Usable, TypeOK
<1>2. TypeOK'
  <2>1. /\ owner' \in [KernelIds -> Threads \cup {None}]
        /\ nesting' \in [KernelIds -> Nat]
    BY <1>1 DEF TypeOK, Seize
  <2>2. holds' \in [Threads -> [KernelIds -> Nat]]
    BY <1>1 DEF TypeOK, Seize, Told
  <2> QED
    BY <2>1, <2>2 DEF TypeOK, Seize, halVars
<1>3. QueueInv'
  <2> SUFFICES ASSUME NEW q \in KernelIds, NEW i \in 1 .. Len(waiters[q])
               PROVE  waiters[q][i] # owner'[q]
    BY DEF QueueInv, Seize
  <2>1. waiters[q][i] \in Threads /\ call[waiters[q][i]] = q
    BY DEF QueueInv, TypeOK
  <2>2. CASE q = s
    <3>1. owner'[q] = t
      BY <1>1, <2>2 DEF Seize, TypeOK
    <3> QED
      BY <2>1, <2>2, <3>1
  <2>3. CASE q # s
    <3>1. owner'[q] = owner[q]
      BY <1>1, <2>3 DEF Seize, TypeOK
    <3> QED
      BY <3>1 DEF QueueInv
  <2> QED
    BY <2>2, <2>3
<1>4. OwnerInv'
  <2>1. /\ owner'[s] = t /\ nesting'[s] = nesting[s] + 1
        /\ holds'[t][s] = holds[t][s] + 1
        /\ owner[s] \in {None, t}
        /\ call' = call
    BY <1>1 DEF Seize, Told, TypeOK
  <2>2. \A q \in KernelIds : q # s =>
          /\ owner'[q] = owner[q]
          /\ nesting'[q] = nesting[q]
          /\ \A u \in Threads : holds'[u][q] = holds[u][q]
    BY <1>1 DEF Seize, Told, TypeOK
  <2>3. \A u \in Threads : u # t => holds'[u][s] = holds[u][s]
    BY <1>1 DEF Seize, Told, TypeOK
  <2>4. nesting[s] = holds[t][s]
    BY <1>1, <2>1 DEF OwnerInv
  <2> QED
    BY <1>1, <2>1, <2>2, <2>3, <2>4 DEF OwnerInv
<1>5. KeptInv'
  <2>1. Usable' = Usable /\ Kept' = Kept /\ created' = created
    BY DEF Usable, Kept, halVars
  <2>2. \A u \in Threads, q \in KernelIds :
          /\ call'[u] = call[u]
          /\ q # s => holds'[u][q] = holds[u][q]
    BY <1>1 DEF Seize, Told, TypeOK
  <2> QED
    BY <2>1, <2>2 DEF KeptInv
<1> QED
  BY <1>2, <1>3, <1>4, <1>5

LEMMA WaitInv ==
  ASSUME IInv, NEW t \in Threads, NEW s \in Usable, call[t] = NoId,
         Wait(t, s), UNCHANGED halVars
  PROVE  IInv'
<1> USE DEF IInv
<1>1. s \in KernelIds /\ s # NoId
  BY Constants DEF Usable, TypeOK
<1>2. /\ UNCHANGED <<owner, nesting, holds>>
      /\ owner[s] # t
      /\ call'[t] = s
      /\ \A u \in Threads : u # t => call'[u] = call[u]
      /\ waiters'[s] = Append(waiters[s], t)
      /\ \A q \in KernelIds : q # s => waiters'[q] = waiters[q]
  BY <1>1 DEF TypeOK, Wait
<1>3. TypeOK'
  BY <1>1 DEF TypeOK, Wait, halVars, Slots
<1>4. \A q \in KernelIds : \A i \in 1 .. Len(waiters[q]) :
        waiters[q][i] \in Threads /\ waiters[q][i] # t
  BY Constants DEF QueueInv, TypeOK
<1>5. QueueInv'
  <2> SUFFICES ASSUME NEW q \in KernelIds, NEW i \in 1 .. Len(waiters'[q])
               PROVE  /\ call'[waiters'[q][i]] = q
                      /\ waiters'[q][i] # owner'[q]
                      /\ \A j \in 1 .. Len(waiters'[q]) :
                           waiters'[q][i] = waiters'[q][j] => i = j
    BY DEF QueueInv
  <2>1. CASE q # s
    BY <1>2, <1>4, <2>1 DEF QueueInv
  <2>2. CASE q = s
    <3>1. waiters[s] \in Seq(Threads)
      BY <1>1 DEF TypeOK
    <3>2. /\ Len(waiters[s]) \in Nat
          /\ Len(waiters'[s]) = Len(waiters[s]) + 1
          /\ waiters'[s][Len(waiters[s]) + 1] = t
          /\ \A j \in 1 .. Len(waiters[s]) : waiters'[s][j] = waiters[s][j]
      BY <1>2, <3>1
    <3>3. \A j \in 1 .. Len(waiters'[s]) :
            j \in 1 .. Len(waiters[s]) \/ j = Len(waiters[s]) + 1
      BY <3>2
    <3>4. \A j \in 1 .. Len(waiters[s]) :
            waiters'[s][j] = waiters[s][j] /\ waiters'[s][j] # t
      BY <1>1, <1>4, <3>2
    <3>5. CASE i = Len(waiters[s]) + 1
      BY <1>2, <2>2, <3>2, <3>3, <3>4, <3>5
    <3>6. CASE i \in 1 .. Len(waiters[s])
      <4>1. /\ waiters[s][i] \in Threads
            /\ call[waiters[s][i]] = s
            /\ waiters[s][i] # owner[s]
            /\ \A j \in 1 .. Len(waiters[s]) : waiters[s][i] = waiters[s][j] => i = j
        BY <1>1, <1>4, <3>6 DEF QueueInv
      <4>2. waiters'[s][i] = waiters[s][i] /\ waiters'[s][i] # t
        BY <3>4, <3>6
      <4>3. call'[waiters'[s][i]] = s
        BY <1>2, <4>1, <4>2
      <4>4. ASSUME NEW j \in 1 .. Len(waiters'[s]), waiters'[s][i] = waiters'[s][j]
            PROVE  i = j
        BY <3>2, <3>3, <3>4, <4>1, <4>2, <4>4
      <4> QED
        BY <1>2, <2>2, <4>1, <4>2, <4>3, <4>4
    <3> QED
      BY <2>2, <3>3, <3>5, <3>6
  <2> QED
    BY <2>1, <2>2
<1>6. OwnerInv'
  <2>1. ASSUME NEW u \in Threads, NEW q \in KernelIds
        PROVE  /\ owner[q] # u => holds[u][q] = 0
               /\ owner[q] = u /\ call'[u] = q => holds[u][q] = 0 /\ nesting[q] = 1
               /\ owner[q] = u /\ call'[u] # q => holds[u][q] = nesting[q]
    BY <1>1, <1>2, Constants DEF OwnerInv
  <2> QED
    BY <1>2, <2>1 DEF OwnerInv
<1>7. KeptInv'
  <2>1. Usable' = Usable /\ Kept' = Kept /\ created' = created
    BY DEF Usable, Kept, halVars
  <2> QED
    BY <1>2, <2>1 DEF KeptInv
<1> QED
  BY <1>3, <1>5, <1>6, <1>7

(* The kernel's part of a release, for a thread that holds s. *)
LEMMA ReleaseInv ==
  ASSUME IInv, NEW t \in Threads, NEW s \in KernelIds, call[t] = NoId,
         holds[t][s] > 0, rtems_semaphore_release(t, s), UNCHANGED halVars
  PROVE  IInv'
<1> USE DEF IInv
<1>1. /\ owner[s] = t
      /\ nesting[s] = holds[t][s]
      /\ nesting[s] \in Nat
      /\ waiters[s] \in Seq(Threads)
      /\ t # None /\ s # NoId
      /\ Surrender(t, s)
  BY Constants DEF OwnerInv, TypeOK, rtems_semaphore_release, Surrender
<1>2. /\ holds'[t][s] = holds[t][s] - 1
      /\ \A u \in Threads, q \in KernelIds :
           u # t \/ q # s => holds'[u][q] = holds[u][q]
      /\ UNCHANGED <<call, halVars>>
  BY DEF rtems_semaphore_release, TypeOK
<1>3. /\ holds' \in [Threads -> [KernelIds -> Nat]]
      /\ call' \in [Threads -> KernelIds \cup {NoId}]
      /\ created_semaphores_count' \in 0 .. RT_MAX_HAL_SEMAPHORES
      /\ hal_semaphore_ids' \in [Slots -> KernelIds \cup {NoId}]
      /\ created' \subseteq KernelIds
  BY <1>1 DEF rtems_semaphore_release, TypeOK, halVars
<1>4. KeptInv'
  <2>1. Usable' = Usable /\ Kept' = Kept /\ created' = created
    BY DEF Usable, Kept, halVars
  <2>2. \A u \in Threads, q \in KernelIds : holds'[u][q] > 0 => holds[u][q] > 0
    BY <1>2
  <2> QED
    BY <1>2, <2>1, <2>2 DEF KeptInv
<1>5. CASE nesting[s] > 1
  <2>1. /\ nesting' = [nesting EXCEPT ![s] = @ - 1]
        /\ UNCHANGED <<owner, waiters>>
    BY <1>1, <1>5 DEF Surrender
  <2>2. TypeOK'
    BY <1>1, <1>3, <1>5, <2>1 DEF TypeOK
  <2>3. QueueInv'
    BY <1>2, <2>1 DEF QueueInv
  <2>4. /\ nesting'[s] = nesting[s] - 1
        /\ \A q \in KernelIds : q # s => nesting'[q] = nesting[q]
    BY <2>1 DEF TypeOK
  <2>5. OwnerInv'
    BY <1>1, <1>2, <2>1, <2>4 DEF OwnerInv
  <2> QED
    BY <1>4, <2>2, <2>3, <2>5
<1>6. CASE ~(nesting[s] > 1) /\ waiters[s] = <<>>
  <2>1. /\ owner' = [owner EXCEPT ![s] = None]
        /\ nesting' = [nesting EXCEPT ![s] = 0]
        /\ UNCHANGED waiters
    BY <1>1, <1>6 DEF Surrender
  <2>2. TypeOK'
    BY <1>3, <2>1 DEF TypeOK
  <2>3. /\ owner'[s] = None /\ nesting'[s] = 0
        /\ \A q \in KernelIds : q # s =>
             owner'[q] = owner[q] /\ nesting'[q] = nesting[q]
        /\ \A u \in Threads : u # None
    BY <2>1, Constants DEF TypeOK
  <2>4. QueueInv'
    BY <1>2, <1>6, <2>1, <2>3 DEF QueueInv
  <2>5. holds'[t][s] = 0
    BY <1>1, <1>2, <1>6
  <2>6. OwnerInv'
    BY <1>1, <1>2, <2>3, <2>5 DEF OwnerInv
  <2> QED
    BY <1>4, <2>2, <2>4, <2>6
<1>7. CASE ~(nesting[s] > 1) /\ waiters[s] # <<>>
  <2>1. PICK w : w = Head(waiters[s])
    OBVIOUS
  <2>2. /\ owner' = [owner EXCEPT ![s] = w]
        /\ waiters' = [waiters EXCEPT ![s] = Tail(@)]
        /\ UNCHANGED nesting
    BY <1>1, <1>7, <2>1 DEF Surrender
  <2>3. /\ w \in Threads
        /\ w = waiters[s][1]
        /\ 1 \in 1 .. Len(waiters[s])
        /\ Len(waiters[s]) \in Nat
        /\ Tail(waiters[s]) \in Seq(Threads)
        /\ Len(Tail(waiters[s])) = Len(waiters[s]) - 1
        /\ \A j \in 1 .. Len(waiters[s]) - 1 :
             Tail(waiters[s])[j] = waiters[s][j + 1]
    BY <1>1, <1>7, <2>1
  <2>10. Len(waiters'[s]) = Len(waiters[s]) - 1
    BY <2>2, <2>3 DEF TypeOK
  <2>4. call[w] = s /\ w # t
    BY <1>1, <2>3 DEF QueueInv
  <2>5. TypeOK'
    BY <1>3, <2>2, <2>3 DEF TypeOK
  <2>6. /\ owner'[s] = w
        /\ waiters'[s] = Tail(waiters[s])
        /\ \A q \in KernelIds : q # s =>
             owner'[q] = owner[q] /\ waiters'[q] = waiters[q]
    BY <2>2 DEF TypeOK
  <2>7. QueueInv'
    <3> SUFFICES ASSUME NEW q \in KernelIds, NEW i \in 1 .. Len(waiters'[q])
                 PROVE  /\ call'[waiters'[q][i]] = q
                        /\ waiters'[q][i] # owner'[q]
                        /\ \A j \in 1 .. Len(waiters'[q]) :
                             waiters'[q][i] = waiters'[q][j] => i = j
      BY DEF QueueInv
    <3>1. CASE q # s
      BY <1>2, <2>6, <3>1 DEF QueueInv
    <3>2. CASE q = s
      <4>1. \A j \in 1 .. Len(waiters'[s]) :
              /\ waiters'[s][j] = waiters[s][j + 1]
              /\ j + 1 \in 1 .. Len(waiters[s])
              /\ j + 1 # 1
        BY <2>3, <2>6, <2>10
      <4>2. \A j, k \in 1 .. Len(waiters[s]) :
              /\ call[waiters[s][j]] = s
              /\ waiters[s][j] = waiters[s][k] => j = k
        BY DEF QueueInv
      <4>3. /\ i + 1 \in 1 .. Len(waiters[s]) /\ i + 1 # 1
            /\ waiters'[s][i] = waiters[s][i + 1]
        BY <3>2, <4>1
      <4>4. call[waiters'[s][i]] = s /\ waiters'[s][i] # w
        BY <2>3, <4>2, <4>3
      <4>5. ASSUME NEW j \in 1 .. Len(waiters'[s]), waiters'[s][i] = waiters'[s][j]
            PROVE  i = j
        <5>1. i + 1 = j + 1
          BY <4>1, <4>2, <4>3, <4>5
        <5> QED
          BY <3>2, <5>1
      <4> QED
        BY <1>2, <2>6, <3>2, <4>4, <4>5
    <3> QED
      BY <3>1, <3>2
  <2>8. nesting[s] = 1 /\ holds'[t][s] = 0
    BY <1>1, <1>2, <1>7
  <2>9. OwnerInv'
    <3>1. w # None
      BY <2>3, Constants
    <3>2. holds[w][s] = 0
      BY <1>1, <2>3, <2>4 DEF OwnerInv
    <3> QED
      BY <1>1, <1>2, <2>2, <2>3, <2>4, <2>6, <2>8, <3>1, <3>2 DEF OwnerInv
  <2> QED
    BY <1>4, <2>5, <2>7, <2>9
<1> QED
  BY <1>5, <1>6, <1>7

-----------------------------------------------------------------------------
(* The steps of the system. *)

LEMMA CreateInv == IInv /\ Hal_SemaphoreCreate => IInv'
<1> SUFFICES ASSUME IInv, Hal_SemaphoreCreate PROVE IInv'
  OBVIOUS
<1> USE Constants DEF IInv
<1>1. UNCHANGED <<kernelVars, call, holds>>
  BY DEF Hal_SemaphoreCreate
<1>2. QueueInv' /\ OwnerInv'
  BY <1>1 DEF QueueInv, OwnerInv, kernelVars
<1>3. CASE CreateFails
  BY <1>1, <1>2, <1>3
     DEF CreateFails, TypeOK, KeptInv, Kept, Usable, halVars, kernelVars, Slots
<1>4. CASE CreateSucceeds
  <2>1. PICK s \in KernelIds :
          /\ hal_semaphore_ids' =
               [hal_semaphore_ids EXCEPT ![created_semaphores_count] = s]
          /\ created' = created \cup {s}
    BY <1>4 DEF CreateSucceeds
  <2>2. /\ created_semaphores_count \in Slots
        /\ created_semaphores_count \in Nat
        /\ created_semaphores_count' = created_semaphores_count + 1
    BY <1>4 DEF CreateSucceeds, LimitReached, NewCount, Slots, TypeOK
  <2>3. TypeOK'
    BY <1>1, <2>1, <2>2 DEF TypeOK, kernelVars, Slots
  <2>4. Kept' = Kept \cup {s}
    <3>1. \A i \in 0 .. created_semaphores_count - 1 :
            hal_semaphore_ids'[i] = hal_semaphore_ids[i]
      BY <2>1, <2>2 DEF TypeOK, Slots
    <3>2. hal_semaphore_ids'[created_semaphores_count] = s
      BY <2>1, <2>2 DEF TypeOK
    <3> QED
      BY <2>2, <3>1, <3>2 DEF Kept
  <2>5. KeptInv'
    BY <1>1, <2>1, <2>4 DEF KeptInv, Usable
  <2> QED
    BY <1>2, <2>3, <2>5
<1> QED
  BY <1>3, <1>4 DEF Hal_SemaphoreCreate

LEMMA ObtainInv == ASSUME IInv, NEW t \in Threads, Obtain(t) PROVE IInv'
<1>1. UNCHANGED halVars
  BY DEF Obtain
<1>2. PICK s \in Usable :
        /\ MayObtain(t, s)
        /\ \/ Broker_acquire_lock(t) /\ s = broker_Semaphore
           \/ Hal_SemaphoreObtain(t, s)
  BY DEF Obtain, Usable
<1>3. call[t] = NoId
  BY <1>2 DEF MayObtain, Running
<1>4. CASE rtems_semaphore_obtain(t, s)
  BY <1>1, <1>3, <1>4, SeizeInv, WaitInv DEF rtems_semaphore_obtain
<1>5. CASE Refused(t)
  BY <1>1, <1>5, UnchangedInv DEF Refused, kernelVars
<1> QED
  BY <1>2, <1>4, <1>5 DEF Hal_SemaphoreObtain, Broker_acquire_lock

(* What the kernel handed over becomes the client's. *)
LEMMA ResumeInv == ASSUME IInv, NEW t \in Threads, Resume(t) PROVE IInv'
<1> USE Constants DEF IInv
<1> DEFINE s == call[t]
<1>1. /\ s \in KernelIds
      /\ owner[s] = t
      /\ holds' = [holds EXCEPT ![t][s] = @ + 1]
      /\ call' = [call EXCEPT ![t] = NoId]
      /\ UNCHANGED <<halVars, kernelVars>>
  BY DEF Resume, Told, TypeOK
<1> HIDE DEF s
<1>2. call[t] = s
  BY DEF s
<1>3. TypeOK'
  BY <1>1 DEF TypeOK, halVars, kernelVars, Slots
<1>4. QueueInv'
  <2> SUFFICES ASSUME NEW q \in KernelIds, NEW i \in 1 .. Len(waiters[q])
               PROVE  call'[waiters[q][i]] = q
    BY <1>1 DEF QueueInv, kernelVars
  <2>1. /\ waiters[q][i] \in Threads
        /\ call[waiters[q][i]] = q
        /\ waiters[q][i] # owner[q]
    BY DEF QueueInv, TypeOK
  <2>2. waiters[q][i] # t
    BY <1>1, <1>2, <2>1
  <2> QED
    BY <1>1, <2>1, <2>2 DEF TypeOK
<1>5. OwnerInv'
  <2>1. /\ call'[t] = NoId /\ holds'[t][s] = holds[t][s] + 1
        /\ \A u \in Threads : u # t => call'[u] = call[u]
        /\ \A u \in Threads, q \in KernelIds :
             u # t \/ q # s => holds'[u][q] = holds[u][q]
        /\ owner' = owner /\ nesting' = nesting
    BY <1>1 DEF TypeOK, kernelVars
  <2>2. nesting[s] = 1 /\ holds[t][s] = 0
    BY <1>1, <1>2 DEF OwnerInv
  <2> QED
    BY <1>1, <1>2, <2>1, <2>2 DEF OwnerInv
<1>6. KeptInv'
  <2>1. Usable' = Usable /\ Kept' = Kept /\ created' = created
    BY <1>1 DEF Usable, Kept, halVars
  <2>2. s \in Usable
    BY <1>1, <1>2 DEF KeptInv
  <2>3. \A u \in Threads, q \in KernelIds :
          /\ call'[u] = q => call[u] = q
          /\ q # s => holds'[u][q] = holds[u][q]
    BY <1>1 DEF TypeOK
  <2> QED
    BY <2>1, <2>2, <2>3 DEF KeptInv
<1> QED
  BY <1>3, <1>4, <1>5, <1>6

LEMMA ReleaseStepInv ==
  ASSUME IInv, NEW t \in Threads, NEW s \in KernelIds, Release(t, s)
  PROVE  IInv'
<1>1. /\ call[t] = NoId
      /\ holds[t][s] > 0
      /\ UNCHANGED halVars
  BY DEF Release, Running, Held
<1>2. CASE rtems_semaphore_release(t, s)
  BY <1>1, <1>2, ReleaseInv
<1>3. CASE Refused(t)
  BY <1>1, <1>3, UnchangedInv DEF Refused, kernelVars
<1> QED
  BY <1>2, <1>3 DEF Release, Broker_release_lock, Hal_SemaphoreRelease

LEMMA StepInv == IInv /\ [SemaphoresNext]_semaphoreVars => IInv'
<1> SUFFICES ASSUME IInv, [SemaphoresNext]_semaphoreVars PROVE IInv'
  OBVIOUS
<1>1. CASE Hal_SemaphoreCreate
  BY <1>1, CreateInv
<1>2. CASE \/ Start \/ UNCHANGED semaphoreVars
           \/ \E t \in Threads : BeginLeaving(t)
  BY <1>2, UnchangedInv DEF Start, BeginLeaving, semaphoreVars, kernelVars
<1>3. ASSUME NEW t \in Threads, Obtain(t) PROVE IInv'
  BY <1>3, ObtainInv
<1>4. ASSUME NEW t \in Threads, Resume(t) PROVE IInv'
  BY <1>4, ResumeInv
<1>5. ASSUME NEW t \in Threads, NEW s \in KernelIds, Release(t, s) PROVE IInv'
  BY <1>5, ReleaseStepInv
<1> QED
  BY <1>1, <1>2, <1>3, <1>4, <1>5 DEF SemaphoresNext

LEMMA Inductive == SemaphoresSpec => []IInv
BY InitInv, StepInv, PTL DEF SemaphoresSpec

(* Every variable of the semaphores of Hal.c and of the kernel's below     *)
(* them stays in its range: the count never exceeds the array.             *)
THEOREM TypeCorrect == SemaphoresSpec => []TypeOK
BY Inductive, PTL DEF IInv

(* Whoever was told by Hal_SemaphoreObtain or Broker_acquire_lock that it  *)
(* has a semaphore, and has not released it, is its only owner.            *)
THEOREM MutualExclusion == SemaphoresSpec => []HoldsWhatItWasTold
<1>1. IInv => HoldsWhatItWasTold
  BY Constants DEF IInv, TypeOK, OwnerInv, KeptInv, Usable, Held, HoldsWhatItWasTold
<1> QED
  BY <1>1, Inductive, PTL

-----------------------------------------------------------------------------
(* The memory protection unit.                                             *)

(* No accepted region is of size zero.  The provers know powers of two     *)
(* only one by one.                                                        *)
LEMMA UnitsPositive == \A e \in 4 .. 31 : Units(e) \in Nat \ {0}
<1>1. \A e \in 4 .. 10 : Units(e) \in Nat \ {0}
  <2>1. /\ Units(4) = 1 /\ Units(5) = 2
        /\ Units(6) = 4 /\ Units(7) = 8
        /\ Units(8) = 16 /\ Units(9) = 32
        /\ Units(10) = 64
    BY DEF Units
  <2> QED
    BY <2>1
<1>2. \A e \in 11 .. 17 : Units(e) \in Nat \ {0}
  <2>1. /\ Units(11) = 128 /\ Units(12) = 256
        /\ Units(13) = 512 /\ Units(14) = 1024
        /\ Units(15) = 2048 /\ Units(16) = 4096
        /\ Units(17) = 8192
    BY DEF Units
  <2> QED
    BY <2>1
<1>3. \A e \in 18 .. 24 : Units(e) \in Nat \ {0}
  <2>1. /\ Units(18) = 16384 /\ Units(19) = 32768
        /\ Units(20) = 65536 /\ Units(21) = 131072
        /\ Units(22) = 262144 /\ Units(23) = 524288
        /\ Units(24) = 1048576
    BY DEF Units
  <2> QED
    BY <2>1
<1>4. \A e \in 25 .. 31 : Units(e) \in Nat \ {0}
  <2>1. /\ Units(25) = 2097152 /\ Units(26) = 4194304
        /\ Units(27) = 8388608 /\ Units(28) = 16777216
        /\ Units(29) = 33554432 /\ Units(30) = 67108864
        /\ Units(31) = 134217728
    BY DEF Units
  <2> QED
    BY <2>1
<1> QED
  BY <1>1, <1>2, <1>3, <1>4

LEMMA Remainder ==
  ASSUME NEW a \in Nat, NEW u \in Nat \ {0}
  PROVE  a % u \in 0 .. u - 1 /\ a - (a % u) \in Nat
  OBVIOUS

Programmed(p) == [address |-> p.address, exponent |-> p.exponent]

(* The regions above the next one are the accepted requests, in order.     *)
MpuInv ==
  /\ region \in 11 .. 15
  /\ mpu \in [Regions -> [address : Nat, exponent : Nat, enabled : BOOLEAN]]
  /\ \A r \in Regions : mpu[r].enabled => mpu[r].exponent \in 4 .. 31
  /\ \A r \in Regions : mpu[r].enabled <=> r > region
  /\ requested = {Programmed(mpu[r]) : r \in {x \in Regions : mpu[x].enabled}}

LEMMA MpuInitially == CoreInit => MpuInv
  BY DEF CoreInit, MpuInv, Regions, NotProgrammed, Programmed

LEMMA MpuStep == MpuInv /\ [CoreNext]_coreVars => MpuInv'
<1> SUFFICES ASSUME MpuInv, [CoreNext]_coreVars PROVE MpuInv'
  OBVIOUS
<1>1. CASE UNCHANGED mpuVars
  BY <1>1 DEF mpuVars, MpuInv, Programmed
<1>2. ASSUME NEW a, NEW e, ~Accepted(a, e), AssertionFails(a, e)
      PROVE  MpuInv'
  BY <1>2 DEF AssertionFails, MpuInv, Programmed
<1>3. ASSUME NEW a \in Addresses \cup {Misaligned}, NEW e \in Exponents,
             DisableDataCache(a, e)
      PROVE  MpuInv'
  <2> DEFINE new == [address |-> a, exponent |-> e, enabled |-> TRUE]
  <2>1. /\ a \in Nat /\ e \in 4 .. 31 /\ region \in 12 .. 15
        /\ region' = region - 1
        /\ mpu' = [mpu EXCEPT ![region] = new]
        /\ requested' = requested \cup {[address |-> a, exponent |-> e]}
    BY <1>3, CoreAssumption
       DEF DisableDataCache, Accepted, NextRegion, MpuInv
  <2>2. mpu' \in
          [Regions -> [address : Nat, exponent : Nat, enabled : BOOLEAN]]
    <3>1. new \in [address : Nat, exponent : Nat, enabled : BOOLEAN]
      BY <2>1
    <3> QED
      BY <2>1, <3>1, Zenon DEF MpuInv
  <2>3. \A r \in Regions : mpu'[r] = IF r = region THEN new ELSE mpu[r]
    BY <2>1 DEF MpuInv
  <2>4. /\ \A r \in Regions : mpu'[r].enabled => mpu'[r].exponent \in 4 .. 31
        /\ \A r \in Regions : mpu'[r].enabled <=> r > region'
    BY <2>1, <2>3 DEF MpuInv, Regions
  <2>5. {x \in Regions : mpu'[x].enabled}
          = {x \in Regions : mpu[x].enabled} \cup {region}
    BY <2>1, <2>4 DEF MpuInv, Regions
  <2>6. /\ Programmed(mpu'[region]) = [address |-> a, exponent |-> e]
        /\ \A r \in Regions :
             mpu[r].enabled => Programmed(mpu'[r]) = Programmed(mpu[r])
    <3>1. region \in Regions /\ ~mpu[region].enabled
      BY <2>1 DEF MpuInv, Regions
    <3>2. mpu'[region] = new
      BY <2>3, <3>1
    <3>3. \A r \in Regions : mpu[r].enabled => mpu'[r] = mpu[r]
      BY <2>3, <3>1
    <3> QED
      BY <3>2, <3>3 DEF Programmed
  <2>7. requested' =
          {Programmed(mpu'[r]) : r \in {x \in Regions : mpu'[x].enabled}}
    <3>1. \A S : {Programmed(mpu'[r]) : r \in S \cup {region}}
            = {Programmed(mpu'[r]) : r \in S} \cup {Programmed(mpu'[region])}
      OBVIOUS
    <3>2. {Programmed(mpu'[r]) : r \in {x \in Regions : mpu[x].enabled}}
            = {Programmed(mpu[r]) : r \in {x \in Regions : mpu[x].enabled}}
      BY <2>6
    <3> QED
      BY <2>1, <2>5, <2>6, <3>1, <3>2 DEF MpuInv
  <2>8. region' \in 11 .. 15
    BY <2>1
  <2> QED
    BY <2>2, <2>4, <2>7, <2>8, Zenon DEF MpuInv
<1> QED
  BY <1>1, <1>2, <1>3
     DEF CoreNext, SamV71Core_DisableDataCacheInRegion, AssertionFails,
         coreVars

(* An enabled region covers its address, and exactly what was asked for    *)
(* when the address is a multiple of its size.                             *)
LEMMA CoveredRegion ==
  ASSUME MpuInv, NEW r \in Regions, mpu[r].enabled
  PROVE  /\ mpu[r].address \in Covered(mpu[r])
         /\ Aligned(Programmed(mpu[r])) =>
              Asked(Programmed(mpu[r])) = Covered(mpu[r])
<1> DEFINE a == mpu[r].address
           u == Units(mpu[r].exponent)
<1>1. a \in Nat /\ u \in Nat \ {0}
  BY UnitsPositive DEF MpuInv
<1>2. a % u \in 0 .. u - 1
  BY <1>1, Remainder
<1>3. a \in a - (a % u) .. a - (a % u) + u - 1
  BY <1>1, <1>2
<1>4. Covered(mpu[r]) = a - (a % u) .. a - (a % u) + u - 1
  BY DEF Covered
<1>5. ASSUME a % u = 0
      PROVE  a - (a % u) .. a - (a % u) + u - 1 = a .. a + u - 1
  BY <1>1, <1>5
<1>6. /\ Asked(Programmed(mpu[r])) = a .. a + u - 1
      /\ Aligned(Programmed(mpu[r])) <=> a % u = 0
  BY DEF Asked, Aligned, Programmed
<1> QED
  BY <1>3, <1>4, <1>5, <1>6

LEMMA MpuImplies == MpuInv => RequestedIsUncached
<1> SUFFICES ASSUME MpuInv PROVE RequestedIsUncached
  OBVIOUS
<1> DEFINE On == {x \in Regions : mpu[x].enabled}
<1>1. requested = {Programmed(mpu[r]) : r \in On}
  BY DEF MpuInv
<1>2. \A r \in On : Covered(mpu[r]) \subseteq Uncached
  BY DEF Uncached
<1>3. ASSUME NEW q \in requested
      PROVE  /\ Aligned(q) => Asked(q) \subseteq Uncached
             /\ q.address \in Uncached
  <2>1. PICK r \in On : q = Programmed(mpu[r])
    BY <1>1
  <2>2. q.address = mpu[r].address
    BY <2>1 DEF Programmed
  <2> QED
    BY <1>2, <2>1, <2>2, CoveredRegion
<1>4. ASSUME \A q \in requested : Aligned(q)
      PROVE  Uncached = UNION {Asked(q) : q \in requested}
  <2>1. \A r \in On : Asked(Programmed(mpu[r])) = Covered(mpu[r])
    BY <1>1, <1>4, CoveredRegion
  <2>2. Uncached = UNION {Covered(mpu[r]) : r \in On}
    BY DEF Uncached
  <2>3. {Asked(q) : q \in requested} = {Covered(mpu[r]) : r \in On}
    BY <1>1, <2>1
  <2> QED
    BY <2>2, <2>3
<1>5. \A r \in DefaultMap : ~mpu[r].enabled
  BY DEF MpuInv, DefaultMap, Regions
<1> QED
  BY <1>3, <1>4, <1>5 DEF RequestedIsUncached

(* Every request SamV71Core_DisableDataCacheInRegion accepts stays out of  *)
(* the cache through all later calls, whatever regions are asked for.      *)
THEOREM CacheDisabled == CoreSpec => []RequestedIsUncached
  BY MpuInitially, MpuStep, MpuImplies, PTL DEF CoreSpec

-----------------------------------------------------------------------------
(* The frequency of the master clock.                                      *)

LEMMA Product == \A a, b \in Nat : a * b \in Nat
  OBVIOUS

LEMMA ProductMonotone ==
  ASSUME NEW a \in Nat, NEW b \in Nat, NEW c \in Nat, a <= b
  PROVE  a * c <= b * c
<1>1. PICK d \in Nat : b = a + d
  BY b - a \in Nat, b = a + (b - a)
<1>2. PICK x \in Nat, y \in Nat, z \in Nat :
        x = a * c /\ y = b * c /\ z = d * c
  BY Product
<1>3. y = x + z
  BY <1>1, <1>2
<1> QED
  BY <1>2, <1>3

LEMMA Quotient ==
  ASSUME NEW a \in Nat, NEW d \in Nat \ {0}
  PROVE  /\ a \div d \in Nat
         /\ \E r \in 0 .. d - 1 : a = d * (a \div d) + r
<1>1. a = d * (a \div d) + (a % d) /\ a % d \in 0 .. d - 1 /\ a \div d \in Nat
  OBVIOUS
<1> QED
  BY <1>1

(* Two divisions, the second by 1 or 2, cut off less than one by both. *)
LEMMA TwiceDivided ==
  ASSUME NEW s \in Nat, NEW p \in Nat \ {0}, NEW v \in {1, 2}
  PROVE  /\ (s \div p) \div v \in Nat
         /\ \E r \in 0 .. p * v - 1 : s = (p * v) * ((s \div p) \div v) + r
<1>1. PICK q \in Nat, r \in 0 .. p - 1 : q = s \div p /\ s = p * q + r
  BY Quotient
<1>2. CASE v = 1
  <2>1. q \div v = q /\ p * v = p
    BY <1>2
  <2> QED
    BY <1>1, <2>1
<1>3. CASE v = 2
  <2>1. PICK k \in Nat, b \in 0 .. 1 : k = q \div v /\ q = 2 * k + b
    BY <1>3, Quotient
  <2>2. PICK x \in Nat : x = p * k
    BY Product
  <2>3. p * q = 2 * x + p * b
    BY <2>1, <2>2
  <2>4. p * b \in 0 .. p /\ p * v = 2 * p /\ (p * v) * k = 2 * x
    BY <1>3, <2>1, <2>2
  <2>5. s = (p * v) * k + (p * b + r)
    BY <1>1, <2>3, <2>4
  <2>6. p * b + r \in 0 .. p * v - 1
    BY <1>1, <2>1, <2>4
  <2> QED
    BY <1>1, <2>1, <2>5, <2>6
<1> QED
  BY <1>2, <1>3

(* What the code computes of a frequency F, and how much is missing of     *)
(* F * m / (d * p * v).                                                    *)
Divided(F, d, m, p, v) == (((F \div d) * m) \div p) \div v

LEMMA Distributes ==
  ASSUME NEW d \in Nat, NEW t \in Nat, NEW k \in Nat, NEW x \in Nat
  PROVE  d * (t * k + x) = k * (d * t) + d * x
  OBVIOUS

LEMMA CutOff ==
  ASSUME NEW F \in Nat, NEW d \in Nat \ {0}, NEW m \in Nat \ {0},
         NEW p \in Nat \ {0}, NEW v \in {1, 2}, NEW k,
         k = Divided(F, d, m, p, v)
  PROVE  /\ k \in Nat
         /\ k * (d * (p * v)) \in Nat /\ F * m \in Nat
         /\ k * (d * (p * v)) <= F * m
         /\ F * m - k * (d * (p * v)) < d * (p * v) + m * d
<1>1. PICK a \in Nat, r \in 0 .. d - 1 : a = F \div d /\ F = d * a + r
  BY Quotient
<1>2. PICK s \in Nat : s = a * m
  BY Product
<1>3. PICK t \in Nat \ {0} : t = p * v
  <2>1. p * v \in Nat \ {0}
    OBVIOUS
  <2> QED
    BY <2>1
<1>4. /\ k \in Nat
      /\ \E x \in 0 .. t - 1 : s = t * k + x
  <2>1. /\ (s \div p) \div v \in Nat
        /\ \E x \in 0 .. p * v - 1 :
             s = (p * v) * ((s \div p) \div v) + x
    BY TwiceDivided
  <2>2. k = (s \div p) \div v
    BY <1>1, <1>2 DEF Divided
  <2> QED
    BY <1>3, <2>1, <2>2
<1>5. PICK x \in 0 .. t - 1 : s = t * k + x
  BY <1>4
<1>6. PICK ds \in Nat, dt \in Nat, dx \in Nat, rm \in Nat, md \in Nat,
           N \in Nat :
        /\ ds = d * s /\ dt = d * t /\ dx = d * x /\ rm = r * m /\ md = m * d
        /\ N = F * m
  BY Product
<1>7. PICK found \in Nat : found = k * dt
  BY <1>4, Product
<1>8. N = ds + rm
  <2>1. (d * a + r) * m = d * (a * m) + r * m
    OBVIOUS
  <2> QED
    BY <1>1, <1>2, <1>6, <2>1
<1>9. ds = found + dx
  <2>1. d * (t * k + x) = k * (d * t) + d * x
    BY <1>4, Distributes
  <2> QED
    BY <1>5, <1>6, <1>7, <2>1
<1>10. rm <= md - m
  <2>1. r * m <= (d - 1) * m
    BY ProductMonotone
  <2>2. (d - 1) * m = m * d - m
    OBVIOUS
  <2> QED
    BY <1>6, <2>1, <2>2
<1>11. dx <= dt - d
  <2>1. x * d <= (t - 1) * d
    BY ProductMonotone
  <2>2. (t - 1) * d = d * t - d /\ x * d = d * x
    OBVIOUS
  <2> QED
    BY <1>6, <2>1, <2>2
<1>12. found <= N /\ N - found < dt + md
  BY <1>8, <1>9, <1>10, <1>11
<1> QED
  BY <1>3, <1>4, <1>6, <1>12, <1>7

(* The frequency is what the read back of the clock's registers gives,     *)
(* which never needs the value it had before.                              *)
ClockInv ==
  IF initialized
    THEN /\ configuration \in Configurations \cup {DefaultConfiguration}
         /\ mck_frequency = extract_mck_frequency(configuration, 0)
    ELSE mck_frequency = 0

LEMMA ClockInitially == CoreInit => ClockInv
  BY DEF CoreInit, ClockInv

LEMMA ClockStep == ClockInv /\ [CoreNext]_coreVars => ClockInv'
  BY DEF CoreNext, coreVars, clockVars, SamV71Core_Init, ClockInv

LEMMA MainFrequency ==
  ASSUME NEW c \in Configurations \cup {DefaultConfiguration}, WorkedOut(c)
  PROVE  extract_main_oscilator_frequency(c, 0) \in Nat \ {0}
<1>1. /\ c.mainck \in {"XOsc", "RcOsc"}
      /\ c.rcOscFreq \in {"4M", "8M", "12M", "reserved"}
  BY DEF Configurations, DefaultConfiguration
<1>2. \A f \in {"4M", "8M", "12M"} : RcOscFrequency[f] \in Nat \ {0}
  BY CoreAssumption DEF RcOscFrequency
<1>3. DOMAIN RcOscFrequency = {"4M", "8M", "12M"}
  BY DEF RcOscFrequency
<1> QED
  BY <1>1, <1>2, <1>3, CoreAssumption
     DEF WorkedOut, HasSource, extract_main_oscilator_frequency

LEMMA FoundFrequency ==
  ASSUME NEW c \in Configurations \cup {DefaultConfiguration}, WorkedOut(c)
  PROVE  /\ PllaDivider(c) \in Nat \ {0} /\ Multiplier(c) \in Nat \ {0}
         /\ PrescalerDivisor(c.presc) \in Nat \ {0} /\ c.divider \in {1, 2}
         /\ extract_mck_frequency(c, 0) =
              Divided(extract_main_oscilator_frequency(c, 0), PllaDivider(c),
                      Multiplier(c), PrescalerDivisor(c.presc), c.divider)
<1> DEFINE main == extract_main_oscilator_frequency(c, 0)
<1>1. main \in Nat \ {0}
  BY MainFrequency
<1>2. /\ c.pllaMul \in Nat /\ c.pllaDiv \in Nat /\ c.divider \in {1, 2}
      /\ c.presc \in {1, 2, 3, 4, 8, 16, 32, 64}
  <2>1. CASE c \in Configurations
    BY <2>1, CoreAssumption DEF Configurations
  <2>2. CASE c = DefaultConfiguration
    BY <2>2 DEF DefaultConfiguration
  <2> QED
    BY <2>1, <2>2
<1>3. PrescalerDivisor(c.presc) \in Nat \ {0}
  BY <1>2 DEF PrescalerDivisor
<1>4. /\ PllaDivider(c) \in Nat \ {0} /\ Multiplier(c) \in Nat \ {0}
  BY <1>2 DEF WorkedOut, HasSource, PllaDivider, Multiplier
<1>5. apply_plla_config(c, main) = (main \div PllaDivider(c)) * Multiplier(c)
  <2> HIDE DEF main
  <2>1. CASE c.masterck = "Pllack"
    BY <1>1, <1>2, <2>1
       DEF WorkedOut, HasSource, apply_plla_config, PllaDivider, Multiplier
  <2>2. CASE c.masterck = "Mainck"
    <3>1. main \div 1 = main /\ main * 1 = main
      BY <1>1
    <3> QED
      BY <2>2, <3>1 DEF apply_plla_config, PllaDivider, Multiplier
  <2> QED
    BY <2>1, <2>2 DEF WorkedOut, HasSource
<1> QED
  BY <1>2, <1>3, <1>4, <1>5 DEF extract_mck_frequency, Divided

LEMMA ClockImplies == ClockInv => FrequencyIsTheHardwares
<1> SUFFICES ASSUME ClockInv, initialized PROVE FrequencyIsTheHardwares
  BY DEF FrequencyIsTheHardwares
<1> DEFINE c == configuration
<1>1. /\ c \in Configurations \cup {DefaultConfiguration}
      /\ mck_frequency = extract_mck_frequency(c, 0)
  BY DEF ClockInv
<1>2. ASSUME WorkedOut(c)
      PROVE  Found(mck_frequency, c)
  <2>1. PICK F \in Nat \ {0}, d \in Nat \ {0}, m \in Nat \ {0},
             p \in Nat \ {0}, v \in {1, 2}, k \in {mck_frequency} :
          /\ F = extract_main_oscilator_frequency(c, 0)
          /\ d = PllaDivider(c) /\ m = Multiplier(c)
          /\ p = PrescalerDivisor(c.presc) /\ v = c.divider
          /\ k = Divided(F, d, m, p, v)
    BY <1>1, <1>2, MainFrequency, FoundFrequency
  <2>2. /\ k \in Nat
        /\ k * (d * (p * v)) \in Nat /\ F * m \in Nat
        /\ k * (d * (p * v)) <= F * m
        /\ F * m - k * (d * (p * v)) < d * (p * v) + m * d
    BY <2>1, CutOff
  <2>3. PICK N \in Nat : N = F * m /\ N > 0
    <3>1. F * m > 0
      OBVIOUS
    <3> QED
      BY <2>2, <3>1
  <2>4. Numerator(c) = N
    BY <2>1, <2>3 DEF Numerator
  <2>5. Denominator(c) = d * c.presc * v
    BY <2>1 DEF Denominator
  <2>6. p = c.presc /\ d * p * v = d * (p * v)
    BY <1>2, <2>1 DEF WorkedOut, PrescalerDivisor
  <2> QED
    BY <2>1, <2>2, <2>3, <2>4, <2>5, <2>6 DEF Found
<1>3. ASSUME c = DefaultConfiguration
      PROVE  mck_frequency = 75 * MEGA_HZ
  <2>1. extract_main_oscilator_frequency(c, 0) = 12 * MEGA_HZ
    BY <1>3 DEF DefaultConfiguration, extract_main_oscilator_frequency,
                RcOscFrequency
  <2>2. /\ PllaDivider(c) = 1 /\ Multiplier(c) = 25 /\ WorkedOut(c)
        /\ PrescalerDivisor(c.presc) = 2 /\ c.divider = 2
    BY <1>3 DEF DefaultConfiguration, PllaDivider, Multiplier, WorkedOut,
                HasSource, PrescalerDivisor
  <2>3. Divided(12 * MEGA_HZ, 1, 25, 2, 2) = 75 * MEGA_HZ
    <3>1. (12 * MEGA_HZ) \div 1 = 12 * MEGA_HZ
      BY CoreAssumption
    <3>2. ((12 * MEGA_HZ * 25) \div 2) \div 2 = 75 * MEGA_HZ
      BY CoreAssumption
    <3> QED
      BY <3>1, <3>2 DEF Divided
  <2> HIDE DEF c
  <2> QED
    BY <1>1, <2>1, <2>2, <2>3, FoundFrequency
<1> QED
  BY <1>2, <1>3 DEF FrequencyIsTheHardwares

(* When the source is the main oscillator or a running PLLA and the        *)
(* prescaler is not 3, extract_mck_frequency finds the hardware's          *)
(* frequency but for the divisions' remainders, for all multipliers,       *)
(* dividers and crystals.                                                  *)
THEOREM FrequencyRight == CoreSpec => []FrequencyIsTheHardwares
  BY ClockInitially, ClockStep, ClockImplies, PTL DEF CoreSpec

-----------------------------------------------------------------------------
(* The watchdog.                                                           *)

(* Until the idle task adopts the mode its flag is off, as the reset left  *)
(* it; only a build that writes the mode reads it back.                    *)
WatchdogInv ==
  /\ build \in Builds
  /\ phase \in {"boot", "readBack"} => ~idleTaskIsWatchdogEnabled
  /\ phase = "readBack" => build # "RT_RTOS_NO_INIT"
  /\ wdtMode.isDisabled \in BOOLEAN /\ idleTaskIsWatchdogEnabled \in BOOLEAN
  /\ phase \in {"running", "hung"} => Expected

LEMMA WatchdogInitially == WatchdogInit => WatchdogInv
<1> SUFFICES ASSUME WatchdogInit PROVE WatchdogInv
  OBVIOUS
<1>1. phase = "boot"
  BY DEF WatchdogInit
<1>2. /\ idleTaskIsWatchdogEnabled \in BOOLEAN /\ ~idleTaskIsWatchdogEnabled
      /\ build \in Builds
  BY Zenon DEF WatchdogInit
<1>3. wdtMode.isDisabled \in BOOLEAN
  BY DEF WatchdogInit, ResetMode
<1> QED
  BY <1>1, <1>2, <1>3 DEF WatchdogInv

LEMMA WatchdogStep ==
  WatchdogInv /\ [WatchdogNext]_watchdogVars => WatchdogInv'
<1> SUFFICES ASSUME WatchdogInv, [WatchdogNext]_watchdogVars
             PROVE  WatchdogInv'
  OBVIOUS
<1> USE DEF WatchdogInv
<1>1. /\ wdtConfig \in Modes
      /\ wdtConfig.isDisabled = (build # "RT_RTOS_USE_WATCHDOG")
  BY DEF wdtConfig, Modes
<1>2. CASE BootSoftwareWritesMode
  BY <1>2 DEF BootSoftwareWritesMode, WriteMode, Modes
<1>3. CASE AdoptConfig
  BY <1>3 DEF AdoptConfig, Expected
<1>4. CASE SetConfig
  BY <1>1, <1>4 DEF SetConfig, WriteMode
<1>5. CASE AssertConfig
  <2>1. UNCHANGED <<build, wdtMode, idleTaskIsWatchdogEnabled>>
    BY <1>5 DEF AssertConfig
  <2>2. phase' \in {"running", "halted"}
    BY <1>5 DEF AssertConfig
  <2>3. ASSUME phase' = "running" PROVE Expected
    <3>1. /\ wdtMode = wdtConfig
          /\ build \in {"RT_RTOS_USE_WATCHDOG", "neither"}
      BY <1>5, <2>3 DEF AssertConfig, Builds
    <3>2. CASE build = "RT_RTOS_USE_WATCHDOG"
      <4>1. wdtConfig = ResetMode
        BY <3>2 DEF wdtConfig, ResetMode
      <4> QED
        BY <3>1, <3>2, <4>1 DEF Expected
    <3>3. CASE build = "neither"
      <4>1. wdtMode.isDisabled
        BY <1>1, <3>1, <3>3
      <4> QED
        BY <3>3, <4>1 DEF Expected
    <3> QED
      BY <3>1, <3>2, <3>3
  <2>4. Expected' <=> Expected
    BY <2>1 DEF Expected
  <2>5. phase' \in {"running", "hung"} => Expected'
    BY <2>2, <2>3, <2>4
  <2>6. /\ build' \in Builds
        /\ wdtMode'.isDisabled \in BOOLEAN
        /\ idleTaskIsWatchdogEnabled' \in BOOLEAN
    BY <2>1, Zenon
  <2>7. phase' \notin {"boot", "readBack"}
    BY <2>2
  <2> QED
    BY <2>5, <2>6, <2>7
<1>6. CASE Hal_IdleTask \/ Hang \/ WatchdogCounts \/ UNCHANGED watchdogVars
  <2>1. /\ UNCHANGED <<build, wdtMode, idleTaskIsWatchdogEnabled>>
        /\ phase' = phase \/ (phase = "running" /\ phase' = "hung")
    BY <1>6 DEF Hal_IdleTask, Hang, WatchdogCounts, watchdogVars
  <2>2. Expected' <=> Expected
    BY <2>1 DEF Expected
  <2>3. /\ build' \in Builds
        /\ wdtMode'.isDisabled \in BOOLEAN
        /\ idleTaskIsWatchdogEnabled' \in BOOLEAN
        /\ idleTaskIsWatchdogEnabled' <=> idleTaskIsWatchdogEnabled
    BY <2>1, Zenon
  <2> QED
    BY <2>1, <2>2, <2>3
<1>7. CASE WatchdogBites
  BY <1>7 DEF WatchdogBites, ResetMode
<1> QED
  BY <1>2, <1>3, <1>4, <1>5, <1>6, <1>7 DEF WatchdogNext, Init_setup_watchdog

(* The safety of WatchdogAsBuilt: a program that Init_setup_watchdog has   *)
(* let run has the mode of its build, after any number of resets and       *)
(* whatever the boot software wrote.                                       *)
THEOREM WatchedAsBuilt ==
  WatchdogSpec => [](phase \in {"running", "hung"} => Expected)
<1>1. WatchdogInv => (phase \in {"running", "hung"} => Expected)
  BY DEF WatchdogInv
<1> QED
  BY WatchdogInitially, WatchdogStep, <1>1, PTL DEF WatchdogSpec

(* A hang that no reset ends.  *)
Unwatched == phase = "hung" /\ wdtMode # ResetMode

(* Without the mode that resets, the watchdog never ends a hang.           *)
THEOREM UnwatchedStaysHung ==
  WatchdogSpec =>
    [](phase = "hung" /\ wdtMode # ResetMode => [](phase = "hung"))
<1>1. Unwatched /\ [WatchdogNext]_watchdogVars => Unwatched'
  BY DEF Unwatched, WatchdogNext, watchdogVars, BootSoftwareWritesMode,
         Init_setup_watchdog, AdoptConfig, SetConfig, AssertConfig,
         Hal_IdleTask, Hang, WatchdogCounts, WatchdogBites
<1>2. Unwatched <=> phase = "hung" /\ wdtMode # ResetMode
  BY DEF Unwatched
<1> QED
  BY <1>1, <1>2, PTL DEF WatchdogSpec
=============================================================================
