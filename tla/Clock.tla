-------------------------------- MODULE Clock --------------------------------
(***************************************************************************)
(* What a caller of Hal_GetElapsedTimeInNs may rely on, without counters,  *)
(* interrupts or retries.  Time passes; a call returns the time of some    *)
(* moment between its beginning and its end.  A call during which another  *)
(* one began has been overtaken: it may be behind by up to a reload.       *)
(*                                                                         *)
(* HalClock implements this; RequestProcessing measures with it.           *)
(***************************************************************************)
EXTENDS Integers

CONSTANTS
  Callers,
  TICKS_PER_RELOAD,
  ToNs(_)           \* the unit callers get

VARIABLES
  time,             \* ticks since Hal_Init
  began,            \* time each call began, NoCall outside
  overtaken,        \* callers whose call saw another one begin
  elapsed           \* what each caller's last call returned

clockVars == <<time, began, overtaken, elapsed>>

NoCall    == -1
Calling   == {c \in Callers : began[c] # NoCall}

ClockInit ==
  /\ time = 0
  /\ began = [c \in Callers |-> NoCall]
  /\ overtaken = {}
  /\ elapsed = [c \in Callers |-> ToNs(0)]

Advance ==
  /\ time' > time
  /\ UNCHANGED <<began, overtaken, elapsed>>

Begin(c) ==
  /\ c \notin Calling
  /\ began' = [began EXCEPT ![c] = time]
  /\ overtaken' = overtaken \cup Calling
  /\ UNCHANGED <<time, elapsed>>

(* The earliest moment a call may return the time of. *)
Earliest(c) ==
  IF c \in overtaken /\ began[c] > TICKS_PER_RELOAD
    THEN began[c] - TICKS_PER_RELOAD
  ELSE IF c \in overtaken THEN 0
  ELSE began[c]

Return(c) ==
  /\ c \in Calling
  /\ \E t \in Earliest(c) .. time :
       elapsed' = [elapsed EXCEPT ![c] = ToNs(t)]
  /\ began' = [began EXCEPT ![c] = NoCall]
  /\ overtaken' = overtaken \ {c}
  /\ UNCHANGED time

ClockNext == Advance \/ \E c \in Callers : Begin(c) \/ Return(c)

ClockSpec == ClockInit /\ [][ClockNext]_clockVars
=============================================================================
