------------------------------ MODULE Watchdog ------------------------------
(***************************************************************************)
(* The watchdog of Hal.c: Init_setup_watchdog configures it as the program *)
(* was built, and Hal_IdleTask restarts it whenever the idle task runs.    *)
(*                                                                         *)
(* The hardware is external: it comes out of a reset enabled, its mode can *)
(* be written once until the next reset, and when it has not been          *)
(* restarted for a period it resets the system, if its mode says so.  The  *)
(* boot software may have written the mode before the program runs.        *)
(***************************************************************************)
EXTENDS Naturals

CONSTANT Period   \* ticks the watchdog waits to be restarted

ASSUME WatchdogAssumption == Period \in Nat \ {0}

VARIABLES
  build,        \* the macro the program was built with
  wdtMode, wdtWritten, wdtCounter,   \* the hardware
  phase,        \* "boot", "readBack", "running", "hung", "halted"
  idleTaskIsWatchdogEnabled

watchdogVars == <<build, wdtMode, wdtWritten, wdtCounter, phase,
                  idleTaskIsWatchdogEnabled>>

Builds == {"RT_RTOS_NO_INIT", "RT_RTOS_USE_WATCHDOG", "neither"}

Modes == [isDisabled : BOOLEAN, isResetEnabled : BOOLEAN]

ResetMode == [isDisabled |-> FALSE, isResetEnabled |-> TRUE]

WatchdogInit ==
  /\ build \in Builds
  /\ wdtMode = ResetMode
  /\ wdtWritten = FALSE
  /\ wdtCounter = 0
  /\ phase = "boot"
  /\ idleTaskIsWatchdogEnabled = FALSE

WriteMode(config) ==
  /\ wdtMode' = IF wdtWritten THEN wdtMode ELSE config
  /\ wdtWritten' = TRUE

BootSoftwareWritesMode ==
  /\ phase = "boot"
  /\ \E config \in Modes : WriteMode(config)
  /\ UNCHANGED <<build, wdtCounter, phase, idleTaskIsWatchdogEnabled>>

(* A mutant of wdtConfig: the watchdog is enabled and does not reset. *)
wdtConfig_NoReset == [isDisabled     |-> build # "RT_RTOS_USE_WATCHDOG",
                      isResetEnabled |-> FALSE]
wdtConfig == [isDisabled     |-> build # "RT_RTOS_USE_WATCHDOG",
              isResetEnabled |-> build = "RT_RTOS_USE_WATCHDOG"]

AdoptConfig ==
  /\ phase = "boot"
  /\ build = "RT_RTOS_NO_INIT"
  /\ idleTaskIsWatchdogEnabled' = (idleTaskIsWatchdogEnabled \/ ~wdtMode.isDisabled)
  /\ phase' = "running"
  /\ UNCHANGED <<build, wdtMode, wdtWritten, wdtCounter>>

SetConfig ==
  /\ phase = "boot"
  /\ build # "RT_RTOS_NO_INIT"
  /\ WriteMode(wdtConfig)
  /\ phase' = "readBack"
  /\ UNCHANGED <<build, wdtCounter, idleTaskIsWatchdogEnabled>>

(* A mode that could not be written fails the assertions. *)
AssertConfig ==
  /\ phase = "readBack"
  /\ phase' = IF wdtMode = wdtConfig THEN "running" ELSE "halted"
  /\ UNCHANGED <<build, wdtMode, wdtWritten, wdtCounter, idleTaskIsWatchdogEnabled>>

Init_setup_watchdog == AdoptConfig \/ SetConfig \/ AssertConfig

(* Hal_ResetWatchdog, again and again. *)
Hal_IdleTask ==
  /\ phase = "running"
  /\ wdtCounter' = 0
  /\ UNCHANGED <<build, wdtMode, wdtWritten, phase, idleTaskIsWatchdogEnabled>>

(* A thread above the idle task never blocks again. *)
Hang ==
  /\ phase = "running"
  /\ phase' = "hung"
  /\ UNCHANGED <<build, wdtMode, wdtWritten, wdtCounter, idleTaskIsWatchdogEnabled>>

WatchdogCounts ==
  /\ ~wdtMode.isDisabled
  /\ wdtCounter < Period
  /\ wdtCounter' = wdtCounter + 1
  /\ UNCHANGED <<build, wdtMode, wdtWritten, phase, idleTaskIsWatchdogEnabled>>

WatchdogBites ==
  /\ wdtMode = ResetMode
  /\ wdtCounter = Period
  /\ wdtMode' = ResetMode
  /\ wdtWritten' = FALSE
  /\ wdtCounter' = 0
  /\ phase' = "boot"
  /\ idleTaskIsWatchdogEnabled' = FALSE
  /\ UNCHANGED build

WatchdogNext ==
  \/ BootSoftwareWritesMode
  \/ Init_setup_watchdog
  \/ Hal_IdleTask
  \/ Hang
  \/ WatchdogCounts
  \/ WatchdogBites

(* The watchdog is clocked whatever the processor does. *)
WatchdogFairness ==
  /\ WF_watchdogVars(WatchdogCounts)
  /\ WF_watchdogVars(WatchdogBites)

WatchdogSpec ==
  WatchdogInit /\ [][WatchdogNext]_watchdogVars /\ WatchdogFairness

-----------------------------------------------------------------------------
(* Properties *)

Expected ==
  CASE build = "RT_RTOS_USE_WATCHDOG" -> wdtMode = ResetMode
    [] build = "neither"              -> wdtMode.isDisabled
    [] build = "RT_RTOS_NO_INIT"      -> idleTaskIsWatchdogEnabled = ~wdtMode.isDisabled

(* A program that Init_setup_watchdog has let run is watched as it was     *)
(* built, also where the boot software wrote the mode before it and after  *)
(* any number of resets: built with the watchdog it does not stay hung,    *)
(* built without it the watchdog never ends a hang, and with               *)
(* RT_RTOS_NO_INIT it does as the mode it found says.                      *)
WatchdogAsBuilt ==
  /\ [](phase \in {"running", "hung"} => Expected)
  /\ (phase = "hung" /\ build = "RT_RTOS_USE_WATCHDOG") ~> (phase = "boot")
  /\ (phase = "hung" /\ wdtMode = ResetMode) ~> (phase = "boot")
  /\ [](phase = "hung" /\ wdtMode # ResetMode => [](phase = "hung"))
=============================================================================
