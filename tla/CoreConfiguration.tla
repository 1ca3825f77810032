-------------------------- MODULE CoreConfiguration --------------------------
(***************************************************************************)
(* SamV71Core.c: the frequency it reads back from the clock registers, and *)
(* the memory regions it takes out of the data cache.                      *)
(*                                                                         *)
(* The frequency is a pure function of the registers' contents, compared   *)
(* with what the hardware produces from them (external) when the source is *)
(* the main oscillator or PLLA: its frequency divided by the prescaler and *)
(* the divider.  Frequencies are in units that the constant MEGA_HZ fixes. *)
(*                                                                         *)
(* SamV71Core_DisableDataCacheInRegion programs a region of the memory     *)
(* protection unit per call, from 15 downwards; it is not thread-safe      *)
(* (SamV71Core.h:99), so calls do not overlap here.  The hardware ignores  *)
(* the address bits below the size of a region.  A memory unit is the      *)
(* smallest region, 32 bytes.                                              *)
(***************************************************************************)
EXTENDS Integers

CONSTANTS
  MEGA_HZ,
  MAIN_CRYSTAL_OSCILLATOR_FREQUENCY,
  PllaMultipliers, PllaDividers,   \* contents of the fields tried
  Addresses,                       \* regions asked for, in units of 32 bytes
  Misaligned,                      \* any address not a multiple of 32 bytes
  Exponents

ASSUME CoreAssumption ==
  /\ MEGA_HZ \in Nat \ {0}
  /\ MAIN_CRYSTAL_OSCILLATOR_FREQUENCY \in Nat \ {0}
  /\ PllaMultipliers \subseteq Nat
  /\ PllaDividers \subseteq Nat
  /\ Addresses \subseteq Nat
  /\ Misaligned \notin Addresses
  /\ Exponents \subseteq Nat

-----------------------------------------------------------------------------
(* The frequency of the master clock. *)

(* What the registers hold: names of the driver's enumerations, and        *)
(* "reserved" for a value they do not name.                                *)
Configurations ==
  [mainck : {"XOsc", "RcOsc"},
   rcOscFreq : {"4M", "8M", "12M", "reserved"},
   masterck : {"Slck", "Mainck", "Pllack", "Upllck"},
   pllaMul : PllaMultipliers,
   pllaDiv : PllaDividers,
   presc : {1, 2, 3, 4, 8, 16, 32, 64},
   divider : {1, 2}]

RcOscFrequency == [f \in {"4M", "8M", "12M"} |->
  CASE f = "4M" -> 4 * MEGA_HZ [] f = "8M" -> 8 * MEGA_HZ [] f = "12M" -> 12 * MEGA_HZ]

extract_main_oscilator_frequency(c, mck_frequency) ==
  IF c.mainck = "XOsc" THEN MAIN_CRYSTAL_OSCILLATOR_FREQUENCY
  ELSE IF c.rcOscFreq \in DOMAIN RcOscFrequency THEN RcOscFrequency[c.rcOscFreq]
  ELSE mck_frequency

(* A mutant of apply_plla_config: the multiplier taken as it is. *)
apply_plla_config_NoIncrement(c, frequency) ==
  IF c.masterck = "Pllack" /\ c.pllaDiv > 0 /\ c.pllaMul > 0
    THEN (frequency \div c.pllaDiv) * c.pllaMul
    ELSE frequency

apply_plla_config(c, frequency) ==
  IF c.masterck # "Pllack" THEN frequency
  ELSE LET divided == IF c.pllaDiv > 0 THEN frequency \div c.pllaDiv ELSE frequency
       IN  IF c.pllaMul > 0 THEN divided * (c.pllaMul + 1) ELSE divided

(* What the code divides by; for the prescaler named 3 that is 7. *)
PrescalerDivisor(presc) == IF presc = 3 THEN 7 ELSE presc

extract_mck_frequency(c, mck_frequency) ==
  LET main   == extract_main_oscilator_frequency(c, mck_frequency)
      source == apply_plla_config(c, main)
  IN  (source \div PrescalerDivisor(c.presc)) \div c.divider

(* What SamV71Core_Init configures unless RT_RTOS_NO_INIT is defined. *)
DefaultConfiguration ==
  [mainck |-> "RcOsc", rcOscFreq |-> "12M", masterck |-> "Pllack",
   pllaMul |-> 24, pllaDiv |-> 1, presc |-> 2, divider |-> 2]

VARIABLES
  mck_frequency,
  configuration,   \* what the clock registers hold
  initialized      \* SamV71Core_Init has run

clockVars == <<mck_frequency, configuration, initialized>>

(* It configures the clock, or with RT_RTOS_NO_INIT leaves it as the boot  *)
(* loader has configured it, and reads it back.                            *)
SamV71Core_Init ==
  /\ ~initialized
  /\ initialized' = TRUE
  /\ configuration' \in Configurations \cup {DefaultConfiguration}
  /\ mck_frequency' = extract_mck_frequency(configuration', mck_frequency)

-----------------------------------------------------------------------------
(* The memory protection unit. *)

VARIABLES
  region,      \* static region of SamV71Core_DisableDataCacheInRegion
  mpu,         \* what each region was programmed with
  failed,      \* an assertion failed: the system stops
  requested    \* history: regions asked for and accepted

mpuVars  == <<region, mpu, failed, requested>>
coreVars == <<clockVars, mpuVars>>

Regions       == 0 .. 15
DefaultMap    == 0 .. 11     \* left alone, says the comment of the code
NotProgrammed == [address |-> 0, exponent |-> 0, enabled |-> FALSE]

(* Units of a region with this exponent: 2 ** (exponent + 1) bytes. *)
Units(exponent) == 2 ^ (exponent - 4)

CoreInit ==
  /\ mck_frequency = 0
  /\ configuration = DefaultConfiguration
  /\ initialized = FALSE
  /\ region = 15
  /\ mpu = [r \in Regions |-> NotProgrammed]
  /\ failed = FALSE
  /\ requested = {}

Accepted(address, exponent) ==
  /\ address # Misaligned
  /\ exponent \in 4 .. 31
  /\ region > 11

(* A mutant of NextRegion: every call programs the same region. *)
NextRegion_Same == region
NextRegion == region - 1

DisableDataCache(address, exponent) ==
  /\ Accepted(address, exponent)
  /\ mpu' = [mpu EXCEPT ![region] =
       [address |-> address, exponent |-> exponent, enabled |-> TRUE]]
  /\ region' = NextRegion
  /\ requested' = requested \cup {[address |-> address, exponent |-> exponent]}
  /\ UNCHANGED failed

AssertionFails(address, exponent) ==
  /\ ~Accepted(address, exponent)
  /\ failed' = TRUE
  /\ UNCHANGED <<region, mpu, requested>>

SamV71Core_DisableDataCacheInRegion ==
  /\ ~failed
  /\ \E a \in Addresses \cup {Misaligned}, e \in Exponents :
       DisableDataCache(a, e) \/ AssertionFails(a, e)

CoreNext ==
  \/ SamV71Core_Init /\ UNCHANGED mpuVars
  \/ SamV71Core_DisableDataCacheInRegion /\ UNCHANGED clockVars

CoreSpec == CoreInit /\ [][CoreNext]_coreVars

-----------------------------------------------------------------------------
(* Properties *)

(* The main oscillator or a running PLLA is the source of the main clock.  *)
HasSource(c) ==
  /\ c.mainck = "XOsc" \/ c.rcOscFreq # "reserved"
  /\ \/ c.masterck = "Mainck"
     \/ c.masterck = "Pllack" /\ c.pllaDiv > 0 /\ c.pllaMul > 0

(* The configurations whose frequency extract_mck_frequency works out.  It *)
(* has no case for the sources Slck and Upllck, which RT_RTOS_NO_INIT      *)
(* allows: it returns the main oscillator's frequency for them.  For the   *)
(* prescaler 3 it divides by 7.  Neither is the main clock's frequency.    *)
WorkedOut(c) == HasSource(c) /\ c.presc # 3

(* The hardware's frequency is Numerator / Denominator. *)
Multiplier(c) == IF c.masterck = "Pllack" THEN c.pllaMul + 1 ELSE 1
PllaDivider(c) == IF c.masterck = "Pllack" THEN c.pllaDiv ELSE 1
Numerator(c) == extract_main_oscilator_frequency(c, 0) * Multiplier(c)
Denominator(c) == PllaDivider(c) * c.presc * c.divider

(* The hardware's, up to what the divisions of extract_mck_frequency cut   *)
(* off; the first is multiplied again by the PLLA.                         *)
Found(frequency, c) ==
  /\ frequency * Denominator(c) <= Numerator(c)
  /\ Numerator(c) - frequency * Denominator(c)
       < Denominator(c) + Multiplier(c) * PllaDivider(c)

(* The frequency SamV71Core_GetMainClockFrequency returns is that of the   *)
(* hardware, up to what divisions cut off, when the source is the main     *)
(* oscillator or a running PLLA and the prescaler is not 3; nothing is     *)
(* claimed of other configurations.  The default one has 75 MHz.           *)
FrequencyIsTheHardwares ==
  initialized =>
    /\ WorkedOut(configuration) => Found(mck_frequency, configuration)
    /\ configuration = DefaultConfiguration => mck_frequency = 75 * MEGA_HZ

(* SamV71Core_GetMainClockFrequency: "Get frequency of main clock"         *)
(* (SamV71Core.h:62), whatever the prescaler.                              *)
MainClockIsFound ==
  initialized /\ HasSource(configuration) => Found(mck_frequency, configuration)

Asked(q) == q.address .. q.address + Units(q.exponent) - 1

Aligned(q) == q.address % Units(q.exponent) = 0

(* What the hardware makes of a programmed region. *)
Covered(p) ==
  LET base == p.address - (p.address % Units(p.exponent))
  IN  base .. base + Units(p.exponent) - 1

Uncached == UNION {Covered(mpu[r]) : r \in {x \in Regions : mpu[x].enabled}}

(* Calls accumulate: all memory of every accepted request of               *)
(* SamV71Core_DisableDataCacheInRegion is out of the cache, nothing else   *)
(* is, and the default memory map is left intact.  The assertions accept   *)
(* an address that is not a multiple of the region's size; of such a       *)
(* region only the beginning is out of the cache, with memory before it.   *)
RequestedIsUncached ==
  /\ \A q \in requested :
       /\ Aligned(q) => Asked(q) \subseteq Uncached
       /\ q.address \in Uncached
  /\ (\A q \in requested : Aligned(q)) => Uncached = UNION {Asked(q) : q \in requested}
  /\ \A r \in DefaultMap : ~mpu[r].enabled
=============================================================================
