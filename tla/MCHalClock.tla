---------------------------- MODULE MCHalClock ----------------------------
(* HalClock on small instances.  Scaled widths: a counter of 3 values,     *)
(* TICKS_PER_RELOAD one less than its period and an unsigned long of 3     *)
(* bits, the proportions of 2^16, 65535 and 2^32; 20 nanoseconds for every *)
(* 3 ticks, so that the conversion truncates.                              *)
EXTENDS HalClock
=============================================================================
