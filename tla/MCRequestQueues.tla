-------------------------- MODULE MCRequestQueues --------------------------
(* RequestQueues with two senders, an interface Monitor can look into and  *)
(* one it cannot, a timer sending to the first, and queues of two          *)
(* messages: overflows, and races over a maximum of one or two, happen.    *)
EXTENDS RequestQueues, TLC

CONSTANTS s1, s2, mapped, unmapped, f

Symmetry == Permutations({s1, s2})
=============================================================================
