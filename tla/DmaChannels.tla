----------------------------- MODULE DmaChannels -----------------------------
(***************************************************************************)
(* What the DMA driver promises its clients, without registers, flags,     *)
(* interrupts or polling: a channel is handed to one thread at a time and  *)
(* goes through its states in this order.  Only the stop of a transfer is  *)
(* loose: one that ends at the moment it is stopped may still be found     *)
(* done.                                                                   *)
(*                                                                         *)
(* Xdmad implements this.                                                  *)
(***************************************************************************)
EXTENDS FiniteSets

CONSTANTS
  Threads,
  Channels

VARIABLES
  owners,     \* threads each channel is handed to
  status      \* of each channel

channelVars == <<owners, status>>

ChannelsInit ==
  /\ owners = [c \in Channels |-> {}]
  /\ status = [c \in Channels |-> "FREE"]

Becomes(c, from, to) ==
  /\ status[c] \in from
  /\ status' = [status EXCEPT ![c] = to]

Allocate(t, c) ==
  /\ Becomes(c, {"FREE"}, "ALLOCATED")
  /\ owners[c] = {}
  /\ owners' = [owners EXCEPT ![c] = {t}]

Start(c) ==
  /\ Becomes(c, {"ALLOCATED", "DONE", "HALTED"}, "START")
  /\ UNCHANGED owners

Finish(c) ==
  /\ Becomes(c, {"START"}, "DONE")
  /\ UNCHANGED owners

Stop(c) ==
  /\ Becomes(c, {"START", "DONE"}, "HALTED")
  /\ UNCHANGED owners

FinishStopped(c) ==
  /\ Becomes(c, {"HALTED"}, "DONE")
  /\ UNCHANGED owners

Free(c) ==
  /\ Becomes(c, {"DONE", "HALTED"}, "FREE")
  /\ owners' = [owners EXCEPT ![c] = {}]

ChannelsNext ==
  \E c \in Channels :
    \/ \E t \in Threads : Allocate(t, c)
    \/ Start(c)
    \/ Finish(c)
    \/ Stop(c)
    \/ FinishStopped(c)
    \/ Free(c)

ChannelsSpec == ChannelsInit /\ [][ChannelsNext]_channelVars
=============================================================================
