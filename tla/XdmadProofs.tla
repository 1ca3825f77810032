---------------------------- MODULE XdmadProofs ----------------------------
(***************************************************************************)
(* Proofs about the DMA driver, for any number of threads and channels,    *)
(* any interrupts enabled, by interrupt and in polling mode: a channel     *)
(* that is done has stopped, its callback has been called, the handler     *)
(* serves every channel that asks for it, and the driver implements        *)
(* DmaChannels.                                                            *)
(*                                                                         *)
(* The argument follows a channel through three keepers.  ChannelInv says  *)
(* what the registers may hold in a state in which nobody expects an       *)
(* interrupt; OwnerInv what the owner of a channel has done to it so far;  *)
(* HandlerInv that the status the handler read first is still good when it *)
(* uses it, since no thread runs meanwhile.                                *)
(***************************************************************************)
EXTENDS Xdmad, WellFoundedInduction, TLAPS

(* Nothing is pending and nothing can become so. *)
Silent(c) == enabled[c] = "off" /\ CIS[c] = {}

(* No unmasked flag is up, and none will be raised. *)
Quiet(c) == enabled[c] # "on" /\ (CIM[c] = {} \/ Silent(c))

ChannelInv ==
  \A c \in Channels :
    /\ state[c] # "IN_XFR"
    /\ state[c] \in {"FREE", "ALLOCATED"} => Quiet(c)
    /\ state[c] = "DONE" => Silent(c)
    /\ c \in owed => state[c] = "START"

(* The owner of c is between Allocate and Start. *)
Prepares(t, c) ==
  /\ pc[t] = "idle"
  /\ state[c] \in {"ALLOCATED", "DONE", "HALTED"}
  /\ Quiet(c)
  /\ phase[t] = "configured" => Silent(c)

(* The owner of c is in Start, waits, or is in Stop. *)
Transfers(t, c) ==
  \/ pc[t] = "enable" /\ state[c] = "START" /\ Silent(c)
  \/ pc[t] \in {"unmask", "idle", "poll"} /\ state[c] \in {"START", "DONE"}
  \/ /\ pc[t] \in {"disable", "mask", "clear"}
     /\ state[c] \in {"HALTED", "DONE"}
     /\ pc[t] # "disable" => enabled[c] # "on"
     /\ pc[t] = "clear" => CIM[c] = {}

OwnerInv ==
  \A t \in Threads :
    IF channel[t] = NONE
      THEN phase[t] = "none" /\ pc[t] = "idle"
      ELSE /\ \A u \in Threads : channel[u] = channel[t] => u = t
           /\ phase[t] # "none"
           /\ IF phase[t] = "started" THEN Transfers(t, channel[t])
                                      ELSE Prepares(t, channel[t])

HandlerInv ==
  /\ handler # "idle" => \A c \in gis : state[c] # "FREE"
  /\ handler = "visit" => \A c \in Channels \ gs : enabled[c] = "off"
  /\ handler # "idle" /\ pollingMode => pc[Poller] = "poll"
  /\ ~xDmad_Initialized =>
       handler = "idle" /\ \A c \in Channels : state[c] = "FREE"

DriverInv == ChannelInv /\ OwnerInv /\ HandlerInv

IInv == TypeOK /\ DriverInv

-----------------------------------------------------------------------------
(* The lowest element, which xdmad.c's loops meet first. *)
LEMMA MinIsMember ==
  ASSUME NEW S \in SUBSET Nat, S # {}
  PROVE  Min(S) \in S
<1> DEFINE R == {ss \in Nat \X Nat : ss[1] < ss[2]}
<1>1. IsWellFoundedOn(R, Nat)
  BY NatLessThanWellFounded DEF OpToRel
<1>2. PICK x \in S : \A y \in S : <<y, x>> \notin R
  <2> HIDE DEF R
  <2> QED
    BY <1>1, WFMin
<1>3. ASSUME NEW y \in S
      PROVE  x =< y
  <2>1. x \in Nat /\ y \in Nat /\ <<y, x>> \in Nat \X Nat
    OBVIOUS
  <2>2. ~(y < x)
    BY <1>2, <2>1
  <2> QED
    BY <2>1, <2>2
<1> QED
  BY <1>3 DEF Min

LEMMA ChannelsNat == Channels \subseteq Nat
  BY XdmadAssumption DEF Channels

LEMMA FirstVisited ==
  ASSUME TypeOK, gis # {}
  PROVE  Min(gis) \in gis /\ Min(gis) \in Channels
  BY MinIsMember, ChannelsNat DEF TypeOK

LEMMA HandlerSteps ==
  ASSUME TypeOK, XDMAD_Handler
  PROVE  \/ HandlerReadsGS
         \/ Leaves
         \/ \E c \in gis : /\ handler = "visit"
                           /\ HandlerMeetsDisabled(c) \/ HandlerMeetsEnabled(c)
<1>1. CASE HandlerVisits
  <2> DEFINE c == Min(gis)
  <2>1. c \in gis
    BY <1>1, FirstVisited DEF HandlerVisits
  <2>2. \/ HandlerMeetsFree(c)
        \/ HandlerMeetsDisabled(c)
        \/ HandlerMeetsEnabled(c)
    BY <1>1 DEF HandlerVisits
  <2> HIDE DEF c
  <2> QED
    BY <1>1, <2>1, <2>2 DEF HandlerVisits, HandlerMeetsFree
<1> QED
  BY <1>1 DEF XDMAD_Handler, HandlerEnds

LEMMA AllocatedWasFree ==
  ASSUME NEW t \in Threads, NEW src, NEW dst,
         XDMAD_AllocateChannel(t, src, dst)
  PROVE  \E c \in Channels : /\ state[c] = "FREE"
                             /\ state' = Set(state, c, "ALLOCATED")
                             /\ channel' = Set(channel, t, c)
<1>1. Allocatable(src, dst) \subseteq {c \in Channels : state[c] = "FREE"}
  BY DEF Allocatable
<1>2. Min(Allocatable(src, dst)) \in Allocatable(src, dst)
  BY <1>1, MinIsMember, ChannelsNat DEF XDMAD_AllocateChannel
<1> QED
  BY <1>1, <1>2 DEF XDMAD_AllocateChannel

-----------------------------------------------------------------------------
(* Type correctness. *)
LEMMA TypeInit == Init => TypeOK
<1> SUFFICES ASSUME Init
             PROVE  TypeOK
  OBVIOUS
<1>1. /\ CIS \in [Channels -> SUBSET Flags]
      /\ CIM \in [Channels -> SUBSET Flags]
      /\ fCallback \in [Channels -> BOOLEAN]
  BY Zenon DEF Init
<1> QED
  BY <1>1 DEF Init, TypeOK, States

LEMMA TypeClient ==
  ASSUME TypeOK, NEW t \in Threads, Client(t)
  PROVE  TypeOK'
<1> USE DEF TypeOK, Goto, Enter, Owns, Set, States, driverVars, clientVars,
            hwVars, handlerVars, XDMAC_GetChannelIsr, XDMAC_EnableChannelIt,
            XDMAC_DisableChannelIt, XDMAC_EnableGIt, XDMAC_DisableGIt,
            XDMAC_EnableChannel, XDMAC_DisableChannel, XDMAC_SetTransfer
<1>1. ASSUME NEW src, NEW dst, XDMAD_AllocateChannel(t, src, dst)
      PROVE  TypeOK'
  <2>1. PICK c \in Channels : /\ state' = Set(state, c, "ALLOCATED")
                              /\ channel' = Set(channel, t, c)
    BY <1>1, AllocatedWasFree
  <2> QED
    BY <1>1, <2>1 DEF XDMAD_AllocateChannel
<1>2. ASSUME NEW c \in Channels, XDMAD_FreeChannel(t, c)
      PROVE  TypeOK'
  BY <1>2 DEF XDMAD_FreeChannel
<1>3. ASSUME NEW c \in Channels, NEW set \in BOOLEAN,
             XDMAD_SetCallback(t, c, set)
      PROVE  TypeOK'
  BY <1>3 DEF XDMAD_SetCallback
<1>4. ASSUME NEW c \in Channels, XDMAD_PrepareChannel(t, c)
      PROVE  TypeOK'
  BY <1>4 DEF XDMAD_PrepareChannel
<1>5. ASSUME NEW c \in Channels, ClientConfigures(t, c)
      PROVE  TypeOK'
  BY <1>5, XdmadAssumption
  DEF ClientConfigures, XDMAD_ConfigureTransfer, ConfigureSingle,
      ConfigureList
<1>6. ASSUME NEW c \in Channels, XDMAD_StartTransfer(t, c)
      PROVE  TypeOK'
  BY <1>6 DEF XDMAD_StartTransfer, StartBegins, StartEnables, StartUnmasks
<1>7. ASSUME NEW c \in Channels, XDMAD_StopTransfer(t, c)
      PROVE  TypeOK'
  BY <1>7
  DEF XDMAD_StopTransfer, StopBegins, StopDisables, StopMasks, StopClears
<1>8. ASSUME NEW c \in Channels, XDMAD_IsTransferDone(t, c)
      PROVE  TypeOK'
  BY <1>8 DEF XDMAD_IsTransferDone, TransferIsDone, TransferIsPolled,
              HandlerBegins, XDMAC_GetGIsr
<1> QED
  BY <1>1, <1>2, <1>3, <1>4, <1>5, <1>6, <1>7, <1>8 DEF Client

LEMMA TypeController ==
  ASSUME TypeOK, NEW c \in Channels, Controller(c)
  PROVE  TypeOK'
<1> USE DEF TypeOK, Set, Raise, Flags, driverVars, clientVars, handlerVars
<1>1. CASE BlockEnds(c)
  BY <1>1 DEF BlockEnds
<1>2. CASE TransferEnds(c)
  BY <1>2 DEF TransferEnds
<1>3. CASE BusError(c)
  BY <1>3 DEF BusError
<1>4. CASE StopEnds(c)
  BY <1>4 DEF StopEnds
<1> QED
  BY <1>1, <1>2, <1>3, <1>4 DEF Controller

LEMMA TypeHandler ==
  ASSUME TypeOK, Interrupt \/ XDMAD_Handler
  PROVE  TypeOK'
<1> USE DEF TypeOK, Set, States, XDMAC_GetChannelIsr, driverVars, clientVars,
            hwVars, handlerVars
<1>1. CASE Interrupt
  BY <1>1 DEF Interrupt, HandlerBegins, XDMAC_GetGIsr
<1>2. CASE HandlerReadsGS
  BY <1>2 DEF HandlerReadsGS, XDMAC_GetGlobalChStatus
<1>3. ASSUME Leaves
      PROVE  TypeOK'
  BY <1>3 DEF Leaves
<1>4. ASSUME NEW c \in Channels, HandlerMeetsDisabled(c)
      PROVE  TypeOK'
  <2>1. EndsTransfer(c, XDMAC_GetMaskChannelIsr(c)) \in BOOLEAN
    BY DEF EndsTransfer
  <2> QED
    BY <1>4, <2>1 DEF HandlerMeetsDisabled
<1>5. ASSUME NEW c \in Channels, HandlerMeetsEnabled(c)
      PROVE  TypeOK'
  BY <1>5 DEF HandlerMeetsEnabled
<1> QED
  BY <1>1, <1>2, <1>3, <1>4, <1>5, HandlerSteps

LEMMA TypeNext == TypeOK /\ [Next]_vars => TypeOK'
<1> SUFFICES ASSUME TypeOK, [Next]_vars
             PROVE  TypeOK'
  OBVIOUS
<1>1. ASSUME NEW b \in BOOLEAN, XDMAD_Initialize(b)
      PROVE  TypeOK'
  BY <1>1
  DEF XDMAD_Initialize, TypeOK, States, clientVars, hwVars, handlerVars
<1>2. CASE UNCHANGED vars
  BY <1>2 DEF vars, TypeOK, driverVars, clientVars, hwVars, handlerVars
<1> QED
  BY <1>1, <1>2, TypeClient, TypeController, TypeHandler DEF Next

-----------------------------------------------------------------------------
(* The invariant, under the steps of threads. *)
LEMMA NoThreadBesideHandler ==
  ASSUME HandlerInv, NEW t \in Threads, Runs(t), pc[t] # "poll"
  PROVE  handler = "idle" /\ xDmad_Initialized
  BY DEF HandlerInv, Runs

LEMMA DriverInit == Init => DriverInv
  BY XdmadAssumption DEF Init, DriverInv, ChannelInv, OwnerInv, HandlerInv,
                         Prepares, Transfers, Quiet, Silent

LEMMA DriverInitialize ==
  ASSUME IInv, NEW b \in BOOLEAN, XDMAD_Initialize(b)
  PROVE  DriverInv'
<1>1. state' = state
  BY DEF XDMAD_Initialize, IInv, DriverInv, TypeOK, HandlerInv
<1> QED
  BY <1>1, XdmadAssumption
  DEF XDMAD_Initialize, IInv, DriverInv, TypeOK, ChannelInv, OwnerInv,
      HandlerInv, Prepares, Transfers, Quiet, Silent, clientVars, hwVars,
      handlerVars

LEMMA DriverAllocate ==
  ASSUME IInv, NEW t \in Threads, NEW src, NEW dst,
         XDMAD_AllocateChannel(t, src, dst)
  PROVE  /\ DriverInv'
         /\ \E c \in Channels : /\ state[c] = "FREE"
                                /\ state' = Set(state, c, "ALLOCATED")
                                /\ channel' = Set(channel, t, c)
                                /\ \A u \in Threads : channel[u] # c
<1> USE DEF IInv, DriverInv, TypeOK, XDMAD_AllocateChannel, Calls, Set, Enter,
            driverVars, hwVars, handlerVars
<1>1. PICK c \in Channels : /\ state[c] = "FREE"
                            /\ state' = Set(state, c, "ALLOCATED")
                            /\ channel' = Set(channel, t, c)
  BY AllocatedWasFree
<1>2. handler = "idle" /\ xDmad_Initialized
  BY NoThreadBesideHandler
<1>3. \A u \in Threads : channel[u] # c
  BY <1>1, XdmadAssumption DEF OwnerInv, Prepares, Transfers
<1>4. ChannelInv'
  BY <1>1 DEF ChannelInv, Quiet, Silent
<1>5. OwnerInv'
  BY <1>1, <1>3, XdmadAssumption
  DEF ChannelInv, OwnerInv, Prepares, Transfers, Quiet, Silent
<1>6. HandlerInv'
  BY <1>1, <1>2 DEF HandlerInv
<1> QED
  BY <1>1, <1>3, <1>4, <1>5, <1>6

LEMMA DriverFree ==
  ASSUME IInv, NEW t \in Threads, NEW c \in Channels,
         handler = "idle", xDmad_Initialized,
         XDMAD_FreeChannel(t, c) \/ TransferIsDone(t, c)
  PROVE  DriverInv'
<1> USE DEF IInv, DriverInv, TypeOK, Calls, Owns, Set, Goto, Enter,
            driverVars, clientVars, hwVars, handlerVars
<1>1. CASE XDMAD_FreeChannel(t, c)
  <2> USE <1>1 DEF XDMAD_FreeChannel, MayFree
  <2>1. ChannelInv'
    BY XdmadAssumption
    DEF ChannelInv, OwnerInv, Prepares, Transfers, Quiet, Silent
  <2>2. OwnerInv'
    BY XdmadAssumption
    DEF ChannelInv, OwnerInv, Prepares, Transfers, Quiet, Silent
  <2>3. HandlerInv'
    BY XdmadAssumption DEF HandlerInv, OwnerInv, Prepares, Transfers
  <2> QED
    BY <2>1, <2>2, <2>3
<1>2. CASE TransferIsDone(t, c)
  <2> USE <1>2 DEF TransferIsDone
  <2>1. ChannelInv'
    BY XdmadAssumption
    DEF ChannelInv, OwnerInv, Prepares, Transfers, Quiet, Silent
  <2>2. OwnerInv'
    BY XdmadAssumption
    DEF ChannelInv, OwnerInv, Prepares, Transfers, Quiet, Silent
  <2>3. HandlerInv'
    BY XdmadAssumption DEF HandlerInv, OwnerInv, Prepares, Transfers
  <2> QED
    BY <2>1, <2>2, <2>3
<1> QED
  BY <1>1, <1>2

LEMMA DriverPrepare ==
  ASSUME IInv, NEW t \in Threads, NEW c \in Channels,
         handler = "idle", xDmad_Initialized,
         \/ \E set \in BOOLEAN : XDMAD_SetCallback(t, c, set)
         \/ XDMAD_PrepareChannel(t, c)
         \/ ClientConfigures(t, c)
  PROVE  DriverInv'
<1> USE DEF IInv, DriverInv, TypeOK, Calls, Owns, Set, Goto, Enter,
            driverVars, clientVars, hwVars, handlerVars
<1>1. ASSUME NEW set \in BOOLEAN, XDMAD_SetCallback(t, c, set)
      PROVE  DriverInv'
  <2> USE <1>1 DEF XDMAD_SetCallback
  <2>1. ChannelInv'
    BY XdmadAssumption
    DEF ChannelInv, OwnerInv, Prepares, Transfers, Quiet, Silent
  <2>2. OwnerInv'
    BY XdmadAssumption
    DEF ChannelInv, OwnerInv, Prepares, Transfers, Quiet, Silent
  <2>3. HandlerInv'
    BY XdmadAssumption DEF HandlerInv, OwnerInv, Prepares, Transfers
  <2> QED
    BY <2>1, <2>2, <2>3
<1>2. CASE XDMAD_PrepareChannel(t, c)
  <2> USE <1>2 DEF XDMAD_PrepareChannel, XDMAC_GetChannelIsr,
                   XDMAC_DisableGIt, XDMAC_DisableChannelIt,
                   XDMAC_DisableChannel, XDMAC_SetTransfer
  <2>1. ChannelInv'
    BY XdmadAssumption
    DEF ChannelInv, OwnerInv, Prepares, Transfers, Quiet, Silent
  <2>2. OwnerInv'
    BY XdmadAssumption
    DEF ChannelInv, OwnerInv, Prepares, Transfers, Quiet, Silent
  <2>3. HandlerInv'
    BY XdmadAssumption DEF HandlerInv, OwnerInv, Prepares, Transfers
  <2> QED
    BY <2>1, <2>2, <2>3
<1>3. CASE ClientConfigures(t, c)
  <2> USE <1>3 DEF ClientConfigures, EndOf, XDMAD_ConfigureTransfer,
                   XDMAC_GetChannelIsr,
                   ConfigureSingle, ConfigureList,
                   XDMAC_EnableChannelIt, XDMAC_SetTransfer
  <2>1. ChannelInv'
    BY XdmadAssumption
    DEF ChannelInv, OwnerInv, Prepares, Transfers, Quiet, Silent
  <2>2. OwnerInv'
    BY XdmadAssumption
    DEF ChannelInv, OwnerInv, Prepares, Transfers, Quiet, Silent
  <2>3. HandlerInv'
    BY XdmadAssumption DEF HandlerInv, OwnerInv, Prepares, Transfers
  <2> QED
    BY <2>1, <2>2, <2>3
<1> QED
  BY <1>1, <1>2, <1>3

LEMMA DriverStart ==
  ASSUME IInv, NEW t \in Threads, NEW c \in Channels,
         handler = "idle", xDmad_Initialized,
         XDMAD_StartTransfer(t, c)
  PROVE  DriverInv'
<1> USE DEF IInv, DriverInv, TypeOK, Calls, Owns, Set, Goto, Enter,
            driverVars, clientVars, hwVars, handlerVars
<1>1. CASE StartBegins(t, c)
  <2> USE <1>1 DEF StartBegins
  <2>1. ChannelInv'
    BY XdmadAssumption
    DEF ChannelInv, OwnerInv, Prepares, Transfers, Quiet, Silent
  <2>2. OwnerInv'
    BY XdmadAssumption
    DEF ChannelInv, OwnerInv, Prepares, Transfers, Quiet, Silent
  <2>3. HandlerInv'
    BY XdmadAssumption DEF HandlerInv, OwnerInv, Prepares, Transfers
  <2> QED
    BY <2>1, <2>2, <2>3
<1>2. CASE StartEnables(t, c)
  <2> USE <1>2 DEF StartEnables, XDMAC_EnableChannel
  <2>1. ChannelInv'
    BY XdmadAssumption
    DEF ChannelInv, OwnerInv, Prepares, Transfers, Quiet, Silent
  <2>2. OwnerInv'
    BY XdmadAssumption
    DEF ChannelInv, OwnerInv, Prepares, Transfers, Quiet, Silent
  <2>3. HandlerInv'
    BY XdmadAssumption DEF HandlerInv, OwnerInv, Prepares, Transfers
  <2> QED
    BY <2>1, <2>2, <2>3
<1>3. CASE StartUnmasks(t, c)
  <2> USE <1>3 DEF StartUnmasks, XDMAC_EnableGIt
  <2>1. ChannelInv'
    BY XdmadAssumption
    DEF ChannelInv, OwnerInv, Prepares, Transfers, Quiet, Silent
  <2>2. OwnerInv'
    BY XdmadAssumption
    DEF ChannelInv, OwnerInv, Prepares, Transfers, Quiet, Silent
  <2>3. HandlerInv'
    BY XdmadAssumption DEF HandlerInv, OwnerInv, Prepares, Transfers
  <2> QED
    BY <2>1, <2>2, <2>3
<1> QED
  BY <1>1, <1>2, <1>3 DEF XDMAD_StartTransfer

LEMMA DriverStop ==
  ASSUME IInv, NEW t \in Threads, NEW c \in Channels,
         handler = "idle", xDmad_Initialized,
         XDMAD_StopTransfer(t, c)
  PROVE  DriverInv'
<1> USE DEF IInv, DriverInv, TypeOK, Calls, Owns, Set, Goto, Enter,
            driverVars, clientVars, hwVars, handlerVars
<1>1. CASE StopBegins(t, c)
  <2> USE <1>1 DEF StopBegins
  <2>1. ChannelInv'
    BY XdmadAssumption
    DEF ChannelInv, OwnerInv, Prepares, Transfers, Quiet, Silent
  <2>2. OwnerInv'
    BY XdmadAssumption
    DEF ChannelInv, OwnerInv, Prepares, Transfers, Quiet, Silent
  <2>3. HandlerInv'
    BY XdmadAssumption DEF HandlerInv, OwnerInv, Prepares, Transfers
  <2> QED
    BY <2>1, <2>2, <2>3
<1>2. CASE StopDisables(t, c)
  <2> USE <1>2 DEF StopDisables, XDMAC_DisableChannel
  <2>1. ChannelInv'
    BY XdmadAssumption
    DEF ChannelInv, OwnerInv, Prepares, Transfers, Quiet, Silent
  <2>2. OwnerInv'
    BY XdmadAssumption
    DEF ChannelInv, OwnerInv, Prepares, Transfers, Quiet, Silent
  <2>3. HandlerInv'
    BY XdmadAssumption DEF HandlerInv, OwnerInv, Prepares, Transfers
  <2> QED
    BY <2>1, <2>2, <2>3
<1>3. CASE StopMasks(t, c)
  <2> USE <1>3 DEF StopMasks, XDMAC_DisableChannelIt
  <2>1. ChannelInv'
    BY XdmadAssumption
    DEF ChannelInv, OwnerInv, Prepares, Transfers, Quiet, Silent
  <2>2. OwnerInv'
    BY XdmadAssumption
    DEF ChannelInv, OwnerInv, Prepares, Transfers, Quiet, Silent
  <2>3. HandlerInv'
    BY XdmadAssumption DEF HandlerInv, OwnerInv, Prepares, Transfers
  <2> QED
    BY <2>1, <2>2, <2>3
<1>4. CASE StopClears(t, c)
  <2> USE <1>4 DEF StopClears, XDMAC_GetChannelIsr
  <2>1. ChannelInv'
    BY XdmadAssumption
    DEF ChannelInv, OwnerInv, Prepares, Transfers, Quiet, Silent
  <2>2. OwnerInv'
    BY XdmadAssumption
    DEF ChannelInv, OwnerInv, Prepares, Transfers, Quiet, Silent
  <2>3. HandlerInv'
    BY XdmadAssumption DEF HandlerInv, OwnerInv, Prepares, Transfers
  <2> QED
    BY <2>1, <2>2, <2>3
<1> QED
  BY <1>1, <1>2, <1>3, <1>4 DEF XDMAD_StopTransfer

(* A waiting thread becomes the handler: whatever it is to visit is in use. *)
LEMMA DriverPolls ==
  ASSUME IInv, NEW t \in Threads, NEW c \in Channels, TransferIsPolled(t, c)
  PROVE  DriverInv'
<1> USE DEF IInv, DriverInv, TypeOK, TransferIsPolled, HandlerBegins, Calls,
            Owns, Set, Goto, driverVars, hwVars
<1>1. handler = "idle" /\ xDmad_Initialized /\ t = Poller
  BY NoThreadBesideHandler DEF Runs
<1>2. \A d \in gis' : state[d] # "FREE"
  BY DEF ChannelInv, Quiet, Silent, XDMAC_GetGIsr
<1>3. ChannelInv'
  BY DEF ChannelInv, Quiet, Silent
<1>4. OwnerInv'
  BY XdmadAssumption DEF OwnerInv, Prepares, Transfers, Quiet, Silent
<1>5. HandlerInv'
  BY <1>1, <1>2 DEF HandlerInv
<1> QED
  BY <1>3, <1>4, <1>5

LEMMA DriverClient ==
  ASSUME IInv, NEW t \in Threads, Client(t)
  PROVE  DriverInv'
<1>1. ASSUME NEW c \in Channels,
             \/ XDMAD_FreeChannel(t, c)
             \/ \E set \in BOOLEAN : XDMAD_SetCallback(t, c, set)
             \/ XDMAD_PrepareChannel(t, c)
             \/ ClientConfigures(t, c)
             \/ XDMAD_StartTransfer(t, c)
             \/ XDMAD_StopTransfer(t, c)
             \/ XDMAD_IsTransferDone(t, c)
      PROVE  DriverInv'
  <2>1. Runs(t) /\ pc[t] # "poll"
    BY <1>1
    DEF XDMAD_FreeChannel, XDMAD_SetCallback, XDMAD_PrepareChannel,
        ClientConfigures, XDMAD_ConfigureTransfer, XDMAD_StartTransfer,
        StartBegins,
        StartEnables, StartUnmasks, XDMAD_StopTransfer, StopBegins,
        StopDisables, StopMasks, StopClears, XDMAD_IsTransferDone,
        TransferIsDone, TransferIsPolled, Calls
  <2>2. handler = "idle" /\ xDmad_Initialized
    BY <2>1, NoThreadBesideHandler DEF IInv, DriverInv
  <2> QED
    BY <1>1, <2>2, DriverFree, DriverPrepare, DriverStart, DriverStop,
       DriverPolls
    DEF XDMAD_IsTransferDone
<1> QED
  BY <1>1, DriverAllocate DEF Client

-----------------------------------------------------------------------------
(* The invariant, under the steps of the controller and the handler. *)
LEMMA DriverController ==
  ASSUME IInv, NEW c \in Channels, Controller(c)
  PROVE  DriverInv'
<1> USE XdmadAssumption
    DEF IInv, DriverInv, TypeOK, Set, Raise, Flags, driverVars, clientVars,
        handlerVars, ChannelInv, OwnerInv, HandlerInv, Prepares, Transfers,
        Quiet, Silent
<1>1. CASE BlockEnds(c)
  BY <1>1 DEF BlockEnds
<1>2. CASE TransferEnds(c)
  BY <1>2 DEF TransferEnds
<1>3. CASE BusError(c)
  BY <1>3 DEF BusError
<1>4. CASE StopEnds(c)
  BY <1>4 DEF StopEnds
<1> QED
  BY <1>1, <1>2, <1>3, <1>4 DEF Controller

LEMMA DriverInterrupt ==
  ASSUME IInv, Interrupt
  PROVE  DriverInv'
<1> USE DEF IInv, DriverInv, TypeOK, Interrupt, HandlerBegins, driverVars,
            hwVars
<1>1. \A d \in gis' : state[d] # "FREE"
  BY DEF ChannelInv, Quiet, Silent, XDMAC_GetGIsr
<1>2. xDmad_Initialized
  BY DEF Interrupts, XDMAC_GetGIsr, HandlerInv, ChannelInv, Quiet, Silent
<1>3. ChannelInv'
  BY DEF ChannelInv, Quiet, Silent
<1>4. OwnerInv'
  BY DEF OwnerInv, Prepares, Transfers, Quiet, Silent
<1>5. HandlerInv'
  BY <1>1, <1>2 DEF HandlerInv
<1> QED
  BY <1>3, <1>4, <1>5

LEMMA DriverReadsGS ==
  ASSUME IInv, HandlerReadsGS
  PROVE  DriverInv'
  BY DEF HandlerReadsGS, XDMAC_GetGlobalChStatus, IInv, DriverInv, TypeOK,
         ChannelInv, OwnerInv, HandlerInv, Prepares, Transfers, Quiet, Silent,
         driverVars, clientVars, hwVars

LEMMA DriverLeaves ==
  ASSUME IInv, Leaves
  PROVE  DriverInv'
  BY DEF Leaves, IInv, DriverInv, TypeOK, ChannelInv, OwnerInv, HandlerInv,
         Prepares, Transfers, Quiet, Silent, driverVars, hwVars

(* The handler marks done only what was started or is being stopped. *)
LEMMA EndsOnlyTransfer ==
  ASSUME IInv, NEW c \in Channels, state[c] # "FREE",
         EndsTransfer(c, XDMAC_GetMaskChannelIsr(c))
  PROVE  state[c] \in {"START", "HALTED"} /\ ~Quiet(c) /\ ~Silent(c)
  BY DEF IInv, DriverInv, TypeOK, States, ChannelInv, EndsTransfer,
         XDMAC_GetMaskChannelIsr, Quiet, Silent

LEMMA DriverMeetsDisabled ==
  ASSUME IInv, NEW c \in gis, handler = "visit", HandlerMeetsDisabled(c)
  PROVE  DriverInv'
<1> USE DEF IInv, DriverInv, TypeOK, Set, driverVars, clientVars
<1>1. c \in Channels
  OBVIOUS
<1>2. /\ CIS' = [CIS EXCEPT ![c] = {}]
      /\ gis' = gis \ {c}
      /\ UNCHANGED <<driverVars, clientVars, enabled, CIM, handler, gs>>
  BY DEF HandlerMeetsDisabled, XDMAC_GetChannelIsr
<1>3. CASE EndsTransfer(c, XDMAC_GetMaskChannelIsr(c))
  <2>1. state' = [state EXCEPT ![c] = "DONE"] /\ owed' = owed \ {c}
    BY <1>3 DEF HandlerMeetsDisabled
  <2>2. enabled[c] = "off"
    BY <1>1 DEF HandlerMeetsDisabled, HandlerInv
  <2>3. state[c] \in {"START", "HALTED"} /\ ~Quiet(c) /\ ~Silent(c)
    BY <1>1, <1>3, EndsOnlyTransfer DEF HandlerMeetsDisabled
  <2>4. ChannelInv'
    BY <1>1, <1>2, <2>1, <2>2 DEF ChannelInv, Quiet, Silent
  <2>5. OwnerInv'
    BY <1>1, <1>2, <2>1, <2>2, <2>3
    DEF OwnerInv, Prepares, Transfers, Quiet, Silent
  <2>6. HandlerInv'
    BY <1>1, <1>2, <2>1 DEF HandlerInv
  <2> QED
    BY <2>4, <2>5, <2>6
<1>4. CASE ~EndsTransfer(c, XDMAC_GetMaskChannelIsr(c))
  <2>1. UNCHANGED <<state, owed>>
    BY <1>4 DEF HandlerMeetsDisabled
  <2>2. ChannelInv'
    BY <1>1, <1>2, <2>1 DEF ChannelInv, Quiet, Silent
  <2>3. OwnerInv'
    BY <1>1, <1>2, <2>1 DEF OwnerInv, Prepares, Transfers, Quiet, Silent
  <2>4. HandlerInv'
    BY <1>2, <2>1 DEF HandlerInv
  <2> QED
    BY <2>2, <2>3, <2>4
<1> QED
  BY <1>3, <1>4

LEMMA DriverMeetsEnabled ==
  ASSUME IInv, NEW c \in gis, HandlerMeetsEnabled(c)
  PROVE  DriverInv'
  BY DEF IInv, DriverInv, TypeOK, Set, XDMAC_GetChannelIsr, driverVars,
         clientVars, HandlerMeetsEnabled, ChannelInv, OwnerInv, HandlerInv,
         Prepares, Transfers, Quiet, Silent

LEMMA InvNext == IInv /\ [Next]_vars => IInv'
<1> SUFFICES ASSUME IInv, [Next]_vars
             PROVE  IInv'
  OBVIOUS
<1>1. TypeOK'
  BY TypeNext DEF IInv
<1>2. ASSUME UNCHANGED vars
      PROVE  DriverInv'
  BY <1>2
  DEF IInv, DriverInv, vars, TypeOK, ChannelInv, OwnerInv, HandlerInv,
      Prepares, Transfers, Quiet, Silent, driverVars, clientVars, hwVars,
      handlerVars
<1>3. ASSUME XDMAD_Handler
      PROVE  DriverInv'
  <2>1. ASSUME NEW c \in gis, handler = "visit",
               HandlerMeetsDisabled(c) \/ HandlerMeetsEnabled(c)
        PROVE  DriverInv'
    BY <2>1, DriverMeetsDisabled, DriverMeetsEnabled
  <2>2. TypeOK
    BY DEF IInv
  <2> QED
    BY <1>3, <2>1, <2>2, HandlerSteps, DriverReadsGS, DriverLeaves
<1>4. DriverInv'
  BY <1>2, <1>3, DriverInitialize, DriverClient, DriverController,
     DriverInterrupt
  DEF Next, IInv
<1> QED
  BY <1>1, <1>4 DEF IInv

LEMMA Inductive == Spec => []IInv
<1>1. Init => IInv
  BY TypeInit, DriverInit DEF IInv
<1> QED
  BY <1>1, InvNext, PTL DEF Spec

-----------------------------------------------------------------------------
(* Every variable of driver, controller, clients and handler has its type. *)
THEOREM TypeCorrect == Spec => []TypeOK
  BY Inductive, PTL DEF IInv

(* However clients, controller and handler interleave, a channel in state  *)
(* XDMAD_STATE_DONE has stopped: XDMAD_IsTransferDone is right that the    *)
(* buffers are free.                                                       *)
THEOREM DoneChannelHasStopped == Spec => []DoneHasStopped
<1>1. IInv => DoneHasStopped
  BY DEF IInv, DriverInv, ChannelInv, DoneHasStopped, Silent
<1> QED
  BY <1>1, Inductive, PTL

(* XDMAD_Handler never leaves at a free channel with others unserved. *)
THEOREM HandlerServesAll == Spec => []HandlerMeetsNoFreeChannel
<1>1. IInv => HandlerMeetsNoFreeChannel
  BY DEF IInv, DriverInv, HandlerInv, HandlerMeetsNoFreeChannel
<1> QED
  BY <1>1, Inductive, PTL

(* A client that finds its transfer done has had its callback. *)
THEOREM CallbackBeforeDone == Spec => []DoneIsNotified
<1>1. IInv => DoneIsNotified
  BY DEF IInv, DriverInv, ChannelInv, DoneIsNotified
<1> QED
  BY <1>1, Inductive, PTL

-----------------------------------------------------------------------------
(* The refinement of DmaChannels. *)
Owners       == [c \in Channels |-> {t \in Threads : Owns(t, c)}]
AbstractStep == [D!ChannelsNext]_(D!channelVars)

LEMMA SameChannels ==
  ASSUME UNCHANGED <<channel, state>>
  PROVE  AbstractStep
  BY DEF AbstractStep, D!channelVars, Owns

(* A change of one channel's state that the abstract driver allows. *)
LEMMA Changes ==
  ASSUME TypeOK, NEW c \in Channels, NEW to,
         state' = Set(state, c, to), UNCHANGED channel,
         \/ to = "START" /\ state[c] \in {"ALLOCATED", "DONE", "HALTED"}
         \/ to = "HALTED" /\ state[c] \in {"START", "DONE"}
         \/ to = "DONE" /\ state[c] \in {"START", "HALTED"}
  PROVE  AbstractStep
<1>1. UNCHANGED Owners
  BY DEF Owners, Owns
<1> QED
  BY <1>1 DEF Owners, AbstractStep, D!ChannelsNext, D!Becomes, D!Start,
              D!Stop, D!Finish, D!FinishStopped, Set

LEMMA AllocateAllocates ==
  ASSUME IInv, NEW t \in Threads, NEW src, NEW dst,
         XDMAD_AllocateChannel(t, src, dst)
  PROVE  AbstractStep
<1>1. PICK c \in Channels : /\ state[c] = "FREE"
                            /\ state' = Set(state, c, "ALLOCATED")
                            /\ channel' = Set(channel, t, c)
                            /\ \A u \in Threads : channel[u] # c
  BY DriverAllocate
<1>2. Owners[c] = {}
  BY <1>1 DEF Owners, Owns
<1>3. Owners' = [Owners EXCEPT ![c] = {t}]
  <2>1. ASSUME NEW d \in Channels
        PROVE  Owners'[d] = IF d = c THEN {t} ELSE Owners[d]
    BY <1>1, XdmadAssumption
    DEF Owners, Owns, IInv, TypeOK, Set, XDMAD_AllocateChannel
  <2> QED
    BY <2>1 DEF Owners
<1>4. D!Allocate(t, c)
  BY <1>1, <1>2, <1>3 DEF D!Allocate, D!Becomes, Owners, Set
<1> QED
  BY <1>4 DEF AbstractStep, D!ChannelsNext

LEMMA FreeFrees ==
  ASSUME IInv, NEW t \in Threads, NEW c \in Channels, XDMAD_FreeChannel(t, c)
  PROVE  AbstractStep
<1>1. \A u \in Threads : channel[u] = c => u = t
  BY XdmadAssumption DEF IInv, DriverInv, OwnerInv, XDMAD_FreeChannel, Owns
<1>2. Owners' = [Owners EXCEPT ![c] = {}]
  <2>1. ASSUME NEW d \in Channels
        PROVE  Owners'[d] = IF d = c THEN {} ELSE Owners[d]
    BY <1>1, XdmadAssumption
    DEF Owners, Owns, IInv, TypeOK, Set, XDMAD_FreeChannel
  <2> QED
    BY <2>1 DEF Owners
<1>3. D!Free(c)
  BY <1>2 DEF D!Free, D!Becomes, Owners, Set, XDMAD_FreeChannel, MayFree
<1> QED
  BY <1>3 DEF AbstractStep, D!ChannelsNext

LEMMA ClientRefines ==
  ASSUME IInv, NEW t \in Threads, Client(t)
  PROVE  AbstractStep
<1>1. ASSUME NEW c \in Channels, StartBegins(t, c)
      PROVE  AbstractStep
  BY <1>1, Changes, XdmadAssumption
  DEF IInv, DriverInv, OwnerInv, Prepares, StartBegins, Owns
<1>2. ASSUME NEW c \in Channels, StopBegins(t, c)
      PROVE  AbstractStep
  BY <1>2, Changes, XdmadAssumption
  DEF IInv, DriverInv, OwnerInv, Transfers, StopBegins, Owns, Calls
<1>3. ASSUME NEW c \in Channels, NEW set,
             \/ XDMAD_SetCallback(t, c, set)
             \/ XDMAD_PrepareChannel(t, c)
             \/ ClientConfigures(t, c)
             \/ StartEnables(t, c) \/ StartUnmasks(t, c)
             \/ StopDisables(t, c) \/ StopMasks(t, c) \/ StopClears(t, c)
             \/ XDMAD_IsTransferDone(t, c)
      PROVE  AbstractStep
  <2>1. UNCHANGED <<channel, state>>
    BY <1>3
    DEF XDMAD_SetCallback, XDMAD_PrepareChannel, ClientConfigures,
        XDMAD_ConfigureTransfer,
        StartEnables, StartUnmasks, StopDisables, StopMasks, StopClears,
        XDMAD_IsTransferDone, TransferIsDone, TransferIsPolled, HandlerBegins,
        clientVars
  <2> QED
    BY <2>1, SameChannels
<1> QED
  BY <1>1, <1>2, <1>3, AllocateAllocates, FreeFrees
  DEF Client, XDMAD_StartTransfer, XDMAD_StopTransfer

LEMMA HandlerRefines ==
  ASSUME IInv, XDMAD_Handler
  PROVE  AbstractStep
<1>1. ASSUME NEW c \in Channels, HandlerMeetsDisabled(c)
      PROVE  AbstractStep
  <2>1. UNCHANGED channel
    BY <1>1 DEF HandlerMeetsDisabled, clientVars
  <2>2. CASE EndsTransfer(c, XDMAC_GetMaskChannelIsr(c))
    BY <1>1, <2>1, <2>2, EndsOnlyTransfer, Changes
    DEF HandlerMeetsDisabled, IInv
  <2>3. CASE ~EndsTransfer(c, XDMAC_GetMaskChannelIsr(c))
    BY <1>1, <2>1, <2>3, SameChannels DEF HandlerMeetsDisabled
  <2> QED
    BY <2>2, <2>3
<1>2. ASSUME NEW c \in Channels, HandlerMeetsEnabled(c)
      PROVE  AbstractStep
  BY <1>2, SameChannels DEF HandlerMeetsEnabled, clientVars
<1>3. CASE HandlerReadsGS \/ Leaves
  BY <1>3, SameChannels DEF HandlerReadsGS, Leaves, clientVars
<1> QED
  BY <1>1, <1>2, <1>3, HandlerSteps DEF IInv, TypeOK

LEMMA StepRefines == IInv /\ [Next]_vars => AbstractStep
<1> SUFFICES ASSUME IInv, [Next]_vars
             PROVE  AbstractStep
  OBVIOUS
<1>1. ASSUME NEW c \in Channels, Controller(c)
      PROVE  AbstractStep
  BY <1>1, SameChannels
  DEF Controller, BlockEnds, TransferEnds, BusError, StopEnds, clientVars
<1>2. CASE Interrupt \/ UNCHANGED vars
  BY <1>2, SameChannels DEF Interrupt, HandlerBegins, vars, clientVars
<1>3. ASSUME NEW b \in BOOLEAN, XDMAD_Initialize(b)
      PROVE  AbstractStep
  <2>1. UNCHANGED <<channel, state>>
    BY <1>3
    DEF XDMAD_Initialize, IInv, DriverInv, TypeOK, HandlerInv, clientVars
  <2> QED
    BY <2>1, SameChannels
<1> QED
  BY <1>1, <1>2, <1>3, ClientRefines, HandlerRefines DEF Next

(* The driver hands a channel to one thread at a time and takes it through *)
(* its states in the order DmaChannels promises.                           *)
THEOREM Refinement == Spec => ImplementsChannels
<1>1. Init => D!ChannelsInit
  BY XdmadAssumption DEF Init, D!ChannelsInit, Owns
<1> QED
  BY <1>1, Inductive, StepRefines, PTL
  DEF Spec, ImplementsChannels, D!ChannelsSpec, AbstractStep
=============================================================================
