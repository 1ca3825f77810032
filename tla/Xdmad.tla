-------------------------------- MODULE Xdmad --------------------------------
(***************************************************************************)
(* The DMA driver (xdmad.c) on its controller (xdmac.c).                   *)
(*                                                                         *)
(* Threads allocate a channel, prepare, configure and start it, wait until *)
(* it is done or stop it, and free it.  The controller transfers on its    *)
(* own and raises status flags; XDMAD_Handler, called by the interrupt or, *)
(* in polling mode, by XDMAD_IsTransferDone, reads the global status once, *)
(* walks over the channels, and reading a channel's status clears it.      *)
(*                                                                         *)
(* A channel's registers are kept as what the driver can tell apart: is it *)
(* enabled, which flags are up (CIS), which are unmasked (CIM, GIM), and   *)
(* what transfer it is programmed for.  A client here obeys the protocol   *)
(* Allocate, Prepare, { Configure, Start, wait or Stop }, Free on its own  *)
(* channel, and sets no callback between Configure and Start.              *)
(***************************************************************************)
EXTENDS Integers, FiniteSetsExt

CONSTANTS
  Threads,
  Poller,           \* the thread that uses the driver in polling mode
  numChannels,
  Peripherals,      \* identifiers a thread asks a channel for ...
  Handled,          \* ... those in the table xdmaHwIf ...
  MEMORY,           \* ... and XDMAD_TRANSFER_MEMORY
  SingleMasks,      \* interrupts (dwXdmaIntEn) enabled for a single transfer
  ListMasks,        \* ... and for a linked list
  NONE

Channels == 0 .. numChannels - 1
Flags    == {"BIS", "LIS", "DIS", "RBEIS"}

ASSUME XdmadAssumption ==
  /\ numChannels \in Nat \ {0}
  /\ Handled \subseteq Peripherals
  /\ MEMORY \notin Peripherals
  /\ SingleMasks \subseteq SUBSET Flags
  /\ ListMasks \subseteq SUBSET Flags
  /\ NONE \notin Channels
  /\ Poller \in Threads

VARIABLES
  xDmad_Initialized, pollingMode,
  state,            \* eXdmadState of each channel
  fCallback,        \* a callback is set
  channel, pc,      \* each thread's channel and its next step in the driver
  phase,            \* where each thread is in the protocol
  enabled,          \* GS of each channel: "off", "on", or "stopping"
  CIS, CIM, GIM,    \* status flags, unmasked flags; channels unmasked in GIM
  program,          \* transfer in the channel's registers
  handler,          \* progress of XDMAD_Handler: "idle", "status", "visit"
  gis, gs,          \* global status it has read: channels to visit, enabled
  bExec,            \* its local: execute the callback
  owed              \* history: started with a callback, not called since

driverVars  == <<xDmad_Initialized, pollingMode>>
clientVars  == <<channel, pc, phase>>
hwVars      == <<enabled, CIS, CIM, GIM, program>>
handlerVars == <<handler, gis, gs, bExec>>
vars        == <<driverVars, state, fCallback, clientVars, hwVars, handlerVars,
                 owed>>

Set(f, c, v) == [f EXCEPT ![c] = v]

Init ==
  /\ xDmad_Initialized = FALSE
  /\ pollingMode = FALSE
  /\ state = [c \in Channels |-> "FREE"]
  /\ fCallback = [c \in Channels |-> FALSE]
  /\ channel = [t \in Threads |-> NONE]
  /\ pc = [t \in Threads |-> "idle"]
  /\ phase = [t \in Threads |-> "none"]
  /\ enabled = [c \in Channels |-> "off"]
  /\ CIS = [c \in Channels |-> {}]
  /\ CIM = [c \in Channels |-> {}]
  /\ GIM = {}
  /\ program = [c \in Channels |-> "none"]
  /\ handler = "idle"
  /\ gis = {}
  /\ gs = {}
  /\ bExec = FALSE
  /\ owed = {}

-----------------------------------------------------------------------------
(* The controller's registers, as xdmac.c accesses them. *)

(* GIS: the channels with an unmasked flag up; GIM has no part in it. *)
XDMAC_GetGIsr == {c \in Channels : CIS[c] \cap CIM[c] # {}}

(* GS: a channel told to stop counts until its pending access has ended.   *)
XDMAC_GetGlobalChStatus == {c \in Channels : enabled[c] # "off"}

XDMAC_GetMaskChannelIsr(c) == CIS[c] \cap CIM[c]

(* Reading a channel's status clears it. *)
XDMAC_GetChannelIsr(c)         == CIS' = Set(CIS, c, {})
XDMAC_EnableChannelIt(c, mask) == CIM' = [CIM EXCEPT ![c] = @ \cup mask]
XDMAC_DisableChannelIt(c)      == CIM' = Set(CIM, c, {})

(* Mutant: the parameter dwInteruptMask taken for a mask, 1 << c.          *)
XDMAC_EnableGIt_TakesMask(c)   == GIM' = GIM \cup {2 ^ c}

XDMAC_EnableGIt(c)             == GIM' = GIM \cup {c}
XDMAC_DisableGIt(c)            == GIM' = GIM \ {c}
XDMAC_EnableChannel(c)         == enabled' = Set(enabled, c, "on")
XDMAC_DisableChannel(c) ==
  enabled' = IF enabled[c] = "on" THEN Set(enabled, c, "stopping") ELSE enabled

(* Addresses, descriptor, block sizes and configuration of the channel. *)
XDMAC_SetTransfer(c, kind) == program' = Set(program, c, kind)

-----------------------------------------------------------------------------
(* The controller itself (external).                                       *)

Interrupts == XDMAC_GetGIsr \cap GIM # {}

(* The driver looks at a masked flag only for BIS, and clears the others   *)
(* before it unmasks them: those are not kept.                             *)
Raise(c, flags) ==
  CIS' = [CIS EXCEPT ![c] = @ \cup (flags \cap (CIM[c] \cup {"BIS"}))]

(* The end of a linked list's block that is not its last. *)
BlockEnds(c) ==
  /\ enabled[c] = "on"
  /\ program[c] = "list"
  /\ Raise(c, {"BIS"})
  /\ UNCHANGED <<driverVars, state, fCallback, clientVars, enabled, CIM, GIM,
                 program, handlerVars, owed>>

(* The end of the transfer: the controller disables the channel. *)
TransferEnds(c) ==
  /\ enabled[c] = "on"
  /\ enabled' = Set(enabled, c, "off")
  /\ Raise(c, IF program[c] = "list" THEN {"BIS", "LIS"} ELSE {"BIS"})
  /\ UNCHANGED <<driverVars, state, fCallback, clientVars, CIM, GIM, program,
                 handlerVars, owed>>

(* A read error, which leaves the transfer to go on or to end.  Masked it  *)
(* is never looked at.                                                     *)
BusError(c) ==
  /\ enabled[c] = "on"
  /\ "RBEIS" \in CIM[c]
  /\ Raise(c, {"RBEIS"})
  /\ UNCHANGED <<driverVars, state, fCallback, clientVars, enabled, CIM, GIM,
                 program, handlerVars, owed>>

(* The end of the bus access that was pending when the channel was told    *)
(* to stop; it may have been the last of its block.                        *)
StopEnds(c) ==
  /\ enabled[c] = "stopping"
  /\ enabled' = Set(enabled, c, "off")
  /\ \E last \in SUBSET {"BIS"} : Raise(c, last \cup {"DIS"})
  /\ UNCHANGED <<driverVars, state, fCallback, clientVars, CIM, GIM, program,
                 handlerVars, owed>>

Controller(c) == BlockEnds(c) \/ TransferEnds(c) \/ BusError(c) \/ StopEnds(c)

-----------------------------------------------------------------------------
(* Threads.  None runs while the interrupt handler does.  In polling mode  *)
(* the handler runs in the thread that waits; it is not reentrant and      *)
(* takes no lock, so a program polls from one thread.                      *)

Runs(t) ==
  /\ xDmad_Initialized
  /\ IF pollingMode THEN t = Poller ELSE handler = "idle" /\ ~Interrupts

Calls(t)    == Runs(t) /\ pc[t] = "idle"
Goto(t, p)  == pc' = Set(pc, t, p)
Enter(t, p) == phase' = Set(phase, t, p)
Owns(t, c)  == channel[t] = c

(* The first call initialises the driver, later ones find it initialised. *)
XDMAD_Initialize(bPollingMode) ==
  /\ ~xDmad_Initialized
  /\ xDmad_Initialized' = TRUE
  /\ pollingMode' = bPollingMode
  /\ state' = [c \in Channels |-> "FREE"]
  /\ fCallback' = [c \in Channels |-> FALSE]
  /\ UNCHANGED <<clientVars, hwVars, handlerVars, owed>>

XDMAIF_IsValidatedPeripherOnDma(id) == id = MEMORY \/ id \in Handled

(* Mutant: any channel that is not transferring will do. *)
Allocatable_NotStarted(src, dst) ==
  {c \in Channels : state[c] \in {"FREE", "DONE", "HALTED"}}

(* The channels XDMAD_AllocateXdmacChannel may choose from. *)
Allocatable(src, dst) ==
  IF /\ src = MEMORY \/ dst = MEMORY
     /\ dst = MEMORY => XDMAIF_IsValidatedPeripherOnDma(src)
     /\ src = MEMORY => XDMAIF_IsValidatedPeripherOnDma(dst)
    THEN {c \in Channels : state[c] = "FREE"} ELSE {}

(* xdmad_lock makes the search atomic; the lowest free channel is taken.   *)
(* With none the thread is told so, and has nothing more than before.      *)
XDMAD_AllocateChannel(t, src, dst) ==
  /\ Calls(t)
  /\ channel[t] = NONE
  /\ Allocatable(src, dst) # {}
  /\ LET c == Min(Allocatable(src, dst))
     IN  /\ state' = Set(state, c, "ALLOCATED")
         /\ channel' = Set(channel, t, c)
  /\ Enter(t, "allocated")
  /\ UNCHANGED <<driverVars, fCallback, pc, hwVars, handlerVars, owed>>

MayFree(c) == state[c] \in {"DONE", "HALTED"}

(* XDMAD_BUSY before the first transfer and during one. *)
XDMAD_FreeChannel(t, c) ==
  /\ Calls(t) /\ Owns(t, c)
  /\ MayFree(c)
  /\ state' = Set(state, c, "FREE")
  /\ channel' = Set(channel, t, NONE)
  /\ Enter(t, "none")
  /\ UNCHANGED <<driverVars, fCallback, pc, hwVars, handlerVars, owed>>

MaySetCallback(c) == state[c] \notin {"FREE", "START"}

XDMAD_SetCallback(t, c, set) ==
  /\ Calls(t) /\ Owns(t, c)
  /\ phase[t] \in {"allocated", "started"}
  /\ MaySetCallback(c)
  /\ fCallback' = Set(fCallback, c, set)
  /\ UNCHANGED <<driverVars, state, clientVars, hwVars, handlerVars, owed>>

(* Not while the transfer runs: then XDMAD_BUSY and nothing happens.  The  *)
(* channel that is prepared raises no unmasked flag meanwhile, so this     *)
(* sequence of register writes is one step.                                *)
XDMAD_PrepareChannel(t, c) ==
  /\ Calls(t) /\ Owns(t, c)
  /\ phase[t] \in {"allocated", "prepared"}
  /\ state[c] \notin {"FREE", "START", "IN_XFR"}
  /\ XDMAC_GetChannelIsr(c)
  /\ XDMAC_DisableGIt(c)
  /\ XDMAC_DisableChannelIt(c)
  /\ XDMAC_DisableChannel(c)
  /\ XDMAC_SetTransfer(c, "none")
  /\ Enter(t, "prepared")
  /\ UNCHANGED <<driverVars, state, fCallback, channel, pc, handlerVars,
                 owed>>

(* A single transfer adds its interrupts to those enabled already. *)
ConfigureSingle(c, mask) ==
  /\ XDMAC_SetTransfer(c, "single")
  /\ XDMAC_EnableChannelIt(c, mask)

ConfigureList(c, mask) ==
  /\ XDMAC_SetTransfer(c, "list")
  /\ CIM' = Set(CIM, c, mask)

(* The status is cleared before the state is looked at.                    *)
XDMAD_ConfigureTransfer(t, c) ==
  /\ Calls(t) /\ Owns(t, c)
  /\ XDMAC_GetChannelIsr(c)
  /\ IF state[c] \in {"FREE", "START"}
       THEN UNCHANGED <<program, CIM, phase>>
       ELSE /\ \/ \E mask \in SingleMasks : ConfigureSingle(c, mask)
               \/ \E mask \in ListMasks : ConfigureList(c, mask)
            /\ Enter(t, "configured")
  /\ UNCHANGED <<driverVars, state, fCallback, channel, pc, enabled, GIM,
                 handlerVars, owed>>

(* The interrupt that ends a transfer. *)
EndOf(kind) == IF kind = "list" THEN {"LIS"} ELSE {"BIS"}

(* A client does not configure during a transfer: the interrupt of its end *)
(* would be cleared.  A bus access pending from a stop has ended by then:  *)
(* it takes a few bus cycles.  The client has set a callback if it enables *)
(* more than the interrupt that ends its transfer: the handler does not    *)
(* test it then.                                                           *)
ClientConfigures(t, c) ==
  /\ phase[t] = "prepared"
  /\ enabled[c] # "stopping"
  /\ XDMAD_ConfigureTransfer(t, c)
  /\ CIM'[c] \subseteq EndOf(program'[c]) \/ fCallback[c]

-----------------------------------------------------------------------------
(* XDMAD_StartTransfer: the state, then the channel, then its interrupt. *)

StartBegins(t, c) ==
  /\ Calls(t) /\ Owns(t, c)
  /\ phase[t] = "configured"
  /\ state[c] \notin {"FREE", "START"}
  /\ state' = Set(state, c, "START")
  /\ owed' = IF fCallback[c] THEN owed \cup {c} ELSE owed \ {c}
  /\ Goto(t, "enable")
  /\ Enter(t, "started")
  /\ UNCHANGED <<driverVars, fCallback, channel, hwVars, handlerVars>>

StartEnables(t, c) ==
  /\ Runs(t) /\ Owns(t, c)
  /\ pc[t] = "enable"
  /\ XDMAC_EnableChannel(c)
  /\ Goto(t, "unmask")
  /\ UNCHANGED <<driverVars, state, fCallback, channel, phase, CIS, CIM, GIM,
                 program, handlerVars, owed>>

(* Mutant: the interrupt of the channel stays masked. *)
StartUnmasks_Never(t, c) ==
  /\ Runs(t) /\ Owns(t, c)
  /\ pc[t] = "unmask"
  /\ Goto(t, "idle")
  /\ UNCHANGED <<driverVars, state, fCallback, channel, phase, hwVars,
                 handlerVars, owed>>

StartUnmasks(t, c) ==
  /\ Runs(t) /\ Owns(t, c)
  /\ pc[t] = "unmask"
  /\ IF pollingMode THEN UNCHANGED GIM ELSE XDMAC_EnableGIt(c)
  /\ Goto(t, "idle")
  /\ UNCHANGED <<driverVars, state, fCallback, channel, phase, enabled, CIS,
                 CIM, program, handlerVars, owed>>

XDMAD_StartTransfer(t, c) ==
  StartBegins(t, c) \/ StartEnables(t, c) \/ StartUnmasks(t, c)

(* XDMAD_StopTransfer: the state, the channel, its interrupts, its status. *)

StopBegins(t, c) ==
  /\ Calls(t) /\ Owns(t, c)
  /\ phase[t] = "started"
  /\ state' = Set(state, c, "HALTED")
  /\ owed' = owed \ {c}
  /\ Goto(t, "disable")
  /\ UNCHANGED <<driverVars, fCallback, channel, phase, hwVars, handlerVars>>

StopDisables(t, c) ==
  /\ Runs(t) /\ Owns(t, c)
  /\ pc[t] = "disable"
  /\ XDMAC_DisableChannel(c)
  /\ Goto(t, "mask")
  /\ UNCHANGED <<driverVars, state, fCallback, channel, phase, CIS, CIM, GIM,
                 program, handlerVars, owed>>

(* Mutant: the channel's interrupts are left enabled. *)
StopMasks_Not(t, c) ==
  /\ Runs(t) /\ Owns(t, c)
  /\ pc[t] = "mask"
  /\ Goto(t, "clear")
  /\ UNCHANGED <<driverVars, state, fCallback, channel, phase, hwVars,
                 handlerVars, owed>>

StopMasks(t, c) ==
  /\ Runs(t) /\ Owns(t, c)
  /\ pc[t] = "mask"
  /\ XDMAC_DisableChannelIt(c)
  /\ Goto(t, "clear")
  /\ UNCHANGED <<driverVars, state, fCallback, channel, phase, enabled, CIS,
                 GIM, program, handlerVars, owed>>

StopClears(t, c) ==
  /\ Runs(t) /\ Owns(t, c)
  /\ pc[t] = "clear"
  /\ XDMAC_GetChannelIsr(c)
  /\ Goto(t, "idle")
  /\ Enter(t, "prepared")
  /\ UNCHANGED <<driverVars, state, fCallback, channel, enabled, CIM, GIM,
                 program, handlerVars, owed>>

XDMAD_StopTransfer(t, c) ==
  \/ StopBegins(t, c)
  \/ StopDisables(t, c)
  \/ StopMasks(t, c)
  \/ StopClears(t, c)

-----------------------------------------------------------------------------
(* XDMAD_Handler: the two global registers, then one step per channel. *)

HandlerBegins ==
  /\ handler = "idle"
  /\ handler' = "status"
  /\ gis' = XDMAC_GetGIsr
  /\ bExec' = FALSE
  /\ UNCHANGED <<driverVars, state, fCallback, channel, phase, hwVars, gs,
                 owed>>

Interrupt ==
  /\ Interrupts
  /\ ~pollingMode
  /\ HandlerBegins
  /\ UNCHANGED pc

HandlerReadsGS ==
  /\ handler = "status"
  /\ gs' = XDMAC_GetGlobalChStatus
  /\ handler' = "visit"
  /\ UNCHANGED <<driverVars, state, fCallback, clientVars, hwVars, gis, bExec,
                 owed>>

(* Does a disabled channel's status tell that its transfer is over?  The   *)
(* end of a block does only if the end of the list is not waited for.      *)
EndsTransfer(c, status) ==
  \/ "BIS" \in status /\ "LIS" \notin CIM[c]
  \/ "LIS" \in status
  \/ "DIS" \in status

(* A thread that polled is back in its own code. *)
Leaves ==
  /\ handler' = "idle" /\ gis' = {} /\ gs' = {} /\ bExec' = FALSE
  /\ pc' = [t \in Threads |-> IF pc[t] = "poll" THEN "idle" ELSE pc[t]]
  /\ UNCHANGED <<driverVars, state, fCallback, channel, phase, hwVars,
                 owed>>

(* A free channel ends the handler, whatever else is pending. *)
HandlerMeetsFree(c) ==
  /\ state[c] = "FREE"
  /\ Leaves

(* Mutant: the callback belongs to the enabled channel's branch only. *)
HandlerMeetsDisabled_Silent(c) ==
  /\ state[c] # "FREE"
  /\ c \notin gs
  /\ LET ends == EndsTransfer(c, XDMAC_GetMaskChannelIsr(c))
     IN  state' = IF ends THEN Set(state, c, "DONE") ELSE state
  /\ XDMAC_GetChannelIsr(c)
  /\ gis' = gis \ {c}
  /\ UNCHANGED <<driverVars, fCallback, clientVars, enabled, CIM, GIM, program,
                 handler, gs, bExec, owed>>

HandlerMeetsDisabled(c) ==
  /\ state[c] # "FREE"
  /\ c \notin gs
  /\ LET ends == EndsTransfer(c, XDMAC_GetMaskChannelIsr(c))
     IN  /\ state' = IF ends THEN Set(state, c, "DONE") ELSE state
         /\ bExec' = ends
         /\ owed' = IF ends THEN owed \ {c} ELSE owed
  /\ XDMAC_GetChannelIsr(c)
  /\ gis' = gis \ {c}
  /\ UNCHANGED <<driverVars, fCallback, clientVars, enabled, CIM, GIM, program,
                 handler, gs>>

(* Mutant: the end of any block is taken for the end of the transfer. *)
HandlerMeetsEnabled_Done(c) ==
  /\ state[c] # "FREE"
  /\ c \in gs
  /\ state' = IF "BIS" \in CIS[c] THEN Set(state, c, "DONE") ELSE state
  /\ owed' = IF bExec \/ "BIS" \in CIS[c] THEN owed \ {c} ELSE owed
  /\ XDMAC_GetChannelIsr(c)
  /\ gis' = gis \ {c}
  /\ UNCHANGED <<driverVars, fCallback, clientVars, enabled, CIM, GIM,
                 program, handler, gs, bExec>>

(* bExec is still that of an earlier channel here; the call for BIS does   *)
(* not test that a callback is set.                                        *)
HandlerMeetsEnabled(c) ==
  /\ state[c] # "FREE"
  /\ c \in gs
  /\ owed' = IF bExec \/ "BIS" \in CIS[c] THEN owed \ {c} ELSE owed
  /\ XDMAC_GetChannelIsr(c)
  /\ gis' = gis \ {c}
  /\ UNCHANGED <<driverVars, state, fCallback, clientVars, enabled, CIM, GIM,
                 program, handler, gs, bExec>>

HandlerVisits ==
  /\ handler = "visit"
  /\ gis # {}
  /\ LET c == Min(gis)
     IN  \/ HandlerMeetsFree(c)
         \/ HandlerMeetsDisabled(c)
         \/ HandlerMeetsEnabled(c)

HandlerEnds ==
  /\ handler = "visit"
  /\ gis = {}
  /\ Leaves

XDMAD_Handler == HandlerReadsGS \/ HandlerVisits \/ HandlerEnds

(* XDMAD_OK: the thread may use its channel again. *)
TransferIsDone(t, c) ==
  /\ Calls(t) /\ Owns(t, c)
  /\ state[c] = "DONE"
  /\ phase[t] = "started"
  /\ Enter(t, "prepared")
  /\ UNCHANGED <<driverVars, state, fCallback, channel, pc, hwVars,
                 handlerVars, owed>>

(* XDMAD_BUSY: in polling mode the thread runs the handler meanwhile; one  *)
(* thread at a time polls here.                                            *)
TransferIsPolled(t, c) ==
  /\ Calls(t) /\ Owns(t, c)
  /\ pollingMode
  /\ phase[t] = "started"
  /\ state[c] \notin {"ALLOCATED", "FREE", "DONE"}
  /\ HandlerBegins
  /\ Goto(t, "poll")

XDMAD_IsTransferDone(t, c) == TransferIsDone(t, c) \/ TransferIsPolled(t, c)

Client(t) ==
  \/ \E src, dst \in Peripherals \cup {MEMORY} :
       XDMAD_AllocateChannel(t, src, dst)
  \/ \E c \in Channels :
       \/ XDMAD_FreeChannel(t, c)
       \/ \E set \in BOOLEAN : XDMAD_SetCallback(t, c, set)
       \/ XDMAD_PrepareChannel(t, c)
       \/ ClientConfigures(t, c)
       \/ XDMAD_StartTransfer(t, c)
       \/ XDMAD_StopTransfer(t, c)
       \/ XDMAD_IsTransferDone(t, c)

Next ==
  \/ \E bPollingMode \in BOOLEAN : XDMAD_Initialize(bPollingMode)
  \/ \E t \in Threads : Client(t)
  \/ \E c \in Channels : Controller(c)
  \/ Interrupt
  \/ XDMAD_Handler

Spec == Init /\ [][Next]_vars

(* The controller ends what it began, the interrupt is taken and its       *)
(* handler ends.  Of the threads nothing is assumed.                       *)
Fairness ==
  /\ \A c \in Channels : WF_vars(TransferEnds(c)) /\ WF_vars(StopEnds(c))
  /\ WF_vars(Interrupt)
  /\ WF_vars(XDMAD_Handler)

FairSpec == Spec /\ Fairness

-----------------------------------------------------------------------------
States == {"FREE", "ALLOCATED", "START", "IN_XFR", "DONE", "HALTED"}

TypeOK ==
  /\ xDmad_Initialized \in BOOLEAN
  /\ pollingMode \in BOOLEAN
  /\ state \in [Channels -> States]
  /\ fCallback \in [Channels -> BOOLEAN]
  /\ channel \in [Threads -> Channels \cup {NONE}]
  /\ pc \in [Threads -> {"idle", "enable", "unmask", "disable", "mask", "clear",
                      "poll"}]
  /\ phase \in [Threads -> {"none", "allocated", "prepared", "configured", "started"}]
  /\ enabled \in [Channels -> {"off", "on", "stopping"}]
  /\ CIS \in [Channels -> SUBSET Flags]
  /\ CIM \in [Channels -> SUBSET Flags]
  /\ GIM \subseteq Channels
  /\ program \in [Channels -> {"none", "single", "list"}]
  /\ handler \in {"idle", "status", "visit"}
  /\ gis \subseteq Channels
  /\ gs \subseteq Channels
  /\ bExec \in BOOLEAN
  /\ owed \subseteq Channels

(* The driver keeps the promise of DmaChannels: at every interleaving of   *)
(* clients, controller and handler a channel that XDMAD_AllocateChannel    *)
(* gives to a thread belongs to no other until XDMAD_FreeChannel, and is   *)
(* started, done, stopped and freed in that order only.                    *)
D == INSTANCE DmaChannels WITH
       owners <- [c \in Channels |-> {t \in Threads : Owns(t, c)}],
       status <- state

ImplementsChannels == D!ChannelsSpec

(* A channel the driver calls done has stopped: its buffers can be used.   *)
DoneHasStopped ==
  \A c \in Channels : state[c] = "DONE" => enabled[c] = "off"

(* The handler never meets a free channel, at which it would leave the     *)
(* later channels unserved and the interrupt raised.                       *)
HandlerMeetsNoFreeChannel ==
  handler = "visit" => \A c \in gis : state[c] # "FREE"

(* Whoever set a callback before the start has been called when the        *)
(* transfer is done.                                                       *)
DoneIsNotified ==
  \A t \in Threads : \A c \in Channels :
    /\ Owns(t, c) /\ phase[t] = "started" /\ pc[t] = "idle"
    /\ state[c] = "DONE"
    => c \notin owed

(* XDMAD_StartTransfer has returned on c, and c is not done or stopped. *)
Started(c) ==
  /\ ~pollingMode
  /\ state[c] = "START"
  /\ \A t \in Threads : Owns(t, c) => pc[t] = "idle"

(* By interrupt, a single transfer that enabled the interrupt of its end,  *)
(* and no other, is over some day.                                         *)
SingleTransferEnds ==
  \A c \in Channels :
    [](Started(c) /\ program[c] = "single" /\ CIM[c] = {"BIS"}
       => <>(state[c] # "START"))

(* XDMAD_IsTransferDone: "Check if DMA transfer is finished".  A finished  *)
(* transfer is some day found finished.                                    *)
FinishedIsFoundFinished ==
  \A c \in Channels :
    [](Started(c) /\ enabled[c] = "off" => <>(state[c] # "START"))
=============================================================================
