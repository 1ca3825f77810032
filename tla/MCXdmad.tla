------------------------------- MODULE MCXdmad -------------------------------
(***************************************************************************)
(* Xdmad with two channels and two threads, so that one thread's interrupt *)
(* finds the other's channel at every stage, and a peripheral that the     *)
(* table of hardware interfaces does not know.  A third thread may take a  *)
(* channel and keep it: then the two compete for the other channel, and    *)
(* there is often none.                                                    *)
(***************************************************************************)
EXTENDS Xdmad

CONSTANTS t1, t2, keeper, spi, icm, memory

Keeps ==
  \E src, dst \in Peripherals \cup {MEMORY} :
    XDMAD_AllocateChannel(keeper, src, dst)

KeeperNext ==
  \/ \E bPollingMode \in BOOLEAN : XDMAD_Initialize(bPollingMode)
  \/ \E t \in Threads \ {keeper} : Client(t)
  \/ Keeps
  \/ \E c \in Channels : Controller(c)
  \/ Interrupt
  \/ XDMAD_Handler

KeeperSpec == Init /\ [][KeeperNext]_vars /\ Fairness
=============================================================================
