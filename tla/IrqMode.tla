------------------------------- MODULE IrqMode -------------------------------
(***************************************************************************)
(* The toolkit in interrupt mode (cifXInterrupt.c, cifXHWFunctions.c): the *)
(* interrupt service routine reads the handshake cells into one of two     *)
(* buffers, the deferred routine (DSR) evaluates them, sets events and     *)
(* calls back, and a thread waits for an event or for the callback.        *)
(*                                                                         *)
(* The receive mailbox of one channel stands for all handshake bits; the   *)
(* device stays ready.  The ISR preempts the DSR and the DSR the thread    *)
(* between any two accesses to what they share; no lock is compiled in     *)
(* (CIFX_TOOLKIT_ENABLE_DSR_LOCK).  A counter stands for a bit: the code   *)
(* sees its parity.                                                        *)
(***************************************************************************)
EXTENDS Naturals

CONSTANT MaxPackets   \* bound: packets the netX puts into the mailbox

VARIABLES
  netx,      \* netX: times RECV_MBX_CMD was toggled
  host,      \* usHostFlags and the cell: times RECV_MBX_ACK was toggled
  interrupt, \* the interrupt line
  buffer,    \* atIrqToDsrBuffer: the flag the ISR has read
  valid,     \* fValid of the two
  index,     \* iIrqToDsrBuffer
  requested, \* the DSR is to be run
  dsr,       \* the DSR: where it is, and its buffer
  flag,      \* usNetxFlags
  event,     \* ahHandshakeBitEvents
  callback,  \* pfnCallback is registered
  thread,    \* where the thread is
  told       \* history: the callback was called since the last packet

vars == <<netx, host, interrupt, buffer, valid, index, requested, dsr, flag,
          event, callback, thread, told>>

NotEqual(a, b) == a % 2 # b % 2

Init ==
  /\ netx = 0 /\ host = 0 /\ flag = 0
  /\ interrupt = FALSE
  /\ buffer = [i \in 0 .. 1 |-> 0] /\ valid = [i \in 0 .. 1 |-> FALSE] /\ index = 0
  /\ requested = FALSE
  /\ dsr = [pc |-> "off", buf |-> 0, changed |-> FALSE]
  /\ event = FALSE /\ callback = FALSE
  /\ thread = "idle"
  /\ told = FALSE

(* The netX puts a packet (external).                                       *)
NetxPut ==
  /\ ~NotEqual(netx, host) /\ netx < MaxPackets
  /\ netx' = netx + 1
  /\ interrupt' = TRUE
  /\ told' = FALSE
  /\ UNCHANGED <<host, buffer, valid, index, requested, dsr, flag, event, callback, thread>>

(* Another handshake bit changes (external).                                *)
NetxOther ==
  /\ interrupt' = TRUE
  /\ UNCHANGED <<netx, host, buffer, valid, index, requested, dsr, flag, event,
                 callback, thread, told>>

(* Mutant: the buffer the DSR has not asked for is filled.                  *)
cifXTKitISRHandler_WrongBuffer ==
  /\ interrupt
  /\ interrupt' = FALSE
  /\ valid' = [valid EXCEPT ![1 - index] = TRUE]
  /\ buffer' = [buffer EXCEPT ![1 - index] = netx]
  /\ requested' = TRUE
  /\ UNCHANGED <<netx, host, index, dsr, flag, event, callback, thread, told>>

(* The cells are read into the buffer, and the DSR is requested.            *)
cifXTKitISRHandler ==
  /\ interrupt
  /\ interrupt' = FALSE
  /\ valid' = [valid EXCEPT ![index] = TRUE]
  /\ buffer' = [buffer EXCEPT ![index] = netx]
  /\ requested' = TRUE
  /\ UNCHANGED <<netx, host, index, dsr, flag, event, callback, thread, told>>

----------------------------------------------------------------------------
(* cifXTKitDSRHandler                                                       *)

DsrAt(pc) == dsr.pc = pc
DsrTo(pc) == dsr' = [dsr EXCEPT !.pc = pc]

DsrStart ==
  /\ DsrAt("off") /\ requested
  /\ requested' = FALSE
  /\ dsr' = [dsr EXCEPT !.pc = "check", !.buf = index]
  /\ UNCHANGED <<netx, host, interrupt, buffer, valid, index, flag, event, callback, thread, told>>

DsrCheck ==
  /\ DsrAt("check")
  /\ DsrTo(IF valid[dsr.buf] THEN "flip" ELSE "off")
  /\ UNCHANGED <<netx, host, interrupt, buffer, valid, index, requested, flag, event,
                 callback, thread, told>>

(* Mutant: the buffer is invalidated before the ISR is sent to the other.   *)
TakeBuffer_Swapped ==
  \/ /\ DsrAt("flip")
     /\ valid' = [valid EXCEPT ![dsr.buf] = FALSE]
     /\ DsrTo("invalidate")
     /\ UNCHANGED <<netx, host, interrupt, buffer, index, requested, flag, event,
                    callback, thread, told>>
  \/ /\ DsrAt("invalidate")
     /\ index' = 1 - index
     /\ DsrTo("process")
     /\ UNCHANGED <<netx, host, interrupt, buffer, valid, requested, flag, event,
                    callback, thread, told>>

(* The ISR is sent to the other buffer; this one is invalid from now on.    *)
TakeBuffer ==
  \/ /\ DsrAt("flip")
     /\ index' = 1 - index
     /\ DsrTo("invalidate")
     /\ UNCHANGED <<netx, host, interrupt, buffer, valid, requested, flag, event,
                    callback, thread, told>>
  \/ /\ DsrAt("invalidate")
     /\ valid' = [valid EXCEPT ![dsr.buf] = FALSE]
     /\ DsrTo("process")
     /\ UNCHANGED <<netx, host, interrupt, buffer, index, requested, flag, event,
                    callback, thread, told>>

DsrFlags ==
  /\ DsrAt("process")
  /\ flag' = buffer[dsr.buf]
  /\ dsr' = [dsr EXCEPT !.pc = "callback", !.changed = NotEqual(flag, flag')]
  /\ UNCHANGED <<netx, host, interrupt, buffer, valid, index, requested, event,
                 callback, thread, told>>

(* Mutant: the callback only, no event.                                     *)
DsrSignal_NoEvent ==
  /\ DsrAt("callback")
  /\ told' = (told \/ (dsr.changed /\ NotEqual(flag, host) /\ callback))
  /\ event' = event
  /\ DsrTo("off")
  /\ UNCHANGED <<netx, host, interrupt, buffer, valid, index, requested, flag,
                 callback, thread>>

DsrSignal ==
  /\ DsrAt("callback")
  /\ told' = (told \/ (dsr.changed /\ NotEqual(flag, host) /\ callback))
  /\ event' = (event \/ dsr.changed)
  /\ DsrTo("off")
  /\ UNCHANGED <<netx, host, interrupt, buffer, valid, index, requested, flag,
                 callback, thread>>

Dsr == DsrStart \/ DsrCheck \/ TakeBuffer \/ DsrFlags \/ DsrSignal

----------------------------------------------------------------------------
(* The thread: DEV_GetPacket, DEV_WaitForBitState_Irq, and the notification *)

ThreadStep(from, to) == DsrAt("off") /\ thread = from /\ thread' = to

(* The state is there already, or there is none to wait for.                *)
Wait ==
  /\ \/ ThreadStep("idle", "get") /\ NotEqual(flag, host)
     \/ ThreadStep("idle", "wait") /\ ~NotEqual(flag, host)
  /\ UNCHANGED <<netx, host, interrupt, buffer, valid, index, requested, dsr, flag,
                 event, callback, told>>

(* OS_WaitEvent: the event is seen, then cleared; or the time is over.      *)
OS_WaitEvent ==
  /\ \/ ThreadStep("wait", "clear") /\ event /\ UNCHANGED event
     \/ ThreadStep("clear", "recheck") /\ event' = FALSE
     \/ ThreadStep("wait", "late") /\ ~event /\ UNCHANGED event
  /\ UNCHANGED <<netx, host, interrupt, buffer, valid, index, requested, dsr, flag,
                 callback, told>>

(* The flags are checked again: an old event waits on, a timeout returns.   *)
Recheck ==
  /\ \/ ThreadStep("recheck", "get") /\ NotEqual(flag, host)
     \/ ThreadStep("recheck", "wait") /\ ~NotEqual(flag, host)
     \/ ThreadStep("late", "get") /\ NotEqual(flag, host)
     \/ ThreadStep("late", "idle") /\ ~NotEqual(flag, host)
  /\ UNCHANGED <<netx, host, interrupt, buffer, valid, index, requested, dsr, flag,
                 event, callback, told>>

(* The packet is read and acknowledged.                                     *)
Get ==
  /\ ThreadStep("get", "idle")
  /\ host' = host + 1
  /\ UNCHANGED <<netx, interrupt, buffer, valid, index, requested, dsr, flag,
                 event, callback, told>>

(* Mutant: the state is looked at before the callback can be called.        *)
xChannelRegisterNotification_CheckFirst ==
  /\ \/ /\ ThreadStep("idle", IF NotEqual(flag, host) THEN "registered" ELSE "unregistered")
        /\ ~callback
        /\ UNCHANGED <<callback, told>>
     \/ /\ ThreadStep("registered", "idle")
        /\ told' = TRUE /\ callback' = TRUE
     \/ /\ ThreadStep("unregistered", "idle")
        /\ callback' = TRUE
        /\ UNCHANGED told
  /\ UNCHANGED <<netx, host, interrupt, buffer, valid, index, requested, dsr, flag, event>>

(* The callback is set first; then it is called if the state is there.      *)
xChannelRegisterNotification ==
  /\ \/ /\ ThreadStep("idle", "registered") /\ ~callback
        /\ callback' = TRUE
        /\ UNCHANGED told
     \/ /\ ThreadStep("registered", "idle")
        /\ told' = (told \/ NotEqual(flag, host))
        /\ UNCHANGED callback
  /\ UNCHANGED <<netx, host, interrupt, buffer, valid, index, requested, dsr, flag, event>>

xChannelUnregisterNotification ==
  /\ ThreadStep("idle", "idle") /\ callback
  /\ callback' = FALSE
  /\ UNCHANGED <<netx, host, interrupt, buffer, valid, index, requested, dsr, flag,
                 event, told>>

Receive == Wait \/ OS_WaitEvent \/ Recheck \/ Get

Next == \/ NetxPut \/ NetxOther \/ cifXTKitISRHandler \/ Dsr \/ Receive
        \/ xChannelRegisterNotification \/ xChannelUnregisterNotification

Spec == Init /\ [][Next]_vars

(* Interrupts are taken, the DSR is scheduled, and the thread, which may    *)
(* register callbacks in between, receives again and again.                 *)
FairSpec ==
  /\ Spec /\ WF_vars(cifXTKitISRHandler) /\ WF_vars(Dsr) /\ SF_vars(Receive)
  /\ SF_vars(thread = "registered" /\ xChannelRegisterNotification)

----------------------------------------------------------------------------
(* Properties                                                               *)

(* The types of all variables.                                              *)
TypeOK ==
  /\ {netx, host, flag} \subseteq 0 .. MaxPackets
  /\ {interrupt, requested, event, callback, told} \subseteq BOOLEAN
  /\ buffer \in [0 .. 1 -> 0 .. MaxPackets] /\ valid \in [0 .. 1 -> BOOLEAN]
  /\ index \in 0 .. 1
  /\ dsr \in [pc : {"off", "check", "flip", "invalidate", "process", "callback"},
              buf : 0 .. 1, changed : BOOLEAN]
  /\ thread \in {"idle", "wait", "clear", "recheck", "late", "get", "registered", "unregistered"}

Quiet == interrupt = FALSE /\ requested = FALSE /\ DsrAt("off")

(* However ISR and DSR interleave, the flags never go back, and no change   *)
(* of the cells is left in a buffer ("does not work if the ISR and DSR are  *)
(* handled as threads").                                                    *)
FlagsFollow ==
  /\ flag <= netx
  /\ Quiet => flag = netx /\ valid = [i \in 0 .. 1 |-> FALSE]
FlagsNeverGoBack == [][flag' >= flag]_vars

(* No wakeup is lost: a thread does not block on the event while the state  *)
(* it waits for is there.                                                   *)
NoLostWakeup == Quiet /\ thread = "wait" /\ NotEqual(flag, host) => event

(* With a callback every packet in the mailbox is notified, also one that   *)
(* comes while the callback is being registered.                            *)
PacketIsNotified ==
  Quiet /\ callback /\ thread # "registered" /\ NotEqual(netx, host) => told

(* A packet is received.                                                    *)
PacketIsReceived == NotEqual(netx, host) ~> ~NotEqual(netx, host)
=============================================================================
