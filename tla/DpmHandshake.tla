---------------------------- MODULE DpmHandshake ----------------------------
(***************************************************************************)
(* The handshake cell of the communication channel in the dual-port memory *)
(* (cifXHWFunctions.c), shared by three parties: the main loop, which puts *)
(* and gets packets; the TIMER1 interrupt, which exchanges process data    *)
(* and may preempt the main loop between any two memory accesses; and the  *)
(* protocol stack on the other processor (external).                       *)
(*                                                                         *)
(* A set of flags stands for a 16 bit flag word.  For each flag the host   *)
(* and the netX own one bit each; whether the two bits are equal says who  *)
(* may act next.                                                           *)
(*   SEND   host SEND_MBX_CMD      netX SEND_MBX_ACK                       *)
(*   RECV   host RECV_MBX_ACK      netX RECV_MBX_CMD                       *)
(*   COS    host NETX_COS_ACK      netX NETX_COS_CMD                       *)
(*   PDIN, PDOUT  the process data areas, buffered host controlled         *)
(***************************************************************************)
EXTENDS Naturals, FiniteSets

CONSTANTS
  Reuse,      \* the build may write the cell from the register it has just
              \* stored to usHostFlags, instead of loading usHostFlags again
  MaxPackets, \* bound: packets put into the two mailboxes
  MaxCos      \* bound: changes of state the stack reports

ASSUME DpmAssumption ==
  /\ Reuse \in BOOLEAN
  /\ MaxPackets \in Nat
  /\ MaxCos \in Nat

Flags      == {"SEND", "RECV", "COS", "PDIN", "PDOUT"}
IoFlags    == {"PDIN", "PDOUT"}
DeviceIrqs == {"TIMER1"}  \* the interrupts the NVIC can disable; not SysTick

VARIABLES
  hostFlags,  \* usHostFlags in RAM
  netxCopy,   \* usNetxFlags in RAM
  hostCell,   \* host flags in the handshake cell
  netxCell,   \* netX flags in the handshake cell
  sendBox, recvBox,  \* number of the packet in the mailboxes
  hostGot, netxGot,  \* number of the last packet read by host and netX
  netxPc,     \* external: the netX has read the packet it will acknowledge
  dpmCos,     \* ulCommunicationCOS in the dual-port memory
  devCos,     \* ulDeviceCOSFlags in RAM
  main,       \* the main loop: what it does, and its registers
  timer,      \* the timer interrupt is enabled
  isr,        \* what the interrupt service routine does
  irqSem,     \* s_ulIrqSemaphore
  irqOff,     \* interrupts disabled in the NVIC
  ioToggles   \* history: process data flags the ISR has toggled

boxes == <<sendBox, recvBox, hostGot, netxGot, netxPc>>
locks == <<irqSem, irqOff>>
vars  == <<hostFlags, netxCopy, hostCell, netxCell, boxes, dpmCos, devCos, main,
           timer, isr, locks, ioToggles>>

Differ(f, g, b) == (b \in f) # (b \in g)
Toggled(f, b)   == IF b \in f THEN f \ {b} ELSE f \cup {b}

Init ==
  /\ hostFlags = {} /\ netxCopy = {} /\ hostCell = {} /\ netxCell = {}
  /\ sendBox = 0 /\ recvBox = 0 /\ hostGot = 0 /\ netxGot = 0
  /\ netxPc = "idle"
  /\ dpmCos = 0 /\ devCos = 0
  /\ main = [pc |-> "idle", op |-> "none", bit |-> "SEND", reg |-> {}, cos |-> 0]
  /\ timer = FALSE
  /\ isr = "off"
  /\ irqSem = 0 /\ irqOff = {}
  /\ ioToggles = {}

----------------------------------------------------------------------------
(* OS_EnterLock and OS_LeaveLock: a counter, and the SysTick interrupt      *)

EnterLock ==
  /\ irqSem' = irqSem + 1
  /\ irqOff' = irqOff \cup ({"SysTick"} \cap DeviceIrqs)

LeaveLock ==
  /\ irqSem' = irqSem - 1
  /\ irqOff' = IF irqSem' = 0 THEN irqOff \ {"SysTick"} ELSE irqOff

----------------------------------------------------------------------------
(* The main loop: DEV_PutPacket and DEV_GetPacket                           *)

MainAt(pc) == main.pc = pc /\ isr = "off"
MainTo(pc) == main' = [main EXCEPT !.pc = pc]
Return     == main' = [pc |-> "idle", op |-> "none", bit |-> "SEND", reg |-> {}, cos |-> 0]

Start ==
  /\ MainAt("idle")
  /\ \E op \in {"put", "get"} :
       /\ op = "put" => sendBox + recvBox < MaxPackets
       /\ main' = [main EXCEPT !.pc = "flags", !.op = op]
  /\ UNCHANGED <<hostFlags, netxCopy, hostCell, netxCell, boxes, dpmCos, devCos,
                 isr, locks, timer, ioToggles>>

(* DEV_WaitForBitState_Poll begins with DEV_ReadHandshakeFlags.             *)
ReadNetxFlags ==
  /\ MainAt("flags")
  /\ EnterLock
  /\ netxCopy' = netxCell
  /\ MainTo("cos")
  /\ UNCHANGED <<hostFlags, hostCell, netxCell, boxes, dpmCos, devCos, isr,
                 timer, ioToggles>>

(* The change of state flags, when they are new.                            *)
ReadCos ==
  /\ MainAt("cos")
  /\ IF Differ(netxCopy, hostFlags, "COS")
     THEN /\ main' = [main EXCEPT !.pc = "store_cos", !.cos = dpmCos]
          /\ UNCHANGED locks
     ELSE MainTo("check") /\ LeaveLock
  /\ UNCHANGED <<hostFlags, netxCopy, hostCell, netxCell, boxes, dpmCos, devCos,
                 isr, timer, ioToggles>>

(* Mutant: the flags are acknowledged but not kept.                         *)
StoreCos_Skipped ==
  /\ MainAt("store_cos")
  /\ main' = [main EXCEPT !.pc = "load", !.bit = "COS"]
  /\ UNCHANGED <<hostFlags, netxCopy, hostCell, netxCell, boxes, dpmCos, devCos,
                 isr, locks, timer, ioToggles>>

StoreCos ==
  /\ MainAt("store_cos")
  /\ devCos' = main.cos
  /\ main' = [main EXCEPT !.pc = "load", !.bit = "COS"]
  /\ UNCHANGED <<hostFlags, netxCopy, hostCell, netxCell, boxes, dpmCos, isr,
                 locks, timer, ioToggles>>

(* Mutants: the mailbox is used without waiting for its state.              *)
MayPut_Always == TRUE
MayGet_Always == TRUE

(* The states that allow the access: the mailbox is ours.                   *)
MayPut == ~Differ(hostFlags, netxCopy, "SEND")
MayGet == Differ(hostFlags, netxCopy, "RECV")

(* The wanted state is there: copy the packet, then signal it.              *)
Copy ==
  /\ MainAt("check")
  /\ \/ /\ main.op = "put" /\ MayPut
        /\ sendBox' = sendBox + 1
        /\ main' = [main EXCEPT !.pc = "load", !.bit = "SEND"]
        /\ UNCHANGED hostGot
     \/ /\ main.op = "get" /\ MayGet
        /\ hostGot' = recvBox
        /\ main' = [main EXCEPT !.pc = "load", !.bit = "RECV"]
        /\ UNCHANGED sendBox
  /\ EnterLock
  /\ UNCHANGED <<hostFlags, netxCopy, hostCell, netxCell, recvBox, netxGot,
                 netxPc, dpmCos, devCos, isr, timer, ioToggles>>

(* It is not: poll again, or give up after the timeout.                     *)
NotYet ==
  /\ MainAt("check")
  /\ ~(main.op = "put" /\ MayPut) /\ ~(main.op = "get" /\ MayGet)
  /\ MainTo("flags") \/ Return
  /\ UNCHANGED <<hostFlags, netxCopy, hostCell, netxCell, boxes, dpmCos, devCos,
                 isr, locks, timer, ioToggles>>

(* DEV_ToggleBit: load, exclusive-or and store usHostFlags, write the cell. *)
LoadFlags ==
  /\ MainAt("load")
  /\ main' = [main EXCEPT !.pc = "store", !.reg = Toggled(hostFlags, main.bit)]
  /\ UNCHANGED <<hostFlags, netxCopy, hostCell, netxCell, boxes, dpmCos, devCos,
                 isr, locks, timer, ioToggles>>

StoreFlags ==
  /\ MainAt("store")
  /\ hostFlags' = main.reg
  /\ MainTo("write")
  /\ UNCHANGED <<netxCopy, hostCell, netxCell, boxes, dpmCos, devCos, isr, locks,
                 timer, ioToggles>>

WriteCell ==
  /\ MainAt("write")
  /\ hostCell' \in {hostFlags} \cup (IF Reuse THEN {main.reg} ELSE {})
  /\ IF main.bit = "COS" THEN main' = [main EXCEPT !.pc = "check", !.bit = "SEND",
                                                   !.reg = {}, !.cos = 0]
                          ELSE Return
  /\ LeaveLock
  /\ UNCHANGED <<hostFlags, netxCopy, netxCell, boxes, dpmCos, devCos, isr,
                 timer, ioToggles>>

Main == \/ Start \/ ReadNetxFlags \/ ReadCos \/ StoreCos \/ Copy \/ NotYet
        \/ LoadFlags \/ StoreFlags \/ WriteCell

----------------------------------------------------------------------------
(* The TIMER1 interrupt: App_IODataHandler, xChannelIORead, xChannelIOWrite *)

IsrStep(from, to) == isr = from /\ isr' = to

(* HOSTAL_Callbacks_Enable, before the first packet; with ONLY_MAILBOX      *)
(* (App_Application.c:133) it is never called.                              *)
EnableTimer ==
  /\ main.pc = "idle" /\ sendBox = 0 /\ hostGot = 0
  /\ timer' = TRUE
  /\ UNCHANGED <<hostFlags, netxCopy, hostCell, netxCell, boxes, dpmCos, devCos,
                 main, isr, locks, ioToggles>>

IsrEnter ==
  /\ timer
  /\ "TIMER1" \notin irqOff
  /\ IsrStep("off", "in_flags")
  /\ UNCHANGED <<hostFlags, netxCopy, hostCell, netxCell, boxes, dpmCos, devCos,
                 main, locks, timer, ioToggles>>

(* DEV_ReadHandshakeFlags; the main loop does not run in between.           *)
IsrReadFlags ==
  /\ IsrStep("in_flags", "in_data") \/ IsrStep("out_flags", "out_data")
  /\ netxCopy' = netxCell
  /\ IF Differ(netxCell, hostFlags, "COS")
     THEN /\ devCos' = dpmCos
          /\ hostFlags' = Toggled(hostFlags, "COS")
          /\ hostCell' = hostFlags'
     ELSE UNCHANGED <<devCos, hostFlags, hostCell>>
  /\ UNCHANGED <<netxCell, boxes, dpmCos, main, locks, timer, ioToggles>>

(* The area is ours: copy it and hand it over; otherwise skip this cycle.   *)
IsrExchange ==
  \E b \in IoFlags :
    /\ IF b = "PDIN" THEN IsrStep("in_data", "out_flags")
                     ELSE IsrStep("out_data", "off")
    /\ IF Differ(hostFlags, netxCopy, b)
       THEN UNCHANGED <<hostFlags, hostCell, ioToggles>>
       ELSE /\ hostFlags' = Toggled(hostFlags, b)
            /\ hostCell' = hostFlags'
            /\ ioToggles' = Toggled(ioToggles, b)
    /\ UNCHANGED <<netxCopy, netxCell, boxes, dpmCos, devCos, main, locks, timer>>

Isr == EnableTimer \/ IsrEnter \/ IsrReadFlags \/ IsrExchange

----------------------------------------------------------------------------
(* The protocol stack on the other processor (external)                     *)

NetxRead ==
  /\ Differ(hostCell, netxCell, "SEND")
  /\ netxPc = "idle"
  /\ netxGot' = sendBox
  /\ netxPc' = "ack"
  /\ UNCHANGED <<hostFlags, netxCopy, hostCell, netxCell, sendBox, recvBox,
                 hostGot, dpmCos, devCos, main, isr, locks, timer, ioToggles>>

NetxAck ==
  /\ netxPc = "ack"
  /\ netxPc' = "idle"
  /\ netxCell' = Toggled(netxCell, "SEND")
  /\ UNCHANGED <<hostFlags, netxCopy, hostCell, sendBox, recvBox, hostGot,
                 netxGot, dpmCos, devCos, main, isr, locks, timer, ioToggles>>

(* recvBox stays the number of the packet in the mailbox, read or not.      *)
NetxWrite ==
  /\ ~Differ(hostCell, netxCell, "RECV")
  /\ netxPc \in {"idle", "ack"}
  /\ sendBox + recvBox < MaxPackets
  /\ recvBox' = recvBox + 1
  /\ netxCell' = Toggled(netxCell, "RECV")
  /\ UNCHANGED <<hostFlags, netxCopy, hostCell, sendBox, hostGot, netxGot,
                 netxPc, dpmCos, devCos, main, isr, locks, timer, ioToggles>>

NetxCos ==
  /\ ~Differ(hostCell, netxCell, "COS")
  /\ dpmCos < MaxCos
  /\ dpmCos' = dpmCos + 1
  /\ netxCell' = Toggled(netxCell, "COS")
  /\ UNCHANGED <<hostFlags, netxCopy, hostCell, boxes, devCos, main, isr, locks,
                 timer, ioToggles>>

NetxIo ==
  /\ \E b \in IoFlags : /\ Differ(hostCell, netxCell, b)
                        /\ netxCell' = Toggled(netxCell, b)
  /\ UNCHANGED <<hostFlags, netxCopy, hostCell, boxes, dpmCos, devCos, main, isr,
                 locks, timer, ioToggles>>

Netx == NetxRead \/ NetxAck \/ NetxWrite \/ NetxCos \/ NetxIo

Next == Main \/ Isr \/ Netx

Spec == Init /\ [][Next]_vars

----------------------------------------------------------------------------
(* Properties                                                               *)

MainPcs == {"idle", "flags", "cos", "store_cos", "check", "load", "store", "write"}

(* The types of all variables. *)
TypeOK ==
  /\ hostFlags \subseteq Flags /\ netxCopy \subseteq Flags
  /\ hostCell \subseteq Flags /\ netxCell \subseteq Flags
  /\ sendBox \in Nat /\ recvBox \in Nat /\ hostGot \in Nat /\ netxGot \in Nat
  /\ netxPc \in {"idle", "ack"}
  /\ dpmCos \in Nat /\ devCos \in Nat
  /\ main \in [pc : MainPcs, op : {"none", "put", "get"}, bit : Flags,
               reg : SUBSET Flags, cos : Nat]
  /\ timer \in BOOLEAN
  /\ isr \in {"off", "in_flags", "in_data", "out_flags", "out_data"}
  /\ irqSem \in Nat
  /\ irqOff \subseteq DeviceIrqs
  /\ ioToggles \subseteq IoFlags

(* Packets reach the netX in order, none lost, overwritten or seen twice,   *)
(* although the interrupt writes the same flag word at any moment.          *)
SendMailbox == INSTANCE OneSlotChannel WITH
  full <- Differ(hostCell, netxCell, "SEND"), box <- sendBox, got <- netxGot
SendInOrder == SendMailbox!Spec

(* The same for the packets from the netX; there, writing the packet and    *)
(* handing it over is one step of the netX.                                 *)
ReceivesInOrder ==
  /\ [](/\ hostGot \in {recvBox, recvBox - 1}
        /\ ~Differ(hostCell, netxCell, "RECV") => hostGot = recvBox)
  /\ [][hostGot' # hostGot => hostGot' = hostGot + 1]_vars

Settled == main.pc \in {"idle", "flags"} /\ isr = "off"

(* Outside DEV_ToggleBit the flags in the cell are those in RAM, and no     *)
(* toggle of the process data flags is lost.                                *)
FlagsPublished ==
  Settled => hostCell = hostFlags /\ hostFlags \cap IoFlags = ioToggles

(* Without the interrupt (ONLY_MAILBOX, and the startup) this holds, and a  *)
(* change of state that counts as acknowledged has been read.               *)
MailboxOnlyIsConsistent ==
  timer = FALSE =>
    /\ FlagsPublished
    /\ Settled /\ ~Differ(hostCell, netxCell, "COS") => devCos = dpmCos
=============================================================================
