---------------------------- MODULE Toolkit_proofs ----------------------------
(***************************************************************************)
(* Theorems about the protocols of the toolkit.                            *)
(*                                                                         *)
(* Each has its types and its own inductive invariant; the last section    *)
(* puts them together for the specification MCToolkit runs.                *)
(***************************************************************************)
EXTENDS MCToolkit, Sequences, FiniteSetTheorems, TLAPS

----------------------------------------------------------------------------
(* IrqMode: for any number of packets and interrupts, and however ISR, DSR  *)
(* and thread interleave within what IrqMode lets them                      *)

(* The types the proofs need.                                               *)
IrqTyped ==
  /\ netx \in Nat /\ flag \in Nat
  /\ interrupt \in BOOLEAN /\ requested \in BOOLEAN /\ event \in BOOLEAN
  /\ buffer \in [0 .. 1 -> Nat] /\ valid \in [0 .. 1 -> BOOLEAN] /\ index \in 0 .. 1
  /\ dsr \in [pc : {"off", "check", "flip", "invalidate", "process", "callback"},
              buf : 0 .. 1, changed : BOOLEAN]

(* Who owns which buffer: the ISR's is index; the DSR works on the other    *)
(* from the handover on, and the ISR's is not forgotten.                    *)
Handover ==
  /\ dsr.pc \in {"check", "flip"} => dsr.buf = index
  /\ dsr.pc = "flip" => valid[index] = TRUE
  /\ dsr.pc \in {"invalidate", "process"} => dsr.buf = 1 - index
  /\ dsr.pc # "invalidate" => valid[1 - index] = FALSE
  /\ valid[index] = TRUE => requested = TRUE \/ dsr.pc \in {"check", "flip"}

Taken == dsr.pc \in {"invalidate", "process"}

(* What the flags will be when all that is buffered has been evaluated.     *)
Latest ==
  IF valid[index] = TRUE THEN buffer[index]
  ELSE IF Taken THEN buffer[1 - index] ELSE flag

(* The flags, the buffer the DSR has taken, the one of the ISR and the      *)
(* cells are in the order in which they were read.                          *)
Ordered ==
  /\ flag <= netx /\ buffer[0] <= netx /\ buffer[1] <= netx
  /\ valid[index] = TRUE => flag <= buffer[index]
  /\ Taken => flag <= buffer[1 - index]
  /\ Taken /\ valid[index] = TRUE => buffer[1 - index] <= buffer[index]
  /\ interrupt = FALSE => Latest = netx

IrqInv == IrqTyped /\ Handover /\ Ordered

(* A thread that blocks has the event, or the DSR is about to set it.       *)
Wakeup ==
  thread = "wait" /\ NotEqual(flag, host) =>
    event = TRUE \/ (dsr.pc = "callback" /\ dsr.changed = TRUE)

USE DEF DsrAt, DsrTo, ThreadStep

(* The initial state.                                                       *)
LEMMA IrqStart == Init => IrqInv /\ Wakeup
<1> SUFFICES ASSUME Init PROVE IrqInv /\ Wakeup
  OBVIOUS
<1>1. IrqTyped
  <2>1. buffer \in [0 .. 1 -> Nat] /\ valid \in [0 .. 1 -> BOOLEAN]
    BY DEF Init
  <2> QED
    <3>1. dsr = [pc |-> "off", buf |-> 0, changed |-> FALSE] /\ 0 \in 0 .. 1
      BY DEF Init
    <3>2. dsr \in [pc : {"off", "check", "flip", "invalidate", "process", "callback"},
                   buf : 0 .. 1, changed : BOOLEAN]
      BY <3>1
    <3> QED
      BY <2>1, <3>2 DEF Init, IrqTyped
<1>2. Handover /\ Ordered
  BY DEF Init, Handover, Ordered, Latest, Taken
<1>3. Wakeup
  BY DEF Init, Wakeup
<1> QED
  BY <1>1, <1>2, <1>3 DEF IrqInv

(* The netX and the ISR.                                                    *)
LEMMA InterruptStep ==
  ASSUME IrqInv, NetxPut \/ NetxOther \/ cifXTKitISRHandler
  PROVE  IrqInv'
<1>1. CASE NetxPut
  BY <1>1 DEF NetxPut, IrqInv, IrqTyped, Handover, Ordered, Latest, Taken
<1>2. CASE NetxOther
  BY <1>2 DEF NetxOther, IrqInv, IrqTyped, Handover, Ordered, Latest, Taken
<1>3. CASE cifXTKitISRHandler
  <2>1. IrqTyped'
    BY <1>3 DEF cifXTKitISRHandler, IrqInv, IrqTyped
  <2>2. Handover'
    BY <1>3 DEF cifXTKitISRHandler, IrqInv, IrqTyped, Handover
  <2>3. Ordered'
    BY <1>3 DEF cifXTKitISRHandler, IrqInv, IrqTyped, Handover, Ordered, Latest, Taken
  <2> QED
    BY <2>1, <2>2, <2>3 DEF IrqInv
<1> QED
  BY <1>1, <1>2, <1>3

(* The DSR, from the request to the handover.                               *)
LEMMA DsrStep == ASSUME IrqInv, Dsr PROVE IrqInv'
<1>1. CASE DsrStart
  BY <1>1 DEF DsrStart, IrqInv, IrqTyped, Handover, Ordered, Latest, Taken
<1>2. CASE DsrCheck
  BY <1>2 DEF DsrCheck, IrqInv, IrqTyped, Handover, Ordered, Latest, Taken
<1>3. CASE TakeBuffer
  <2>1. IrqTyped'
    <3>0. 1 - index \in 0 .. 1 /\ [valid EXCEPT ![dsr.buf] = FALSE] \in [0 .. 1 -> BOOLEAN]
      BY DEF IrqInv, IrqTyped
    <3>1. valid' \in [0 .. 1 -> BOOLEAN] /\ index' \in 0 .. 1
      BY <1>3, <3>0 DEF TakeBuffer, IrqInv, IrqTyped
    <3>2. \E to \in {"invalidate", "process"} : dsr' = [dsr EXCEPT !.pc = to]
      BY <1>3 DEF TakeBuffer
    <3> QED
      BY <1>3, <3>1, <3>2 DEF TakeBuffer, IrqInv, IrqTyped
  <2>2. Handover'
    BY <1>3 DEF TakeBuffer, IrqInv, IrqTyped, Handover
  <2>3. Ordered'
    BY <1>3 DEF TakeBuffer, IrqInv, IrqTyped, Handover, Ordered, Latest, Taken
  <2> QED
    BY <2>1, <2>2, <2>3 DEF IrqInv
<1>4. CASE DsrFlags
  <2>1. IrqTyped'
    <3>1. NotEqual(flag, flag') \in BOOLEAN
      BY DEF NotEqual
    <3> QED
      BY <1>4, <3>1 DEF DsrFlags, IrqInv, IrqTyped
  <2>2. Handover'
    BY <1>4 DEF DsrFlags, IrqInv, IrqTyped, Handover
  <2>3. Ordered'
    BY <1>4 DEF DsrFlags, IrqInv, IrqTyped, Handover, Ordered, Latest, Taken
  <2> QED
    BY <2>1, <2>2, <2>3 DEF IrqInv
<1>5. CASE DsrSignal
  BY <1>5 DEF DsrSignal, IrqInv, IrqTyped, Handover, Ordered, Latest, Taken
<1> QED
  BY <1>1, <1>2, <1>3, <1>4, <1>5 DEF Dsr

(* The thread changes none of what ISR and DSR hand over.                   *)
LEMMA ThreadKeeps ==
  ASSUME Receive \/ xChannelRegisterNotification \/ xChannelUnregisterNotification
  PROVE  /\ UNCHANGED <<netx, interrupt, buffer, valid, index, requested, dsr, flag>>
         /\ event' \in {event, FALSE}
  BY DEF Receive, Wait, OS_WaitEvent, Recheck, Get, xChannelRegisterNotification,
         xChannelUnregisterNotification

(* The steps of the thread, and stuttering.                                 *)
LEMMA ThreadStepKeepsIrqInv ==
  ASSUME IrqInv, UNCHANGED <<netx, interrupt, buffer, valid, index, requested, dsr, flag>>,
         event' \in {event, FALSE}
  PROVE  IrqInv'
  BY DEF IrqInv, IrqTyped, Handover, Ordered, Latest, Taken

(* IrqInv is inductive.                                                       *)
LEMMA IrqInductive == IrqInv /\ [Next]_vars => IrqInv'
<1>1. IrqInv /\ UNCHANGED vars => IrqInv'
  BY ThreadStepKeepsIrqInv DEF vars
<1> QED
  BY <1>1, InterruptStep, DsrStep, ThreadKeeps, ThreadStepKeepsIrqInv DEF Next

(* So is Wakeup, with it.                                                   *)
LEMMA WakeupStep == ASSUME IrqInv, Wakeup, [Next]_vars PROVE Wakeup'
<1>1. CASE NetxPut \/ NetxOther \/ cifXTKitISRHandler
  BY <1>1 DEF NetxPut, NetxOther, cifXTKitISRHandler, Wakeup, NotEqual
<1>2. CASE DsrStart \/ DsrCheck \/ TakeBuffer
  BY <1>2 DEF DsrStart, DsrCheck, TakeBuffer, Wakeup, NotEqual, IrqInv, IrqTyped
<1>3. CASE DsrFlags
  BY <1>3 DEF DsrFlags, Wakeup, NotEqual, IrqInv, IrqTyped
<1>4. CASE DsrSignal
  BY <1>4 DEF DsrSignal, Wakeup, NotEqual, IrqInv, IrqTyped
<1>5. CASE Receive
  BY <1>5 DEF Receive, Wait, OS_WaitEvent, Recheck, Get, Wakeup, NotEqual, IrqInv, IrqTyped
<1>6. CASE xChannelRegisterNotification \/ xChannelUnregisterNotification
  BY <1>6 DEF xChannelRegisterNotification, xChannelUnregisterNotification, Wakeup, NotEqual
<1>7. CASE UNCHANGED vars
  BY <1>7 DEF vars, Wakeup, NotEqual
<1> QED
  BY <1>1, <1>2, <1>3, <1>4, <1>5, <1>6, <1>7 DEF Next, Dsr

(* ISR and DSR lose nothing in their two buffers (cifXInterrupt.c): the     *)
(* flags are never ahead of the cells, and when all is quiet they are those *)
(* of the cells and both buffers are free.                                  *)
THEOREM HandoverSafety == Spec => []FlagsFollow
<1>1. IrqInv => FlagsFollow
  <2> SUFFICES ASSUME IrqInv PROVE FlagsFollow
    OBVIOUS
  <2>1. flag <= netx
    BY DEF IrqInv, Ordered
  <2>2. ASSUME Quiet PROVE flag = netx /\ valid = [i \in 0 .. 1 |-> FALSE]
    <3>1. valid[index] = FALSE /\ valid[1 - index] = FALSE
      BY <2>2 DEF Quiet, IrqInv, IrqTyped, Handover
    <3>2. \A i \in 0 .. 1 : valid[i] = FALSE
      BY <3>1 DEF IrqInv, IrqTyped
    <3>3. valid = [i \in 0 .. 1 |-> FALSE]
      BY <3>2 DEF IrqInv, IrqTyped
    <3> QED
      BY <2>2, <3>1, <3>3 DEF Quiet, IrqInv, Ordered, Latest, Taken
  <2> QED
    BY <2>1, <2>2 DEF FlagsFollow
<1> QED
  BY <1>1, IrqStart, IrqInductive, PTL DEF Spec

(* An older reading of the cells never replaces a newer one.                *)
THEOREM FlagsAdvance == Spec => FlagsNeverGoBack
<1>1. IrqInv /\ [Next]_vars => [flag' >= flag]_vars
  <2> SUFFICES ASSUME IrqInv, Next PROVE flag' >= flag
    OBVIOUS
  <2>1. CASE DsrFlags
    BY <2>1 DEF DsrFlags, IrqInv, IrqTyped, Handover, Ordered, Taken
  <2>2. CASE NetxPut \/ NetxOther \/ cifXTKitISRHandler
    BY <2>2 DEF NetxPut, NetxOther, cifXTKitISRHandler, IrqInv, IrqTyped
  <2>3. CASE DsrStart \/ DsrCheck \/ TakeBuffer \/ DsrSignal
    BY <2>3 DEF DsrStart, DsrCheck, TakeBuffer, DsrSignal, IrqInv, IrqTyped
  <2>4. CASE Receive \/ xChannelRegisterNotification \/ xChannelUnregisterNotification
    <3>1. flag' = flag
      BY <2>4, ThreadKeeps
    <3> QED
      BY <3>1 DEF IrqInv, IrqTyped
  <2> QED
    BY <2>1, <2>2, <2>3, <2>4 DEF Next, Dsr
<1> QED
  BY <1>1, IrqStart, IrqInductive, PTL DEF Spec, FlagsNeverGoBack

(* No wakeup is lost between the check of the flags and OS_WaitEvent.       *)
THEOREM WakeupSafety == Spec => []NoLostWakeup
<1>1. Wakeup => NoLostWakeup
  BY DEF Wakeup, NoLostWakeup, Quiet
<1>2. Init => IrqInv /\ Wakeup
  BY IrqStart
<1>3. IrqInv /\ Wakeup /\ [Next]_vars => IrqInv' /\ Wakeup'
  BY IrqInductive, WakeupStep
<1> QED
  BY <1>1, <1>2, <1>3, PTL DEF Spec

(* What the thread has taken, what is evaluated and what the netX has put   *)
(* differ by the one packet of the mailbox; and a callback that is there    *)
(* has been told of it, or the DSR is about to.                             *)
HostInv ==
  /\ host \in Nat /\ host <= flag /\ netx <= host + 1 /\ netx <= MaxPackets
  /\ thread = "get" => flag = host + 1
  /\ callback = TRUE /\ thread # "registered" /\ flag = host + 1 =>
       told = TRUE \/ (dsr.pc = "callback" /\ dsr.changed = TRUE)
IrqRest ==
  /\ callback \in BOOLEAN /\ told \in BOOLEAN
  /\ thread \in {"idle", "wait", "clear", "recheck", "late", "get", "registered",
                 "unregistered"}

LEMMA Parity ==
  ASSUME NEW h \in Nat, NEW f \in Nat, h <= f, f <= h + 1
  PROVE  NotEqual(f, h) <=> f = h + 1
  BY DEF NotEqual

LEMMA IrqRestStep == ASSUME IrqRest, [Next]_vars PROVE IrqRest'
<1> USE DEF IrqRest
<1>1. CASE NetxPut \/ NetxOther \/ cifXTKitISRHandler
  BY <1>1 DEF NetxPut, NetxOther, cifXTKitISRHandler
<1>2. CASE Dsr
  BY <1>2 DEF Dsr, DsrStart, DsrCheck, TakeBuffer, DsrFlags, DsrSignal
<1>3. CASE Receive
  BY <1>3 DEF Receive, Wait, OS_WaitEvent, Recheck, Get
<1>4. CASE xChannelRegisterNotification \/ xChannelUnregisterNotification
  BY <1>4 DEF xChannelRegisterNotification, xChannelUnregisterNotification
<1>5. CASE UNCHANGED vars
  BY <1>5 DEF vars
<1> QED
  BY <1>1, <1>2, <1>3, <1>4, <1>5 DEF Next

LEMMA HostStep == ASSUME IrqInv, IrqRest, HostInv, [Next]_vars PROVE HostInv'
<1>0. /\ host \in Nat /\ flag \in Nat /\ netx \in Nat /\ host <= flag /\ flag <= netx
      /\ netx <= host + 1 /\ netx <= MaxPackets /\ MaxPackets \in Nat
  BY ToolkitAssumption DEF IrqInv, IrqTyped, Ordered, HostInv
<1>a. NotEqual(flag, host) <=> flag = host + 1
  BY <1>0, Parity
<1>b. NotEqual(netx, host) <=> netx = host + 1
  BY <1>0, Parity
<1>1. CASE NetxPut
  <2>1. netx = host
    BY <1>0, <1>1, <1>b DEF NetxPut
  <2>2. flag # host + 1
    BY <1>0, <2>1
  <2>3. netx' = netx + 1 /\ netx < MaxPackets
    BY <1>1 DEF NetxPut
  <2> QED
    BY <1>0, <1>1, <2>1, <2>2, <2>3 DEF NetxPut, HostInv
<1>2. CASE NetxOther \/ cifXTKitISRHandler
  BY <1>2 DEF NetxOther, cifXTKitISRHandler, HostInv
<1>3. CASE DsrStart \/ DsrCheck \/ TakeBuffer
  BY <1>3 DEF DsrStart, DsrCheck, TakeBuffer, HostInv, IrqInv, IrqTyped
<1>4. CASE DsrFlags
  <2>1. flag' = buffer[dsr.buf] /\ UNCHANGED <<host, netx, thread, callback, told>>
    BY <1>4 DEF DsrFlags
  <2>2. flag' \in Nat /\ flag <= flag' /\ flag' <= netx
    BY <1>4 DEF DsrFlags, IrqInv, IrqTyped, Handover, Ordered, Taken
  <2>3. dsr'.pc = "callback" /\ dsr'.changed = NotEqual(flag, flag')
    BY <1>4 DEF DsrFlags, IrqInv, IrqTyped
  <2>4. ASSUME callback = TRUE, thread # "registered", flag' = host + 1
        PROVE  told = TRUE \/ dsr'.changed = TRUE
    <3>1. CASE flag = host + 1
      BY <1>4, <2>4, <3>1 DEF DsrFlags, HostInv
    <3>2. CASE flag = host
      <4>1. NotEqual(flag, flag')
        BY <1>0, <2>4, <3>2 DEF NotEqual
      <4> QED
        BY <2>3, <4>1
    <3>3. flag = host \/ flag = host + 1
      BY <1>0
    <3> QED
      BY <3>1, <3>2, <3>3
  <2>5. thread = "get" => flag' = host + 1
    BY <1>0, <2>2 DEF HostInv
  <2>6. host' \in Nat /\ host' <= flag' /\ netx' <= host' + 1 /\ netx' <= MaxPackets
    BY <1>0, <2>1, <2>2
  <2>7. callback' = callback /\ thread' = thread /\ told' = told /\ host' = host
    BY <2>1
  <2> QED
    BY <2>3, <2>4, <2>5, <2>6, <2>7 DEF HostInv
<1>5. CASE DsrSignal
  <2>1. told' = (told \/ (dsr.changed /\ NotEqual(flag, host) /\ callback))
        /\ dsr.pc = "callback" /\ UNCHANGED <<host, netx, flag, thread, callback>>
    BY <1>5 DEF DsrSignal
  <2>2. callback = TRUE /\ thread # "registered" /\ flag = host + 1 => told' = TRUE
    BY <1>a, <2>1 DEF HostInv, IrqInv, IrqTyped, IrqRest
  <2> QED
    BY <2>1, <2>2 DEF HostInv
<1>6. CASE Wait \/ OS_WaitEvent \/ Recheck
  BY <1>6, <1>a DEF Wait, OS_WaitEvent, Recheck, HostInv
<1>7. CASE Get
  <2>1. flag = host + 1 /\ host' = host + 1 /\ UNCHANGED <<netx, flag>> /\ thread' = "idle"
    BY <1>7 DEF Get, HostInv
  <2> QED
    BY <1>0, <2>1 DEF HostInv
<1>8. CASE xChannelRegisterNotification \/ xChannelUnregisterNotification
  BY <1>8, <1>a DEF xChannelRegisterNotification, xChannelUnregisterNotification, HostInv
<1>9. CASE UNCHANGED vars
  BY <1>9 DEF vars, HostInv
<1> QED
  BY <1>1, <1>2, <1>3, <1>4, <1>5, <1>6, <1>7, <1>8, <1>9 DEF Next, Dsr, Receive

LEMMA IrqInvariance == Spec => [](IrqInv /\ IrqRest /\ HostInv)
<1>1. Init => IrqInv /\ IrqRest /\ HostInv
  <2> SUFFICES ASSUME Init PROVE IrqRest /\ HostInv
    BY IrqStart
  <2>1. HostInv
    BY ToolkitAssumption DEF Init, HostInv
  <2> QED
    BY <2>1 DEF Init, IrqRest
<1> QED
  BY <1>1, IrqInductive, IrqRestStep, HostStep, PTL DEF Spec

LEMMA IrqTypes == IrqInv /\ IrqRest /\ HostInv => TypeOK
<1> SUFFICES ASSUME IrqInv, IrqRest, HostInv PROVE TypeOK
  OBVIOUS
<1>1. /\ host \in 0 .. MaxPackets /\ flag \in 0 .. MaxPackets /\ netx \in 0 .. MaxPackets
      /\ \A i \in 0 .. 1 : buffer[i] \in 0 .. MaxPackets
  BY ToolkitAssumption DEF IrqInv, IrqTyped, Ordered, HostInv
<1>2. buffer \in [0 .. 1 -> 0 .. MaxPackets]
  BY <1>1 DEF IrqInv, IrqTyped
<1> QED
  BY <1>1, <1>2 DEF IrqInv, IrqTyped, IrqRest, TypeOK

(* With a callback every packet in the mailbox is notified, also one that   *)
(* comes while the callback is being registered (cifXFunctions.c,           *)
(* xChannelRegisterNotification).                                           *)
THEOREM NotificationSafety == Spec => []PacketIsNotified
<1>1. IrqInv /\ IrqRest /\ HostInv => PacketIsNotified
  <2> SUFFICES ASSUME IrqInv, IrqRest, HostInv,
                      Quiet, callback, thread # "registered", NotEqual(netx, host)
               PROVE  told
    BY DEF PacketIsNotified
  <2>1. flag = netx /\ dsr.pc = "off"
    BY DEF Quiet, IrqInv, IrqTyped, Handover, Ordered, Latest, Taken
  <2>2. flag = host + 1
    BY <2>1, Parity DEF HostInv, IrqInv, IrqTyped
  <2> QED
    BY <2>1, <2>2 DEF HostInv, IrqRest
<1> QED
  BY <1>1, IrqInvariance, PTL

HIDE DEF DsrAt, DsrTo, ThreadStep

----------------------------------------------------------------------------
(* DeviceReset: for any number of resets, and whenever the device sees what *)
(* it is asked for                                                          *)

ResetPcs == {"idle", "execute", "gone", "back", "update_gone", "update_back", "finish"}
Rets     == {"ok", "failed", "timeout", "not_ready"}
CallRec  == [pc : ResetPcs, mode : Reset!Modes, boots : 0 .. 2, ret : Rets]
DevRec   == [up : BOOLEAN, cookie : {"firmware", "bootloader"}, mode : Reset!Modes]

(* A step of the device: external, at any time.                             *)
DeviceStep == Reset!DeviceTakes \/ Reset!DeviceGoesDown \/ Reset!DeviceComesUp

(* How a step of the host changes the call, and how the device's start      *)
(* does; both stay records of their kind.                                   *)
LEMMA ResetCallStep ==
  ASSUME resetCall \in CallRec, [Reset!Next]_resetVars
  PROVE  resetCall' \in CallRec
<1> USE DEF CallRec, ResetPcs, Rets, Reset!At
<1>0. ASSUME NEW pc \in ResetPcs PROVE [resetCall EXCEPT !.pc = pc] \in CallRec
  OBVIOUS
<1>1. CASE Reset!Put \/ Reset!DeviceTakes \/ Reset!DeviceGoesDown \/ UNCHANGED resetVars
  BY <1>1 DEF Reset!Put, Reset!DeviceTakes, Reset!DeviceGoesDown, resetVars
<1>2. CASE Reset!DEV_Reset_Prepare
  <2>1. Reset!None \in CallRec
    BY DEF Reset!None, Reset!Modes
  <2> DEFINE start(mode) == [Reset!None EXCEPT !.pc = "execute", !.mode = mode]
  <2>2. ASSUME NEW mode \in Reset!Modes PROVE start(mode) \in CallRec
    BY <2>1
  <2>3. \E mode \in Reset!Modes : resetCall' = start(mode) \/ UNCHANGED resetCall
    BY <1>2, Zenon DEF Reset!DEV_Reset_Prepare
  <2> HIDE DEF start
  <2>4. PICK mode \in Reset!Modes : resetCall' = start(mode) \/ UNCHANGED resetCall
    BY <2>3
  <2> QED
    BY <2>2, <2>4
<1>3. CASE Reset!DEV_Reset_Execute
  BY <1>3 DEF Reset!DEV_Reset_Execute, Reset!GoTo
<1>4. CASE Reset!Recognized
  BY <1>4 DEF Reset!Recognized, Reset!GoTo, Reset!Ends, Reset!None, Reset!Modes
<1>5. CASE Reset!Back
  BY <1>5 DEF Reset!Back, Reset!GoTo, Reset!Finish
<1>6. CASE Reset!NotBack \/ Reset!Updated
  BY <1>6 DEF Reset!NotBack, Reset!Updated, Reset!GoTo, Reset!Finish
<1>7. CASE Reset!DEV_Reset_Finish
  BY <1>7 DEF Reset!DEV_Reset_Finish, Reset!Ends, Reset!None, Reset!Modes
<1>8. CASE Reset!DeviceComesUp
  BY <1>8 DEF Reset!DeviceComesUp
<1> QED
  BY <1>1, <1>2, <1>3, <1>4, <1>5, <1>6, <1>7, <1>8 DEF Reset!Next, Reset!Host

(* A step of the host leaves the device alone, one of the device all of the *)
(* call but the starts it has seen.                                         *)
LEMMA HostLeavesDevice ==
  ASSUME Reset!Host
  PROVE  /\ UNCHANGED <<resetIrq, resetOwn, resetDev, resetAck>>
         /\ \/ resetResets' = resetResets
            \/ resetResets < MaxResets /\ resetResets' = resetResets + 1
<1>1. CASE Reset!Put
  BY <1>1 DEF Reset!Put, Reset!cells
<1>2. CASE Reset!DEV_Reset_Prepare
  BY <1>2 DEF Reset!DEV_Reset_Prepare, Reset!cells
<1>3. CASE Reset!DEV_Reset_Execute
  BY <1>3 DEF Reset!DEV_Reset_Execute, Reset!cells
<1>4. CASE Reset!Recognized
  BY <1>4 DEF Reset!Recognized, Reset!cells
<1>5. CASE Reset!Back
  BY <1>5 DEF Reset!Back, Reset!cells
<1>6. CASE Reset!NotBack
  BY <1>6 DEF Reset!NotBack, Reset!cells
<1>7. CASE Reset!Updated
  BY <1>7 DEF Reset!Updated, Reset!cells
<1>8. CASE Reset!DEV_Reset_Finish
  BY <1>8 DEF Reset!DEV_Reset_Finish, Reset!cells
<1> QED
  BY <1>1, <1>2, <1>3, <1>4, <1>5, <1>6, <1>7, <1>8 DEF Reset!Host

LEMMA DeviceLeavesCall ==
  ASSUME resetCall \in CallRec, resetDev \in DevRec, DeviceStep
  PROVE  /\ resetCall'.pc = resetCall.pc /\ resetCall'.mode = resetCall.mode
         /\ resetCall'.ret = resetCall.ret
         /\ UNCHANGED <<resetIrq, resetOwn, resetRam, resetActive, resetResult, resetGaveUp,
                        resetResets>>
<1>1. CASE Reset!DeviceTakes
  BY <1>1 DEF Reset!DeviceTakes, CallRec
<1>2. CASE Reset!DeviceGoesDown
  BY <1>2 DEF Reset!DeviceGoesDown, CallRec
<1>3. CASE Reset!DeviceComesUp
  BY <1>3 DEF Reset!DeviceComesUp, CallRec
<1> QED
  BY <1>1, <1>2, <1>3 DEF DeviceStep

LEMMA ResetTypedStep == ASSUME Reset!TypeOK, [Reset!Next]_resetVars PROVE Reset!TypeOK'
<1> DEFINE Flags2 == /\ resetIrq \in BOOLEAN /\ resetOwn \in BOOLEAN /\ resetRam \in BOOLEAN
                     /\ resetActive \in BOOLEAN /\ resetCell \in BOOLEAN
                     /\ resetAck \in BOOLEAN /\ resetGaveUp \in BOOLEAN
           Rest == /\ resetBox \in {"empty", "full"}
                   /\ resetResult \in {"none", "ok", "failed", "timeout", "not_ready"}
                   /\ resetRequest \in Reset!Modes \cup {"none"}
<1>0. resetCall \in CallRec /\ resetDev \in DevRec /\ Flags2 /\ Rest
      /\ resetResets \in 0 .. MaxResets
  BY DEF Reset!TypeOK, CallRec, DevRec, ResetPcs, Rets
<1>1. resetCall' \in CallRec
  BY <1>0, ResetCallStep
<1>2. Flags2'
  <2>1. CASE Reset!Host
    <3>1. CASE Reset!Put
      BY <1>0, <3>1 DEF Reset!Put, Reset!cells
    <3>2. CASE Reset!DEV_Reset_Prepare
      BY <1>0, <3>2 DEF Reset!DEV_Reset_Prepare, Reset!cells
    <3>3. CASE Reset!DEV_Reset_Execute
      BY <1>0, <3>3 DEF Reset!DEV_Reset_Execute, Reset!cells
    <3>4. CASE Reset!Recognized
      BY <1>0, <3>4 DEF Reset!Recognized, Reset!Ends, Reset!cells
    <3>5. CASE Reset!Back
      BY <1>0, <3>5 DEF Reset!Back, Reset!cells
    <3>6. CASE Reset!NotBack
      BY <1>0, <3>6 DEF Reset!NotBack, Reset!cells
    <3>7. CASE Reset!Updated
      BY <1>0, <3>7 DEF Reset!Updated, Reset!cells
    <3>8. CASE Reset!DEV_Reset_Finish
      BY <1>0, <3>8 DEF Reset!DEV_Reset_Finish, Reset!Ends, Reset!cells
    <3> HIDE DEF Flags2
    <3> QED
      BY <2>1, <3>1, <3>2, <3>3, <3>4, <3>5, <3>6, <3>7, <3>8 DEF Reset!Host
  <2>2. CASE DeviceStep
    <3>1. /\ resetCell' \in BOOLEAN /\ resetAck' \in BOOLEAN
      BY <1>0, <2>2 DEF DeviceStep, Reset!DeviceTakes, Reset!DeviceGoesDown,
                        Reset!DeviceComesUp, Reset!cells
    <3> QED
      BY <1>0, <2>2, <3>1, DeviceLeavesCall
  <2>3. CASE UNCHANGED resetVars
    BY <1>0, <2>3 DEF resetVars
  <2> QED
    BY <2>1, <2>2, <2>3 DEF Reset!Next, DeviceStep
<1>3. Rest'
  <2>1. CASE Reset!Host
    <3>1. CASE Reset!Put
      BY <1>0, <3>1 DEF Reset!Put, Reset!cells
    <3>2. CASE Reset!DEV_Reset_Prepare
      BY <1>0, <3>2 DEF Reset!DEV_Reset_Prepare, Reset!cells
    <3>3. CASE Reset!DEV_Reset_Execute
      BY <1>0, <3>3 DEF Reset!DEV_Reset_Execute, CallRec, Reset!cells
    <3>4. CASE Reset!Recognized
      BY <1>0, <3>4 DEF Reset!Recognized, Reset!Ends, Reset!cells
    <3>5. CASE Reset!Back
      BY <1>0, <3>5 DEF Reset!Back, Reset!cells
    <3>6. CASE Reset!NotBack
      BY <1>0, <3>6 DEF Reset!NotBack, Reset!cells
    <3>7. CASE Reset!Updated
      BY <1>0, <3>7 DEF Reset!Updated, Reset!cells
    <3>8. CASE Reset!DEV_Reset_Finish
      BY <1>0, <3>8 DEF Reset!DEV_Reset_Finish, Reset!Ends, CallRec, Rets, Reset!cells
    <3> HIDE DEF Rest
    <3> QED
      BY <2>1, <3>1, <3>2, <3>3, <3>4, <3>5, <3>6, <3>7, <3>8 DEF Reset!Host
  <2>2. CASE DeviceStep
    BY <1>0, <2>2 DEF DeviceStep, Reset!DeviceTakes, Reset!DeviceGoesDown, Reset!DeviceComesUp,
       Reset!cells
  <2>3. CASE UNCHANGED resetVars
    BY <1>0, <2>3 DEF resetVars
  <2> QED
    BY <2>1, <2>2, <2>3 DEF Reset!Next, DeviceStep
<1>4. resetDev' \in DevRec
  <2>1. CASE Reset!DeviceGoesDown
    <3>1. CASE resetRequest # "none"
               /\ resetDev' = [resetDev EXCEPT !.up = FALSE, !.mode = resetRequest]
      BY <1>0, <3>1 DEF DevRec
    <3>2. CASE resetDev' = [resetDev EXCEPT !.up = FALSE, !.mode = "system"]
      BY <1>0, <3>2 DEF DevRec, Reset!Modes
    <3> QED
      BY <2>1, <3>1, <3>2 DEF Reset!DeviceGoesDown
  <2>2. CASE Reset!DeviceComesUp
    BY <1>0, <2>2 DEF Reset!DeviceComesUp, DevRec
  <2>3. CASE Reset!Host
    BY <1>0, <2>3, HostLeavesDevice
  <2>4. CASE Reset!DeviceTakes \/ UNCHANGED resetVars
    BY <1>0, <2>4 DEF Reset!DeviceTakes, resetVars
  <2> QED
    BY <2>1, <2>2, <2>3, <2>4 DEF Reset!Next
<1>5. resetResets' \in 0 .. MaxResets
  <2>1. resetResets' = resetResets \/ (resetResets < MaxResets /\ resetResets' = resetResets + 1)
    BY <1>0, HostLeavesDevice, DeviceLeavesCall DEF Reset!Next, DeviceStep, resetVars
  <2> QED
    BY <1>0, <2>1, ToolkitAssumption
<1> QED
  BY <1>1, <1>2, <1>3, <1>4, <1>5 DEF Reset!TypeOK, CallRec, DevRec, ResetPcs, Rets

(* The starts of the device that a reset has seen.                          *)
BootsInv ==
  /\ resetCall.pc = "back" /\ resetDev.up = TRUE => resetCall.boots >= 1
  /\ resetCall.pc \in {"update_gone", "update_back"} =>
       resetCall.boots >= 1 /\ resetCall.mode = "update"
  /\ resetCall.pc = "update_back" /\ resetDev.up = TRUE => resetCall.boots = 2
  /\ Reset!UpdateStartsTwice

LEMMA BootsStep ==
  ASSUME Reset!TypeOK, BootsInv, [Reset!Next]_resetVars
  PROVE  BootsInv'
<1>0. resetCall \in CallRec /\ resetDev \in DevRec
  BY DEF Reset!TypeOK, CallRec, DevRec, ResetPcs, Rets
<1> USE DEF BootsInv, Reset!UpdateStartsTwice, Reset!At, CallRec
<1>1. CASE Reset!Put
  BY <1>1 DEF Reset!Put
<1>2. CASE Reset!DEV_Reset_Prepare
  BY <1>0, <1>2 DEF Reset!DEV_Reset_Prepare, Reset!None
<1>3. CASE Reset!DEV_Reset_Execute
  BY <1>0, <1>3 DEF Reset!DEV_Reset_Execute, Reset!GoTo
<1>4. CASE Reset!Recognized
  BY <1>0, <1>4 DEF Reset!Recognized, Reset!DEV_WaitForNotReady, Reset!GoTo, Reset!Ends,
     Reset!None
<1>5. CASE Reset!Back
  BY <1>0, <1>5 DEF Reset!Back, Reset!GoTo, Reset!Finish
<1>6. CASE Reset!NotBack
  BY <1>0, <1>6 DEF Reset!NotBack, Reset!Finish
<1>7. CASE Reset!Updated
  BY <1>0, <1>7 DEF Reset!Updated, Reset!DEV_WaitForNotReady, Reset!GoTo, Reset!Finish
<1>8. CASE Reset!DEV_Reset_Finish
  BY <1>0, <1>8 DEF Reset!DEV_Reset_Finish, Reset!Ends, Reset!None
<1>9. CASE Reset!DeviceTakes \/ UNCHANGED resetVars
  BY <1>9 DEF Reset!DeviceTakes, resetVars
<1>10. CASE Reset!DeviceGoesDown
  <2>1. resetDev'.up = FALSE /\ resetCall' = resetCall
    BY <1>0, <1>10 DEF Reset!DeviceGoesDown, DevRec
  <2> QED
    BY <2>1
<1>11. CASE Reset!DeviceComesUp
  <2>1. resetCall'.pc = resetCall.pc /\ resetCall'.mode = resetCall.mode
        /\ resetCall'.ret = resetCall.ret
    BY <1>0, <1>11, DeviceLeavesCall DEF DeviceStep
  <2>2. resetCall.boots \in 0 .. 2
        /\ resetCall'.boots = (IF resetCall.pc = "idle" \/ resetCall.boots = 2
                               THEN resetCall.boots ELSE resetCall.boots + 1)
    BY <1>0, <1>11 DEF Reset!DeviceComesUp
  <2> QED
    BY <2>1, <2>2
<1> QED
  BY <1>1, <1>2, <1>3, <1>4, <1>5, <1>6, <1>7, <1>8, <1>9, <1>10, <1>11
  DEF Reset!Next, Reset!Host

(* The mailbox is empty whenever command and acknowledge are equal.         *)
MailboxInv == resetCell = resetAck => resetBox = "empty"

(* The device has yet to start for an update.                               *)
UpdatePending ==
  \/ resetRequest = "update"
  \/ resetDev.mode = "update" /\ (resetDev.cookie = "bootloader" \/ resetDev.up = FALSE)

(* The device is up, and nothing will make it restart but another reset.    *)
Settled == resetRequest = "none" /\ resetDev.up = TRUE /\ ~UpdatePending

GivingUp ==
  /\ resetCall.pc = "finish" /\ resetCall.mode = "update"
  /\ resetCall.ret \in {"timeout", "not_ready"}

(* Unless an update was given up, the device starts for an update only      *)
(* within the call that asked for it, and a call that returns ok or failed  *)
(* leaves the device settled.                                               *)
SettledInv ==
  /\ resetCall.pc = "back" /\ resetDev.up = TRUE => resetRequest = "none"
  /\ resetCall.pc \in {"update_gone", "update_back"} =>
       resetRequest = "none" /\ resetCall.mode = "update"
  /\ resetCall.pc = "update_gone" /\ resetDev.up = FALSE => resetDev.mode = "system"
  /\ resetCall.pc = "update_back" => resetDev.mode = "system"
  /\ UpdatePending /\ resetGaveUp = FALSE =>
       \/ resetCall.mode = "update" /\ resetCall.pc \in {"gone", "back", "update_gone"}
       \/ GivingUp
  /\ resetCall.pc = "finish" /\ resetCall.ret \in {"ok", "failed"} /\ resetGaveUp = FALSE =>
       Settled
  /\ resetCall.pc = "idle" => resetActive = FALSE \/ resetResult = "timeout"
  /\ resetCall.pc = "idle" /\ resetResult \in {"none", "ok", "failed"} /\ resetGaveUp = FALSE =>
       Settled /\ (resetIrq = FALSE => resetRam = resetCell)

LEMMA SettledStep ==
  ASSUME Reset!TypeOK, SettledInv, MailboxInv, [Reset!Next]_resetVars
  PROVE  SettledInv' /\ MailboxInv'
<1>0. resetCall \in CallRec /\ resetDev \in DevRec
  BY DEF Reset!TypeOK, CallRec, DevRec, ResetPcs, Rets
<1>1. SettledInv'
  <2> USE DEF SettledInv, UpdatePending, GivingUp, Settled
  <2>1. CASE Reset!Put
    BY <2>1 DEF Reset!Put, Reset!At
  <2>2. CASE Reset!DEV_Reset_Prepare
    <3>1. UNCHANGED <<resetDev, resetRequest, resetGaveUp, resetResult, resetIrq, resetCell>>
          /\ resetCall.pc = "idle"
      BY <2>2 DEF Reset!DEV_Reset_Prepare, Reset!cells, Reset!At
    <3>2. resetCall'.pc = "execute" \/ UNCHANGED <<resetCall, resetActive, resetRam>>
      <4> DEFINE start(mode) == [Reset!None EXCEPT !.pc = "execute", !.mode = mode]
      <4>1. ASSUME NEW mode PROVE start(mode).pc = "execute"
        BY DEF Reset!None
      <4>2. \E mode \in Reset!Modes :
              resetCall' = start(mode) \/ UNCHANGED <<resetCall, resetActive, resetRam>>
        BY <2>2, Zenon DEF Reset!DEV_Reset_Prepare
      <4> HIDE DEF start
      <4> QED
        BY <4>1, <4>2
    <3> QED
      BY <3>1, <3>2
  <2>3. CASE Reset!DEV_Reset_Execute
    BY <1>0, <2>3 DEF Reset!DEV_Reset_Execute, Reset!GoTo, Reset!At, CallRec
  <2>4. CASE Reset!Recognized
    <3>1. UNCHANGED <<resetDev, resetRequest>> /\ resetCall.pc = "gone"
      BY <2>4 DEF Reset!Recognized, Reset!At
    <3>2. CASE Reset!DEV_WaitForNotReady /\ Reset!GoTo("back")
               /\ UNCHANGED <<resetResult, resetGaveUp>>
      <4>1. resetDev.up # TRUE /\ resetCall'.pc = "back" /\ resetCall'.mode = resetCall.mode
        BY <1>0, <3>2 DEF Reset!DEV_WaitForNotReady, Reset!GoTo, CallRec
      <4> QED
        BY <3>1, <3>2, <4>1
    <3>3. CASE Reset!Ends("timeout")
      <4>1. resetCall'.pc = "idle" /\ resetResult' = "timeout"
        BY <3>3 DEF Reset!Ends, Reset!None
      <4>2. resetGaveUp' = FALSE => resetGaveUp = FALSE /\ resetCall.mode # "update"
        <5>1. CASE resetCall.mode = "update"
          BY <3>3, <5>1, Zenon DEF Reset!Ends
        <5>2. CASE resetCall.mode # "update"
          BY <3>3, <5>2 DEF Reset!Ends, Reset!TypeOK
        <5> QED
          BY <5>1, <5>2
      <4> QED
        BY <3>1, <4>1, <4>2
    <3> QED
      BY <2>4, <3>2, <3>3 DEF Reset!Recognized
  <2>5. CASE Reset!Back
    <3>1. UNCHANGED <<resetDev, resetRequest, resetGaveUp>> /\ resetCall.pc = "back"
          /\ resetDev.up = TRUE
      BY <1>0, <2>5 DEF Reset!Back, Reset!At, DevRec
    <3>2. resetCall'.mode = resetCall.mode
          /\ \/ resetCall'.pc = "finish" /\ resetCall'.ret = "ok" /\ resetCall.mode = "system"
             \/ resetCall'.pc = "finish" /\ resetCall'.ret = "failed"
                /\ resetCall.mode # "system" /\ resetDev.cookie # "bootloader"
             \/ resetCall'.pc = "finish" /\ resetCall'.ret = "ok" /\ resetCall.mode = "boot"
             \/ resetCall'.pc = "update_gone" /\ resetCall.mode = "update"
      BY <1>0, <2>5 DEF Reset!Back, Reset!GoTo, Reset!Finish, CallRec
    <3> QED
      BY <3>1, <3>2
  <2>6. CASE Reset!NotBack
    <3>1. UNCHANGED <<resetDev, resetRequest, resetGaveUp>>
          /\ resetCall.pc \in {"back", "update_back"}
      BY <2>6 DEF Reset!NotBack, Reset!At
    <3>2. resetCall'.mode = resetCall.mode /\ resetCall'.pc = "finish"
          /\ resetCall'.ret = "not_ready"
      BY <1>0, <2>6 DEF Reset!NotBack, Reset!Finish, CallRec
    <3> QED
      BY <3>1, <3>2
  <2>7. CASE Reset!Updated
    <3>1. UNCHANGED <<resetDev, resetRequest, resetGaveUp>>
      BY <2>7 DEF Reset!Updated
    <3>2. resetCall'.mode = resetCall.mode
          /\ \/ resetCall.pc = "update_gone" /\ resetCall'.pc = "update_back"
                /\ resetDev.up = FALSE
             \/ resetCall.pc = "update_gone" /\ resetCall'.pc = "finish"
                /\ resetCall'.ret = "timeout"
             \/ resetCall.pc = "update_back" /\ resetCall'.pc = "finish"
                /\ resetCall'.ret = "ok" /\ resetDev.up = TRUE
      BY <1>0, <2>7 DEF Reset!Updated, Reset!DEV_WaitForNotReady, Reset!GoTo, Reset!Finish,
         Reset!At, CallRec, DevRec
    <3> QED
      BY <3>1, <3>2
  <2>8. CASE Reset!DEV_Reset_Finish
    <3>1. UNCHANGED <<resetDev, resetRequest, resetIrq, resetCell>> /\ resetCall.pc = "finish"
          /\ resetActive' = FALSE
      BY <2>8 DEF Reset!DEV_Reset_Finish, Reset!At, Reset!cells
    <3>2. resetCall'.pc = "idle" /\ resetResult' = resetCall.ret
      BY <2>8 DEF Reset!DEV_Reset_Finish, Reset!Ends, Reset!None
    <3>3. resetGaveUp' = FALSE =>
            /\ resetGaveUp = FALSE
            /\ ~(resetCall.mode = "update" /\ resetCall.ret \in {"timeout", "not_ready"})
      <4>1. resetGaveUp' = (resetGaveUp \/ (resetCall.mode = "update"
                            /\ resetCall.ret \in {"timeout", "not_ready"}))
        BY <2>8 DEF Reset!DEV_Reset_Finish, Reset!Ends
      <4>2. resetGaveUp \in BOOLEAN
        BY DEF Reset!TypeOK
      <4> QED
        BY <4>1, <4>2
    <3>4. resetIrq = FALSE /\ resetDev.up = TRUE => resetRam' = resetCell
      BY <2>8 DEF Reset!DEV_Reset_Finish
    <3>5. resetCall.ret \in {"ok", "failed", "timeout", "not_ready"}
      BY <1>0 DEF CallRec, Rets
    <3> QED
      BY <3>1, <3>2, <3>3, <3>4, <3>5
  <2>9. CASE Reset!DeviceTakes
    BY <2>9 DEF Reset!DeviceTakes
  <2>10. CASE Reset!DeviceGoesDown
    <3>1. UNCHANGED <<resetCall, resetRequest, resetGaveUp, resetResult, resetActive>>
          /\ resetDev.up = TRUE
      BY <1>0, <2>10 DEF Reset!DeviceGoesDown, DevRec
    <3>2. resetDev'.up = FALSE /\ resetDev'.cookie = resetDev.cookie
          /\ \/ resetRequest # "none" /\ resetDev'.mode = resetRequest
             \/ /\ resetDev.mode = "update" /\ resetDev.cookie = "bootloader"
                /\ resetDev'.mode = "system"
      BY <1>0, <2>10 DEF Reset!DeviceGoesDown, DevRec
    <3> QED
      BY <3>1, <3>2
  <2>11. CASE Reset!DeviceComesUp
    <3>1. /\ resetCall'.pc = resetCall.pc /\ resetCall'.mode = resetCall.mode
          /\ resetCall'.ret = resetCall.ret
          /\ UNCHANGED <<resetResult, resetGaveUp, resetActive>>
      BY <1>0, <2>11, DeviceLeavesCall DEF DeviceStep
    <3>2. resetDev'.mode = resetDev.mode /\ resetDev.up # TRUE /\ resetRequest' = "none"
          /\ resetDev'.up = TRUE
      BY <1>0, <2>11 DEF Reset!DeviceComesUp, DevRec
    <3>3. resetDev.up = FALSE
      BY <1>0, <3>2 DEF DevRec
    <3> QED
      BY <3>1, <3>2, <3>3
  <2>12. CASE UNCHANGED resetVars
    BY <2>12 DEF resetVars
  <2> QED
    BY <2>1, <2>2, <2>3, <2>4, <2>5, <2>6, <2>7, <2>8, <2>9, <2>10, <2>11, <2>12
    DEF Reset!Next, Reset!Host
<1>2. MailboxInv'
  <2> USE DEF MailboxInv, Reset!cells
  <2>1. CASE Reset!Put
    <3>1. resetRam = resetAck /\ resetAck' = resetAck /\ resetCell' = ~resetRam
      BY <2>1, Zenon DEF Reset!Put
    <3>2. resetAck \in BOOLEAN
      BY DEF Reset!TypeOK
    <3>3. resetCell' # resetAck'
      BY <3>1, <3>2
    <3> QED
      BY <3>3
  <2>2. CASE Reset!DEV_Reset_Prepare
    BY <2>2 DEF Reset!DEV_Reset_Prepare
  <2>3. CASE Reset!DEV_Reset_Execute \/ Reset!Recognized \/ Reset!Back \/ Reset!NotBack
             \/ Reset!Updated \/ Reset!DEV_Reset_Finish
    BY <2>3 DEF Reset!DEV_Reset_Execute, Reset!Recognized, Reset!Back, Reset!NotBack,
       Reset!Updated, Reset!DEV_Reset_Finish
  <2>4. CASE DeviceStep \/ UNCHANGED resetVars
    BY <2>4 DEF DeviceStep, Reset!DeviceTakes, Reset!DeviceGoesDown, Reset!DeviceComesUp,
       resetVars
  <2> QED
    BY <2>1, <2>2, <2>3, <2>4 DEF Reset!Next, Reset!Host, DeviceStep
<1> QED
  BY <1>1, <1>2

(* What holds of a reset in every state, and what a state and a step of it  *)
(* must satisfy.                                                            *)
ResetInv == Reset!TypeOK /\ BootsInv /\ SettledInv /\ MailboxInv

LEMMA ResetStart == ASSUME Reset!Init PROVE ResetInv
<1>1. resetCall = Reset!None /\ resetDev = [up |-> TRUE, cookie |-> "firmware", mode |-> "system"]
      /\ resetRequest = "none" /\ resetBox = "empty" /\ resetResult = "none"
      /\ resetActive = FALSE /\ resetGaveUp = FALSE /\ resetRam = FALSE /\ resetCell = FALSE
      /\ resetAck = FALSE /\ resetResets = 0 /\ resetIrq \in BOOLEAN /\ resetOwn \in BOOLEAN
  BY DEF Reset!Init
<1>2. Reset!TypeOK
  <2>1. resetCall \in CallRec /\ resetDev \in DevRec
    BY <1>1 DEF Reset!None, CallRec, DevRec, ResetPcs, Rets, Reset!Modes
  <2>2. resetResets \in 0 .. MaxResets
    BY <1>1, ToolkitAssumption
  <2> QED
    BY <1>1, <2>1, <2>2, Zenon DEF Reset!TypeOK, CallRec, DevRec, ResetPcs, Rets
<1>3. BootsInv
  BY <1>1 DEF BootsInv, Reset!UpdateStartsTwice, Reset!At, Reset!None
<1>4. SettledInv
  BY <1>1 DEF SettledInv, UpdatePending, Settled, GivingUp, Reset!None
<1>5. MailboxInv
  BY <1>1 DEF MailboxInv
<1> QED
  BY <1>2, <1>3, <1>4, <1>5 DEF ResetInv

LEMMA ResetInductive ==
  ASSUME ResetInv, [Reset!Next]_resetVars
  PROVE  ResetInv'
BY ResetTypedStep, BootsStep, SettledStep DEF ResetInv

LEMMA ResetClean ==
  ASSUME ResetInv
  PROVE  Reset!CleanAfterReset /\ Reset!UpdateStartsTwice
<1>1. resetGaveUp \in BOOLEAN /\ resetIrq \in BOOLEAN
  BY DEF ResetInv, Reset!TypeOK
<1>2. Reset!At("idle") /\ resetResult = "ok" /\ resetGaveUp = FALSE /\ resetIrq = FALSE =>
        resetRam = resetCell /\ resetActive = FALSE
  BY DEF ResetInv, SettledInv, Reset!At
<1> QED
  BY <1>1, <1>2 DEF ResetInv, BootsInv, Reset!CleanAfterReset

LEMMA PutStep ==
  ASSUME ResetInv, [Reset!Next]_resetVars
  PROVE  [Reset!Put /\ ~resetIrq /\ resetResult \in {"none", "ok", "failed"} /\ ~resetGaveUp
            => resetBox = "empty"]_resetVars
<1>1. resetGaveUp \in BOOLEAN /\ resetIrq \in BOOLEAN
  BY DEF ResetInv, Reset!TypeOK
<1>2. ASSUME Reset!Put, resetIrq = FALSE, resetResult \in {"none", "ok", "failed"},
             resetGaveUp = FALSE
      PROVE  resetBox = "empty"
  <2>1. resetCall.pc = "idle" /\ resetRam = resetAck
    BY <1>2 DEF Reset!Put, Reset!At
  <2> QED
    BY <1>2, <2>1 DEF ResetInv, SettledInv, MailboxInv
<1> QED
  BY <1>1, <1>2

----------------------------------------------------------------------------
(* HostCos: for any number of calls, and however the stack interleaves      *)

CosCallRec == [pc : Cos!Pcs, op : Cos!Ops, wait : BOOLEAN, ran : BOOLEAN]
StackRec   == [read : SUBSET Cos!AppCos, ready : BOOLEAN, inits : Nat, restart : BOOLEAN,
               pc : {"idle", "ack"}]

InitFlags == {"INITIALIZATION", "INITIALIZATION_ENABLE"}

(* A request for a channel init that the stack has not read yet, and one    *)
(* that waits for room.                                                     *)
Unread == IF cosCmd # cosAck /\ cosStack.pc = "idle" /\ InitFlags \subseteq cosDpm THEN 1 ELSE 0
InRoom == IF cosCall.pc = "room" /\ cosCall.op = "init" THEN 1 ELSE 0

CosTyped ==
  /\ cosCyclic \in BOOLEAN /\ cosCmd \in BOOLEAN /\ cosAck \in BOOLEAN /\ cosCom \in BOOLEAN
  /\ cosRam \subseteq Cos!AppCos /\ cosDpm \subseteq Cos!AppCos
  /\ cosCall \in CosCallRec /\ cosStack \in StackRec
  /\ cosDev \subseteq Cos!CommCos /\ cosChanged \subseteq Cos!CommCos
  /\ cosChan \subseteq Cos!CommCos

(* What the stack has read is what is in the dual-port memory, unless a     *)
(* change is signalled that it has not read.                                *)
SeenInv ==
  /\ cosCmd = cosAck \/ cosStack.pc = "ack" => cosStack.read = cosDpm
  /\ cosStack.pc = "ack" => cosCmd # cosAck

(* The enable bit of a channel init is never left in the local flags, and   *)
(* every init that was read, or will be, was asked for.                     *)
CountInv ==
  /\ "INITIALIZATION_ENABLE" \notin cosRam
  /\ cosCall.pc # "idle" /\ cosCall.op = "init" => cosCall.wait = TRUE
  /\ cosStack.inits + Unread + InRoom <= cosAsked
  /\ cosAsked <= cosCalls /\ cosCalls <= MaxCalls
  /\ cosAsked \in Nat /\ cosCalls \in Nat

CosInv == CosTyped /\ SeenInv /\ CountInv

LEMMA ChangeSets ==
  ASSUME NEW op \in Cos!Ops
  PROVE  /\ Cos!Change[op].set \subseteq Cos!AppCos
         /\ "INITIALIZATION_ENABLE" \in Cos!Change[op].set => op = "init"
         /\ op = "init" => "INITIALIZATION_ENABLE" \in Cos!Change[op].post
BY DEF Cos!Ops, Cos!Change, Cos!AppCos, Cos!Enables

(* A call that leaves its wait for room ends, or goes on to another wait.   *)
Leaves ==
  \/ cosCall' = Cos!Idle
  \/ \E pc \in Cos!Pcs \ {"room"} : cosCall' = [cosCall EXCEPT !.pc = pc]

LEMMA AfterLeaves == ASSUME NEW ok \in BOOLEAN, Cos!After(ok) PROVE Leaves
<1> DEFINE waits == cosCall.wait /\ (cosCall.op = "bus_off" \/ (cosCall.op = "bus_on" /\ ok))
<1>1. CASE waits
  BY <1>1 DEF Cos!After, Cos!GoTo, Leaves, Cos!Pcs
<1>2. CASE ~waits /\ cosCall.op = "init" /\ ok
  BY <1>2 DEF Cos!After, Cos!GoTo, Leaves, Cos!Pcs
<1>3. CASE ~waits /\ ~(cosCall.op = "init" /\ ok)
  BY <1>3 DEF Cos!After, Cos!Return, Leaves
<1> QED
  BY <1>1, <1>2, <1>3

(* What every step but those that signal a change does to call and flags.   *)
WaitStep ==
  /\ UNCHANGED <<cosCyclic, cosDpm, cosCmd, cosCalls, cosAsked, cosAck, cosChan, cosCom, cosStack>>
  /\ Cos!Poll /\ cosCall.pc # "idle"
  /\ Leaves \/ UNCHANGED cosCall
  /\ \/ UNCHANGED cosRam
     \/ /\ cosCall.pc = "room" /\ cosCall.wait # TRUE
        /\ cosRam' = (cosRam \cup Cos!Change[cosCall.op].set) \ Cos!Change[cosCall.op].clear

LEMMA Waits ==
  ASSUME Cos!PollWhileWaiting \/ Cos!Waiting
  PROVE  WaitStep \/ Cos!Publish
<1>1. CASE Cos!PollWhileWaiting
  BY <1>1 DEF Cos!PollWhileWaiting, WaitStep, Cos!stackVars, Cos!At
<1>2. CASE Cos!Remember
  BY <1>2, AfterLeaves DEF Cos!Remember, WaitStep, Cos!stackVars, Cos!At
<1>3. CASE Cos!NoRoom
  BY <1>3 DEF Cos!NoRoom, WaitStep, Cos!stackVars, Leaves, Cos!Return, Cos!At
<1>4. CASE Cos!Acknowledged
  BY <1>4, AfterLeaves DEF Cos!Acknowledged, WaitStep, Cos!stackVars, Cos!At
<1>5. CASE Cos!NotAcknowledged
  BY <1>5, AfterLeaves DEF Cos!NotAcknowledged, WaitStep, Cos!stackVars, Cos!At
<1>6. CASE Cos!BusStateEnds
  BY <1>6 DEF Cos!BusStateEnds, WaitStep, Cos!stackVars, Leaves, Cos!Return, Cos!At
<1>7. CASE Cos!ChannelInitWaits
  <2>1. Leaves
    BY <1>7 DEF Cos!ChannelInitWaits, Leaves, Cos!Return, Cos!GoTo, Cos!Pcs
  <2> QED
    BY <1>7, <2>1 DEF Cos!ChannelInitWaits, WaitStep, Cos!stackVars, Cos!At
<1> QED
  BY <1>1, <1>2, <1>3, <1>4, <1>5, <1>6, <1>7 DEF Cos!Waiting

LEMMA IdleCall == Cos!Idle \in CosCallRec /\ Cos!Idle.pc = "idle"
BY DEF Cos!Idle, CosCallRec, Cos!Pcs, Cos!Ops, Cos!Change

LEMMA LeavesCall ==
  ASSUME cosCall \in CosCallRec, Leaves \/ UNCHANGED cosCall
  PROVE  /\ cosCall' \in CosCallRec
         /\ cosCall'.pc # "idle" => cosCall'.op = cosCall.op /\ cosCall'.wait = cosCall.wait
         /\ cosCall'.pc = "room" => cosCall' = cosCall
<1>1. CASE cosCall' = Cos!Idle
  BY <1>1, IdleCall
<1>2. ASSUME NEW pc \in Cos!Pcs \ {"room"}, cosCall' = [cosCall EXCEPT !.pc = pc]
      PROVE  /\ cosCall' \in CosCallRec /\ cosCall'.pc = pc
             /\ cosCall'.op = cosCall.op /\ cosCall'.wait = cosCall.wait
  BY <1>2 DEF CosCallRec
<1> QED
  BY <1>1, <1>2 DEF Leaves

LEMMA PollTyped ==
  ASSUME CosTyped, Cos!Poll
  PROVE  cosDev' \subseteq Cos!CommCos /\ cosChanged' \subseteq Cos!CommCos
BY DEF CosTyped, Cos!Poll, Cos!SymDiff

(* Cos!Call: what it begins.                                                *)
LEMMA CallBegins ==
  ASSUME CosTyped, Cos!Call
  PROVE  \E op \in Cos!Ops, wait \in BOOLEAN :
           /\ op = "init" => wait = TRUE
           /\ cosAsked' = IF op = "init" THEN cosAsked + 1 ELSE cosAsked
           /\ \/ /\ op # "init" /\ cosCall' = cosCall
                 /\ cosRam' = (cosRam \cup Cos!Change[op].set) \ Cos!Change[op].clear
              \/ /\ cosRam' = cosRam /\ cosCall' \in CosCallRec
                 /\ \/ cosCall'.pc \in {"room", "com"} /\ cosCall'.op = op
                       /\ cosCall'.wait = wait
                    \/ cosCall'.pc = "idle"
<1> DEFINE begin(pc, op, wait) ==
             [pc |-> pc, op |-> op, wait |-> wait, ran |-> Cos!Running]
<1>1. PICK op \in Cos!Ops, wait \in BOOLEAN :
        /\ op = "init" => wait
        /\ cosAsked' = IF op = "init" THEN cosAsked + 1 ELSE cosAsked
        /\ \/ /\ op \in {"host_ready", "host_not_ready"}
              /\ cosRam' = (cosRam \cup Cos!Change[op].set) \ Cos!Change[op].clear
              /\ UNCHANGED cosCall
           \/ /\ \/ cosCall' = begin("room", op, wait)
                 \/ cosCall' = begin("com", op, wait)
                 \/ cosCall' = Cos!Idle
              /\ UNCHANGED cosRam
  BY Zenon DEF Cos!Call
<1>2. Cos!Running \in BOOLEAN
  BY DEF Cos!Running
<1>3. ASSUME NEW pc \in {"room", "com"}
      PROVE  /\ begin(pc, op, wait) \in CosCallRec
             /\ begin(pc, op, wait).pc = pc /\ begin(pc, op, wait).op = op
             /\ begin(pc, op, wait).wait = wait
  BY <1>2 DEF CosCallRec, Cos!Pcs
<1> HIDE DEF begin
<1> DEFINE begins(o, w) ==
             \/ /\ o # "init" /\ cosCall' = cosCall
                /\ cosRam' = (cosRam \cup Cos!Change[o].set) \ Cos!Change[o].clear
             \/ /\ cosRam' = cosRam /\ cosCall' \in CosCallRec
                /\ \/ cosCall'.pc \in {"room", "com"} /\ cosCall'.op = o /\ cosCall'.wait = w
                   \/ cosCall'.pc = "idle"
<1>4. begins(op, wait)
  <2>1. CASE UNCHANGED cosRam /\ cosCall' = Cos!Idle
    BY <2>1, IdleCall
  <2>2. CASE UNCHANGED cosRam /\ (cosCall' = begin("room", op, wait)
                                  \/ cosCall' = begin("com", op, wait))
    BY <1>3, <2>2
  <2> QED
    BY <1>1, <2>1, <2>2
<1>5. op = "init" => wait = TRUE
  BY <1>1
<1> QED
  BY <1>1, <1>4, <1>5, Zenon

(* Publish and DEV_CheckCOSFlags: how the host signals.                     *)
LEMMA PublishStep ==
  ASSUME CosTyped, Cos!Publish
  PROVE  /\ UNCHANGED <<cosCyclic, cosCalls, cosAsked, cosAck, cosChan, cosCom, cosStack>>
         /\ Cos!Poll /\ Leaves
         /\ cosCall.pc = "room" /\ cosCmd = cosAck /\ cosCmd' # cosAck /\ cosCmd' \in BOOLEAN
         /\ cosDpm' = (cosRam \cup Cos!Change[cosCall.op].set) \ Cos!Change[cosCall.op].clear
         /\ cosRam' = cosDpm' \ Cos!Change[cosCall.op].post
<1>1. Leaves
  BY DEF Cos!Publish, Cos!GoTo, Leaves, Cos!Pcs
<1>2. cosCmd = cosAck /\ cosCmd' = ~cosCmd /\ cosCmd \in BOOLEAN
  BY DEF Cos!Publish, Cos!Equal, CosTyped
<1> QED
  BY <1>1, <1>2 DEF Cos!Publish, Cos!stackVars, Cos!At

LEMMA CheckStep ==
  ASSUME CosTyped, Cos!DEV_CheckCOSFlags
  PROVE  /\ UNCHANGED <<cosCyclic, cosCall, cosCalls, cosAsked, cosAck, cosChan, cosCom, cosStack>>
         /\ cosCall.pc = "idle" /\ cosDev' = cosChan /\ cosChanged' = {}
         /\ \/ UNCHANGED <<cosRam, cosDpm, cosCmd>>
            \/ /\ cosCmd = cosAck /\ cosCmd' # cosAck /\ cosCmd' \in BOOLEAN
               /\ cosDpm' = cosRam /\ cosRam' = cosRam \ Cos!Enables
<1>1. CASE cosRam # cosDpm /\ Cos!Equal
  <2>1. cosCmd = cosAck /\ cosCmd' = ~cosCmd /\ cosCmd \in BOOLEAN
    BY <1>1, Zenon DEF Cos!DEV_CheckCOSFlags, Cos!Equal, CosTyped
  <2> QED
    BY <1>1, <2>1 DEF Cos!DEV_CheckCOSFlags, Cos!stackVars, Cos!At
<1>2. CASE ~(cosRam # cosDpm /\ Cos!Equal)
  BY <1>2 DEF Cos!DEV_CheckCOSFlags, Cos!stackVars, Cos!At
<1> QED
  BY <1>1, <1>2

(* The steps of the stack.                                                  *)
LEMMA StackReadsStep ==
  ASSUME CosTyped, Cos!StackReads
  PROVE  /\ UNCHANGED <<cosCyclic, cosRam, cosDpm, cosCmd, cosCall, cosDev, cosChanged, cosCalls,
                        cosAsked, cosAck, cosCom>>
         /\ cosCmd # cosAck /\ cosStack.pc = "idle"
         /\ cosStack' \in StackRec /\ cosStack'.pc = "ack" /\ cosStack'.read = cosDpm
         /\ cosStack'.inits = cosStack.inits + (IF InitFlags \subseteq cosDpm THEN 1 ELSE 0)
         /\ cosChan' \subseteq Cos!CommCos
<1>1. /\ UNCHANGED <<cosCyclic, cosRam, cosDpm, cosCmd, cosCall, cosDev, cosChanged, cosCalls,
                     cosAsked, cosAck, cosCom>>
      /\ cosCmd # cosAck /\ cosStack.pc = "idle"
  BY DEF Cos!StackReads, Cos!hostVars
<1>2. cosChan' \subseteq Cos!CommCos
  BY DEF Cos!StackReads, CosTyped, Cos!CommCos
<1> DEFINE n == cosStack.inits + (IF InitFlags \subseteq cosDpm THEN 1 ELSE 0)
           r == "APPLICATION_READY" \in cosDpm
           t == cosStack.restart \/ InitFlags \subseteq cosDpm
<1>3. cosStack' = [read |-> cosDpm, pc |-> "ack", ready |-> r, restart |-> t, inits |-> n]
  BY DEF Cos!StackReads, InitFlags
<1>4. n \in Nat
  BY DEF CosTyped, StackRec
<1>5. r \in BOOLEAN /\ t \in BOOLEAN
  BY DEF CosTyped, StackRec
<1>6. cosDpm \in SUBSET Cos!AppCos
  BY DEF CosTyped
<1> HIDE DEF r, t
<1>7. cosStack'.inits = n
  BY <1>3
<1> HIDE DEF n
<1>8. cosStack' \in StackRec /\ cosStack'.pc = "ack" /\ cosStack'.read = cosDpm
  BY <1>3, <1>4, <1>5, <1>6 DEF StackRec
<1> QED
  BY <1>1, <1>2, <1>7, <1>8 DEF n

LEMMA StackOtherStep ==
  ASSUME CosTyped, Cos!StackAcknowledges \/ Cos!StackRestarts \/ Cos!StackCommunicates
  PROVE  /\ UNCHANGED <<cosCyclic, cosRam, cosDpm, cosCmd, cosCall, cosDev, cosChanged, cosCalls,
                        cosAsked>>
         /\ cosStack' \in StackRec /\ cosChan' \subseteq Cos!CommCos /\ cosCom' \in BOOLEAN
         /\ cosStack'.read = cosStack.read /\ cosStack'.inits = cosStack.inits
         /\ cosAck' \in BOOLEAN
         /\ \/ cosAck' = cosAck /\ cosStack'.pc = cosStack.pc
            \/ cosStack.pc = "ack" /\ cosAck' # cosAck /\ cosStack'.pc = "idle"
<1> USE DEF CosTyped, StackRec, Cos!hostVars
<1>1. CASE Cos!StackAcknowledges
  <2>1. cosStack' = [cosStack EXCEPT !.pc = "idle"] /\ cosStack.pc = "ack"
    BY <1>1 DEF Cos!StackAcknowledges
  <2>2. cosAck' \in BOOLEAN /\ cosAck' # cosAck
    BY <1>1 DEF Cos!StackAcknowledges
  <2> QED
    BY <1>1, <2>1, <2>2 DEF Cos!StackAcknowledges
<1>2. CASE Cos!StackRestarts
  <2>1. cosStack' = cosStack \/ cosStack' = [cosStack EXCEPT !.restart = FALSE]
    BY <1>2 DEF Cos!StackRestarts
  <2>2. cosChan' \subseteq Cos!CommCos
    BY <1>2 DEF Cos!StackRestarts, Cos!CommCos
  <2> QED
    BY <1>2, <2>1, <2>2 DEF Cos!StackRestarts
<1>3. CASE Cos!StackCommunicates
  <2>1. cosCom' \in BOOLEAN
    BY <1>3, Zenon DEF Cos!StackCommunicates
  <2> QED
    BY <1>3, <2>1 DEF Cos!StackCommunicates
<1> QED
  BY <1>1, <1>2, <1>3

LEMMA CosTypedStep == ASSUME CosTyped, [Cos!Next]_cosVars PROVE CosTyped'
<1>1. CASE Cos!Call
  <2>1. PICK op \in Cos!Ops, wait \in BOOLEAN :
          \/ /\ op # "init" /\ cosCall' = cosCall
             /\ cosRam' = (cosRam \cup Cos!Change[op].set) \ Cos!Change[op].clear
          \/ cosRam' = cosRam /\ cosCall' \in CosCallRec
    BY <1>1, CallBegins
  <2>2. Cos!Poll /\ UNCHANGED <<cosCyclic, cosDpm, cosCmd, cosAck, cosChan, cosCom, cosStack>>
    BY <1>1 DEF Cos!Call, Cos!stackVars
  <2>3. cosDev' \subseteq Cos!CommCos /\ cosChanged' \subseteq Cos!CommCos
    BY <2>2, PollTyped
  <2>4. cosRam' \subseteq Cos!AppCos /\ cosCall' \in CosCallRec
    BY <2>1, ChangeSets DEF CosTyped
  <2> QED
    BY <2>2, <2>3, <2>4 DEF CosTyped
<1>2. CASE WaitStep
  <2>1. cosDev' \subseteq Cos!CommCos /\ cosChanged' \subseteq Cos!CommCos
    BY <1>2, PollTyped DEF WaitStep
  <2>2. cosCall' \in CosCallRec
    BY <1>2, LeavesCall DEF WaitStep, CosTyped
  <2>3. cosCall.op \in Cos!Ops
    BY DEF CosTyped, CosCallRec
  <2>4. cosRam' \subseteq Cos!AppCos
    BY <1>2, <2>3, ChangeSets DEF WaitStep, CosTyped
  <2> QED
    BY <1>2, <2>1, <2>2, <2>4 DEF WaitStep, CosTyped
<1>3. CASE Cos!Publish
  <2>1. cosDev' \subseteq Cos!CommCos /\ cosChanged' \subseteq Cos!CommCos
    BY <1>3, PollTyped, PublishStep
  <2>2. cosCall' \in CosCallRec
    BY <1>3, LeavesCall, PublishStep DEF CosTyped
  <2>3. cosCall.op \in Cos!Ops
    BY DEF CosTyped, CosCallRec
  <2>4. cosRam' \subseteq Cos!AppCos /\ cosDpm' \subseteq Cos!AppCos
    BY <1>3, <2>3, ChangeSets, PublishStep DEF CosTyped
  <2> QED
    BY <1>3, <2>1, <2>2, <2>4, PublishStep DEF CosTyped
<1>4. CASE Cos!DEV_CheckCOSFlags
  BY <1>4, CheckStep DEF CosTyped
<1>5. CASE Cos!StackReads
  BY <1>5, StackReadsStep DEF CosTyped
<1>6. CASE Cos!StackAcknowledges \/ Cos!StackRestarts \/ Cos!StackCommunicates
  BY <1>6, StackOtherStep DEF CosTyped
<1>7. CASE UNCHANGED cosVars
  BY <1>7 DEF CosTyped, cosVars
<1> QED
  BY <1>1, <1>2, <1>3, <1>4, <1>5, <1>6, <1>7, Waits DEF Cos!Next, Cos!Host, Cos!Stack

LEMMA SeenStep == ASSUME CosTyped, SeenInv, [Cos!Next]_cosVars PROVE SeenInv'
<1> USE DEF SeenInv
<1>1. CASE Cos!Call
  BY <1>1 DEF Cos!Call, Cos!stackVars
<1>2. CASE WaitStep
  BY <1>2 DEF WaitStep
<1>3. CASE Cos!Publish
  BY <1>3, PublishStep
<1>4. CASE Cos!DEV_CheckCOSFlags
  BY <1>4, CheckStep
<1>5. CASE Cos!StackReads
  BY <1>5, StackReadsStep
<1>6. CASE Cos!StackAcknowledges \/ Cos!StackRestarts \/ Cos!StackCommunicates
  BY <1>6, StackOtherStep DEF CosTyped
<1>7. CASE UNCHANGED cosVars
  BY <1>7 DEF cosVars
<1> QED
  BY <1>1, <1>2, <1>3, <1>4, <1>5, <1>6, <1>7, Waits DEF Cos!Next, Cos!Host, Cos!Stack

LEMMA CountStep ==
  ASSUME CosTyped, SeenInv, CountInv, [Cos!Next]_cosVars
  PROVE  CountInv'
<1>0. cosStack.inits \in Nat /\ cosCall.op \in Cos!Ops
  BY DEF CosTyped, StackRec, CosCallRec
<1>1. CASE Cos!Call
  <2>1. PICK op \in Cos!Ops, wait \in BOOLEAN :
          /\ op = "init" => wait = TRUE
          /\ cosAsked' = IF op = "init" THEN cosAsked + 1 ELSE cosAsked
          /\ \/ /\ op # "init" /\ cosCall' = cosCall
                /\ cosRam' = (cosRam \cup Cos!Change[op].set) \ Cos!Change[op].clear
             \/ /\ cosRam' = cosRam /\ cosCall' \in CosCallRec
                /\ \/ cosCall'.pc \in {"room", "com"} /\ cosCall'.op = op
                      /\ cosCall'.wait = wait
                   \/ cosCall'.pc = "idle"
    BY <1>1, CallBegins
  <2>2. UNCHANGED <<cosDpm, cosCmd, cosAck, cosStack>> /\ cosCall.pc = "idle"
        /\ cosCalls < MaxCalls /\ cosCalls' = cosCalls + 1
    BY <1>1 DEF Cos!Call, Cos!stackVars, Cos!At
  <2>3. "INITIALIZATION_ENABLE" \notin cosRam'
    BY <2>1, ChangeSets DEF CountInv
  <2>4. Unread' = Unread /\ InRoom = 0 /\ Unread \in Nat
    BY <2>2 DEF Unread, InRoom
  <2>5. InRoom' = 0 \/ (InRoom' = 1 /\ cosAsked' = cosAsked + 1)
    BY <2>1, <2>2 DEF InRoom
  <2>6. cosCall'.pc # "idle" /\ cosCall'.op = "init" => cosCall'.wait = TRUE
    BY <2>1, <2>2
  <2>7. cosAsked' = cosAsked \/ cosAsked' = cosAsked + 1
    BY <2>1
  <2>8. cosStack'.inits + Unread' + InRoom' <= cosAsked'
    BY <1>0, <2>2, <2>4, <2>5, <2>7 DEF CountInv
  <2> QED
    BY <2>2, <2>3, <2>6, <2>7, <2>8, ToolkitAssumption DEF CountInv
<1>2. CASE WaitStep
  <2>1. UNCHANGED <<cosDpm, cosCmd, cosAck, cosStack, cosCalls, cosAsked>>
    BY <1>2 DEF WaitStep
  <2>2. /\ cosCall'.pc # "idle" => cosCall'.op = cosCall.op /\ cosCall'.wait = cosCall.wait
        /\ cosCall'.pc = "room" => cosCall' = cosCall
    BY <1>2, LeavesCall DEF WaitStep, CosTyped
  <2>3. "INITIALIZATION_ENABLE" \notin cosRam'
    BY <1>0, <1>2, ChangeSets DEF WaitStep, CountInv
  <2>4. Unread' = Unread /\ Unread \in Nat
    BY <2>1 DEF Unread
  <2>5. InRoom' <= InRoom /\ InRoom \in Nat /\ InRoom' \in Nat
    BY <2>2 DEF InRoom
  <2>6. cosCall'.pc # "idle" /\ cosCall'.op = "init" => cosCall'.wait = TRUE
    BY <1>2, <2>2 DEF WaitStep, CountInv
  <2> QED
    BY <1>0, <2>1, <2>3, <2>4, <2>5, <2>6 DEF CountInv
<1>3. CASE Cos!Publish
  <2>1. UNCHANGED <<cosAck, cosStack, cosCalls, cosAsked>> /\ Leaves
        /\ cosCall.pc = "room" /\ cosCmd = cosAck
        /\ cosDpm' = (cosRam \cup Cos!Change[cosCall.op].set) \ Cos!Change[cosCall.op].clear
        /\ cosRam' = cosDpm' \ Cos!Change[cosCall.op].post
    BY <1>3, PublishStep
  <2>2. cosCall'.pc # "idle" => cosCall'.op = cosCall.op /\ cosCall'.wait = cosCall.wait
    BY <2>1, LeavesCall DEF CosTyped
  <2>3. "INITIALIZATION_ENABLE" \notin cosRam'
        /\ ("INITIALIZATION_ENABLE" \in cosDpm' => cosCall.op = "init")
    BY <1>0, <2>1, ChangeSets DEF CountInv
  <2>4. InRoom' = 0
    <3>1. cosCall'.pc # "room"
      BY <2>1, IdleCall DEF Leaves, CosTyped, CosCallRec
    <3> QED
      BY <3>1 DEF InRoom
  <2>5. Unread = 0 /\ Unread' <= InRoom /\ Unread' \in Nat /\ InRoom \in Nat
    BY <2>1, <2>3 DEF Unread, InRoom, InitFlags
  <2> QED
    BY <1>0, <2>1, <2>2, <2>3, <2>4, <2>5 DEF CountInv
<1>4. CASE Cos!DEV_CheckCOSFlags
  <2>1. UNCHANGED <<cosCall, cosAck, cosStack, cosCalls, cosAsked>>
        /\ \/ UNCHANGED <<cosRam, cosDpm, cosCmd>>
           \/ cosDpm' = cosRam /\ cosRam' = cosRam \ Cos!Enables
    BY <1>4, CheckStep
  <2>2. Unread' <= Unread /\ Unread \in Nat /\ Unread' \in Nat
    BY <2>1 DEF Unread, InitFlags, CountInv
  <2>3. InRoom' = InRoom /\ InRoom \in Nat
    BY <2>1 DEF InRoom
  <2>4. "INITIALIZATION_ENABLE" \notin cosRam'
    BY <2>1 DEF CountInv
  <2> QED
    BY <1>0, <2>1, <2>2, <2>3, <2>4 DEF CountInv
<1>5. CASE Cos!StackReads
  <2>1. UNCHANGED <<cosRam, cosCall, cosCalls, cosAsked>>
        /\ cosStack'.inits + Unread' = cosStack.inits + Unread
        /\ cosStack'.inits \in Nat /\ Unread' = 0 /\ Unread \in Nat
    BY <1>0, <1>5, StackReadsStep DEF Unread
  <2>2. InRoom' = InRoom /\ InRoom \in Nat
    BY <2>1 DEF InRoom
  <2> QED
    BY <1>0, <2>1, <2>2 DEF CountInv
<1>6. CASE Cos!StackAcknowledges \/ Cos!StackRestarts \/ Cos!StackCommunicates
  <2>1. UNCHANGED <<cosRam, cosCall, cosCalls, cosAsked, cosDpm, cosCmd>>
        /\ cosStack'.inits = cosStack.inits
    BY <1>6, StackOtherStep
  <2>2. Unread' <= Unread /\ Unread' \in Nat /\ Unread \in Nat
    <3>1. \/ cosAck' = cosAck /\ cosStack'.pc = cosStack.pc
          \/ cosStack.pc = "ack" /\ cosAck' # cosAck
      BY <1>6, StackOtherStep
    <3>2. cosAck' # cosAck /\ cosStack.pc = "ack" => cosCmd = cosAck'
      BY <1>6, StackOtherStep DEF SeenInv, CosTyped
    <3> QED
      BY <2>1, <3>1, <3>2 DEF Unread
  <2>3. InRoom' = InRoom /\ InRoom \in Nat
    BY <2>1 DEF InRoom
  <2> QED
    BY <1>0, <2>1, <2>2, <2>3 DEF CountInv
<1>7. CASE UNCHANGED cosVars
  BY <1>7 DEF CountInv, cosVars, Unread, InRoom
<1> QED
  BY <1>1, <1>2, <1>3, <1>4, <1>5, <1>6, <1>7, Waits DEF Cos!Next, Cos!Host, Cos!Stack

LEMMA CosStart == ASSUME Cos!Init PROVE CosInv
<1>1. /\ cosRam = {} /\ cosDpm = {} /\ cosCmd = FALSE /\ cosAck = FALSE /\ cosCall = Cos!Idle
      /\ cosDev \in {{}, {"READY", "RUN"}} /\ cosChanged = {} /\ cosCalls = 0 /\ cosAsked = 0
      /\ cosChan = {"READY", "RUN"} /\ cosCom = FALSE /\ cosCyclic \in BOOLEAN
      /\ cosStack = [read |-> {}, ready |-> FALSE, inits |-> 0, restart |-> FALSE, pc |-> "idle"]
  BY DEF Cos!Init
<1>2. CosTyped
  BY <1>1, IdleCall DEF CosTyped, StackRec, Cos!CommCos
<1>3. SeenInv
  BY <1>1 DEF SeenInv
<1>4. CountInv
  <2>1. cosCall.pc = "idle"
    BY <1>1, IdleCall
  <2>2. Unread = 0 /\ InRoom = 0 /\ cosStack.inits = 0
    BY <1>1, <2>1 DEF Unread, InRoom
  <2>3. 0 <= MaxCalls
    BY ToolkitAssumption
  <2> QED
    BY <1>1, <2>1, <2>2, <2>3 DEF CountInv
<1> QED
  BY <1>2, <1>3, <1>4 DEF CosInv

LEMMA CosInductive == ASSUME CosInv, [Cos!Next]_cosVars PROVE CosInv'
BY CosTypedStep, SeenStep, CountStep DEF CosInv

LEMMA CosClean == ASSUME CosInv PROVE Cos!TypeOK /\ Cos!InitOnce
<1>1. cosStack.inits \in Nat /\ Unread \in Nat /\ InRoom \in Nat
  BY DEF CosInv, CosTyped, StackRec, Unread, InRoom
<1>2. cosStack.inits <= cosAsked /\ cosAsked \in 0 .. MaxCalls /\ cosCalls \in 0 .. MaxCalls
      /\ cosStack.inits \in 0 .. MaxCalls
  BY <1>1, ToolkitAssumption DEF CosInv, CountInv
<1>3. cosStack \in [read : SUBSET Cos!AppCos, ready : BOOLEAN, inits : 0 .. MaxCalls,
                    restart : BOOLEAN, pc : {"idle", "ack"}]
  BY <1>2 DEF CosInv, CosTyped, StackRec
<1> QED
  BY <1>2, <1>3 DEF CosInv, CosTyped, CosCallRec, Cos!TypeOK, Cos!InitOnce

LEMMA AcknowledgedStep ==
  ASSUME CosInv, [Cos!Next]_cosVars
  PROVE  [Cos!Acknowledged /\ cosCall.wait => cosStack.read = cosDpm]_cosVars
<1>1. cosCall.wait \in BOOLEAN
  BY DEF CosInv, CosTyped, CosCallRec
<1>2. ASSUME Cos!Acknowledged, cosCall.wait = TRUE PROVE cosStack.read = cosDpm
  BY <1>2 DEF CosInv, SeenInv, Cos!Acknowledged, Cos!Equal
<1> QED
  BY <1>1, <1>2

----------------------------------------------------------------------------
(* DeviceTable: for any devices and any number of handles                   *)

TabTyped ==
  /\ tabInitialized \in BOOLEAN /\ tabLost \in BOOLEAN
  /\ tabDrivers \in 0 .. MaxOpen
  /\ tabTable \in Seq(Devices)
  /\ tabAlive \subseteq Devices /\ tabIrqMode \subseteq Devices /\ tabIrqOn \subseteq Devices
  /\ tabFailed \subseteq Devices /\ tabRefused \subseteq Devices
  /\ tabOpened \in [Devices -> [Tab!Channels -> 0 .. MaxOpen]]
  /\ tabHeld \in [Devices -> [Tab!Channels -> 0 .. MaxOpen]]

(* No device is listed twice, each listed one is complete, and the handles  *)
(* the application holds are counted as open.                               *)
TableInv ==
  /\ \A i, j \in 1 .. Len(tabTable) : tabTable[i] = tabTable[j] => i = j
  /\ Tab!Listed \subseteq tabAlive
  /\ \A d \in Devices, c \in Tab!Channels : tabHeld[d][c] <= tabOpened[d][c]
  /\ Tab!InterruptModeHasInterrupts

TabInv == TabTyped /\ TableInv

LEMMA ConcatFacts ==
  ASSUME NEW S, NEW a \in Seq(S), NEW b \in Seq(S)
  PROVE  /\ a \o b \in Seq(S) /\ Len(a \o b) = Len(a) + Len(b)
         /\ \A j \in 1 .. Len(a) + Len(b) :
              (a \o b)[j] = IF j <= Len(a) THEN a[j] ELSE b[j - Len(a)]
OBVIOUS

(* What is left of a sequence when one element is removed.                  *)
LEMMA RemoveAtFacts ==
  ASSUME NEW S, NEW s \in Seq(S), NEW i \in 1 .. Len(s)
  PROVE  /\ Tab!RemoveAt(s, i) \in Seq(S)
         /\ Len(Tab!RemoveAt(s, i)) = Len(s) - 1
         /\ \A j \in 1 .. Len(s) - 1 : Tab!RemoveAt(s, i)[j] = IF j < i THEN s[j] ELSE s[j + 1]
<1> DEFINE a == SubSeq(s, 1, i - 1)
           b == SubSeq(s, i + 1, Len(s))
<1>1. a \in Seq(S) /\ Len(a) = i - 1 /\ \A j \in 1 .. i - 1 : a[j] = s[j]
  OBVIOUS
<1>2. b \in Seq(S) /\ Len(b) = Len(s) - i /\ \A j \in 1 .. Len(s) - i : b[j] = s[i + j]
  OBVIOUS
<1> HIDE DEF a, b
<1>3. /\ a \o b \in Seq(S) /\ Len(a \o b) = Len(s) - 1
      /\ \A j \in 1 .. Len(s) - 1 :
           (a \o b)[j] = IF j <= i - 1 THEN a[j] ELSE b[j - (i - 1)]
  <2>1. a \o b \in Seq(S) /\ Len(a \o b) = Len(a) + Len(b)
    BY <1>1, <1>2, ConcatFacts, Zenon
  <2>2. ASSUME NEW j \in 1 .. Len(a) + Len(b)
        PROVE  (a \o b)[j] = IF j <= Len(a) THEN a[j] ELSE b[j - Len(a)]
    BY <1>1, <1>2, ConcatFacts, Zenon
  <2>3. Len(a) + Len(b) = Len(s) - 1
    BY <1>1, <1>2
  <2> QED
    BY <1>1, <2>1, <2>2, <2>3
<1>4. ASSUME NEW j \in 1 .. Len(s) - 1
      PROVE  (a \o b)[j] = IF j < i THEN s[j] ELSE s[j + 1]
  BY <1>1, <1>2, <1>3
<1> QED
  BY <1>3, <1>4 DEF Tab!RemoveAt, a, b

(* The entry that is removed is the one of the device.                      *)
LEMMA WithoutFacts ==
  ASSUME TabTyped, TableInv, NEW d \in Tab!Listed
  PROVE  \E k \in 1 .. Len(tabTable) :
           tabTable[k] = d /\ Tab!Without(d) = Tab!RemoveAt(tabTable, k)
<1>1. PICK k \in 1 .. Len(tabTable) : tabTable[k] = d
  BY DEF Tab!Listed, TabTyped
<1>2. \A j \in 1 .. Len(tabTable) : tabTable[j] = d => j = k
  BY <1>1 DEF TableInv
<1>3. \A j \in 1 .. k - 1 : tabTable[j] # d
  BY <1>1, <1>2 DEF TabTyped
<1> DEFINE first(i) == tabTable[i] = d /\ \A j \in 1 .. i - 1 : tabTable[j] # d
<1>4. DOMAIN tabTable = 1 .. Len(tabTable)
  BY DEF TabTyped
<1>5. first(k) /\ \A i \in DOMAIN tabTable : first(i) => i = k
  BY <1>1, <1>2, <1>3, <1>4
<1> HIDE DEF first
<1>6. (CHOOSE i \in DOMAIN tabTable : first(i)) = k
  BY <1>1, <1>4, <1>5
<1>7. Tab!Without(d) = Tab!RemoveAt(tabTable, CHOOSE i \in DOMAIN tabTable : first(i))
  BY DEF Tab!Without, first
<1> QED
  BY <1>1, <1>6, <1>7

LEMMA RemovedStep ==
  ASSUME TabTyped, TableInv, NEW d \in Tab!Listed, tabTable' = Tab!Without(d)
  PROVE  /\ tabTable' \in Seq(Devices)
         /\ Tab!Listed' = Tab!Listed \ {d}
         /\ \A i, j \in 1 .. Len(tabTable') : tabTable'[i] = tabTable'[j] => i = j
<1>1. PICK k \in 1 .. Len(tabTable) : tabTable[k] = d /\ tabTable' = Tab!RemoveAt(tabTable, k)
  BY WithoutFacts
<1>2. tabTable \in Seq(Devices)
  BY DEF TabTyped
<1>3. /\ tabTable' \in Seq(Devices) /\ Len(tabTable') = Len(tabTable) - 1
      /\ \A j \in 1 .. Len(tabTable) - 1 :
           tabTable'[j] = IF j < k THEN tabTable[j] ELSE tabTable[j + 1]
  BY <1>1, <1>2, RemoveAtFacts
<1>4. \A i, j \in 1 .. Len(tabTable) : tabTable[i] = tabTable[j] => i = j
  BY DEF TableInv
<1>5. Len(tabTable) \in Nat
  BY <1>2
<1>6. ASSUME NEW i \in 1 .. Len(tabTable'), NEW j \in 1 .. Len(tabTable'),
             tabTable'[i] = tabTable'[j]
      PROVE  i = j
  BY <1>3, <1>4, <1>5, <1>6
<1>7. ASSUME NEW x \in Tab!Listed' PROVE x \in Tab!Listed \ {d}
  <2>1. PICK j \in 1 .. Len(tabTable) - 1 : x = tabTable'[j]
    BY <1>3 DEF Tab!Listed
  <2>2. PICK i \in 1 .. Len(tabTable) : x = tabTable[i] /\ i # k
    BY <1>3, <1>5, <2>1
  <2>3. tabTable[i] # d
    BY <1>1, <1>4, <2>2
  <2> QED
    BY <1>2, <2>2, <2>3 DEF Tab!Listed
<1>8. ASSUME NEW x \in Tab!Listed \ {d} PROVE x \in Tab!Listed'
  <2>1. PICK i \in 1 .. Len(tabTable) : x = tabTable[i] /\ i # k
    BY <1>1, <1>2 DEF Tab!Listed
  <2>2. PICK j \in 1 .. Len(tabTable) - 1 : x = tabTable'[j]
    <3>1. CASE i < k
      BY <1>3, <1>5, <2>1, <3>1
    <3>2. CASE i > k
      <4>1. i - 1 \in 1 .. Len(tabTable) - 1 /\ ~(i - 1 < k) /\ (i - 1) + 1 = i
        BY <1>5, <2>1, <3>2
      <4> QED
        BY <1>3, <2>1, <4>1
    <3> QED
      BY <1>5, <2>1, <3>1, <3>2
  <2> QED
    BY <1>3, <2>2 DEF Tab!Listed
<1> QED
  BY <1>3, <1>6, <1>7, <1>8

LEMMA AppendedStep ==
  ASSUME TabTyped, TableInv, NEW d \in Devices, d \notin Tab!Listed,
         tabTable' = Append(tabTable, d)
  PROVE  /\ tabTable' \in Seq(Devices)
         /\ Tab!Listed' = Tab!Listed \cup {d}
         /\ \A i, j \in 1 .. Len(tabTable') : tabTable'[i] = tabTable'[j] => i = j
<1>1. tabTable \in Seq(Devices) /\ Len(tabTable) \in Nat
  BY DEF TabTyped
<1>2. /\ tabTable' \in Seq(Devices) /\ Len(tabTable') = Len(tabTable) + 1
      /\ \A j \in 1 .. Len(tabTable) : tabTable'[j] = tabTable[j]
      /\ tabTable'[Len(tabTable) + 1] = d
  BY <1>1
<1>3. \A i \in 1 .. Len(tabTable) : tabTable[i] # d
  BY <1>1 DEF Tab!Listed
<1>4. DOMAIN tabTable = 1 .. Len(tabTable) /\ DOMAIN tabTable' = 1 .. Len(tabTable) + 1
  BY <1>1, <1>2
<1>5. ASSUME NEW i \in 1 .. Len(tabTable'), NEW j \in 1 .. Len(tabTable'),
             tabTable'[i] = tabTable'[j]
      PROVE  i = j
  BY <1>1, <1>2, <1>3, <1>5 DEF TableInv
<1>6. Tab!Listed' = Tab!Listed \cup {d}
  BY <1>1, <1>2, <1>4 DEF Tab!Listed
<1> QED
  BY <1>2, <1>5, <1>6

LEMMA EmptyList ==
  ASSUME tabTable' = <<>>
  PROVE  /\ tabTable' \in Seq(Devices) /\ Tab!Listed' = {}
         /\ \A i, j \in 1 .. Len(tabTable') : tabTable'[i] = tabTable'[j] => i = j
BY DEF Tab!Listed

(* The handles after channels are created anew, or devices are stopped.     *)
LEMMA CreateStep ==
  ASSUME TabTyped, TableInv, NEW d \in Devices, NEW ok \in BOOLEAN, Tab!StartDevice(d, ok)
  PROVE  /\ tabOpened' \in [Devices -> [Tab!Channels -> 0 .. MaxOpen]]
         /\ tabHeld' \in [Devices -> [Tab!Channels -> 0 .. MaxOpen]]
         /\ \A e \in Devices, c \in Tab!Channels : tabHeld'[e][c] <= tabOpened'[e][c]
         /\ tabAlive \subseteq tabAlive' /\ (ok = TRUE => d \in tabAlive')
         /\ tabAlive' \subseteq Devices /\ tabFailed' \subseteq Devices
         /\ tabIrqMode' \subseteq Devices
         /\ \A e \in Devices \ {d} : e \in tabIrqMode' => e \in tabIrqMode
<1> USE DEF TabTyped
<1>1. tabAlive \subseteq tabAlive' /\ (ok = TRUE => d \in tabAlive') /\ tabAlive' \subseteq Devices
  BY DEF Tab!StartDevice, Tab!CreateSystemDevice
<1>2. tabFailed' \subseteq Devices
  BY DEF Tab!StartDevice
<1>3. tabIrqMode' \subseteq Devices /\ \A e \in Devices \ {d} : e \in tabIrqMode' => e \in tabIrqMode
  BY DEF Tab!StartDevice, Tab!CheckIRQEnable
<1>4. 0 \in 0 .. MaxOpen /\ MaxOpen \in Nat
  BY ToolkitAssumption
<1>5. /\ tabOpened' \in [Devices -> [Tab!Channels -> 0 .. MaxOpen]]
      /\ tabHeld' \in [Devices -> [Tab!Channels -> 0 .. MaxOpen]]
      /\ \A e \in Devices, c \in Tab!Channels : tabHeld'[e][c] <= tabOpened'[e][c]
  <2>1. CASE ok = TRUE
    <3>1. tabOpened' = [tabOpened EXCEPT ![d]["channel"] = 0]
          /\ tabHeld' = [tabHeld EXCEPT ![d]["channel"] = 0]
      BY <2>1 DEF Tab!StartDevice, Tab!CreateChannels
    <3>2. tabOpened' \in [Devices -> [Tab!Channels -> 0 .. MaxOpen]]
          /\ tabHeld' \in [Devices -> [Tab!Channels -> 0 .. MaxOpen]]
      BY <1>4, <3>1 DEF Tab!Channels
    <3>3. ASSUME NEW e \in Devices, NEW c \in Tab!Channels
          PROVE  tabHeld'[e][c] <= tabOpened'[e][c]
      BY <1>4, <3>1 DEF TableInv, Tab!Channels
    <3> QED
      BY <3>2, <3>3
  <2>2. CASE ok = FALSE
    BY <2>2 DEF Tab!StartDevice, Tab!CreateChannels, TableInv
  <2> QED
    BY <2>1, <2>2
<1> QED
  BY <1>1, <1>2, <1>3, <1>5

LEMMA StopStep ==
  ASSUME TabTyped, TableInv, NEW S, Tab!StopDevices(S)
  PROVE  /\ tabHeld' \in [Devices -> [Tab!Channels -> 0 .. MaxOpen]]
         /\ \A e \in Devices, c \in Tab!Channels : tabHeld'[e][c] <= tabOpened[e][c]
         /\ tabAlive' = tabAlive \ S
<1>1. tabAlive' = tabAlive \ S
      /\ tabHeld' = [d \in Devices |-> IF d \in S THEN [tabHeld[d] EXCEPT !["channel"] = 0]
                                       ELSE tabHeld[d]]
  BY DEF Tab!StopDevices
<1>2. 0 \in 0 .. MaxOpen /\ MaxOpen \in Nat
  BY ToolkitAssumption
<1>3. ASSUME NEW e \in Devices
      PROVE  /\ tabHeld'[e] \in [Tab!Channels -> 0 .. MaxOpen]
             /\ \A c \in Tab!Channels : tabHeld'[e][c] <= tabOpened[e][c]
  <2>1. tabHeld[e] \in [Tab!Channels -> 0 .. MaxOpen]
        /\ tabOpened[e] \in [Tab!Channels -> 0 .. MaxOpen]
        /\ \A c \in Tab!Channels : tabHeld[e][c] <= tabOpened[e][c]
    BY DEF TabTyped, TableInv
  <2>2. CASE e \notin S
    BY <1>1, <2>1, <2>2
  <2>3. CASE e \in S
    <3>1. tabHeld'[e] = [tabHeld[e] EXCEPT !["channel"] = 0]
      BY <1>1, <2>3
    <3>2. ASSUME NEW c \in Tab!Channels
          PROVE  tabHeld'[e][c] \in 0 .. MaxOpen /\ tabHeld'[e][c] <= tabOpened[e][c]
      <4>1. CASE c = "channel"
        <5>1. tabHeld'[e][c] = 0
          BY <2>1, <3>1, <4>1
        <5> QED
          BY <1>2, <2>1, <5>1
      <4>2. CASE c # "channel"
        <5>1. tabHeld'[e][c] = tabHeld[e][c]
          BY <2>1, <3>1, <4>2
        <5> QED
          BY <2>1, <5>1
      <4> QED
        BY <4>1, <4>2
    <3>3. DOMAIN tabHeld'[e] = Tab!Channels /\ tabHeld'[e] = [c \in Tab!Channels |-> tabHeld'[e][c]]
      BY <2>1, <3>1, Zenon
    <3> QED
      BY <3>2, <3>3
  <2> QED
    BY <2>2, <2>3
<1>4. tabHeld' \in [Devices -> [Tab!Channels -> 0 .. MaxOpen]]
  BY <1>1, <1>3
<1> QED
  BY <1>1, <1>3, <1>4

LEMMA TabInductive == ASSUME TabInv, [Tab!Next]_tabVars PROVE TabInv'
<1> USE DEF TabInv
<1>0. MaxOpen \in Nat
  BY ToolkitAssumption
<1>1. ASSUME NEW d \in Devices, Tab!cifXTKitAddDevice(d) PROVE TabInv'
  <2>1. PICK ok \in BOOLEAN : Tab!StartDevice(d, ok) /\ UNCHANGED <<tabInitialized, tabDrivers, tabRefused>>
          /\ \/ ok = FALSE /\ UNCHANGED <<tabTable, tabLost, tabIrqOn>>
             \/ ok = TRUE /\ tabTable' = Append(tabTable, d) /\ tabLost' = tabLost
                /\ Tab!EnableInterrupts(d)
             \/ ok = TRUE /\ tabTable' = <<>> /\ tabLost' = TRUE /\ tabIrqOn' = tabIrqOn
    BY <1>1, Zenon DEF Tab!cifXTKitAddDevice
  <2>2. /\ tabOpened' \in [Devices -> [Tab!Channels -> 0 .. MaxOpen]]
        /\ tabHeld' \in [Devices -> [Tab!Channels -> 0 .. MaxOpen]]
        /\ \A e \in Devices, c \in Tab!Channels : tabHeld'[e][c] <= tabOpened'[e][c]
        /\ tabAlive \subseteq tabAlive' /\ (ok = TRUE => d \in tabAlive')
        /\ tabAlive' \subseteq Devices /\ tabFailed' \subseteq Devices
        /\ tabIrqMode' \subseteq Devices
        /\ \A e \in Devices \ {d} : e \in tabIrqMode' => e \in tabIrqMode
    BY <2>1, CreateStep
  <2>3. d \notin Tab!Listed
    BY <1>1 DEF Tab!cifXTKitAddDevice, Tab!MayAdd
  <2>4. CASE ok = FALSE /\ UNCHANGED <<tabTable, tabLost, tabIrqOn>>
    <3>1. Tab!Listed' = Tab!Listed
      BY <2>4 DEF Tab!Listed
    <3>2. TabTyped'
      BY <2>1, <2>2, <2>4 DEF TabTyped
    <3>3. Tab!InterruptModeHasInterrupts'
      BY <2>1, <2>2, <2>3, <2>4, <3>1 DEF TabTyped, TableInv, Tab!InterruptModeHasInterrupts
    <3> QED
      BY <2>2, <2>4, <3>1, <3>2, <3>3 DEF TableInv
  <2>5. CASE ok = TRUE /\ tabTable' = Append(tabTable, d) /\ tabLost' = tabLost
             /\ Tab!EnableInterrupts(d)
    <3>1. /\ tabTable' \in Seq(Devices)
          /\ Tab!Listed' = Tab!Listed \cup {d}
          /\ \A i, j \in 1 .. Len(tabTable') : tabTable'[i] = tabTable'[j] => i = j
      BY <2>3, <2>5, AppendedStep
    <3>2. /\ tabIrqOn \subseteq tabIrqOn' /\ (d \in tabIrqMode' => d \in tabIrqOn')
          /\ tabIrqOn' \subseteq Devices
      BY <2>5 DEF Tab!EnableInterrupts, TabTyped
    <3>3. TabTyped'
      BY <2>1, <2>2, <2>5, <3>1, <3>2 DEF TabTyped
    <3>4. Tab!InterruptModeHasInterrupts'
      BY <2>1, <2>2, <3>1, <3>2 DEF TabTyped, TableInv, Tab!InterruptModeHasInterrupts, Tab!Listed
    <3> QED
      BY <2>2, <2>5, <3>1, <3>3, <3>4 DEF TableInv
  <2>6. CASE ok = TRUE /\ tabTable' = <<>> /\ tabLost' = TRUE /\ tabIrqOn' = tabIrqOn
    <3>1. /\ tabTable' \in Seq(Devices) /\ Tab!Listed' = {}
          /\ \A i, j \in 1 .. Len(tabTable') : tabTable'[i] = tabTable'[j] => i = j
      BY <2>6, EmptyList
    <3>2. TabTyped'
      BY <2>1, <2>2, <2>6, <3>1 DEF TabTyped
    <3> QED
      BY <2>2, <3>1, <3>2 DEF TableInv, Tab!InterruptModeHasInterrupts
  <2> QED
    BY <2>1, <2>4, <2>5, <2>6
<1>2. ASSUME NEW d \in Devices, NEW force \in BOOLEAN, Tab!cifXTKitRemoveDevice(d, force)
      PROVE  TabInv'
  <2>1. /\ d \in Tab!Listed /\ tabIrqOn \ {d} \subseteq tabIrqOn' /\ tabIrqOn' \subseteq tabIrqOn
        /\ UNCHANGED <<tabInitialized, tabDrivers, tabIrqMode, tabOpened, tabFailed>>
    BY <1>2 DEF Tab!cifXTKitRemoveDevice
  <2>2. CASE /\ tabRefused' = tabRefused \cup {d}
             /\ UNCHANGED <<tabTable, tabLost, tabAlive, tabHeld>>
    <3>1. Tab!Listed' = Tab!Listed
      BY <2>2 DEF Tab!Listed
    <3>2. TabTyped'
      BY <2>1, <2>2 DEF TabTyped
    <3>3. Tab!InterruptModeHasInterrupts'
      BY <2>1, <2>2, <3>1 DEF TableInv, Tab!InterruptModeHasInterrupts
    <3> QED
      BY <2>1, <2>2, <3>1, <3>2, <3>3 DEF TableInv
  <2>3. CASE /\ Tab!StopDevices({d}) /\ tabTable' = Tab!Without(d) /\ tabLost' = tabLost
             /\ tabRefused' = tabRefused \ {d}
    <3>1. /\ tabTable' \in Seq(Devices)
          /\ Tab!Listed' = Tab!Listed \ {d}
          /\ \A i, j \in 1 .. Len(tabTable') : tabTable'[i] = tabTable'[j] => i = j
      BY <2>1, <2>3, RemovedStep
    <3>2. /\ tabHeld' \in [Devices -> [Tab!Channels -> 0 .. MaxOpen]]
          /\ \A e \in Devices, c \in Tab!Channels : tabHeld'[e][c] <= tabOpened[e][c]
          /\ tabAlive' = tabAlive \ {d}
      BY <2>3, StopStep
    <3>3. TabTyped'
      BY <2>1, <2>3, <3>1, <3>2 DEF TabTyped
    <3>4. Tab!InterruptModeHasInterrupts'
      BY <2>1, <2>3, <3>1 DEF TableInv, Tab!InterruptModeHasInterrupts
    <3>5. Tab!Listed' \subseteq tabAlive'
      BY <3>1, <3>2 DEF TableInv
    <3> QED
      BY <2>1, <3>1, <3>2, <3>3, <3>4, <3>5 DEF TableInv
  <2>4. CASE /\ Tab!StopDevices({d}) /\ tabTable' = <<>> /\ tabLost' = TRUE
             /\ tabRefused' = tabRefused \ {d}
    <3>1. /\ tabTable' \in Seq(Devices) /\ Tab!Listed' = {}
          /\ \A i, j \in 1 .. Len(tabTable') : tabTable'[i] = tabTable'[j] => i = j
      BY <2>4, EmptyList
    <3>2. /\ tabHeld' \in [Devices -> [Tab!Channels -> 0 .. MaxOpen]]
          /\ \A e \in Devices, c \in Tab!Channels : tabHeld'[e][c] <= tabOpened[e][c]
          /\ tabAlive' = tabAlive \ {d}
      BY <2>4, StopStep
    <3>3. TabTyped'
      BY <2>1, <2>4, <3>1, <3>2 DEF TabTyped
    <3> QED
      BY <2>1, <3>1, <3>2, <3>3 DEF TableInv, Tab!InterruptModeHasInterrupts
  <2> QED
    BY <1>2, <2>2, <2>3, <2>4, Zenon DEF Tab!cifXTKitRemoveDevice, Tab!ShrinkList
<1>3. ASSUME Tab!Deinit, tabInitialized' \in BOOLEAN PROVE TabInv'
  <2>1. /\ tabTable' = <<>> /\ tabDrivers' = 0 /\ tabRefused' = {}
        /\ UNCHANGED <<tabLost, tabIrqMode, tabIrqOn, tabOpened, tabFailed>>
    BY <1>3 DEF Tab!Deinit
  <2>2. /\ tabTable' \in Seq(Devices) /\ Tab!Listed' = {}
        /\ \A i, j \in 1 .. Len(tabTable') : tabTable'[i] = tabTable'[j] => i = j
    BY <2>1, EmptyList
  <2>3. /\ tabHeld' \in [Devices -> [Tab!Channels -> 0 .. MaxOpen]]
        /\ \A e \in Devices, c \in Tab!Channels : tabHeld'[e][c] <= tabOpened[e][c]
        /\ tabAlive' = tabAlive \ Tab!StoppedByDeinit
    BY <1>3, StopStep DEF Tab!Deinit
  <2>4. tabDrivers' \in 0 .. MaxOpen
    BY <1>0, <2>1
  <2>5. TabTyped'
    BY <1>3, <2>1, <2>2, <2>3, <2>4 DEF TabTyped
  <2> QED
    BY <2>1, <2>2, <2>3, <2>5 DEF TableInv, Tab!InterruptModeHasInterrupts
<1>4. CASE Tab!xDriverOpen \/ Tab!xDriverClose
  <2>1. UNCHANGED <<tabInitialized, tabTable, tabLost, tabAlive, tabIrqMode, tabIrqOn, tabOpened,
                    tabHeld, tabFailed, tabRefused>>
    BY <1>4 DEF Tab!xDriverOpen, Tab!xDriverClose
  <2>2. tabDrivers' \in 0 .. MaxOpen
    BY <1>0, <1>4 DEF Tab!xDriverOpen, Tab!xDriverClose, TabTyped
  <2>3. TabTyped'
    BY <2>1, <2>2 DEF TabTyped
  <2> QED
    BY <2>1, <2>3 DEF TableInv, Tab!InterruptModeHasInterrupts, Tab!Listed
<1>5. ASSUME NEW d \in Devices, NEW c \in Tab!Channels, Tab!Open(d, c) \/ Tab!Close(d, c)
      PROVE  TabInv'
  <2>1. UNCHANGED <<tabInitialized, tabDrivers, tabTable, tabLost, tabAlive, tabIrqMode, tabIrqOn,
                    tabFailed, tabRefused>>
    BY <1>5 DEF Tab!Open, Tab!Close
  <2>2. PICK m, n : /\ tabOpened' = [tabOpened EXCEPT ![d][c] = m]
                    /\ tabHeld' = [tabHeld EXCEPT ![d][c] = n]
                    /\ m \in 0 .. MaxOpen /\ n \in 0 .. MaxOpen /\ n <= m
    <3>0. tabOpened[d][c] \in 0 .. MaxOpen /\ tabHeld[d][c] \in 0 .. MaxOpen
          /\ tabHeld[d][c] <= tabOpened[d][c]
      BY DEF TabTyped, TableInv
    <3>1. CASE Tab!Open(d, c)
      <4> DEFINE m == tabOpened[d][c] + 1
                 n == tabHeld[d][c] + 1
      <4>1. m \in 0 .. MaxOpen /\ n \in 0 .. MaxOpen /\ n <= m
        BY <1>0, <3>0, <3>1 DEF Tab!Open
      <4>2. tabOpened' = [tabOpened EXCEPT ![d][c] = m] /\ tabHeld' = [tabHeld EXCEPT ![d][c] = n]
        BY <3>1 DEF Tab!Open
      <4> QED
        BY <4>1, <4>2, Zenon
    <3>2. CASE Tab!Close(d, c)
      <4> DEFINE m == tabOpened[d][c] - 1
                 n == tabHeld[d][c] - 1
      <4>1. m \in 0 .. MaxOpen /\ n \in 0 .. MaxOpen /\ n <= m
        BY <1>0, <3>0, <3>2 DEF Tab!Close
      <4>2. tabOpened' = [tabOpened EXCEPT ![d][c] = m] /\ tabHeld' = [tabHeld EXCEPT ![d][c] = n]
        BY <3>2 DEF Tab!Close
      <4> QED
        BY <4>1, <4>2, Zenon
    <3> QED
      BY <1>5, <3>1, <3>2
  <2>3. /\ tabOpened' \in [Devices -> [Tab!Channels -> 0 .. MaxOpen]]
        /\ tabHeld' \in [Devices -> [Tab!Channels -> 0 .. MaxOpen]]
        /\ \A e \in Devices, k \in Tab!Channels : tabHeld'[e][k] <= tabOpened'[e][k]
    BY <2>2 DEF TabTyped, TableInv
  <2>4. TabTyped'
    BY <2>1, <2>3 DEF TabTyped
  <2> QED
    BY <2>1, <2>3, <2>4 DEF TableInv, Tab!InterruptModeHasInterrupts, Tab!Listed
<1>6. CASE UNCHANGED tabVars
  BY <1>6 DEF tabVars, TabTyped, TableInv, Tab!InterruptModeHasInterrupts, Tab!Listed
<1> QED
  BY <1>1, <1>2, <1>3, <1>4, <1>5, <1>6, Zenon DEF Tab!Next, Tab!cifXTKitInit, Tab!cifXTKitDeinit

LEMMA TabStart == ASSUME Tab!Init PROVE TabInv
<1>1. /\ tabInitialized = FALSE /\ tabDrivers = 0 /\ tabTable = <<>> /\ tabLost = FALSE
      /\ tabAlive = {} /\ tabIrqMode = {} /\ tabIrqOn = {} /\ tabFailed = {} /\ tabRefused = {}
      /\ tabOpened = [d \in Devices |-> [c \in Tab!Channels |-> 0]] /\ tabHeld = tabOpened
  BY DEF Tab!Init
<1>2. 0 \in 0 .. MaxOpen
  BY ToolkitAssumption
<1>3. TabTyped
  <2>1. /\ tabOpened \in [Devices -> [Tab!Channels -> 0 .. MaxOpen]]
        /\ tabHeld \in [Devices -> [Tab!Channels -> 0 .. MaxOpen]]
    <3>1. [c \in Tab!Channels |-> 0] \in [Tab!Channels -> 0 .. MaxOpen]
      BY <1>2
    <3> QED
      BY <1>1, <3>1
  <2>2. tabTable \in Seq(Devices)
    BY <1>1
  <2> QED
    BY <1>1, <1>2, <2>1, <2>2 DEF TabTyped
<1>4. Tab!Listed = {} /\ Len(tabTable) = 0
  BY <1>1 DEF Tab!Listed
<1>5. \A d \in Devices, c \in Tab!Channels : tabHeld[d][c] <= tabOpened[d][c]
  BY <1>1
<1> QED
  BY <1>3, <1>4, <1>5 DEF TabInv, TableInv, Tab!InterruptModeHasInterrupts

LEMMA SameCardinality == \A S : Tab!Cardinality(S) = Cardinality(S)
BY DEF Tab!Cardinality, Cardinality

(* As many devices are listed as the table has entries.                     *)
LEMMA ListedCount ==
  ASSUME TabInv
  PROVE  /\ IsFiniteSet(Tab!Listed) /\ Cardinality(Tab!Listed) = Len(tabTable)
         /\ Len(tabTable) \in 0 .. Cardinality(Devices)
<1> DEFINE n == Len(tabTable)
<1>1. tabTable \in Seq(Devices) /\ n \in Nat /\ DOMAIN tabTable = 1 .. n
  BY DEF TabInv, TabTyped
<1>2. tabTable \in Surjection(1 .. n, Tab!Listed) /\ tabTable \in Injection(1 .. n, Tab!Listed)
  <2>1. tabTable \in [1 .. n -> Tab!Listed]
    BY <1>1 DEF Tab!Listed
  <2>2. \A d \in Tab!Listed : \E i \in 1 .. n : tabTable[i] = d
    BY <1>1 DEF Tab!Listed
  <2>3. \A i, j \in 1 .. n : tabTable[i] = tabTable[j] => i = j
    BY DEF TabInv, TableInv
  <2> QED
    BY <2>1, <2>2, <2>3 DEF Surjection, Injection, IsInjective
<1>3. IsFiniteSet(1 .. n) /\ Cardinality(1 .. n) = n
  BY <1>1, FS_Interval
<1>4. IsFiniteSet(Tab!Listed) /\ Cardinality(Tab!Listed) = n
  BY <1>2, <1>3, FS_Surjection
<1>5. Tab!Listed \in SUBSET Devices
  BY DEF TabInv, TabTyped, Tab!Listed
<1>6. n <= Cardinality(Devices) /\ Cardinality(Devices) \in Nat
  BY <1>4, <1>5, FS_Subset, FS_CardinalityType, ToolkitAssumption
<1> QED
  BY <1>1, <1>4, <1>6

LEMMA TabClean ==
  ASSUME TabInv
  PROVE  Tab!TypeOK /\ Tab!ListedIsAlive /\ Tab!InterruptModeHasInterrupts
<1>1. tabTable \in [1 .. Len(tabTable) -> Devices]
  BY DEF TabInv, TabTyped
<1>2. tabTable \in UNION {[1 .. n -> Devices] : n \in 0 .. Cardinality(Devices)}
  BY <1>1, ListedCount
<1>3. Tab!TypeOK
  <2>1. Tab!Cardinality(Devices) = Cardinality(Devices)
    BY SameCardinality
  <2>2. {tabAlive, tabIrqMode, tabIrqOn, tabFailed, tabRefused} \subseteq SUBSET Devices
    BY DEF TabInv, TabTyped
  <2> QED
    BY <1>2, <2>1, <2>2 DEF TabInv, TabTyped, Tab!TypeOK
<1>4. Tab!Cardinality(Tab!Listed) = Len(tabTable)
  BY ListedCount, SameCardinality
<1> QED
  BY <1>3, <1>4 DEF TabInv, TableInv, Tab!ListedIsAlive

LEMMA KeepsStep ==
  ASSUME TabInv
  PROVE  \A d \in Devices :
           Tab!cifXTKitRemoveDevice(d, FALSE) /\ tabTable' # tabTable
             => \A c \in Tab!Channels : tabHeld[d][c] = 0
<1> SUFFICES ASSUME NEW d \in Devices, Tab!cifXTKitRemoveDevice(d, FALSE), tabTable' # tabTable,
                    NEW c \in Tab!Channels
             PROVE  tabHeld[d][c] = 0
  OBVIOUS
<1>1. tabOpened[d][c] = 0
  BY DEF Tab!cifXTKitRemoveDevice, Tab!InUse
<1> QED
  BY <1>1 DEF TabInv, TabTyped, TableInv

(* Deinit stops the devices at the odd positions.                           *)
LEMMA DeinitStep ==
  ASSUME TabInv, Tab!Deinit
  PROVE  Cardinality((Tab!Listed \cap tabAlive') \ tabFailed) <= Len(tabTable) \div 2
<1> DEFINE n == Len(tabTable)
           h == n \div 2
           even == {tabTable[2 * k] : k \in 1 .. h}
<1>1. tabTable \in Seq(Devices) /\ n \in Nat /\ DOMAIN tabTable = 1 .. n
  BY DEF TabInv, TabTyped
<1>2. h \in Nat /\ 2 * h <= n
  BY <1>1
<1>3. ASSUME NEW i \in 1 .. n, i % 2 # 1 PROVE \E k \in 1 .. h : i = 2 * k
  <2>1. i \div 2 \in 1 .. h /\ i = 2 * (i \div 2)
    BY <1>1, <1>3
  <2> QED
    BY <2>1
<1>4. tabAlive' = tabAlive \ Tab!StoppedByDeinit
  BY DEF Tab!Deinit, Tab!StopDevices
<1>5. (Tab!Listed \cap tabAlive') \ tabFailed \subseteq even
  <2> SUFFICES ASSUME NEW d \in Tab!Listed, d \in tabAlive' PROVE d \in even
    OBVIOUS
  <2>1. PICK i \in 1 .. n : d = tabTable[i]
    BY <1>1 DEF Tab!Listed
  <2>2. i % 2 # 1
    BY <1>1, <1>4, <2>1 DEF Tab!StoppedByDeinit
  <2>3. PICK k \in 1 .. h : i = 2 * k
    BY <1>3, <2>2
  <2> QED
    BY <2>1, <2>3
<1>6. IsFiniteSet(even) /\ Cardinality(even) <= h
  <2> DEFINE g == [k \in 1 .. h |-> tabTable[2 * k]]
  <2>1. g \in Surjection(1 .. h, even)
    BY DEF Surjection
  <2>2. IsFiniteSet(1 .. h) /\ Cardinality(1 .. h) = h
    BY <1>2, FS_Interval
  <2> HIDE DEF g, h, even
  <2> QED
    BY <2>1, <2>2, FS_Surjection
<1>7. Cardinality((Tab!Listed \cap tabAlive') \ tabFailed) <= Cardinality(even)
      /\ Cardinality((Tab!Listed \cap tabAlive') \ tabFailed) \in Nat /\ Cardinality(even) \in Nat
  <2> HIDE DEF even
  <2> QED
    BY <1>5, <1>6, FS_Subset, FS_CardinalityType
<1> QED
  BY <1>2, <1>6, <1>7

----------------------------------------------------------------------------
(* FlashUpdate: for any number of files and of exchanges that fail          *)

FileRec   == [kind : Flash!Kinds, new : BOOLEAN]
JobRec    == [pc : {"idle", "list", "delete", "load"}, kind : Flash!Kinds, ch : Flash!Channels,
              from : Flash!Channels, keep : BOOLEAN, first : BOOLEAN, cursor : Nat]
ConfigRec == [firmware : BOOLEAN, modules : [Flash!Channels -> BOOLEAN]]

FlashTyped ==
  /\ flashModuleLoad \in BOOLEAN
  /\ flashFlash \in [Flash!Channels -> Seq(FileRec)]
  /\ flashJob \in JobRec /\ flashConfig \in ConfigRec
  /\ flashFiles \in 0 .. MaxFiles /\ flashFaults \in 0 .. MaxFaults

(* A directory has as many entries as it had at the start and as files were *)
(* loaded, one less while one of them still is.                             *)
Room(job) == IF job.pc = "idle" THEN 3 ELSE 2

RoomInv ==
  /\ \A ch \in Flash!Channels : Len(flashFlash[ch]) <= flashFiles + Room(flashJob)
  /\ flashJob.cursor <= flashFiles + 3
  /\ flashJob.pc # "idle" => flashFiles >= 1 /\ flashJob.cursor <= flashFiles + 2

(* What a download keeps, and what the file that it deletes is.             *)
JobInv ==
  /\ flashJob.pc # "idle" =>
       \/ flashJob.kind = "firmware" /\ flashJob.ch = 0 /\ flashJob.keep = FALSE
       \/ flashJob.kind = "module" /\ flashJob.from = flashJob.ch /\ flashJob.keep = TRUE
  /\ flashJob.pc = "delete" =>
       /\ flashJob.first = TRUE
       /\ flashJob.cursor \in 1 .. Len(flashFlash[flashJob.from])
       /\ flashFlash[flashJob.from][flashJob.cursor].kind # "short"
       /\ flashJob.keep = TRUE =>
            flashFlash[flashJob.from][flashJob.cursor].kind # "firmware"

Short(ch) == \A file \in Flash!Listed(ch) : file.kind = "short"

(* A search for the files to delete leaves nothing behind it, unless an     *)
(* exchange failed.                                                         *)
ScanInv ==
  flashJob.pc # "idle" /\ flashJob.kind = "firmware" =>
    /\ \A ch \in Flash!Channels : flashJob.pc = "load" \/ ch < flashJob.from => Short(ch)
    /\ flashJob.pc = "list" /\ flashJob.first # TRUE =>
         \A i \in 1 .. Len(flashFlash[flashJob.from]) :
           i <= flashJob.cursor => flashFlash[flashJob.from][i].kind = "short"

NewInv ==
  flashConfig.firmware = TRUE =>
    \A ch \in Flash!Channels : \A file \in Flash!Listed(ch) :
      file.kind # "short" => file.new = TRUE

(* A module that is to be started is there, and not the one that is being   *)
(* replaced; while firmware is loaded nothing need be.                      *)
StartInv ==
  flashJob.pc = "idle" \/ flashJob.kind # "firmware" =>
    \A ch \in Flash!Channels : flashConfig.modules[ch] = TRUE =>
      /\ Flash!Identical("module", ch)
      /\ flashJob.pc = "idle" \/ flashJob.ch # ch

FlashInv ==
  /\ FlashTyped /\ RoomInv /\ JobInv
  /\ flashFaults = 0 => ScanInv /\ NewInv /\ StartInv

LEMMA NoJobFacts ==
  /\ Flash!NoJob \in JobRec /\ Flash!NoJob.pc = "idle" /\ Flash!NoJob.cursor = 0
  /\ Flash!NoModules \in [Flash!Channels -> BOOLEAN]
  /\ \A ch \in Flash!Channels : Flash!NoModules[ch] = FALSE
<1>1. Flash!NoModules \in [Flash!Channels -> BOOLEAN]
      /\ \A ch \in Flash!Channels : Flash!NoModules[ch] = FALSE
  BY DEF Flash!NoModules
<1> QED
  BY <1>1 DEF Flash!NoJob, JobRec, Flash!Kinds, Flash!Channels

(* The directory after a file is deleted, and after one is loaded.          *)
LEMMA RemovedElements ==
  ASSUME NEW S, NEW s \in Seq(S), NEW k \in 1 .. Len(s)
  PROVE  /\ Flash!RemoveAt(s, k) \in Seq(S)
         /\ Len(Flash!RemoveAt(s, k)) = Len(s) - 1
         /\ \A j \in 1 .. Len(s) - 1 : \E i \in 1 .. Len(s) : Flash!RemoveAt(s, k)[j] = s[i]
         /\ \A i \in 1 .. Len(s) :
              i # k => \E j \in 1 .. Len(s) - 1 : Flash!RemoveAt(s, k)[j] = s[i]
<1> DEFINE r == Tab!RemoveAt(s, k)
<1>1. Flash!RemoveAt(s, k) = r
  BY DEF Flash!RemoveAt, Tab!RemoveAt
<1>2. /\ r \in Seq(S) /\ Len(r) = Len(s) - 1
      /\ \A j \in 1 .. Len(s) - 1 : r[j] = IF j < k THEN s[j] ELSE s[j + 1]
  BY RemoveAtFacts
<1> HIDE DEF r
<1>3. Len(s) \in Nat
  OBVIOUS
<1>4. ASSUME NEW j \in 1 .. Len(s) - 1 PROVE \E i \in 1 .. Len(s) : r[j] = s[i]
  BY <1>2, <1>3
<1>5. ASSUME NEW i \in 1 .. Len(s), i # k PROVE \E j \in 1 .. Len(s) - 1 : r[j] = s[i]
  <2>1. CASE i < k
    BY <1>2, <1>3, <2>1
  <2>2. CASE i > k
    <3>1. i - 1 \in 1 .. Len(s) - 1 /\ ~(i - 1 < k) /\ (i - 1) + 1 = i
      BY <1>3, <2>2
    <3> QED
      BY <1>2, <3>1
  <2> QED
    BY <1>3, <1>5, <2>1, <2>2
<1> QED
  BY <1>1, <1>2, <1>4, <1>5

LEMMA DeletedStep ==
  ASSUME FlashTyped, NEW k \in 1 .. Len(flashFlash[flashJob.from]),
         flashFlash' = [flashFlash EXCEPT ![flashJob.from] = Flash!RemoveAt(@, k)]
  PROVE  /\ flashFlash' \in [Flash!Channels -> Seq(FileRec)]
         /\ \A ch \in Flash!Channels :
              /\ Len(flashFlash'[ch]) <= Len(flashFlash[ch])
              /\ Flash!Listed(ch)' \subseteq Flash!Listed(ch)
              /\ \A f \in Flash!Listed(ch) :
                   (ch = flashJob.from /\ f = flashFlash[ch][k]) \/ f \in Flash!Listed(ch)'
<1> DEFINE from == flashJob.from
           s == flashFlash[from]
           r == Flash!RemoveAt(s, k)
<1>1. from \in Flash!Channels /\ s \in Seq(FileRec)
  BY DEF FlashTyped, JobRec
<1>2. /\ r \in Seq(FileRec) /\ Len(r) = Len(s) - 1
      /\ \A j \in 1 .. Len(s) - 1 : \E i \in 1 .. Len(s) : r[j] = s[i]
      /\ \A i \in 1 .. Len(s) : i # k => \E j \in 1 .. Len(s) - 1 : r[j] = s[i]
  <2>1. k \in 1 .. Len(s)
    OBVIOUS
  <2> HIDE DEF s, from
  <2> QED
    BY <1>1, <2>1, RemovedElements, ZenonT(30) DEF r
<1>3. flashFlash' = [flashFlash EXCEPT ![from] = r]
  OBVIOUS
<1> HIDE DEF r
<1>4. flashFlash' \in [Flash!Channels -> Seq(FileRec)]
  BY <1>1, <1>2, <1>3 DEF FlashTyped
<1>5. ASSUME NEW ch \in Flash!Channels
      PROVE  /\ Len(flashFlash'[ch]) <= Len(flashFlash[ch])
             /\ Flash!Listed(ch)' \subseteq Flash!Listed(ch)
             /\ \A f \in Flash!Listed(ch) :
                  (ch = from /\ f = flashFlash[ch][k]) \/ f \in Flash!Listed(ch)'
  <2>1. CASE ch # from
    BY <1>1, <1>3, <2>1 DEF FlashTyped, Flash!Listed
  <2>2. CASE ch = from
    <3>1. flashFlash'[ch] = r /\ flashFlash[ch] = s
      BY <1>1, <1>3, <2>2 DEF FlashTyped
    <3>2. DOMAIN r = 1 .. Len(s) - 1 /\ DOMAIN s = 1 .. Len(s) /\ Len(s) \in Nat
      BY <1>1, <1>2
    <3>3. Flash!Listed(ch) = {s[i] : i \in 1 .. Len(s)}
          /\ Flash!Listed(ch)' = {r[j] : j \in 1 .. Len(s) - 1}
      BY <3>1, <3>2 DEF Flash!Listed
    <3> HIDE DEF s
    <3> QED
      BY <1>2, <2>2, <3>1, <3>2, <3>3
  <2> QED
    BY <2>1, <2>2
<1> QED
  BY <1>4, <1>5

LEMMA LoadedStep ==
  ASSUME FlashTyped, NEW file \in FileRec,
         flashFlash' = [flashFlash EXCEPT ![flashJob.ch] = Append(@, file)]
  PROVE  /\ flashFlash' \in [Flash!Channels -> Seq(FileRec)]
         /\ \A ch \in Flash!Channels :
              /\ Len(flashFlash'[ch]) <= Len(flashFlash[ch]) + 1
              /\ Flash!Listed(ch)' = Flash!Listed(ch)
                                      \cup (IF ch = flashJob.ch THEN {file} ELSE {})
<1> DEFINE to == flashJob.ch
           s == flashFlash[to]
<1>1. to \in Flash!Channels /\ s \in Seq(FileRec)
  BY DEF FlashTyped, JobRec
<1>2. flashFlash' = [flashFlash EXCEPT ![to] = Append(s, file)]
  OBVIOUS
<1>3. /\ Append(s, file) \in Seq(FileRec) /\ Len(Append(s, file)) = Len(s) + 1
      /\ DOMAIN Append(s, file) = 1 .. Len(s) + 1 /\ DOMAIN s = 1 .. Len(s) /\ Len(s) \in Nat
      /\ \A i \in 1 .. Len(s) : Append(s, file)[i] = s[i]
      /\ Append(s, file)[Len(s) + 1] = file
  BY <1>1
<1>4. flashFlash' \in [Flash!Channels -> Seq(FileRec)]
  BY <1>1, <1>2, <1>3 DEF FlashTyped
<1>5. ASSUME NEW ch \in Flash!Channels, ch # to
      PROVE  flashFlash'[ch] = flashFlash[ch] /\ Len(flashFlash[ch]) \in Nat
  BY <1>1, <1>2, <1>5 DEF FlashTyped
<1>6. flashFlash'[to] = Append(s, file)
  BY <1>1, <1>2 DEF FlashTyped
<1>7. ASSUME NEW ch \in Flash!Channels, ch = to
      PROVE  Flash!Listed(ch)' = Flash!Listed(ch) \cup {file}
  <2> DEFINE a == Append(s, file)
             n == Len(s)
  <2>1. Flash!Listed(ch) = {s[i] : i \in 1 .. n}
    BY <1>3, <1>7 DEF Flash!Listed
  <2>2. Flash!Listed(ch)' = {a[i] : i \in 1 .. n + 1}
    BY <1>3, <1>6, <1>7 DEF Flash!Listed
  <2>3. n \in Nat /\ a[n + 1] = file /\ \A i \in 1 .. n : a[i] = s[i]
    BY <1>3
  <2> HIDE DEF a, n, s
  <2> QED
    BY <2>1, <2>2, <2>3
<1>8. ASSUME NEW ch \in Flash!Channels
      PROVE  /\ Len(flashFlash'[ch]) <= Len(flashFlash[ch]) + 1
             /\ Flash!Listed(ch)' = Flash!Listed(ch) \cup (IF ch = to THEN {file} ELSE {})
  <2>1. CASE ch = to
    BY <1>3, <1>6, <1>7, <2>1
  <2>2. CASE ch # to
    BY <1>5, <2>2 DEF Flash!Listed
  <2> QED
    BY <2>1, <2>2
<1> QED
  BY <1>4, <1>8

(* How an exchange ends, and what the bounds come to.                       *)
Exchanged ==
  \/ flashFaults' = flashFaults
  \/ flashFaults < MaxFaults /\ flashFaults' = flashFaults + 1

LEMMA ExchangedTyped ==
  ASSUME FlashTyped, Exchanged
  PROVE  flashFaults' \in 0 .. MaxFaults /\ (flashFaults' = 0 => flashFaults = 0)
BY ToolkitAssumption DEF FlashTyped, Exchanged

(* DEV_ProcessFWDownload: nothing happens, the file is there already, or    *)
(* the files to remove are searched for.                                    *)
LEMMA ProcessStep ==
  ASSUME FlashTyped, NEW kind \in {"firmware", "module", "other"}, NEW ch \in Flash!Channels,
         Flash!DEV_ProcessFWDownload(kind, ch)
  PROVE  /\ UNCHANGED <<flashFlash, flashModuleLoad>> /\ flashJob.pc = "idle"
         /\ flashFiles < MaxFiles /\ flashFiles' = flashFiles + 1 /\ Exchanged
         /\ \/ UNCHANGED <<flashJob, flashConfig>>
            \/ /\ UNCHANGED flashJob /\ flashConfig' \in ConfigRec
               /\ flashConfig'.firmware = flashConfig.firmware
               /\ \A c \in Flash!Channels : flashConfig'.modules[c] = TRUE =>
                    flashConfig.modules[c] = TRUE \/ Flash!Identical("module", c)
            \/ /\ UNCHANGED flashConfig /\ ~Flash!Identical(kind, ch) /\ flashJob' \in JobRec
               /\ flashJob'.pc = "list" /\ flashJob'.kind = kind /\ flashJob'.ch = ch
               /\ flashJob'.first = TRUE /\ flashJob'.cursor = 0
               /\ \/ kind = "firmware" /\ ch = 0 /\ flashJob'.from = 0 /\ flashJob'.keep = FALSE
                  \/ kind = "module" /\ flashJob'.from = ch /\ flashJob'.keep = TRUE
<1>1. /\ UNCHANGED <<flashFlash, flashModuleLoad>> /\ flashJob.pc = "idle"
      /\ flashFiles < MaxFiles /\ flashFiles' = flashFiles + 1 /\ Exchanged
  BY DEF Flash!DEV_ProcessFWDownload, Flash!Ok, Flash!Fails, Exchanged
<1>2. CASE Flash!Skipped(kind, ch)
  <2>1. UNCHANGED flashJob /\ Flash!Identical(kind, ch)
    BY <1>2 DEF Flash!Skipped
  <2>2. \/ flashConfig' = [flashConfig EXCEPT !.modules = Flash!NoModules]
        \/ kind = "module" /\ flashConfig' = [flashConfig EXCEPT !.modules[ch] = TRUE]
        \/ flashConfig' = flashConfig
    <3>1. CASE kind = "firmware"
      BY <1>2, <3>1 DEF Flash!Skipped
    <3>2. CASE kind = "module" /\ flashModuleLoad
      BY <1>2, <3>2 DEF Flash!Skipped
    <3>3. CASE kind # "firmware" /\ ~(kind = "module" /\ flashModuleLoad)
      BY <1>2, <3>3 DEF Flash!Skipped
    <3> QED
      BY <3>1, <3>2, <3>3
  <2>3. /\ flashConfig' \in ConfigRec /\ flashConfig'.firmware = flashConfig.firmware
        /\ \A c \in Flash!Channels : flashConfig'.modules[c] = TRUE =>
             flashConfig.modules[c] = TRUE \/ (kind = "module" /\ c = ch)
    BY <2>2, NoJobFacts DEF FlashTyped, ConfigRec
  <2> QED
    BY <1>1, <2>1, <2>3
<1>3. CASE Flash!Needed(kind, ch)
  <2>1. UNCHANGED flashConfig /\ ~Flash!Identical(kind, ch)
    BY <1>3 DEF Flash!Needed
  <2>2. CASE ~Flash!Loadable(kind, ch)
    BY <1>1, <1>3, <2>2 DEF Flash!Needed
  <2>3. CASE Flash!Loadable(kind, ch)
    <3> DEFINE from == IF kind = "firmware" THEN 0 ELSE ch
               keep == kind = "module"
               job == [Flash!NoJob EXCEPT !.pc = "list", !.kind = kind, !.ch = ch,
                         !.from = from, !.keep = keep]
    <3>1. flashJob' = job
      BY <1>3, <2>3 DEF Flash!Needed
    <3>2. from \in Flash!Channels /\ keep \in BOOLEAN /\ kind \in Flash!Kinds
      BY DEF Flash!Channels, Flash!Kinds
    <3>3. \/ kind = "firmware" /\ ch = 0 /\ from = 0 /\ keep = FALSE
          \/ kind = "module" /\ from = ch /\ keep = TRUE
      BY <2>3 DEF Flash!Loadable
    <3> HIDE DEF from, keep
    <3>4. job \in JobRec /\ job.pc = "list" /\ job.kind = kind /\ job.ch = ch /\ job.first = TRUE
          /\ job.cursor = 0 /\ job.from = from /\ job.keep = keep
      BY <3>2 DEF Flash!NoJob, JobRec
    <3> HIDE DEF job
    <3> QED
      BY <1>1, <2>1, <3>1, <3>3, <3>4
  <2> QED
    BY <2>2, <2>3
<1>4. CASE UNCHANGED <<flashJob, flashConfig>>
  BY <1>1, <1>4
<1> QED
  BY <1>2, <1>3, <1>4 DEF Flash!DEV_ProcessFWDownload

LEMMA NextChannelStep ==
  ASSUME FlashTyped, flashJob' = Flash!NextChannel
  PROVE  /\ flashJob' \in JobRec /\ flashJob'.kind = flashJob.kind /\ flashJob'.ch = flashJob.ch
         /\ flashJob'.keep = flashJob.keep /\ flashJob'.cursor = flashJob.cursor
         /\ \/ /\ flashJob.kind = "firmware" /\ flashJob'.pc = flashJob.pc
               /\ flashJob.from = 0 /\ flashJob'.from = 1 /\ flashJob'.first = TRUE
            \/ /\ flashJob'.pc = "load" /\ flashJob'.from = flashJob.from
               /\ flashJob.kind = "firmware" => flashJob.from = 1
<1>0. flashJob \in JobRec
  BY DEF FlashTyped
<1>1. CASE flashJob.kind = "firmware" /\ flashJob.from + 1 \in Flash!Channels
  <2>1. flashJob.from = 0
    BY <1>0, <1>1 DEF JobRec, Flash!Channels
  <2>2. flashJob' = [flashJob EXCEPT !.from = 1, !.first = TRUE]
    BY <1>1, <2>1 DEF Flash!NextChannel
  <2> QED
    BY <1>0, <1>1, <2>1, <2>2 DEF JobRec, Flash!Channels
<1>2. CASE ~(flashJob.kind = "firmware" /\ flashJob.from + 1 \in Flash!Channels)
  <2>1. flashJob' = [flashJob EXCEPT !.pc = "load"]
    BY <1>2 DEF Flash!NextChannel
  <2>2. flashJob.kind = "firmware" => flashJob.from = 1
    BY <1>0, <1>2 DEF JobRec, Flash!Channels
  <2> QED
    BY <1>0, <2>1, <2>2 DEF JobRec
<1> QED
  BY <1>1, <1>2

(* FindFile: the next channel, or the entry after the last one.             *)
Next1 == IF flashJob.first = TRUE THEN 1 ELSE flashJob.cursor + 1

LEMMA FindStep ==
  ASSUME FlashTyped, Flash!FindFile
  PROVE  /\ UNCHANGED <<flashFlash, flashModuleLoad, flashConfig, flashFiles>>
         /\ flashJob.pc = "list" /\ Exchanged
         /\ \/ /\ flashJob' = Flash!NextChannel
               /\ flashFaults' = 0 => Next1 > Len(flashFlash[flashJob.from])
            \/ /\ flashJob' \in JobRec
               /\ flashJob'.kind = flashJob.kind /\ flashJob'.ch = flashJob.ch
               /\ flashJob'.keep = flashJob.keep /\ flashJob'.from = flashJob.from
               /\ flashJob'.cursor = Next1
               /\ Next1 \in 1 .. Len(flashFlash[flashJob.from])
               /\ LET file == flashFlash[flashJob.from][Next1]
                      stays == flashJob.keep = TRUE /\ file.kind = "firmware"
                  IN \/ /\ flashJob'.pc = "delete" /\ flashJob'.first = TRUE
                        /\ file.kind # "short" /\ ~stays
                     \/ /\ flashJob'.pc = "list" /\ (file.kind = "short" \/ stays)
                        /\ flashJob'.first # TRUE => flashJob.first # TRUE \/ file.kind = "short"
<1> DEFINE from == flashJob.from
           dir == flashFlash[from]
           file == dir[Next1]
<1>0. flashJob \in JobRec /\ from \in Flash!Channels /\ dir \in Seq(FileRec)
      /\ flashJob.first \in BOOLEAN /\ flashJob.keep \in BOOLEAN /\ flashJob.cursor \in Nat
      /\ flashFaults \in Nat
  BY ToolkitAssumption DEF FlashTyped, JobRec
<1>1. /\ UNCHANGED <<flashFlash, flashModuleLoad, flashConfig, flashFiles>>
      /\ flashJob.pc = "list" /\ Exchanged
  BY DEF Flash!FindFile, Flash!Ok, Flash!Fails, Exchanged
<1>2. Next1 \in Nat /\ Next1 >= 1 /\ DOMAIN dir = 1 .. Len(dir) /\ Len(dir) \in Nat
  BY <1>0 DEF Next1
<1>3. Flash!Found = IF Next1 \in DOMAIN dir THEN Next1 ELSE 0
  BY <1>0 DEF Flash!Found, Next1
<1>4. CASE Flash!Fails /\ flashJob' = Flash!NextChannel
  <2>1. flashFaults' # 0
    BY <1>0, <1>4 DEF Flash!Fails
  <2> QED
    BY <1>1, <1>4, <2>1
<1>5. CASE Flash!Found = 0 /\ flashJob' = Flash!NextChannel
  <2>1. Next1 > Len(dir)
    BY <1>2, <1>3, <1>5
  <2> QED
    BY <1>1, <1>5, <2>1
<1>6. CASE /\ Flash!Found # 0
           /\ flashJob' = [flashJob EXCEPT
                !.pc = IF Flash!Deletable(flashFlash[flashJob.from][Flash!Found])
                       THEN "delete" ELSE @,
                !.cursor = Flash!Found,
                !.first = IF Flash!Deletable(flashFlash[flashJob.from][Flash!Found]) THEN TRUE
                          ELSE @ /\ flashFlash[flashJob.from][Flash!Found].kind # "short"]
  <2>1. Flash!Found = Next1 /\ Next1 \in 1 .. Len(dir)
    BY <1>2, <1>3, <1>6
  <2>2. file.kind # "short" /\ ~(flashJob.keep = TRUE /\ file.kind = "firmware")
        <=> Flash!Deletable(file)
    BY <1>0 DEF Flash!Deletable
  <2>3. CASE Flash!Deletable(file)
    <3>1. flashJob' = [flashJob EXCEPT !.pc = "delete", !.cursor = Next1, !.first = TRUE]
      BY <1>6, <2>1, <2>3
    <3>2. flashJob' \in JobRec /\ flashJob'.kind = flashJob.kind /\ flashJob'.ch = flashJob.ch
          /\ flashJob'.keep = flashJob.keep /\ flashJob'.from = flashJob.from
          /\ flashJob'.cursor = Next1 /\ flashJob'.pc = "delete" /\ flashJob'.first = TRUE
      BY <1>0, <1>2, <3>1 DEF JobRec
    <3> QED
      BY <1>1, <2>1, <2>2, <2>3, <3>2
  <2>4. CASE ~Flash!Deletable(file)
    <3> DEFINE first == flashJob.first /\ file.kind # "short"
    <3>1. flashJob' = [flashJob EXCEPT !.cursor = Next1, !.first = first]
      BY <1>0, <1>6, <2>1, <2>4 DEF JobRec
    <3>2. first \in BOOLEAN
      OBVIOUS
    <3>3. first # TRUE => flashJob.first # TRUE \/ file.kind = "short"
      BY <1>0
    <3> HIDE DEF first
    <3>4. flashJob' \in JobRec /\ flashJob'.kind = flashJob.kind /\ flashJob'.ch = flashJob.ch
          /\ flashJob'.keep = flashJob.keep /\ flashJob'.from = flashJob.from
          /\ flashJob'.cursor = Next1 /\ flashJob'.pc = flashJob.pc /\ flashJob'.first = first
      BY <1>0, <1>2, <3>1, <3>2 DEF JobRec
    <3> QED
      BY <1>1, <2>1, <2>2, <2>4, <3>3, <3>4
  <2> QED
    BY <2>3, <2>4
<1> QED
  BY <1>4, <1>5, <1>6, Zenon DEF Flash!FindFile

(* DEV_DeleteFile and DEV_DownloadFile.                                     *)
LEMMA DeleteStep ==
  ASSUME FlashTyped, Flash!DEV_DeleteFile
  PROVE  /\ UNCHANGED <<flashModuleLoad, flashConfig, flashFiles>> /\ Exchanged
         /\ flashJob.pc = "delete" /\ flashJob' = [flashJob EXCEPT !.pc = "list"]
         /\ \/ flashFlash' = [flashFlash EXCEPT
                                ![flashJob.from] = Flash!RemoveAt(@, flashJob.cursor)]
            \/ UNCHANGED flashFlash /\ flashFaults' # 0
BY DEF Flash!DEV_DeleteFile, Flash!Ok, Flash!Fails, Exchanged, FlashTyped

LEMMA DownloadStep ==
  ASSUME FlashTyped, Flash!DEV_DownloadFile
  PROVE  /\ UNCHANGED <<flashModuleLoad, flashFiles>> /\ Exchanged
         /\ flashJob.pc = "load" /\ flashJob' = Flash!NoJob
         /\ \/ /\ flashFlash' = [flashFlash EXCEPT ![flashJob.ch] =
                                   Append(@, [kind |-> flashJob.kind, new |-> TRUE])]
               /\ flashConfig' \in ConfigRec
               /\ flashConfig'.firmware = TRUE =>
                    flashConfig.firmware = TRUE \/ flashJob.kind = "firmware"
               /\ flashJob.kind = "firmware" =>
                    \A c \in Flash!Channels : flashConfig'.modules[c] = FALSE
               /\ \A c \in Flash!Channels : flashConfig'.modules[c] = TRUE =>
                    flashConfig.modules[c] = TRUE \/ c = flashJob.ch
            \/ UNCHANGED <<flashFlash, flashConfig>> /\ flashFaults' # 0
<1>1. UNCHANGED <<flashModuleLoad, flashFiles>> /\ Exchanged /\ flashJob.pc = "load"
      /\ flashJob' = Flash!NoJob
  BY DEF Flash!DEV_DownloadFile, Flash!Ok, Flash!Fails, Exchanged
<1>2. CASE /\ flashFlash' = [flashFlash EXCEPT ![flashJob.ch] =
                               Append(@, [kind |-> flashJob.kind, new |-> TRUE])]
           /\ flashConfig' = Flash!Store
  <2> DEFINE firmware == flashConfig.firmware \/ flashJob.kind = "firmware"
             modules == IF flashJob.kind = "firmware" THEN Flash!NoModules
                        ELSE [flashConfig.modules EXCEPT ![flashJob.ch] = TRUE]
  <2>1. flashConfig' = [firmware |-> firmware, modules |-> modules]
    BY <1>2 DEF Flash!Store
  <2>2. firmware \in BOOLEAN
        /\ (firmware = TRUE => flashConfig.firmware = TRUE \/ flashJob.kind = "firmware")
    BY DEF FlashTyped, ConfigRec
  <2>3. /\ modules \in [Flash!Channels -> BOOLEAN]
        /\ flashJob.kind = "firmware" => \A c \in Flash!Channels : modules[c] = FALSE
        /\ \A c \in Flash!Channels : modules[c] = TRUE =>
             flashConfig.modules[c] = TRUE \/ c = flashJob.ch
    BY NoJobFacts DEF FlashTyped, ConfigRec
  <2> HIDE DEF firmware, modules
  <2>4. flashConfig' \in ConfigRec /\ flashConfig'.firmware = firmware
        /\ flashConfig'.modules = modules
    BY <2>1, <2>2, <2>3 DEF ConfigRec
  <2> QED
    BY <1>1, <1>2, <2>2, <2>3, <2>4
<1>3. CASE Flash!Fails /\ UNCHANGED <<flashFlash, flashConfig>>
  <2>1. flashFaults' # 0
    BY <1>3, ToolkitAssumption DEF Flash!Fails, FlashTyped
  <2> QED
    BY <1>1, <1>3, <2>1
<1> QED
  BY <1>2, <1>3 DEF Flash!DEV_DownloadFile

LEMMA FlashTypedStep ==
  ASSUME FlashTyped, RoomInv, JobInv, [Flash!Next]_flashVars
  PROVE  FlashTyped' /\ RoomInv' /\ JobInv'
<1>0. flashJob \in JobRec /\ flashFiles \in Nat /\ MaxFiles \in Nat
      /\ \A ch \in Flash!Channels : flashFlash[ch] \in Seq(FileRec) /\ Len(flashFlash[ch]) \in Nat
  BY ToolkitAssumption DEF FlashTyped
<1>1. ASSUME NEW kind \in {"firmware", "module", "other"}, NEW ch \in Flash!Channels,
             Flash!DEV_ProcessFWDownload(kind, ch)
      PROVE  FlashTyped' /\ RoomInv' /\ JobInv'
  <2>1. /\ UNCHANGED <<flashFlash, flashModuleLoad>> /\ flashJob.pc = "idle"
        /\ flashFiles < MaxFiles /\ flashFiles' = flashFiles + 1 /\ Exchanged
    BY <1>1, ProcessStep
  <2>2. /\ flashConfig' \in ConfigRec
        /\ \/ UNCHANGED flashJob
           \/ /\ flashJob' \in JobRec /\ flashJob'.pc = "list" /\ flashJob'.cursor = 0
              /\ flashJob'.kind = kind /\ flashJob'.ch = ch
              /\ \/ kind = "firmware" /\ ch = 0 /\ flashJob'.keep = FALSE
                 \/ kind = "module" /\ flashJob'.from = ch /\ flashJob'.keep = TRUE
    BY <1>1, ProcessStep DEF FlashTyped
  <2>3. flashFiles' \in 0 .. MaxFiles /\ flashJob' \in JobRec
    BY <1>0, <2>1, <2>2
  <2>4. FlashTyped'
    BY <2>1, <2>2, <2>3, ExchangedTyped DEF FlashTyped
  <2>5. RoomInv'
    <3>1. CASE UNCHANGED flashJob
      BY <1>0, <2>1, <3>1 DEF RoomInv, Room, JobRec
    <3>2. CASE flashJob'.pc = "list" /\ flashJob'.cursor = 0
      BY <1>0, <2>1, <3>2 DEF RoomInv, Room
    <3> QED
      BY <2>2, <3>1, <3>2
  <2> QED
    BY <2>1, <2>2, <2>4, <2>5 DEF JobInv
<1>2. CASE Flash!FindFile
  <2>1. /\ UNCHANGED <<flashFlash, flashModuleLoad, flashConfig, flashFiles>>
        /\ flashJob.pc = "list" /\ Exchanged
    BY <1>2, FindStep
  <2>2. /\ flashJob' \in JobRec /\ flashJob'.kind = flashJob.kind /\ flashJob'.ch = flashJob.ch
        /\ flashJob'.keep = flashJob.keep
        /\ flashJob'.pc # "idle"
        /\ flashJob.kind = "module" => flashJob'.from = flashJob.from
        /\ \/ flashJob'.cursor = flashJob.cursor
           \/ /\ flashJob'.from = flashJob.from
              /\ flashJob'.cursor \in 1 .. Len(flashFlash[flashJob.from])
        /\ flashJob'.pc = "delete" =>
             /\ flashJob'.from = flashJob.from /\ flashJob'.first = TRUE
             /\ flashJob'.cursor \in 1 .. Len(flashFlash[flashJob.from])
             /\ flashFlash[flashJob.from][flashJob'.cursor].kind # "short"
             /\ flashJob.keep = TRUE =>
                  flashFlash[flashJob.from][flashJob'.cursor].kind # "firmware"
    <3>1. CASE flashJob' = Flash!NextChannel
      BY <2>1, <3>1, NextChannelStep
    <3>2. CASE flashJob' # Flash!NextChannel
      BY <1>2, <3>2, FindStep
    <3> QED
      BY <3>1, <3>2
  <2>3. FlashTyped'
    BY <2>1, <2>2, ExchangedTyped DEF FlashTyped
  <2>4. RoomInv'
    <3>1. flashJob.from \in Flash!Channels
      BY <1>0 DEF JobRec
    <3>2. Room(flashJob) = 2 /\ Room(flashJob') = 2
      BY <2>1, <2>2 DEF Room
    <3>3. flashJob'.cursor <= flashFiles + 2 /\ flashJob'.cursor \in Nat
      BY <1>0, <2>1, <2>2, <3>1, <3>2 DEF RoomInv, JobRec
    <3> QED
      BY <1>0, <2>1, <2>2, <3>2, <3>3 DEF RoomInv
  <2>5. JobInv'
    BY <2>1, <2>2 DEF JobInv
  <2> QED
    BY <2>3, <2>4, <2>5
<1>3. CASE Flash!DEV_DeleteFile
  <2>1. /\ UNCHANGED <<flashModuleLoad, flashConfig, flashFiles>> /\ Exchanged
        /\ flashJob.pc = "delete" /\ flashJob' = [flashJob EXCEPT !.pc = "list"]
    BY <1>3, DeleteStep
  <2>2. /\ flashFlash' \in [Flash!Channels -> Seq(FileRec)]
        /\ \A ch \in Flash!Channels : Len(flashFlash'[ch]) <= Len(flashFlash[ch])
    <3>1. CASE UNCHANGED flashFlash
      BY <1>0, <3>1 DEF FlashTyped
    <3>2. CASE flashFlash' = [flashFlash EXCEPT
                                ![flashJob.from] = Flash!RemoveAt(@, flashJob.cursor)]
      BY <2>1, <3>2, DeletedStep DEF JobInv
    <3> QED
      BY <1>3, <3>1, <3>2, DeleteStep
  <2>3. flashJob' \in JobRec /\ flashJob'.pc = "list" /\ flashJob'.kind = flashJob.kind
        /\ flashJob'.ch = flashJob.ch /\ flashJob'.from = flashJob.from
        /\ flashJob'.keep = flashJob.keep /\ flashJob'.cursor = flashJob.cursor
    BY <1>0, <2>1 DEF JobRec
  <2>4. FlashTyped'
    BY <2>1, <2>2, <2>3, ExchangedTyped DEF FlashTyped
  <2>5. RoomInv'
    <3>1. Room(flashJob) = 2 /\ Room(flashJob') = 2
      BY <2>1, <2>3 DEF Room
    <3>2. \A ch \in Flash!Channels : Len(flashFlash'[ch]) \in Nat
      BY <2>2
    <3> QED
      BY <1>0, <2>1, <2>2, <2>3, <3>1, <3>2 DEF RoomInv
  <2> QED
    BY <2>1, <2>3, <2>4, <2>5 DEF JobInv
<1>4. CASE Flash!DEV_DownloadFile
  <2>1. /\ UNCHANGED <<flashModuleLoad, flashFiles>> /\ Exchanged
        /\ flashJob.pc = "load" /\ flashJob' = Flash!NoJob
    BY <1>4, DownloadStep
  <2>2. flashConfig' \in ConfigRec
    BY <1>4, DownloadStep DEF FlashTyped
  <2>3. /\ flashFlash' \in [Flash!Channels -> Seq(FileRec)]
        /\ \A ch \in Flash!Channels : Len(flashFlash'[ch]) <= Len(flashFlash[ch]) + 1
    <3>1. CASE UNCHANGED flashFlash
      BY <1>0, <3>1 DEF FlashTyped
    <3>2. CASE flashFlash' = [flashFlash EXCEPT ![flashJob.ch] =
                                Append(@, [kind |-> flashJob.kind, new |-> TRUE])]
      <4>1. [kind |-> flashJob.kind, new |-> TRUE] \in FileRec
        BY <1>0 DEF JobRec, FileRec
      <4> QED
        BY <3>2, <4>1, LoadedStep
    <3> QED
      BY <1>4, <3>1, <3>2, DownloadStep
  <2>4. flashJob' \in JobRec /\ flashJob'.pc = "idle" /\ flashJob'.cursor = 0
    BY <2>1, NoJobFacts
  <2>5. FlashTyped'
    BY <2>1, <2>2, <2>3, <2>4, ExchangedTyped DEF FlashTyped
  <2>6. RoomInv'
    <3>1. Room(flashJob) = 2 /\ Room(flashJob') = 3
      BY <2>1, <2>4 DEF Room
    <3>2. \A ch \in Flash!Channels : Len(flashFlash'[ch]) \in Nat
      BY <2>3
    <3> QED
      BY <1>0, <2>1, <2>3, <2>4, <3>1, <3>2 DEF RoomInv
  <2> QED
    BY <2>4, <2>5, <2>6 DEF JobInv
<1>5. CASE UNCHANGED flashVars
  <2>1. UNCHANGED <<flashFlash, flashModuleLoad, flashJob, flashConfig, flashFiles, flashFaults>>
    BY <1>5 DEF flashVars
  <2> QED
    BY <2>1 DEF FlashTyped, RoomInv, Room, JobInv
<1> QED
  BY <1>1, <1>2, <1>3, <1>4, <1>5 DEF Flash!Next, Flash!Work

(* Files that are there, whatever happens to the directory.                 *)
LEMMA ScanStep ==
  ASSUME FlashTyped, RoomInv, JobInv, ScanInv, [Flash!Next]_flashVars, flashFaults' = 0
  PROVE  ScanInv'
<1>0. flashJob \in JobRec /\ flashJob.from \in Flash!Channels
      /\ \A ch \in Flash!Channels : flashFlash[ch] \in Seq(FileRec)
           /\ DOMAIN flashFlash[ch] = 1 .. Len(flashFlash[ch]) /\ Len(flashFlash[ch]) \in Nat
  BY DEF FlashTyped, JobRec
<1>1. ASSUME NEW kind \in {"firmware", "module", "other"}, NEW ch \in Flash!Channels,
             Flash!DEV_ProcessFWDownload(kind, ch)
      PROVE  ScanInv'
  <2>1. /\ flashJob.pc = "idle"
        /\ \/ UNCHANGED flashJob
           \/ /\ flashJob'.pc = "list" /\ flashJob'.first = TRUE /\ flashJob'.kind = kind
              /\ kind = "firmware" => flashJob'.from = 0
    BY <1>1, ProcessStep
  <2>2. \A c \in Flash!Channels : ~(c < 0)
    BY DEF Flash!Channels
  <2> QED
    BY <2>1, <2>2 DEF ScanInv
<1>2. CASE Flash!FindFile
  <2>1. UNCHANGED flashFlash /\ flashJob.pc = "list"
    BY <1>2, FindStep
  <2>2. \A c \in Flash!Channels : Short(c) => Short(c)'
    BY <2>1 DEF Short, Flash!Listed
  <2>3. CASE flashJob.kind # "firmware"
    BY <1>2, <2>3, FindStep, NextChannelStep DEF ScanInv
  <2>4. CASE flashJob.kind = "firmware" /\ flashJob' = Flash!NextChannel
    <3>1. Next1 > Len(flashFlash[flashJob.from])
      <4>1. flashJob'.cursor = flashJob.cursor /\ flashJob'.pc \in {"list", "load"}
            /\ (flashJob'.pc = "list" => flashJob'.from # flashJob.from)
        <5>1. CASE flashJob'.pc = flashJob.pc /\ flashJob.from = 0 /\ flashJob'.from = 1
          BY <2>1, <2>4, <5>1, NextChannelStep
        <5>2. CASE flashJob'.pc = "load"
          BY <2>1, <2>4, <5>2, NextChannelStep
        <5> QED
          BY <2>4, <5>1, <5>2, NextChannelStep
      <4> QED
        BY <1>2, <2>4, FindStep, <4>1
    <3>2. Short(flashJob.from)
      <4> DEFINE dir == flashFlash[flashJob.from]
                 n == Len(dir)
      <4>1. n \in Nat /\ DOMAIN dir = 1 .. n /\ flashJob.cursor \in Nat
        BY <1>0 DEF JobRec
      <4>2. CASE flashJob.first = TRUE
        <5>1. n = 0
          BY <3>1, <4>1, <4>2 DEF Next1
        <5> QED
          BY <4>1, <5>1 DEF Short, Flash!Listed
      <4>3. CASE flashJob.first # TRUE
        <5>1. flashJob.cursor >= n
          BY <3>1, <4>1, <4>3 DEF Next1
        <5>2. \A i \in 1 .. n : i <= flashJob.cursor => dir[i].kind = "short"
          BY <2>1, <2>4, <4>3 DEF ScanInv
        <5>3. \A i \in 1 .. n : dir[i].kind = "short"
          BY <4>1, <5>1, <5>2
        <5> QED
          BY <4>1, <5>3 DEF Short, Flash!Listed
      <4> QED
        BY <4>2, <4>3
    <3>3. \A c \in Flash!Channels : c <= flashJob.from => Short(c)
      BY <1>0, <2>1, <2>4, <3>2 DEF ScanInv, Flash!Channels
    <3>4. \A c \in Flash!Channels : c <= flashJob.from => Short(c)'
      BY <2>2, <3>3
    <3>5. CASE flashJob'.pc = flashJob.pc /\ flashJob.from = 0 /\ flashJob'.from = 1
               /\ flashJob'.first = TRUE
      <4>1. \A c \in Flash!Channels : c < 1 => Short(c)'
        BY <3>4, <3>5 DEF Flash!Channels
      <4> QED
        BY <2>1, <3>5, <4>1 DEF ScanInv
    <3>6. CASE flashJob'.pc = "load" /\ flashJob.from = 1
      <4>1. \A c \in Flash!Channels : Short(c)'
        BY <3>4, <3>6 DEF Flash!Channels
      <4> QED
        BY <3>6, <4>1 DEF ScanInv
    <3> QED
      BY <2>4, <3>5, <3>6, NextChannelStep
  <2>5. CASE flashJob.kind = "firmware" /\ flashJob' # Flash!NextChannel
    <3>1. /\ flashJob'.kind = "firmware" /\ flashJob'.from = flashJob.from
          /\ flashJob'.cursor = Next1 /\ Next1 \in 1 .. Len(flashFlash[flashJob.from])
          /\ \/ flashJob'.pc = "delete"
             \/ /\ flashJob'.pc = "list"
                /\ flashFlash[flashJob.from][Next1].kind = "short"
      BY <1>2, <2>1, <2>5, FindStep DEF JobInv
    <3>2. \A i \in 1 .. Len(flashFlash[flashJob.from]) :
            i < Next1 => flashFlash[flashJob.from][i].kind = "short"
      <4>1. CASE flashJob.first = TRUE
        BY <4>1 DEF Next1
      <4>2. CASE flashJob.first # TRUE
        <5>1. Next1 = flashJob.cursor + 1 /\ flashJob.cursor \in Nat
          BY <1>0, <4>2 DEF Next1, JobRec
        <5>2. \A i \in 1 .. Len(flashFlash[flashJob.from]) :
                i <= flashJob.cursor => flashFlash[flashJob.from][i].kind = "short"
          BY <2>1, <2>5, <4>2 DEF ScanInv
        <5> QED
          BY <5>1, <5>2
      <4> QED
        BY <4>1, <4>2
    <3>3. flashJob'.pc = "list" => \A i \in 1 .. Len(flashFlash[flashJob.from]) :
            i <= Next1 => flashFlash[flashJob.from][i].kind = "short"
      BY <1>0, <3>1, <3>2
    <3> QED
      BY <2>1, <2>2, <2>5, <3>1, <3>3 DEF ScanInv
  <2> QED
    BY <2>3, <2>4, <2>5
<1>3. CASE Flash!DEV_DeleteFile
  <2>1. flashJob.pc = "delete" /\ flashJob'.pc = "list" /\ flashJob'.kind = flashJob.kind
        /\ flashJob'.from = flashJob.from /\ flashJob'.first = TRUE
    BY <1>0, <1>3, DeleteStep DEF JobRec, JobInv
  <2>2. flashFlash' = [flashFlash EXCEPT ![flashJob.from] = Flash!RemoveAt(@, flashJob.cursor)]
    BY <1>3, DeleteStep, ToolkitAssumption
  <2>3. \A c \in Flash!Channels : Flash!Listed(c)' \subseteq Flash!Listed(c)
    BY <2>1, <2>2, DeletedStep DEF JobInv
  <2>4. \A c \in Flash!Channels : Short(c) => Short(c)'
    BY <2>3 DEF Short
  <2> QED
    BY <2>1, <2>4 DEF ScanInv
<1>4. CASE Flash!DEV_DownloadFile
  BY <1>4, DownloadStep, NoJobFacts DEF ScanInv
<1>5. CASE UNCHANGED flashVars
  <2>1. UNCHANGED <<flashFlash, flashJob>>
    BY <1>5 DEF flashVars
  <2>2. \A c \in Flash!Channels : Short(c) => Short(c)'
    BY <2>1 DEF Short, Flash!Listed
  <2> QED
    BY <2>1, <2>2 DEF ScanInv
<1> QED
  BY <1>1, <1>2, <1>3, <1>4, <1>5 DEF Flash!Next, Flash!Work

LEMMA NewStep ==
  ASSUME FlashTyped, JobInv, ScanInv, NewInv, [Flash!Next]_flashVars, flashFaults' = 0
  PROVE  NewInv'
<1>1. CASE UNCHANGED flashFlash /\ flashConfig'.firmware = flashConfig.firmware
  BY <1>1 DEF NewInv, Flash!Listed
<1>2. ASSUME NEW kind \in {"firmware", "module", "other"}, NEW ch \in Flash!Channels,
             Flash!DEV_ProcessFWDownload(kind, ch)
      PROVE  NewInv'
  <2>1. UNCHANGED flashFlash /\ flashConfig'.firmware = flashConfig.firmware
    BY <1>2, ProcessStep
  <2> QED
    BY <1>1, <2>1
<1>3. CASE Flash!FindFile
  BY <1>1, <1>3, FindStep
<1>4. CASE Flash!DEV_DeleteFile
  <2>1. UNCHANGED flashConfig /\ flashJob.pc = "delete"
        /\ flashFlash' = [flashFlash EXCEPT ![flashJob.from] = Flash!RemoveAt(@, flashJob.cursor)]
    BY <1>4, DeleteStep
  <2>2. \A c \in Flash!Channels : Flash!Listed(c)' \subseteq Flash!Listed(c)
    BY <2>1, DeletedStep DEF JobInv
  <2> QED
    BY <2>1, <2>2 DEF NewInv
<1>5. CASE Flash!DEV_DownloadFile
  <2> DEFINE file == [kind |-> flashJob.kind, new |-> TRUE]
  <2>1. /\ flashJob.pc = "load"
        /\ flashFlash' = [flashFlash EXCEPT ![flashJob.ch] = Append(@, file)]
        /\ flashConfig'.firmware = TRUE =>
             flashConfig.firmware = TRUE \/ flashJob.kind = "firmware"
    BY <1>5, DownloadStep
  <2>2. file \in FileRec /\ file.new = TRUE
    BY DEF FlashTyped, JobRec, FileRec
  <2>3. \A c \in Flash!Channels : Flash!Listed(c)' \subseteq Flash!Listed(c) \cup {file}
    BY <2>1, <2>2, LoadedStep
  <2>4. flashConfig'.firmware = TRUE =>
          \A c \in Flash!Channels : \A f \in Flash!Listed(c) : f.kind # "short" => f.new = TRUE
    BY <2>1 DEF NewInv, ScanInv, Short
  <2> HIDE DEF file
  <2> QED
    BY <2>2, <2>3, <2>4 DEF NewInv
<1>6. CASE UNCHANGED flashVars
  BY <1>1, <1>6 DEF flashVars
<1> QED
  BY <1>2, <1>3, <1>4, <1>5, <1>6 DEF Flash!Next, Flash!Work

LEMMA StartStep ==
  ASSUME FlashTyped, JobInv, StartInv, [Flash!Next]_flashVars, flashFaults' = 0
  PROVE  StartInv'
<1> DEFINE there(c) == [kind |-> "module", new |-> TRUE] \in Flash!Listed(c)
<1>0. \A c : Flash!Identical("module", c) = there(c)
  BY DEF Flash!Identical
<1>1. ASSUME NEW kind \in {"firmware", "module", "other"}, NEW ch \in Flash!Channels,
             Flash!DEV_ProcessFWDownload(kind, ch)
      PROVE  StartInv'
  <2>1. UNCHANGED flashFlash /\ flashJob.pc = "idle"
    BY <1>1, ProcessStep
  <2>2. \A c \in Flash!Channels : flashConfig.modules[c] = TRUE => there(c)
    BY <1>0, <2>1 DEF StartInv
  <2>3. \A c \in Flash!Channels : there(c) => Flash!Identical("module", c)'
    BY <2>1 DEF Flash!Identical, Flash!Listed
  <2>4. CASE UNCHANGED <<flashJob, flashConfig>>
    BY <2>1, <2>2, <2>3, <2>4 DEF StartInv
  <2>5. CASE /\ UNCHANGED flashJob
             /\ \A c \in Flash!Channels : flashConfig'.modules[c] = TRUE =>
                  flashConfig.modules[c] = TRUE \/ Flash!Identical("module", c)
    <3>1. \A c \in Flash!Channels : flashConfig'.modules[c] = TRUE => there(c)
      BY <1>0, <2>2, <2>5
    <3> QED
      BY <2>1, <2>3, <2>5, <3>1 DEF StartInv
  <2>6. CASE /\ UNCHANGED flashConfig /\ ~Flash!Identical(kind, ch)
             /\ flashJob'.pc = "list" /\ flashJob'.kind = kind /\ flashJob'.ch = ch
             /\ kind \in {"firmware", "module"}
    <3>1. CASE kind = "firmware"
      BY <2>6, <3>1 DEF StartInv
    <3>2. CASE kind = "module"
      <4>1. ~there(ch)
        BY <1>0, <2>6, <3>2
      <4> HIDE DEF there
      <4> QED
        BY <2>2, <2>3, <2>6, <3>2, <4>1 DEF StartInv
    <3> QED
      BY <2>6, <3>1, <3>2
  <2> QED
    BY <1>1, <2>4, <2>5, <2>6, ProcessStep
<1>2. CASE Flash!FindFile
  <2>1. UNCHANGED <<flashFlash, flashConfig>> /\ flashJob.pc = "list"
        /\ flashJob'.kind = flashJob.kind /\ flashJob'.ch = flashJob.ch /\ flashJob'.pc # "idle"
    <3>1. CASE flashJob' = Flash!NextChannel
      BY <1>2, <3>1, FindStep, NextChannelStep
    <3>2. CASE flashJob' # Flash!NextChannel
      BY <1>2, <3>2, FindStep
    <3> QED
      BY <3>1, <3>2
  <2> QED
    BY <2>1 DEF StartInv, Flash!Identical, Flash!Listed
<1>3. CASE Flash!DEV_DeleteFile
  <2>1. /\ UNCHANGED flashConfig /\ flashJob.pc = "delete" /\ flashJob'.pc = "list"
        /\ flashJob'.kind = flashJob.kind /\ flashJob'.ch = flashJob.ch
        /\ flashFlash' = [flashFlash EXCEPT ![flashJob.from] = Flash!RemoveAt(@, flashJob.cursor)]
    BY <1>3, DeleteStep DEF FlashTyped, JobRec
  <2>2. \A c \in Flash!Channels : c # flashJob.from => Flash!Listed(c) \subseteq Flash!Listed(c)'
    BY <2>1, DeletedStep DEF JobInv
  <2>3. flashJob.kind # "firmware" => flashJob.from = flashJob.ch
    BY <2>1 DEF JobInv
  <2>4. \A c \in Flash!Channels : c # flashJob.from => (there(c) => Flash!Identical("module", c)')
    BY <2>2 DEF Flash!Identical
  <2> HIDE DEF there
  <2> QED
    BY <1>0, <2>1, <2>3, <2>4 DEF StartInv
<1>4. CASE Flash!DEV_DownloadFile
  <2> DEFINE file == [kind |-> flashJob.kind, new |-> TRUE]
  <2>1. /\ flashJob.pc = "load" /\ flashJob' = Flash!NoJob
        /\ flashFlash' = [flashFlash EXCEPT ![flashJob.ch] = Append(@, file)]
        /\ flashJob.kind = "firmware" =>
             \A c \in Flash!Channels : flashConfig'.modules[c] = FALSE
        /\ \A c \in Flash!Channels : flashConfig'.modules[c] = TRUE =>
             flashConfig.modules[c] = TRUE \/ c = flashJob.ch
    BY <1>4, DownloadStep
  <2>2. file \in FileRec
    BY DEF FlashTyped, JobRec, FileRec
  <2>3. CASE flashJob.kind = "firmware"
    BY <2>1, <2>3 DEF StartInv
  <2>4. CASE flashJob.kind = "module"
    <3>1. \A c \in Flash!Channels : there(c) => Flash!Identical("module", c)'
      BY <2>1, <2>2, LoadedStep DEF Flash!Identical
    <3>2. \A c \in Flash!Channels : c = flashJob.ch => Flash!Identical("module", c)'
      BY <2>1, <2>2, <2>4, LoadedStep DEF Flash!Identical
    <3>3. \A c \in Flash!Channels : flashConfig.modules[c] = TRUE => there(c)
      BY <1>0, <2>4 DEF StartInv
    <3> HIDE DEF there
    <3> QED
      BY <2>1, <3>1, <3>2, <3>3, NoJobFacts DEF StartInv
  <2> QED
    BY <2>1, <2>3, <2>4 DEF JobInv
<1>5. CASE UNCHANGED flashVars
  <2>1. UNCHANGED <<flashFlash, flashJob, flashConfig>>
    BY <1>5 DEF flashVars
  <2> QED
    BY <2>1 DEF StartInv, Flash!Identical, Flash!Listed
<1> QED
  BY <1>1, <1>2, <1>3, <1>4, <1>5 DEF Flash!Next, Flash!Work

LEMMA FlashInductive == ASSUME FlashInv, [Flash!Next]_flashVars PROVE FlashInv'
<1>1. FlashTyped /\ RoomInv /\ JobInv
  BY DEF FlashInv
<1>2. FlashTyped' /\ RoomInv' /\ JobInv'
  BY <1>1, FlashTypedStep
<1>3. flashFaults' = 0 => flashFaults = 0
  <2>1. ASSUME NEW kind \in {"firmware", "module", "other"}, NEW ch \in Flash!Channels,
               Flash!DEV_ProcessFWDownload(kind, ch)
        PROVE  Exchanged
    BY <1>1, <2>1, ProcessStep
  <2>2. Exchanged
    BY <1>1, <2>1, FindStep, DeleteStep, DownloadStep
    DEF Flash!Next, Flash!Work, Exchanged, flashVars
  <2> QED
    BY <1>1, <2>2, ExchangedTyped
<1> QED
  BY <1>1, <1>2, <1>3, ScanStep, NewStep, StartStep DEF FlashInv

(* The directories at the start.                                            *)
LEMMA FilesFacts ==
  ASSUME NEW kinds \in Seq(Flash!Kinds)
  PROVE  LET files == [i \in DOMAIN kinds |-> [kind |-> kinds[i], new |-> FALSE]]
         IN  files \in Seq(FileRec) /\ Len(files) = Len(kinds)
<1> DEFINE n == Len(kinds)
           files == [i \in 1 .. n |-> [kind |-> kinds[i], new |-> FALSE]]
<1>1. n \in Nat /\ DOMAIN kinds = 1 .. n
  OBVIOUS
<1>2. \A i \in 1 .. n : [kind |-> kinds[i], new |-> FALSE] \in FileRec
  BY DEF FileRec
<1>3. files \in [1 .. n -> FileRec]
  BY <1>2
<1> HIDE DEF files
<1>4. files \in Seq(FileRec) /\ Len(files) = n
  BY <1>1, <1>3
<1> QED
  BY <1>1, <1>4 DEF files

LEMMA FlashStart == ASSUME Flash!Init PROVE FlashInv
<1>1. flashModuleLoad \in BOOLEAN /\ flashJob = Flash!NoJob /\ flashFiles = 0 /\ flashFaults = 0
      /\ flashConfig = [firmware |-> FALSE, modules |-> Flash!NoModules]
  BY DEF Flash!Init
<1> DEFINE Of(kinds) == [i \in DOMAIN kinds |-> [kind |-> kinds[i], new |-> FALSE]]
<1>2. PICK before \in {<<>>, <<"short">>}, modules \in {<<>>, <<"module">>, <<"other">>} :
        flashFlash = [ch \in Flash!Channels |->
                        IF ch = 0 THEN Of(before) \o <<Flash!Firmware>> \o Of(modules)
                        ELSE Of(before \o modules)]
  BY DEF Flash!Init
<1>3. /\ before \in Seq(Flash!Kinds) /\ Len(before) <= 1 /\ Len(before) \in Nat
      /\ modules \in Seq(Flash!Kinds) /\ Len(modules) <= 1 /\ Len(modules) \in Nat
  <2>1. ASSUME NEW k \in Flash!Kinds
        PROVE  <<k>> \in Seq(Flash!Kinds) /\ Len(<<k>>) = 1
    OBVIOUS
  <2>2. <<>> \in Seq(Flash!Kinds) /\ Len(<<>>) = 0
    OBVIOUS
  <2>3. "short" \in Flash!Kinds /\ "module" \in Flash!Kinds /\ "other" \in Flash!Kinds
    BY DEF Flash!Kinds
  <2>4. CASE before = <<>>
    <3>1. CASE modules = <<>>
      BY <2>2, <2>4, <3>1
    <3>2. CASE modules = <<"module">>
      BY <2>1, <2>2, <2>3, <2>4, <3>2
    <3>3. CASE modules = <<"other">>
      BY <2>1, <2>2, <2>3, <2>4, <3>3
    <3> QED
      BY <3>1, <3>2, <3>3
  <2>5. CASE before = <<"short">>
    <3>1. CASE modules = <<>>
      BY <2>1, <2>2, <2>3, <2>5, <3>1
    <3>2. CASE modules = <<"module">>
      BY <2>1, <2>2, <2>3, <2>5, <3>2
    <3>3. CASE modules = <<"other">>
      BY <2>1, <2>2, <2>3, <2>5, <3>3
    <3> QED
      BY <3>1, <3>2, <3>3
  <2> QED
    BY <2>4, <2>5
<1>4. before \o modules \in Seq(Flash!Kinds) /\ Len(before \o modules) <= 2
  BY <1>3, ConcatFacts
<1>5. /\ Of(before) \in Seq(FileRec) /\ Len(Of(before)) <= 1
      /\ Of(modules) \in Seq(FileRec) /\ Len(Of(modules)) <= 1
      /\ Of(before \o modules) \in Seq(FileRec) /\ Len(Of(before \o modules)) <= 2
  <2> HIDE DEF Of
  <2>1. ASSUME NEW kinds \in Seq(Flash!Kinds)
        PROVE  Of(kinds) \in Seq(FileRec) /\ Len(Of(kinds)) = Len(kinds)
    BY FilesFacts DEF Of
  <2> QED
    BY <1>3, <1>4, <2>1
<1>6. <<Flash!Firmware>> \in Seq(FileRec) /\ Len(<<Flash!Firmware>>) = 1
  BY DEF Flash!Firmware, FileRec, Flash!Kinds
<1> HIDE DEF Of
<1>7. Of(before) \o <<Flash!Firmware>> \in Seq(FileRec)
      /\ Len(Of(before) \o <<Flash!Firmware>>) <= 2
  BY <1>5, <1>6, ConcatFacts
<1>8. Of(before) \o <<Flash!Firmware>> \o Of(modules) \in Seq(FileRec)
      /\ Len(Of(before) \o <<Flash!Firmware>> \o Of(modules)) <= 3
  BY <1>5, <1>7, ConcatFacts
<1>9. \A ch \in Flash!Channels : flashFlash[ch] \in Seq(FileRec) /\ Len(flashFlash[ch]) <= 3
  BY <1>2, <1>5, <1>8
<1>10. FlashTyped
  <2>1. flashConfig \in ConfigRec
    BY <1>1, NoJobFacts DEF ConfigRec
  <2>2. flashFlash \in [Flash!Channels -> Seq(FileRec)]
    BY <1>2, <1>9
  <2> QED
    BY <1>1, <2>1, <2>2, NoJobFacts, ToolkitAssumption DEF FlashTyped
<1>11. RoomInv /\ JobInv
  BY <1>1, <1>9, NoJobFacts DEF RoomInv, Room, JobInv
<1>12. ScanInv /\ NewInv /\ StartInv
  BY <1>1, NoJobFacts DEF ScanInv, NewInv, StartInv
<1> QED
  BY <1>10, <1>11, <1>12 DEF FlashInv

LEMMA FlashClean ==
  ASSUME FlashInv
  PROVE  Flash!TypeOK /\ Flash!NothingOldBesideNew /\ Flash!StartedIsThere
<1>1. Flash!TypeOK
  <2>1. \A ch \in Flash!Channels : \A file \in Flash!Listed(ch) :
          file \in [kind : Flash!Kinds, new : BOOLEAN]
    <3> SUFFICES ASSUME NEW ch \in Flash!Channels, NEW i \in DOMAIN flashFlash[ch]
                 PROVE  flashFlash[ch][i] \in FileRec
      BY DEF Flash!Listed, FileRec
    <3>1. flashFlash[ch] \in Seq(FileRec)
      BY DEF FlashInv, FlashTyped
    <3> QED
      BY <3>1
  <2>2. flashJob.cursor \in 0 .. MaxFiles + 3
    BY ToolkitAssumption DEF FlashInv, FlashTyped, RoomInv, JobRec
  <2>3. flashJob \in [pc : {"idle", "list", "delete", "load"}, kind : Flash!Kinds,
                      ch : Flash!Channels, from : Flash!Channels, keep : BOOLEAN,
                      first : BOOLEAN, cursor : 0 .. MaxFiles + 3]
    BY <2>2 DEF FlashInv, FlashTyped, JobRec
  <2> QED
    BY <2>1, <2>3 DEF FlashInv, FlashTyped, ConfigRec, Flash!TypeOK
<1>2. Flash!NothingOldBesideNew
  <2> SUFFICES ASSUME flashFaults = 0, flashConfig.firmware,
                      NEW ch \in Flash!Channels, NEW file \in Flash!Listed(ch),
                      file.kind # "short"
               PROVE  file.new
    BY DEF Flash!NothingOldBesideNew
  <2>1. flashConfig.firmware = TRUE
    BY DEF FlashInv, FlashTyped, ConfigRec
  <2> QED
    BY <2>1 DEF FlashInv, NewInv
<1>3. Flash!StartedIsThere
  <2> SUFFICES ASSUME flashFaults = 0, flashJob.pc = "idle", NEW ch \in Flash!Channels,
                      flashConfig.modules[ch]
               PROVE  Flash!Identical("module", ch)
    BY DEF Flash!StartedIsThere
  <2>1. flashConfig.modules[ch] = TRUE
    BY DEF FlashInv, FlashTyped, ConfigRec
  <2> QED
    BY <2>1 DEF FlashInv, StartInv
<1> QED
  BY <1>1, <1>2, <1>3

LEMMA BaseOsStep ==
  ASSUME FlashInv, [Flash!Next]_flashVars
  PROVE  \A ch \in Flash!Channels :
           flashFlash[ch] # flashFlash'[ch] /\ flashJob.kind = "module"
             => {f \in Flash!Listed(ch) : f.kind = "firmware"} \subseteq Flash!Listed(ch)'
<1> SUFFICES ASSUME flashFlash # flashFlash', flashJob.kind = "module"
             PROVE  \A ch \in Flash!Channels :
                      {f \in Flash!Listed(ch) : f.kind = "firmware"} \subseteq Flash!Listed(ch)'
  OBVIOUS
<1>0. FlashTyped /\ JobInv
  BY DEF FlashInv
<1>1. ASSUME NEW kind \in {"firmware", "module", "other"}, NEW ch \in Flash!Channels,
             Flash!DEV_ProcessFWDownload(kind, ch)
      PROVE  FALSE
  BY <1>0, <1>1, ProcessStep
<1>2. ~Flash!FindFile /\ ~UNCHANGED flashVars
  BY <1>0, FindStep DEF flashVars
<1>3. CASE Flash!DEV_DeleteFile
  <2>1. /\ flashJob.pc = "delete"
        /\ flashFlash' = [flashFlash EXCEPT ![flashJob.from] = Flash!RemoveAt(@, flashJob.cursor)]
    BY <1>0, <1>3, DeleteStep
  <2>2. flashFlash[flashJob.from][flashJob.cursor].kind # "firmware"
    BY <1>0, <2>1 DEF JobInv
  <2>3. \A ch \in Flash!Channels : \A f \in Flash!Listed(ch) :
          (ch = flashJob.from /\ f = flashFlash[ch][flashJob.cursor]) \/ f \in Flash!Listed(ch)'
    BY <1>0, <2>1, DeletedStep DEF JobInv
  <2> QED
    BY <2>2, <2>3
<1>4. CASE Flash!DEV_DownloadFile
  <2> DEFINE file == [kind |-> flashJob.kind, new |-> TRUE]
  <2>1. flashFlash' = [flashFlash EXCEPT ![flashJob.ch] = Append(@, file)]
    BY <1>0, <1>4, DownloadStep
  <2>2. file \in FileRec
    BY <1>0 DEF FlashTyped, JobRec, FileRec
  <2>3. \A ch \in Flash!Channels : Flash!Listed(ch) \subseteq Flash!Listed(ch)'
    BY <1>0, <2>1, <2>2, LoadedStep
  <2> QED
    BY <2>3
<1> QED
  BY <1>1, <1>2, <1>3, <1>4 DEF Flash!Next, Flash!Work

----------------------------------------------------------------------------
(* FileTransfer: for any lengths of file and blocks, and however late the   *)
(* device answers                                                           *)

(* The types the proofs need.                                               *)
FileJobRec ==
  [op : {"none", "download", "upload"}, pc : {"idle", "send", "wait"},
   state : {"req", "data", "abort"}, id : Nat, tries : 0 .. 9, size : 0 .. MaxLength,
   max : 0 .. HostBlock, len : 0 .. HostBlock, done : 0 .. MaxLength,
   ext : {"none", "first", "middle", "last"}, right : BOOLEAN,
   ret : {"none", "ok", "error", "size", "checksum", "timeout"}]
RequestRec ==
  [op : {"none", "download", "upload"}, state : {"req", "data", "abort"}, src : Nat,
   id : Nat, ext : {"none", "first", "middle", "last"}, size : 0 .. MaxLength,
   at : 0 .. MaxLength, len : 0 .. HostBlock]
AnswerRec ==
  [op : {"none", "download", "upload"}, state : {"req", "data", "abort"}, src : Nat,
   id : Nat, sta : {"ok", "error"}, n : Nat, size : 0 .. MaxLength, at : Nat]
FileDevRec ==
  [op : {"none", "download", "upload"}, size : 0 .. MaxLength, max : Nat,
   got : 0 .. MaxLength, file : 0 .. MaxLength]

FileTyped ==
  /\ fileJob \in FileJobRec
  /\ fileRequest \in RequestRec
  /\ fileAnswers \in Seq(AnswerRec)
  /\ fileDev \in FileDevRec
  /\ fileCalls \in 0 .. MaxTransfers

(* A request or an answer of the exchange the call has come to.             *)
Current(packet) == packet.src = fileCalls /\ packet.id = fileJob.id

(* The request as the call has put it.                                      *)
AsPut ==
  /\ Current(fileRequest)
  /\ fileRequest.op = fileJob.op /\ fileRequest.state = fileJob.state
  /\ fileRequest.ext = fileJob.ext /\ fileRequest.size = fileJob.size
  /\ fileRequest.at = fileJob.done /\ fileRequest.len = fileJob.len

NotLater(packet) ==
  packet.src <= fileCalls /\ (packet.src = fileCalls => packet.id <= fileJob.id)

(* Nothing is later than the call, and a request it waits for is answered   *)
(* once.                                                                    *)
FileOrder ==
  /\ fileRequest = File!NoRequest \/ fileRequest.op # "none"
  /\ NotLater(fileRequest)
  /\ \A i \in DOMAIN fileAnswers : NotLater(fileAnswers[i])
  /\ fileJob.pc = "wait" /\ fileRequest # File!NoRequest =>
       /\ AsPut
       /\ \A i \in DOMAIN fileAnswers : ~Current(fileAnswers[i])
  /\ fileJob.pc = "wait" =>
       /\ fileJob.id > 0
       /\ \A i, j \in DOMAIN fileAnswers :
            Current(fileAnswers[i]) /\ Current(fileAnswers[j]) => i = j

(* A block in the mailbox is the next of the device's transfer.             *)
NextOfDevice(r) ==
  /\ fileDev.op = "download" /\ r.at = fileDev.got
  /\ r.at + r.len <= fileDev.size
  /\ r.ext \in {"last", "none"} => r.at + r.len = fileDev.size
  /\ fileDev.file = 0

FileDevice ==
  /\ fileDev.file # 0 => fileDev.file = fileDev.size
  /\ fileDev.got <= fileDev.size
  /\ fileRequest.op = "download" /\ fileRequest.state = "data" => NextOfDevice(fileRequest)

(* Where the call stands.                                                   *)
FileCall ==
  /\ fileJob.pc # "idle" => fileJob.op # "none" /\ fileJob.size > 0
  /\ fileJob.pc # "idle" /\ fileJob.state # "abort" =>
       fileJob.ret = "none" /\ fileJob.right = TRUE
  /\ fileJob.state = "abort" => fileJob.ret \notin {"none", "ok"}
  /\ fileJob.pc = "idle" => fileJob.id <= MaxLength + 3
  /\ fileJob.pc = "send" /\ fileJob.state = "abort" => fileJob.id <= MaxLength + 2
  /\ fileJob.pc = "wait" /\ fileJob.state = "abort" => fileJob.id <= MaxLength + 3

(* Before the first block.                                                  *)
FileOpening ==
  fileJob.pc # "idle" /\ fileJob.state = "req" =>
    /\ fileJob.id = IF fileJob.pc = "send" THEN 0 ELSE 1
    /\ fileJob.done = 0 /\ fileJob.max = HostBlock

(* A block is to be sent, or is sent.                                       *)
FileBlock ==
  fileJob.pc # "idle" /\ fileJob.state = "data" =>
    /\ fileJob.id <= fileJob.done + IF fileJob.pc = "send" THEN 1 ELSE 2
    /\ fileJob.done < fileJob.size
    /\ fileJob.op = "download" =>
         /\ 1 <= fileJob.len /\ fileJob.len <= fileJob.max
         /\ fileJob.done + fileJob.len <= fileJob.size
         /\ fileJob.ext \in {"last", "none"} <=> fileJob.done + fileJob.len = fileJob.size
         /\ fileJob.ext \in {"first", "none"} <=> fileJob.done = 0

(* The device has come as far as the call, whose next block it expects.     *)
InStep ==
  /\ fileDev.op = fileJob.op /\ fileDev.size = fileJob.size /\ fileDev.got = fileJob.done
  /\ fileJob.op = "download" => fileDev.file = 0

FileInStep ==
  fileJob.state = "data" =>
    /\ fileJob.pc = "send" => fileRequest = File!NoRequest /\ InStep
    /\ fileJob.pc = "wait" /\ fileRequest # File!NoRequest => InStep

(* What a good answer says of the device.                                   *)
Opened(a) ==
  /\ fileDev.op = fileJob.op /\ fileDev.got = 0
  /\ a.n = fileDev.max /\ a.size = fileDev.size
  /\ fileJob.op = "download" => fileDev.size = fileJob.size /\ fileDev.file = 0

Written ==
  IF fileJob.ext \in {"last", "none"} THEN fileDev.file = fileJob.size
  ELSE /\ fileDev.op = "download" /\ fileDev.size = fileJob.size /\ fileDev.file = 0
       /\ fileDev.got = fileJob.done + fileJob.len

ReadBlock(a) ==
  /\ fileDev.op = "upload" /\ fileDev.size = fileJob.size
  /\ fileDev.got = fileJob.done + a.n

Tells(a) ==
  /\ fileJob.state = "req" => Opened(a)
  /\ fileJob.state = "data" /\ fileJob.op = "download" => Written
  /\ fileJob.state = "data" /\ fileJob.op = "upload" => ReadBlock(a)

FileTold ==
  fileJob.pc = "wait" =>
    \A i \in DOMAIN fileAnswers :
      Current(fileAnswers[i]) /\ fileAnswers[i].sta = "ok" => Tells(fileAnswers[i])

FileDone ==
  fileJob.pc = "idle" /\ fileJob.ret = "ok" =>
    /\ fileRequest = File!NoRequest
    /\ fileJob.op = "download" => fileDev.file = fileJob.size
    /\ fileJob.op = "upload" =>
         fileJob.done = fileJob.size /\ fileJob.right = TRUE /\ fileDev.size = fileJob.size

FileInv ==
  /\ FileTyped /\ FileOrder /\ FileDevice
  /\ FileCall /\ FileOpening /\ FileBlock /\ FileInStep /\ FileTold /\ FileDone

LEMMA FileFacts ==
  /\ File!NoJob \in FileJobRec /\ File!NoRequest \in RequestRec
  /\ File!NoJob.pc = "idle" /\ File!NoJob.ret = "none" /\ File!NoJob.id = 0
  /\ File!NoRequest.op = "none" /\ File!NoRequest.src = 0 /\ File!NoRequest.id = 0
BY ToolkitAssumption
   DEF File!NoJob, File!NoRequest, FileJobRec, RequestRec

(* The job of a call in progress with these fields.                         *)
Row(pc, state, id, tries, size, max, len, done, ext, right, ret) ==
  [op |-> fileJob.op, pc |-> pc, state |-> state, id |-> id, tries |-> tries,
   size |-> size, max |-> max, len |-> len, done |-> done, ext |-> ext,
   right |-> right, ret |-> ret]

(* A job that is one has fields of their types.                             *)
LEMMA JobTypes ==
  ASSUME fileJob \in FileJobRec
  PROVE  /\ fileJob.op \in {"none", "download", "upload"}
         /\ fileJob.pc \in {"idle", "send", "wait"}
         /\ fileJob.state \in {"req", "data", "abort"} /\ fileJob.id \in Nat
         /\ fileJob.tries \in 0 .. 9 /\ fileJob.size \in 0 .. MaxLength
         /\ fileJob.max \in 0 .. HostBlock /\ fileJob.len \in 0 .. HostBlock
         /\ fileJob.done \in 0 .. MaxLength /\ fileJob.right \in BOOLEAN
         /\ fileJob.ext \in {"none", "first", "middle", "last"}
         /\ fileJob.ret \in {"none", "ok", "error", "size", "checksum", "timeout"}
BY DEF FileJobRec

LEMMA AnswerTypes ==
  ASSUME FileTyped, NEW i \in DOMAIN fileAnswers
  PROVE  /\ fileAnswers[i] \in AnswerRec
         /\ fileAnswers[i].src \in Nat /\ fileAnswers[i].id \in Nat
         /\ fileAnswers[i].n \in Nat /\ fileAnswers[i].at \in Nat
         /\ fileAnswers[i].size \in 0 .. MaxLength
         /\ fileAnswers[i].sta \in {"ok", "error"}
<1>1. fileAnswers[i] \in AnswerRec
  BY DEF FileTyped
<1> QED
  BY <1>1 DEF AnswerRec

LEMMA FileStart == ASSUME File!Init PROVE FileInv
<1>1. /\ fileJob = File!NoJob /\ fileRequest = File!NoRequest /\ fileAnswers = <<>>
      /\ fileDev = [op |-> "none", size |-> 0, max |-> 0, got |-> 0, file |-> 0]
      /\ fileCalls = 0
  BY DEF File!Init
<1>2. FileTyped
  <2>1. <<>> \in Seq(AnswerRec)
    OBVIOUS
  <2>2. [op |-> "none", size |-> 0, max |-> 0, got |-> 0, file |-> 0] \in FileDevRec
    BY ToolkitAssumption DEF FileDevRec
  <2> QED
    BY <1>1, <2>1, <2>2, FileFacts, ToolkitAssumption DEF FileTyped
<1>3. File!NoJob.state = "req" /\ DOMAIN fileAnswers = {}
  BY <1>1 DEF File!NoJob
<1> QED
  BY <1>1, <1>2, <1>3, FileFacts, ToolkitAssumption
     DEF FileInv, FileOrder, NotLater, FileDevice, FileCall, FileOpening, FileBlock,
         FileInStep, FileTold, FileDone

LEMMA TransferStep ==
  ASSUME FileInv, NEW op \in {"download", "upload"}, NEW size \in 1 .. MaxLength,
         File!Transfer(op, size)
  PROVE  FileInv'
<1>1. /\ fileCalls' = fileCalls + 1 /\ fileCalls < MaxTransfers /\ fileJob.pc = "idle"
      /\ fileJob' = [File!NoJob EXCEPT !.op = op, !.pc = "send", !.size = size]
      /\ UNCHANGED <<fileRequest, fileAnswers, fileDev>>
  BY DEF File!Transfer
<1>2. FileTyped /\ fileCalls \in Nat
  BY ToolkitAssumption DEF FileInv, FileTyped
<1>3. /\ fileJob' \in FileJobRec
      /\ fileJob'.op = op /\ fileJob'.pc = "send" /\ fileJob'.size = size
      /\ fileJob'.state = "req" /\ fileJob'.id = 0 /\ fileJob'.done = 0
      /\ fileJob'.max = HostBlock /\ fileJob'.ret = "none" /\ fileJob'.right = TRUE
  <2>1. fileJob' = [op |-> op, pc |-> "send", state |-> "req", id |-> 0, tries |-> 0,
                    size |-> size, max |-> HostBlock, len |-> 0, done |-> 0,
                    ext |-> "none", right |-> TRUE, ret |-> "none"]
    BY <1>1 DEF File!NoJob
  <2> QED
    BY <2>1, ToolkitAssumption DEF FileJobRec
<1>4. FileTyped'
  BY <1>1, <1>2, <1>3, ToolkitAssumption DEF FileTyped
<1>5. FileOrder'
  <2>1. \A packet : packet.src \in Nat /\ NotLater(packet) => NotLater(packet)'
    BY <1>1, <1>2 DEF NotLater
  <2>2. fileRequest.src \in Nat /\ \A i \in DOMAIN fileAnswers : fileAnswers[i].src \in Nat
    BY <1>2, AnswerTypes DEF FileTyped, RequestRec
  <2>3. NotLater(fileRequest)' /\ \A i \in DOMAIN fileAnswers' : NotLater(fileAnswers[i])'
    BY <1>1, <2>1, <2>2 DEF FileInv, FileOrder, NotLater
  <2> QED
    BY <1>1, <1>3, <2>3 DEF FileInv, FileOrder
<1>6. FileDevice'
  BY <1>1 DEF FileInv, FileDevice, NextOfDevice
<1>7. FileCall' /\ FileOpening' /\ FileBlock' /\ FileInStep' /\ FileTold' /\ FileDone'
  BY <1>3 DEF FileCall, FileOpening, FileBlock, FileInStep, FileTold, FileDone
<1> QED
  BY <1>4, <1>5, <1>6, <1>7 DEF FileInv

LEMMA PutRequestStep == ASSUME FileInv, File!DEV_PutPacket PROVE FileInv'
<1>1. /\ fileJob.pc = "send" /\ fileRequest = File!NoRequest
      /\ fileRequest' = [op |-> fileJob.op, state |-> fileJob.state, src |-> fileCalls,
                         id |-> fileJob.id + 1, ext |-> fileJob.ext, size |-> fileJob.size,
                         at |-> fileJob.done, len |-> fileJob.len]
      /\ fileJob' = [fileJob EXCEPT !.pc = "wait", !.id = fileJob.id + 1, !.tries = 0]
      /\ UNCHANGED <<fileAnswers, fileDev, fileCalls>>
  BY DEF File!DEV_PutPacket
<1>2. FileTyped /\ fileJob \in FileJobRec /\ fileCalls \in Nat /\ fileJob.id \in Nat
  BY ToolkitAssumption DEF FileInv, FileTyped, FileJobRec
<1>3. /\ fileJob' \in FileJobRec
      /\ fileJob'.op = fileJob.op /\ fileJob'.pc = "wait" /\ fileJob'.size = fileJob.size
      /\ fileJob'.state = fileJob.state /\ fileJob'.id = fileJob.id + 1
      /\ fileJob'.done = fileJob.done /\ fileJob'.len = fileJob.len
      /\ fileJob'.ext = fileJob.ext /\ fileJob'.max = fileJob.max
      /\ fileJob'.ret = fileJob.ret /\ fileJob'.right = fileJob.right
  <2>1. fileJob' = Row("wait", fileJob.state, fileJob.id + 1, 0, fileJob.size, fileJob.max,
                       fileJob.len, fileJob.done, fileJob.ext, fileJob.right, fileJob.ret)
    BY <1>1, <1>2 DEF Row, FileJobRec
  <2> QED
    BY <1>2, <2>1 DEF Row, FileJobRec
<1>4. /\ fileRequest' \in RequestRec
      /\ fileRequest'.op = fileJob.op /\ fileRequest'.state = fileJob.state
      /\ fileRequest'.src = fileCalls /\ fileRequest'.id = fileJob.id + 1
      /\ fileRequest'.ext = fileJob.ext /\ fileRequest'.size = fileJob.size
      /\ fileRequest'.at = fileJob.done /\ fileRequest'.len = fileJob.len
  BY <1>1, <1>2 DEF FileJobRec, RequestRec
<1>5. FileTyped'
  BY <1>1, <1>2, <1>3, <1>4 DEF FileTyped
<1>6. FileOrder'
  <2>1. \A i \in DOMAIN fileAnswers : fileAnswers[i].id \in Nat /\ fileAnswers[i].src \in Nat
    BY <1>2, AnswerTypes
  <2>2. \A i \in DOMAIN fileAnswers : NotLater(fileAnswers[i])' /\ ~Current(fileAnswers[i])'
    BY <1>1, <1>2, <1>3, <2>1 DEF FileInv, FileOrder, NotLater, Current
  <2>3. NotLater(fileRequest)' /\ AsPut'
    BY <1>1, <1>2, <1>3, <1>4 DEF NotLater, AsPut, Current
  <2>4. fileRequest'.op # "none"
    BY <1>1, <1>4 DEF FileInv, FileCall
  <2>5. fileJob'.id > 0
    BY <1>2, <1>3
  <2> QED
    BY <1>1, <2>2, <2>3, <2>4, <2>5 DEF FileOrder
<1>7. FileDevice'
  <2>1. fileJob.op = "download" /\ fileJob.state = "data" =>
          /\ InStep /\ fileJob.done + fileJob.len <= fileJob.size
          /\ fileJob.ext \in {"last", "none"} => fileJob.done + fileJob.len = fileJob.size
    BY <1>1 DEF FileInv, FileInStep, FileBlock
  <2>2. fileRequest'.op = "download" /\ fileRequest'.state = "data"
          => NextOfDevice(fileRequest)'
    BY <1>1, <1>4, <2>1 DEF NextOfDevice, InStep
  <2> QED
    BY <1>1, <2>2 DEF FileInv, FileDevice
<1>8. FileCall'
  BY <1>1, <1>2, <1>3, JobTypes, ToolkitAssumption DEF FileInv, FileCall
<1>9. FileOpening' /\ FileDone'
  BY <1>1, <1>3 DEF FileInv, FileOpening, FileDone
<1>10. FileBlock'
  <2>1. fileJob.done \in Nat
    BY <1>2 DEF FileJobRec
  <2> QED
    BY <1>1, <1>2, <1>3, <2>1 DEF FileInv, FileBlock
<1>11. FileInStep'
  BY <1>1, <1>3 DEF FileInv, FileInStep, InStep
<1>12. FileTold'
  BY <1>1, <1>3, <1>6, <1>4 DEF FileInv, FileTold, FileOrder, FileCall, File!NoRequest
<1> QED
  BY <1>5, <1>6, <1>7, <1>8, <1>9, <1>10, <1>11, <1>12 DEF FileInv

(* What is left when the first answer is taken.                             *)
LEMMA TailFacts ==
  ASSUME NEW S, NEW s \in Seq(S), s # <<>>
  PROVE  /\ Tail(s) \in Seq(S) /\ Head(s) = s[1] /\ 1 \in DOMAIN s
         /\ \A i \in DOMAIN Tail(s) : i + 1 \in DOMAIN s /\ Tail(s)[i] = s[i + 1]
OBVIOUS

LEMMA AnswersLeft ==
  ASSUME FileTyped,
         \/ fileAnswers' = fileAnswers
         \/ fileAnswers # <<>> /\ fileAnswers' = Tail(fileAnswers)
  PROVE  /\ fileAnswers' \in Seq(AnswerRec)
         /\ \A i \in DOMAIN fileAnswers' :
              \E j \in DOMAIN fileAnswers : fileAnswers'[i] = fileAnswers[j]
<1>1. fileAnswers \in Seq(AnswerRec)
  BY DEF FileTyped
<1>2. CASE fileAnswers' = fileAnswers
  BY <1>1, <1>2
<1>3. CASE fileAnswers # <<>> /\ fileAnswers' = Tail(fileAnswers)
  BY <1>1, <1>3, TailFacts
<1> QED
  BY <1>2, <1>3

(* A step of the host that leaves its wait, and what it leaves alone.       *)
HostLeaves ==
  /\ \/ fileAnswers' = fileAnswers
     \/ fileAnswers # <<>> /\ fileAnswers' = Tail(fileAnswers)
  /\ UNCHANGED <<fileRequest, fileDev, fileCalls>>

LEMMA HostLeavesStep ==
  ASSUME FileInv, HostLeaves, fileJob' \in FileJobRec, fileJob'.pc # "wait",
         \/ fileJob'.id = fileJob.id
         \/ /\ fileJob'.id = fileJob.id - 1 /\ fileRequest = File!NoRequest
            /\ \A i \in DOMAIN fileAnswers' : ~Current(fileAnswers'[i])
  PROVE  FileTyped' /\ FileOrder' /\ FileDevice' /\ FileTold'
<1>1. FileTyped
  BY DEF FileInv
<1>2. /\ fileAnswers' \in Seq(AnswerRec)
      /\ \A i \in DOMAIN fileAnswers' :
           \E j \in DOMAIN fileAnswers : fileAnswers'[i] = fileAnswers[j]
  BY <1>1, AnswersLeft DEF HostLeaves
<1>3. FileTyped'
  BY <1>1, <1>2 DEF FileTyped, HostLeaves
<1>4. NotLater(fileRequest)' /\ \A i \in DOMAIN fileAnswers' : NotLater(fileAnswers[i])'
  <2>1. \A i \in DOMAIN fileAnswers' : NotLater(fileAnswers'[i])
    BY <1>2 DEF FileInv, FileOrder
  <2>2. CASE fileJob'.id = fileJob.id
    BY <2>1, <2>2 DEF FileInv, FileOrder, NotLater, HostLeaves
  <2>3. CASE /\ fileJob'.id = fileJob.id - 1 /\ fileRequest = File!NoRequest
             /\ \A i \in DOMAIN fileAnswers' : ~Current(fileAnswers'[i])
    <3>1. fileJob.id \in Nat /\ fileJob'.id \in Nat /\ fileCalls \in Nat /\ fileCalls' = fileCalls
      BY <1>1, <1>3, JobTypes, ToolkitAssumption DEF FileTyped, FileJobRec, HostLeaves
    <3>2. ASSUME NEW i \in DOMAIN fileAnswers' PROVE NotLater(fileAnswers[i])'
      <4>1. fileAnswers'[i] \in AnswerRec
        BY <1>2
      <4>2. fileAnswers'[i].id \in Nat
        BY <4>1 DEF AnswerRec
      <4>3. NotLater(fileAnswers'[i]) /\ ~Current(fileAnswers'[i])
        BY <2>1, <2>3
      <4>4. fileJob'.id = fileJob.id - 1
        BY <2>3
      <4> QED
        BY <3>1, <4>2, <4>3, <4>4 DEF NotLater, Current
    <3>3. NotLater(fileRequest)'
      BY <2>3, <3>1, FileFacts DEF NotLater, HostLeaves
    <3> QED
      BY <3>2, <3>3
  <2> QED
    BY <2>2, <2>3
<1>5. FileOrder'
  BY <1>4 DEF FileInv, FileOrder, HostLeaves
<1>6. FileDevice'
  BY DEF FileInv, FileDevice, NextOfDevice, HostLeaves
<1>7. FileTold'
  BY DEF FileTold
<1> QED
  BY <1>3, <1>5, <1>6, <1>7

(* An error: the call goes on with an abort, or ends.                       *)
LEMMA FailedStep ==
  ASSUME FileInv, HostLeaves, fileJob.pc # "idle",
         NEW ret \in {"error", "size", "checksum", "timeout"}, File!Failed(ret)
  PROVE  FileInv'
<1>1. /\ fileJob \in FileJobRec
      /\ fileJob.id \in Nat /\ fileJob.done \in Nat /\ fileJob.size \in 0 .. MaxLength
      /\ fileJob.done \in 0 .. MaxLength /\ fileJob.pc \in {"send", "wait"}
      /\ fileJob.state \in {"req", "data", "abort"} /\ MaxLength \in Nat
  <2>1. fileJob \in FileJobRec
    BY DEF FileInv, FileTyped
  <2> QED
    BY <2>1, JobTypes, ToolkitAssumption
<1>2. fileJob.id <= MaxLength + 3
      /\ (fileJob.state # "abort" \/ fileJob.pc = "send" => fileJob.id <= MaxLength + 2)
  <2>1. CASE fileJob.state = "abort"
    BY <1>1, <2>1 DEF FileInv, FileCall
  <2>2. CASE fileJob.state = "req"
    BY <1>1, <2>2 DEF FileInv, FileOpening
  <2>3. CASE fileJob.state = "data"
    <3>1. fileJob.done < fileJob.size /\ fileJob.id <= fileJob.done + 2
      BY <1>1, <2>3 DEF FileInv, FileBlock
    <3> QED
      BY <1>1, <3>1
  <2> QED
    BY <1>1, <2>1, <2>2, <2>3
<1>3. CASE fileJob.state = "abort"
  <2>1. fileJob' = Row("idle", "abort", fileJob.id, fileJob.tries, fileJob.size, fileJob.max,
                       fileJob.len, fileJob.done, fileJob.ext, fileJob.right, fileJob.ret)
    BY <1>1, <1>3 DEF File!Failed, Row, FileJobRec
  <2>2. /\ fileJob' \in FileJobRec /\ fileJob'.pc = "idle" /\ fileJob'.id = fileJob.id
        /\ fileJob'.state = "abort" /\ fileJob'.ret = fileJob.ret
    BY <1>1, <2>1 DEF Row, FileJobRec
  <2>3. fileJob.ret \notin {"none", "ok"}
    BY <1>3 DEF FileInv, FileCall
  <2>4. FileTyped' /\ FileOrder' /\ FileDevice' /\ FileTold'
    BY <2>2, HostLeavesStep
  <2> QED
    BY <1>2, <2>2, <2>3, <2>4
       DEF FileInv, FileCall, FileOpening, FileBlock, FileInStep, FileDone
<1>4. CASE fileJob.state # "abort"
  <2>1. fileJob' = Row("send", "abort", fileJob.id, fileJob.tries, fileJob.size, fileJob.max,
                       fileJob.len, fileJob.done, "none", fileJob.right, ret)
    BY <1>1, <1>4 DEF File!Failed, Row, FileJobRec
  <2>2. /\ fileJob' \in FileJobRec /\ fileJob'.pc = "send" /\ fileJob'.id = fileJob.id
        /\ fileJob'.state = "abort" /\ fileJob'.ret = ret /\ fileJob'.op = fileJob.op
        /\ fileJob'.size = fileJob.size
    BY <1>1, <2>1 DEF Row, FileJobRec
  <2>3. fileJob.op # "none" /\ fileJob.size > 0
    BY DEF FileInv, FileCall
  <2>4. FileTyped' /\ FileOrder' /\ FileDevice' /\ FileTold'
    BY <2>2, HostLeavesStep
  <2> QED
    BY <1>2, <1>4, <2>2, <2>3, <2>4
       DEF FileInv, FileCall, FileOpening, FileBlock, FileInStep, FileDone
<1> QED
  BY <1>3, <1>4

(* The answer the call waits for: the mailbox is empty, and it is told      *)
(* where the device stands.                                                 *)
Answered(a) ==
  /\ HostLeaves
  /\ fileJob.pc = "wait" /\ fileRequest = File!NoRequest
  /\ Current(a) /\ \A i \in DOMAIN fileAnswers' : ~Current(fileAnswers'[i])
  /\ Tells(a)

LEMMA AnswerTaken ==
  ASSUME FileInv, fileJob.pc = "wait", fileAnswers # <<>>, File!IsAnswer(Head(fileAnswers)),
         fileAnswers' = Tail(fileAnswers), UNCHANGED <<fileRequest, fileDev, fileCalls>>
  PROVE  /\ Head(fileAnswers).sta = "ok" => Answered(Head(fileAnswers))
         /\ Head(fileAnswers) \in AnswerRec
<1>1. fileAnswers \in Seq(AnswerRec)
  BY DEF FileInv, FileTyped
<1>2. Head(fileAnswers) = fileAnswers[1] /\ 1 \in DOMAIN fileAnswers
  BY <1>1, TailFacts
<1>3. fileAnswers[1] \in AnswerRec
  BY <1>1, <1>2
<1>4. Current(fileAnswers[1])
  BY <1>2 DEF File!IsAnswer, Current
<1>5. fileRequest = File!NoRequest
  BY <1>2, <1>4 DEF FileInv, FileOrder
<1>6. fileAnswers[1].sta = "ok" => Tells(fileAnswers[1])
  BY <1>2, <1>4 DEF FileInv, FileTold
<1>7. ASSUME NEW i \in DOMAIN fileAnswers' PROVE ~Current(fileAnswers'[i])
  <2>1. i + 1 \in DOMAIN fileAnswers /\ fileAnswers'[i] = fileAnswers[i + 1] /\ i + 1 # 1
    BY <1>1, <1>7, TailFacts
  <2> QED
    BY <1>2, <1>4, <2>1 DEF FileInv, FileOrder
<1> QED
  BY <1>2, <1>3, <1>4, <1>5, <1>6, <1>7 DEF Answered, HostLeaves

(* An abort that is confirmed, and the last block of a download, end the    *)
(* call.                                                                    *)
LEMMA AbortDone ==
  ASSUME FileInv, NEW a, Answered(a), fileJob.state = "abort", File!Done
  PROVE  FileInv'
<1>1. fileJob \in FileJobRec /\ fileJob.id <= MaxLength + 3
      /\ fileJob.ret \notin {"none", "ok"}
  BY DEF FileInv, FileTyped, FileCall, Answered
<1>2. fileJob' = Row("idle", "abort", fileJob.id, fileJob.tries, fileJob.size, fileJob.max,
                     fileJob.len, fileJob.done, fileJob.ext, fileJob.right, fileJob.ret)
  BY <1>1 DEF File!Done, Row, FileJobRec
<1>3. /\ fileJob' \in FileJobRec /\ fileJob'.pc = "idle" /\ fileJob'.id = fileJob.id
      /\ fileJob'.state = "abort" /\ fileJob'.ret = fileJob.ret
  BY <1>1, <1>2 DEF Row, FileJobRec
<1>4. FileTyped' /\ FileOrder' /\ FileDevice' /\ FileTold'
  BY <1>3, HostLeavesStep DEF Answered
<1> QED
  BY <1>1, <1>3, <1>4
     DEF FileInv, FileCall, FileOpening, FileBlock, FileInStep, FileDone

LEMMA DownloadDone ==
  ASSUME FileInv, NEW a, Answered(a), fileJob.state = "data", fileJob.op = "download",
         fileJob.ext \in {"last", "none"}, File!Done
  PROVE  FileInv'
<1>1. fileJob \in FileJobRec /\ fileJob.ret = "none" /\ fileJob.pc = "wait"
  BY DEF FileInv, FileTyped, FileCall, Answered
<1>2. /\ fileJob.id \in Nat /\ fileJob.done \in Nat /\ fileJob.size \in 0 .. MaxLength
      /\ fileJob.done < fileJob.size /\ fileJob.id <= fileJob.done + 2 /\ MaxLength \in Nat
  BY <1>1, JobTypes, ToolkitAssumption DEF FileInv, FileBlock
<1>3. fileJob' = Row("idle", "data", fileJob.id, fileJob.tries, fileJob.size, fileJob.max,
                     fileJob.len, fileJob.done, fileJob.ext, fileJob.right, "ok")
  BY <1>1 DEF File!Done, Row, FileJobRec
<1>4. /\ fileJob' \in FileJobRec /\ fileJob'.pc = "idle" /\ fileJob'.id = fileJob.id
      /\ fileJob'.state = "data" /\ fileJob'.op = "download" /\ fileJob'.size = fileJob.size
  BY <1>1, <1>3 DEF Row, FileJobRec
<1>5. FileTyped' /\ FileOrder' /\ FileDevice' /\ FileTold'
  BY <1>4, HostLeavesStep DEF Answered
<1>6. FileDone'
  BY <1>4 DEF FileDone, Answered, HostLeaves, Tells, Written
<1>7. fileJob'.id <= MaxLength + 3
  BY <1>2, <1>4
<1> QED
  BY <1>4, <1>5, <1>6, <1>7
     DEF FileInv, FileCall, FileOpening, FileBlock, FileInStep

(* The file is open for a download: the first block.                        *)
LEMMA DownloadOpened ==
  ASSUME FileInv, NEW a \in AnswerRec, Answered(a), fileJob.state = "req",
         fileJob.op = "download", a.n # 0, File!DownloadConfirmed(a)
  PROVE  FileInv'
<1> DEFINE max == File!BlockSize(a.n)
           len == File!Least(fileJob.size, max)
           ext == IF fileJob.size <= max THEN "none" ELSE "first"
<1>1. /\ fileJob \in FileJobRec /\ fileJob.ret = "none" /\ fileJob.right = TRUE
      /\ fileJob.id = 1 /\ fileJob.done = 0 /\ fileJob.max = HostBlock
      /\ fileJob.size > 0
  BY DEF FileInv, FileTyped, FileCall, FileOpening, Answered
<1>2. /\ fileJob.size \in Nat /\ HostBlock \in Nat /\ HostBlock > 0 /\ a.n \in Nat
      /\ MaxLength \in Nat
  BY <1>1, JobTypes, ToolkitAssumption DEF AnswerRec
<1>3. /\ max \in 1 .. HostBlock /\ len \in 1 .. HostBlock /\ len <= max
      /\ len <= fileJob.size /\ ext \in {"none", "first"}
      /\ ext = "none" <=> len = fileJob.size
  BY <1>1, <1>2 DEF File!BlockSize, File!Least
<1>4. fileJob' = [fileJob EXCEPT !.pc = "send", !.state = "data", !.max = max,
                                 !.len = len, !.ext = ext]
  BY DEF File!DownloadConfirmed
<1> HIDE DEF max, len, ext
<1>5. fileJob' = Row("send", "data", 1, fileJob.tries, fileJob.size, max, len, 0, ext,
                     TRUE, "none")
  BY <1>1, <1>4 DEF Row, FileJobRec
<1>6. /\ fileJob' \in FileJobRec
      /\ fileJob'.pc = "send" /\ fileJob'.id = 1 /\ fileJob'.state = "data"
      /\ fileJob'.op = "download" /\ fileJob'.size = fileJob.size /\ fileJob'.max = max
      /\ fileJob'.len = len /\ fileJob'.done = 0 /\ fileJob'.ext = ext
      /\ fileJob'.right = TRUE /\ fileJob'.ret = "none"
  <2>1. len \in 0 .. HostBlock /\ 0 \in 0 .. MaxLength /\ ext \in {"none", "first", "middle", "last"}
    BY <1>2, <1>3
  <2>2. fileJob' \in FileJobRec
    BY <1>1, <1>3, <1>5, <2>1 DEF Row, FileJobRec
  <2> QED
    BY <2>2, <1>5 DEF Row
<1>7. FileTyped' /\ FileOrder' /\ FileDevice' /\ FileTold'
  BY <1>1, <1>6, HostLeavesStep DEF Answered
<1>8. FileBlock'
  BY <1>2, <1>3, <1>6 DEF FileBlock
<1>9. FileInStep'
  BY <1>6 DEF FileInStep, InStep, Answered, HostLeaves, Tells, Opened
<1> QED
  BY <1>1, <1>6, <1>7, <1>8, <1>9 DEF FileInv, FileCall, FileOpening, FileDone

(* The next block of a download.                                            *)
LEMMA DownloadGoesOn ==
  ASSUME FileInv, NEW a, Answered(a), fileJob.state = "data", fileJob.op = "download",
         fileJob.ext \notin {"last", "none"}, File!DownloadConfirmed(a)
  PROVE  FileInv'
<1> DEFINE done == fileJob.done + fileJob.len
           left == fileJob.size - done
           len == IF fileJob.size <= fileJob.len + done THEN left ELSE fileJob.len
           ext == IF fileJob.size <= fileJob.len + done THEN "last" ELSE "middle"
<1>1. /\ fileJob \in FileJobRec /\ fileJob.ret = "none" /\ fileJob.right = TRUE
      /\ fileJob.pc = "wait" /\ fileJob.size > 0
  BY DEF FileInv, FileTyped, FileCall, Answered
<1>2. /\ fileJob.id \in Nat /\ fileJob.done \in Nat /\ fileJob.size \in 0 .. MaxLength
      /\ fileJob.len \in Nat /\ fileJob.max \in 0 .. HostBlock /\ MaxLength \in Nat
      /\ HostBlock \in Nat
  BY <1>1, JobTypes, ToolkitAssumption
<1>3. /\ fileJob.id <= fileJob.done + 2 /\ 1 <= fileJob.len /\ fileJob.len <= fileJob.max
      /\ done < fileJob.size
  <2>1. /\ fileJob.id <= fileJob.done + 2 /\ 1 <= fileJob.len /\ fileJob.len <= fileJob.max
        /\ done <= fileJob.size /\ done # fileJob.size
    BY <1>1 DEF FileInv, FileBlock
  <2> QED
    BY <1>2, <2>1
<1>4. /\ done \in 1 .. MaxLength /\ len \in 1 .. HostBlock /\ len <= fileJob.max
      /\ done + len <= fileJob.size /\ fileJob.id <= done + 1
      /\ ext \in {"last", "middle"} /\ (ext = "last" <=> done + len = fileJob.size)
  BY <1>2, <1>3
<1>5. fileJob' = [fileJob EXCEPT !.pc = "send", !.done = done, !.len = len, !.ext = ext]
  <2>0. fileJob' = File!NextBlock(done)
    BY DEF File!DownloadConfirmed
  <2>1. CASE fileJob.size <= fileJob.len + done
    <3>1. fileJob' = [fileJob EXCEPT !.pc = "send", !.done = done, !.len = left, !.ext = "last"]
      BY <2>0, <2>1 DEF File!NextBlock
    <3> QED
      BY <2>1, <3>1
  <2>2. CASE ~(fileJob.size <= fileJob.len + done)
    <3>1. fileJob' = [fileJob EXCEPT !.pc = "send", !.done = done, !.ext = "middle"]
      BY <2>0, <2>2 DEF File!NextBlock
    <3>2. [fileJob EXCEPT !.pc = "send", !.done = done, !.ext = "middle"]
            = [fileJob EXCEPT !.pc = "send", !.done = done, !.len = fileJob.len, !.ext = "middle"]
      <4> HIDE DEF done
      <4> QED
        BY <1>1 DEF FileJobRec
    <3> QED
      BY <2>2, <3>1, <3>2
  <2> QED
    BY <2>1, <2>2
<1> HIDE DEF done, left, len, ext
<1>6. fileJob' = Row("send", "data", fileJob.id, fileJob.tries, fileJob.size, fileJob.max,
                     len, done, ext, TRUE, "none")
  BY <1>1, <1>5 DEF Row, FileJobRec
<1>7. /\ fileJob' \in FileJobRec
      /\ fileJob'.pc = "send" /\ fileJob'.id = fileJob.id /\ fileJob'.state = "data"
      /\ fileJob'.op = "download" /\ fileJob'.size = fileJob.size
      /\ fileJob'.max = fileJob.max
      /\ fileJob'.len = len /\ fileJob'.done = done /\ fileJob'.ext = ext
      /\ fileJob'.right = TRUE /\ fileJob'.ret = "none"
  <2>1. len \in 0 .. HostBlock /\ done \in 0 .. MaxLength /\ ext \in {"none", "first", "middle", "last"}
    BY <1>2, <1>4
  <2>2. fileJob' \in FileJobRec
    BY <1>1, <1>6, <2>1 DEF Row, FileJobRec
  <2> QED
    BY <2>2, <1>6 DEF Row
<1>8. FileTyped' /\ FileOrder' /\ FileDevice' /\ FileTold'
  BY <1>7, HostLeavesStep DEF Answered
<1>9. FileBlock'
  BY <1>2, <1>4, <1>7 DEF FileBlock
<1>10. FileInStep'
  BY <1>7 DEF FileInStep, InStep, Answered, HostLeaves, Tells, Written, done
<1> QED
  BY <1>1, <1>7, <1>8, <1>9, <1>10 DEF FileInv, FileCall, FileOpening, FileDone

(* The file is open for an upload; an empty one is done.                    *)
LEMMA UploadOpened ==
  ASSUME FileInv, NEW a \in AnswerRec, Answered(a), fileJob.state = "req",
         fileJob.op = "upload", a.size <= fileJob.size, File!UploadConfirmed(a)
  PROVE  FileInv'
<1> DEFINE max == File!BlockSize(a.n)
           pc == IF a.size = 0 THEN "idle" ELSE "send"
           ret == IF a.size = 0 THEN "ok" ELSE "none"
           ext == IF a.size <= max THEN "none" ELSE "first"
<1>1. /\ fileJob \in FileJobRec /\ fileJob.ret = "none" /\ fileJob.right = TRUE
      /\ fileJob.id = 1 /\ fileJob.done = 0 /\ fileJob.max = HostBlock
  BY DEF FileInv, FileTyped, FileCall, FileOpening, Answered
<1>2. /\ HostBlock \in Nat /\ HostBlock > 0 /\ a.n \in Nat /\ a.size \in 0 .. MaxLength
      /\ MaxLength \in Nat /\ fileJob.size \in Nat
  BY <1>1, JobTypes, ToolkitAssumption DEF AnswerRec
<1>4. /\ max \in 0 .. HostBlock /\ pc \in {"idle", "send"} /\ ret \in {"ok", "none"}
      /\ ext \in {"none", "first"}
  BY <1>1, <1>2 DEF File!BlockSize, File!Least
<1>5. fileJob' = [fileJob EXCEPT !.pc = pc, !.ret = ret, !.state = "data", !.max = max,
                                 !.size = a.size, !.ext = ext]
  <2>1. fileJob' = [fileJob EXCEPT !.pc = pc, !.ret = IF a.size = 0 THEN "ok" ELSE @,
                       !.state = "data", !.max = max, !.size = a.size, !.ext = ext]
    BY <1>2 DEF File!UploadConfirmed
  <2>2. ret = IF a.size = 0 THEN "ok" ELSE fileJob.ret
    BY <1>1
  <2> QED
    BY <2>1, <2>2
<1> HIDE DEF max, pc, ret, ext
<1>6. fileJob' = Row(pc, "data", 1, fileJob.tries, a.size, max, fileJob.len, 0, ext,
                     TRUE, ret)
  BY <1>1, <1>5 DEF Row, FileJobRec
<1>7. /\ fileJob' \in FileJobRec
      /\ fileJob'.pc = pc /\ fileJob'.id = 1 /\ fileJob'.state = "data"
      /\ fileJob'.op = "upload" /\ fileJob'.size = a.size
      /\ fileJob'.done = 0 /\ fileJob'.right = TRUE /\ fileJob'.ret = ret
  <2>1. /\ ext \in {"none", "first", "middle", "last"} /\ 0 \in 0 .. MaxLength
        /\ pc \in {"idle", "send", "wait"} /\ ret \in {"none", "ok", "error", "size", "checksum", "timeout"}
    BY <1>2, <1>4
  <2>2. fileJob' \in FileJobRec
    BY <1>1, <1>2, <1>4, <1>6, <2>1 DEF Row, FileJobRec
  <2> QED
    BY <2>2, <1>6 DEF Row
<1>8. FileTyped' /\ FileOrder' /\ FileDevice' /\ FileTold'
  BY <1>1, <1>4, <1>7, HostLeavesStep DEF Answered
<1>9. fileRequest = File!NoRequest /\ fileRequest' = fileRequest /\ fileDev' = fileDev
      /\ fileDev.op = "upload" /\ fileDev.got = 0 /\ fileDev.size = a.size
  BY DEF Answered, HostLeaves, Tells, Opened
<1>10. FileInStep' /\ FileDone' /\ FileOpening'
  BY <1>4, <1>7, <1>9 DEF FileInStep, InStep, FileDone, FileOpening, pc
<1>11. FileBlock' /\ FileCall'
  BY <1>2, <1>4, <1>7 DEF FileBlock, FileCall, pc, ret
<1> QED
  BY <1>8, <1>10, <1>11 DEF FileInv

(* A block of an upload; the last ends it.                                  *)
LEMMA UploadGoesOn ==
  ASSUME FileInv, NEW a \in AnswerRec, Answered(a), fileJob.state = "data",
         fileJob.op = "upload", File!ChecksumFits(a), File!UploadConfirmed(a)
  PROVE  FileInv'
<1> DEFINE done == fileJob.done + a.n
           right == fileJob.right /\ a.src = fileCalls /\ a.at = fileJob.done
           id == IF a.n = 0 THEN fileJob.id - 1 ELSE fileJob.id
           pc == IF done = fileJob.size THEN "idle" ELSE "send"
           ret == IF done = fileJob.size THEN "ok" ELSE fileJob.ret
           ext == IF done = fileJob.size THEN fileJob.ext
                  ELSE IF fileJob.size - done <= fileJob.max THEN "last" ELSE "middle"
<1>1. /\ fileJob \in FileJobRec /\ fileJob.ret = "none" /\ fileJob.right = TRUE
      /\ fileJob.size > 0 /\ fileJob.pc = "wait"
  BY DEF FileInv, FileTyped, FileCall, Answered
<1>2. /\ fileJob.id \in Nat /\ fileJob.done \in Nat /\ fileJob.size \in 0 .. MaxLength
      /\ MaxLength \in Nat /\ a.n \in Nat
      /\ fileJob.ext \in {"none", "first", "middle", "last"}
  BY <1>1, JobTypes, ToolkitAssumption DEF AnswerRec
<1>3. /\ fileRequest = File!NoRequest /\ fileRequest' = fileRequest /\ fileDev' = fileDev
      /\ fileDev.op = "upload" /\ fileDev.size = fileJob.size /\ fileDev.got = done
      /\ a.src = fileCalls /\ a.at = fileJob.done
  BY DEF Answered, HostLeaves, Tells, ReadBlock, Current, File!ChecksumFits
<1>4. done <= fileJob.size /\ fileJob.done < fileJob.size
      /\ fileJob.id <= fileJob.done + 2 /\ fileJob.id > 0
  BY <1>1, <1>3 DEF FileInv, FileOrder, FileDevice, FileBlock
<1>5. /\ done \in 0 .. MaxLength /\ id \in Nat /\ id <= done + 1 /\ right = TRUE
      /\ pc \in {"idle", "send"} /\ ret \in {"ok", "none"}
      /\ ext \in {"none", "first", "middle", "last"}
  BY <1>1, <1>2, <1>3, <1>4
<1>6. fileJob' = [fileJob EXCEPT !.done = done, !.right = right, !.id = id, !.pc = pc,
                                 !.ret = ret, !.ext = ext]
  BY <1>1 DEF File!UploadConfirmed, File!ChecksumFits
<1>7. pc = "idle" <=> done = fileJob.size
  OBVIOUS
<1>8. ret = "ok" => pc = "idle"
  BY <1>1
<1>9. \/ id = fileJob.id
       \/ /\ id = fileJob.id - 1 /\ fileRequest = File!NoRequest
          /\ \A i \in DOMAIN fileAnswers' : ~Current(fileAnswers'[i])
  BY DEF Answered
<1> HIDE DEF done, right, id, pc, ret, ext
<1>10. fileJob' = Row(pc, "data", id, fileJob.tries, fileJob.size, fileJob.max,
                     fileJob.len, done, ext, TRUE, ret)
  BY <1>1, <1>5, <1>6 DEF Row, FileJobRec
<1>11. /\ fileJob' \in FileJobRec
       /\ fileJob'.pc = pc /\ fileJob'.id = id /\ fileJob'.state = "data"
       /\ fileJob'.op = "upload" /\ fileJob'.size = fileJob.size
       /\ fileJob'.done = done /\ fileJob'.right = TRUE /\ fileJob'.ret = ret
  <2>1. pc \in {"idle", "send", "wait"} /\ ret \in {"none", "ok", "error", "size", "checksum", "timeout"}
    BY <1>5
  <2>2. fileJob' \in FileJobRec
    BY <1>1, <1>5, <1>10, <2>1 DEF Row, FileJobRec
  <2> QED
    BY <2>2, <1>10 DEF Row
<1>12. FileTyped' /\ FileOrder' /\ FileDevice' /\ FileTold'
  BY <1>5, <1>9, <1>11, HostLeavesStep DEF Answered
<1>13. FileInStep' /\ FileDone' /\ FileOpening'
  BY <1>3, <1>5, <1>7, <1>11 DEF FileInStep, InStep, FileDone, FileOpening
<1>14. FileBlock'
  BY <1>2, <1>4, <1>5, <1>7, <1>11 DEF FileBlock
<1>15. FileCall'
  <2>1. id <= MaxLength + 3
    BY <1>2, <1>5
  <2>2. pc # "idle" => ret = "none"
    BY <1>1, <1>7 DEF ret
  <2> QED
    BY <1>1, <1>2, <1>5, <1>11, <2>1, <2>2 DEF FileCall
<1> QED
  BY <1>12, <1>13, <1>14, <1>15 DEF FileInv

LEMMA ConfirmedStep ==
  ASSUME FileInv, NEW a \in AnswerRec, HostLeaves, fileJob.pc = "wait",
         a.sta = "ok" => Answered(a), File!Confirmed(a)
  PROVE  FileInv'
<1>1. CASE a.sta = "error" /\ File!Failed("error")
  BY <1>1, FailedStep
<1>2. CASE a.sta = "ok" /\ fileJob.state = "abort" /\ File!Done
  BY <1>2, AbortDone
<1>3. CASE a.sta = "ok" /\ fileJob.state # "abort" /\ fileJob.op = "download"
           /\ File!DownloadConfirmed(a)
  <2>1. \/ fileJob.state = "req" /\ File!Failed("size")
        \/ fileJob.state = "req" /\ a.n # 0
        \/ fileJob.state = "data" /\ fileJob.ext \in {"last", "none"} /\ File!Done
        \/ fileJob.state = "data" /\ fileJob.ext \notin {"last", "none"}
    BY <1>3 DEF File!DownloadConfirmed
  <2> QED
    BY <1>3, <2>1, FailedStep, DownloadOpened, DownloadDone, DownloadGoesOn
<1>4. CASE a.sta = "ok" /\ fileJob.state # "abort" /\ fileJob.op = "upload"
           /\ File!UploadConfirmed(a)
  <2>1. \/ fileJob.state = "req" /\ File!Failed("size")
        \/ fileJob.state = "req" /\ a.size <= fileJob.size
        \/ fileJob.state = "data" /\ File!Failed("checksum")
        \/ fileJob.state = "data" /\ File!ChecksumFits(a)
    BY <1>4 DEF File!UploadConfirmed
  <2> QED
    BY <1>4, <2>1, FailedStep, UploadOpened, UploadGoesOn
<1> QED
  BY <1>1, <1>2, <1>3, <1>4 DEF File!Confirmed

LEMMA WaitsOnStep ==
  ASSUME FileInv, fileJob.pc = "wait", fileAnswers # <<>>, fileJob.tries < 9,
         fileAnswers' = Tail(fileAnswers), fileJob' = [fileJob EXCEPT !.tries = @ + 1],
         UNCHANGED <<fileRequest, fileDev, fileCalls>>
  PROVE  FileInv'
<1>1. FileTyped /\ fileJob \in FileJobRec
  BY DEF FileInv, FileTyped
<1>2. fileJob.tries + 1 \in 0 .. 9
  <2>1. fileJob.tries \in 0 .. 9
    BY <1>1, JobTypes
  <2> QED
    BY <2>1
<1>3. /\ fileJob' \in FileJobRec
      /\ fileJob'.op = fileJob.op /\ fileJob'.pc = fileJob.pc /\ fileJob'.state = fileJob.state
      /\ fileJob'.id = fileJob.id /\ fileJob'.size = fileJob.size /\ fileJob'.max = fileJob.max
      /\ fileJob'.len = fileJob.len /\ fileJob'.done = fileJob.done
      /\ fileJob'.ext = fileJob.ext /\ fileJob'.right = fileJob.right
      /\ fileJob'.ret = fileJob.ret
  <2> DEFINE tries == fileJob.tries + 1
  <2>1. fileJob' = [fileJob EXCEPT !.tries = tries] /\ tries \in 0 .. 9
    BY <1>2
  <2> HIDE DEF tries
  <2> QED
    BY <1>1, <2>1 DEF FileJobRec
<1>4. /\ fileAnswers' \in Seq(AnswerRec)
      /\ \A i \in DOMAIN fileAnswers' :
           \E j \in DOMAIN fileAnswers : fileAnswers'[i] = fileAnswers[j]
  BY <1>1, AnswersLeft
<1>5. FileTyped'
  BY <1>1, <1>3, <1>4 DEF FileTyped
<1>6. FileOrder'
  <2>1. ASSUME NEW i \in DOMAIN fileAnswers', NEW j \in DOMAIN fileAnswers',
               Current(fileAnswers'[i]), Current(fileAnswers'[j])
        PROVE  i = j
    <3>1. /\ i + 1 \in DOMAIN fileAnswers /\ fileAnswers'[i] = fileAnswers[i + 1]
          /\ j + 1 \in DOMAIN fileAnswers /\ fileAnswers'[j] = fileAnswers[j + 1]
      BY <1>1, TailFacts DEF FileTyped
    <3>2. i + 1 = j + 1
      BY <2>1, <3>1 DEF FileInv, FileOrder
    <3>3. i \in Nat /\ j \in Nat
      BY <1>4
    <3> QED
      BY <3>2, <3>3
  <2>2. fileJob.id > 0
    BY DEF FileInv, FileOrder
  <2> QED
    BY <1>3, <1>4, <2>1, <2>2 DEF FileInv, FileOrder, NotLater, Current, AsPut
<1>7. FileDevice'
  BY DEF FileInv, FileDevice, NextOfDevice
<1>8. FileCall' /\ FileOpening' /\ FileInStep' /\ FileDone'
  BY <1>3 DEF FileInv, FileCall, FileOpening, FileInStep, InStep, FileDone
<1>9. FileBlock'
  BY <1>3 DEF FileInv, FileBlock
<1>10. FileTold'
  BY <1>3, <1>4 DEF FileInv, FileTold, Current, Tells, Opened, Written, ReadBlock
<1> QED
  BY <1>5, <1>6, <1>7, <1>8, <1>9, <1>10 DEF FileInv

LEMMA TransferPacketStep == ASSUME FileInv, File!DEV_TransferPacket PROVE FileInv'
<1>1. /\ fileJob.pc = "wait" /\ fileAnswers # <<>> /\ fileAnswers' = Tail(fileAnswers)
      /\ UNCHANGED <<fileRequest, fileDev, fileCalls>>
  BY DEF File!DEV_TransferPacket
<1>2. HostLeaves
  BY <1>1 DEF HostLeaves
<1>3. CASE File!IsAnswer(Head(fileAnswers)) /\ File!Confirmed(Head(fileAnswers))
  BY <1>1, <1>2, <1>3, AnswerTaken, ConfirmedStep
<1>4. CASE fileJob.tries < 9 /\ fileJob' = [fileJob EXCEPT !.tries = @ + 1]
  BY <1>1, <1>4, WaitsOnStep
<1>5. CASE File!Failed("timeout")
  BY <1>1, <1>2, <1>5, FailedStep
<1> QED
  BY <1>3, <1>4, <1>5 DEF File!DEV_TransferPacket

LEMMA TimeoutStep == ASSUME FileInv, File!Timeout PROVE FileInv'
<1>1. HostLeaves /\ fileJob.pc # "idle" /\ File!Failed("timeout")
  BY DEF File!Timeout, HostLeaves
<1> QED
  BY <1>1, FailedStep

(* The device has taken the request and answered it.                        *)
Answers(a) ==
  /\ a.src = fileRequest.src /\ a.id = fileRequest.id
  /\ fileAnswers' = Append(fileAnswers, a) /\ fileRequest' = File!NoRequest
  /\ UNCHANGED <<fileJob, fileCalls>>

LEMMA AnswerIs ==
  ASSUME FileTyped, NEW sta \in {"ok", "error"}, NEW n \in Nat, NEW size \in 0 .. MaxLength,
         NEW at \in Nat, File!Answer(sta, n, size, at), UNCHANGED <<fileJob, fileCalls>>
  PROVE  \E a \in AnswerRec :
           Answers(a) /\ a.sta = sta /\ a.n = n /\ a.size = size /\ a.at = at
<1> DEFINE a == [op |-> fileRequest.op, state |-> fileRequest.state, src |-> fileRequest.src,
                 id |-> fileRequest.id, sta |-> sta, n |-> n, size |-> size, at |-> at]
<1>1. fileRequest \in RequestRec
  BY DEF FileTyped
<1>2. a \in AnswerRec
  BY <1>1 DEF AnswerRec, RequestRec
<1>3. /\ a.src = fileRequest.src /\ a.id = fileRequest.id
      /\ a.sta = sta /\ a.n = n /\ a.size = size /\ a.at = at
  OBVIOUS
<1>4. fileAnswers' = Append(fileAnswers, a) /\ fileRequest' = File!NoRequest
  BY DEF File!Answer
<1> HIDE DEF a
<1> QED
  BY <1>2, <1>3, <1>4 DEF Answers

LEMMA DeviceAnswers ==
  ASSUME FileInv, fileRequest # File!NoRequest, NEW a \in AnswerRec, Answers(a),
         fileDev' \in FileDevRec,
         fileDev'.file # 0 => fileDev'.file = fileDev'.size,
         fileDev'.got <= fileDev'.size,
         fileJob.pc = "wait" /\ AsPut /\ a.sta = "ok" => Tells(a)'
  PROVE  FileInv'
<1>1. FileTyped /\ fileAnswers \in Seq(AnswerRec)
  BY DEF FileInv, FileTyped
<1>2. /\ fileAnswers' \in Seq(AnswerRec)
      /\ \A i \in DOMAIN fileAnswers' :
           \/ fileAnswers'[i] = a
           \/ i \in DOMAIN fileAnswers /\ fileAnswers'[i] = fileAnswers[i]
  BY <1>1 DEF Answers
<1>3. FileTyped'
  BY <1>1, <1>2, FileFacts DEF FileTyped, Answers
<1>4. FileOrder'
  <2>1. NotLater(a) /\ NotLater(File!NoRequest)
    <3>1. fileCalls \in Nat /\ fileJob.id \in Nat
      BY <1>1, ToolkitAssumption, JobTypes DEF FileTyped
    <3> QED
      BY <3>1, FileFacts DEF FileInv, FileOrder, NotLater, Answers
  <2>2. ASSUME fileJob.pc = "wait", NEW i \in DOMAIN fileAnswers', NEW j \in DOMAIN fileAnswers',
               Current(fileAnswers'[i]), Current(fileAnswers'[j])
        PROVE  i = j
    <3>1. \A k \in DOMAIN fileAnswers : ~Current(fileAnswers[k])
      BY <2>2 DEF FileInv, FileOrder
    <3>2. /\ i \notin DOMAIN fileAnswers /\ j \notin DOMAIN fileAnswers
      BY <1>1, <2>2, <3>1 DEF Answers
    <3> QED
      BY <1>1, <3>2 DEF Answers
  <2> QED
    BY <1>2, <2>1, <2>2 DEF FileInv, FileOrder, NotLater, Current, Answers
<1>5. FileDevice'
  BY FileFacts DEF FileDevice, Answers
<1>6. FileCall' /\ FileOpening' /\ FileDone'
  BY DEF FileInv, FileCall, FileOpening, FileDone, Answers
<1>7. FileBlock'
  BY DEF FileInv, FileBlock, Answers
<1>8. FileInStep'
  BY DEF FileInv, FileInStep, Answers
<1>9. FileTold'
  <2> SUFFICES ASSUME fileJob.pc = "wait", NEW i \in DOMAIN fileAnswers',
                      Current(fileAnswers'[i]), fileAnswers'[i].sta = "ok"
               PROVE  Tells(fileAnswers[i])'
    BY DEF FileTold, Answers, Current
  <2>1. AsPut /\ \A j \in DOMAIN fileAnswers : ~Current(fileAnswers[j])
    BY DEF FileInv, FileOrder
  <2>2. fileAnswers'[i] = a
    BY <1>2, <2>1
  <2> QED
    BY <2>1, <2>2 DEF Tells, Opened, Written, ReadBlock
<1> QED
  BY <1>3, <1>4, <1>5, <1>6, <1>7, <1>8, <1>9 DEF FileInv

(* The device's fields.                                                     *)
LEMMA DevTypes ==
  ASSUME FileInv
  PROVE  /\ FileTyped /\ fileDev \in FileDevRec /\ fileRequest \in RequestRec
         /\ fileDev.op \in {"none", "download", "upload"} /\ fileDev.size \in 0 .. MaxLength
         /\ fileDev.max \in Nat /\ fileDev.got \in 0 .. MaxLength
         /\ fileDev.file \in 0 .. MaxLength
         /\ fileRequest.size \in 0 .. MaxLength /\ fileRequest.at \in 0 .. MaxLength
         /\ fileRequest.len \in 0 .. HostBlock
         /\ fileRequest.op \in {"none", "download", "upload"}
         /\ fileDev.file # 0 => fileDev.file = fileDev.size
         /\ fileDev.got <= fileDev.size
         /\ MaxLength \in Nat /\ HostBlock \in Nat /\ HostBlock > 0
<1>1. FileTyped /\ fileDev \in FileDevRec /\ fileRequest \in RequestRec
  BY DEF FileInv, FileTyped
<1>2. /\ fileDev.op \in {"none", "download", "upload"} /\ fileDev.size \in 0 .. MaxLength
      /\ fileDev.max \in Nat /\ fileDev.got \in 0 .. MaxLength
      /\ fileDev.file \in 0 .. MaxLength
  BY <1>1 DEF FileDevRec
<1>3. /\ fileRequest.size \in 0 .. MaxLength /\ fileRequest.at \in 0 .. MaxLength
      /\ fileRequest.len \in 0 .. HostBlock
      /\ fileRequest.op \in {"none", "download", "upload"}
  BY <1>1 DEF RequestRec
<1> QED
  BY <1>1, <1>2, <1>3, ToolkitAssumption DEF FileInv, FileDevice

LEMMA RefusesStep ==
  ASSUME FileInv, fileRequest # File!NoRequest, File!Answer("error", 0, 0, 0),
         UNCHANGED <<fileJob, fileDev, fileCalls>>
  PROVE  FileInv'
<1>1. 0 \in 0 .. MaxLength /\ FileTyped
  BY DevTypes
<1>2. PICK a \in AnswerRec : Answers(a) /\ a.sta = "error"
  BY <1>1, AnswerIs
<1> QED
  BY <1>2, DevTypes, DeviceAnswers

LEMMA OpensStep == ASSUME FileInv, File!DeviceOpens PROVE FileInv'
<1>1. PICK max \in 0 .. HostBlock + 1, size \in 0 .. MaxLength :
        /\ fileRequest.op = "download" => size = fileRequest.size
        /\ fileDev' = [fileDev EXCEPT !.op = fileRequest.op, !.size = size, !.got = 0,
                                      !.max = max, !.file = 0]
        /\ File!Answer("ok", max, size, 0)
  BY Zenon DEF File!DeviceOpens
<1>2. fileRequest.op # "none" /\ fileRequest.state = "req" /\ UNCHANGED <<fileJob, fileCalls>>
  BY DEF File!DeviceOpens
<1>3. fileDev' = [op |-> fileRequest.op, size |-> size, max |-> max, got |-> 0, file |-> 0]
  BY <1>1, DevTypes DEF FileDevRec
<1>4. max \in Nat
  BY DevTypes
<1>5. /\ fileDev' \in FileDevRec
      /\ fileDev'.op = fileRequest.op /\ fileDev'.size = size /\ fileDev'.max = max
      /\ fileDev'.got = 0 /\ fileDev'.file = 0
  BY <1>3, <1>4, DevTypes DEF FileDevRec
<1>6. PICK a \in AnswerRec :
        Answers(a) /\ a.sta = "ok" /\ a.n = max /\ a.size = size
  BY <1>1, <1>2, <1>4, DevTypes, AnswerIs
<1>7. AsPut => Tells(a)'
  BY <1>1, <1>2, <1>5, <1>6 DEF AsPut, Tells, Opened
<1>8. fileRequest # File!NoRequest
  BY <1>2, FileFacts
<1>9. fileDev'.got <= fileDev'.size
  BY <1>5
<1> QED
  BY <1>1, <1>5, <1>6, <1>7, <1>8, <1>9, DeviceAnswers

LEMMA WritesStep == ASSUME FileInv, File!DeviceWrites PROVE FileInv'
<1>1. /\ fileRequest.op = "download" /\ fileRequest.state = "data"
      /\ UNCHANGED <<fileJob, fileCalls>>
  BY DEF File!DeviceWrites
<1>2. fileRequest # File!NoRequest /\ NextOfDevice(fileRequest)
  BY <1>1, FileFacts DEF FileInv, FileDevice
<1> DEFINE got == fileDev.got + fileRequest.len
<1>3. /\ fileDev.op = "download" /\ fileDev.file = 0 /\ got <= fileDev.size
      /\ fileRequest.ext \in {"last", "none"} => got = fileDev.size
      /\ got \in 0 .. MaxLength
  BY <1>2, DevTypes DEF NextOfDevice
<1>4. fileJob.pc = "wait" /\ AsPut =>
        /\ fileJob.state = "data" /\ fileJob.op = "download"
        /\ fileDev.size = fileJob.size /\ fileDev.got = fileJob.done
        /\ fileRequest.ext = fileJob.ext /\ fileRequest.len = fileJob.len
  BY <1>1, <1>2 DEF FileInv, FileInStep, InStep, AsPut
<1>5. CASE File!Answer("error", 0, 0, 0) /\ UNCHANGED fileDev
  BY <1>1, <1>2, <1>5, RefusesStep
<1>6. CASE /\ File!Answer("ok", 0, 0, 0)
           /\ fileDev' = IF fileRequest.ext \in {"last", "none"}
                         THEN [File!Closed EXCEPT !.file = got]
                         ELSE [fileDev EXCEPT !.got = got]
  <2>1. 0 \in 0 .. MaxLength
    BY DevTypes
  <2>2. PICK a \in AnswerRec : Answers(a)
    BY <1>1, <1>6, <2>1, DevTypes, AnswerIs
  <2>3. CASE fileRequest.ext \in {"last", "none"}
    <3> HIDE DEF got
    <3>1. fileDev' = [op |-> "none", size |-> fileDev.size, max |-> fileDev.max,
                      got |-> 0, file |-> got]
      BY <1>6, <2>3, DevTypes DEF File!Closed, FileDevRec
    <3>2. /\ fileDev' \in FileDevRec /\ fileDev'.op = "none" /\ fileDev'.got = 0
          /\ fileDev'.size = fileDev.size /\ fileDev'.file = got
      BY <1>3, <2>1, <3>1, DevTypes DEF FileDevRec
    <3>3. fileJob.pc = "wait" /\ AsPut => Tells(a)'
      BY <1>1, <1>3, <1>4, <2>2, <2>3, <3>2 DEF Tells, Written, Answers
    <3>4. fileDev'.got <= fileDev'.size
      BY <3>2, DevTypes
    <3> QED
      BY <1>2, <1>3, <2>2, <2>3, <3>2, <3>3, <3>4, DeviceAnswers
  <2>4. CASE fileRequest.ext \notin {"last", "none"}
    <3>1. fileDev' = [fileDev EXCEPT !.got = got]
      BY <1>6, <2>4
    <3>2. fileJob.pc = "wait" /\ AsPut => got = fileJob.done + fileJob.len
      BY <1>4
    <3> HIDE DEF got
    <3>3. /\ fileDev' \in FileDevRec /\ fileDev'.op = fileDev.op /\ fileDev'.got = got
          /\ fileDev'.size = fileDev.size /\ fileDev'.file = 0
      BY <1>3, <3>1, DevTypes DEF FileDevRec
    <3>4. fileJob.pc = "wait" /\ AsPut => Tells(a)'
      BY <1>1, <1>3, <1>4, <2>2, <2>4, <3>2, <3>3 DEF Tells, Written, Answers
    <3> QED
      BY <1>2, <1>3, <2>2, <3>3, <3>4, DeviceAnswers
  <2> QED
    BY <2>3, <2>4
<1> QED
  BY <1>5, <1>6 DEF File!DeviceWrites

LEMMA ReadsStep == ASSUME FileInv, File!DeviceReads PROVE FileInv'
<1>1. /\ fileRequest.op = "upload" /\ fileRequest.state = "data"
      /\ UNCHANGED <<fileJob, fileCalls>>
  BY DEF File!DeviceReads
<1>2. fileRequest # File!NoRequest
  BY <1>1, FileFacts
<1> DEFINE n == File!Least(File!Least(fileDev.max, HostBlock), fileDev.size - fileDev.got)
           got == fileDev.got + n
<1>3. fileJob.pc = "wait" /\ AsPut =>
        /\ fileJob.state = "data" /\ fileJob.op = "upload"
        /\ fileDev.size = fileJob.size /\ fileDev.got = fileJob.done
  BY <1>1, <1>2 DEF FileInv, FileInStep, InStep, AsPut
<1>4. CASE File!Answer("error", 0, 0, 0) /\ UNCHANGED fileDev
  BY <1>1, <1>2, <1>4, RefusesStep
<1>5. CASE /\ fileDev.op = "upload" /\ fileDev.got < fileDev.size
           /\ \E at \in {fileDev.got, MaxLength + 1} : File!Answer("ok", n, 0, at)
           /\ fileDev' = [fileDev EXCEPT !.got = got]
  <2>1. n \in Nat /\ got <= fileDev.size /\ got \in 0 .. MaxLength
        /\ 0 \in 0 .. MaxLength /\ fileDev.got \in Nat /\ MaxLength + 1 \in Nat
    BY <1>5, DevTypes DEF File!Least
  <2>2. fileJob.pc = "wait" /\ AsPut => got = fileJob.done + n
    BY <1>3
  <2> HIDE DEF n, got
  <2>3. PICK a \in AnswerRec : Answers(a) /\ a.n = n
    BY <1>1, <1>5, <2>1, DevTypes, AnswerIs
  <2>4. /\ fileDev' \in FileDevRec /\ fileDev'.op = fileDev.op /\ fileDev'.got = got
        /\ fileDev'.size = fileDev.size /\ fileDev'.file = fileDev.file
    BY <1>5, <2>1, DevTypes DEF FileDevRec
  <2>5. fileJob.pc = "wait" /\ AsPut => Tells(a)'
    BY <1>1, <1>3, <1>5, <2>1, <2>2, <2>3, <2>4 DEF Tells, ReadBlock, Answers
  <2> QED
    BY <1>2, <2>1, <2>3, <2>4, <2>5, DevTypes, DeviceAnswers
<1> QED
  BY <1>4, <1>5 DEF File!DeviceReads

LEMMA AbortsStep == ASSUME FileInv, File!DeviceAborts PROVE FileInv'
<1>1. /\ fileRequest.op # "none" /\ fileRequest.state = "abort"
      /\ File!Answer("ok", 0, 0, 0) /\ fileDev' = File!Closed
      /\ UNCHANGED <<fileJob, fileCalls>>
  BY DEF File!DeviceAborts
<1>2. fileRequest # File!NoRequest /\ 0 \in 0 .. MaxLength
  BY <1>1, FileFacts, DevTypes
<1>3. PICK a \in AnswerRec : Answers(a)
  BY <1>1, <1>2, DevTypes, AnswerIs
<1>4. fileDev' = [op |-> "none", size |-> fileDev.size, max |-> fileDev.max,
                  got |-> 0, file |-> fileDev.file]
  BY <1>1, DevTypes DEF File!Closed, FileDevRec
<1>5. /\ fileDev' \in FileDevRec /\ fileDev'.op = "none" /\ fileDev'.got = 0
      /\ fileDev'.size = fileDev.size /\ fileDev'.file = fileDev.file
  BY <1>2, <1>4, DevTypes DEF FileDevRec
<1>6. AsPut => Tells(a)'
  BY <1>1, <1>3 DEF AsPut, Tells, Answers
<1>7. fileDev'.got <= fileDev'.size
  BY <1>5, DevTypes
<1> QED
  BY <1>2, <1>3, <1>5, <1>6, <1>7, DevTypes, DeviceAnswers

LEMMA FileInductive == ASSUME FileInv, [File!Next]_fileVars PROVE FileInv'
<1>1. CASE \E size \in 1 .. MaxLength :
             File!Transfer("download", size) \/ File!Transfer("upload", size)
  BY <1>1, TransferStep
<1>2. CASE File!Host
  BY <1>2, PutRequestStep, TransferPacketStep, TimeoutStep DEF File!Host
<1>3. CASE File!Device
  <2>1. CASE File!DeviceRefuses
    BY <2>1, RefusesStep DEF File!DeviceRefuses
  <2> QED
    BY <1>3, <2>1, OpensStep, WritesStep, ReadsStep, AbortsStep DEF File!Device
<1>4. CASE UNCHANGED fileVars
  BY <1>4
     DEF fileVars, FileInv, FileTyped, FileOrder, NotLater, AsPut, Current, FileDevice,
         NextOfDevice, FileCall, FileOpening, FileBlock, FileInStep, InStep, FileTold, Tells,
         Opened, Written, ReadBlock, FileDone
<1> QED
  BY <1>1, <1>2, <1>3, <1>4 DEF File!Next

(* What the invariant says of the runs' properties.                         *)
LEMMA FileClean ==
  ASSUME FileInv
  PROVE  /\ File!TypeOK
         /\ File!DownloadIsWhole /\ File!UploadIsWhole /\ File!NoPartOfAFile
<1>1. fileJob \in FileJobRec /\ fileCalls \in 0 .. MaxTransfers
      /\ fileDev.file \in 0 .. MaxLength
  BY DevTypes DEF FileInv, FileTyped
<1>2. fileJob.id \in 0 .. MaxLength + 3
  <2>1. /\ fileJob.id \in Nat /\ fileJob.done \in Nat /\ fileJob.size \in 0 .. MaxLength
        /\ fileJob.pc \in {"idle", "send", "wait"}
        /\ fileJob.state \in {"req", "data", "abort"} /\ MaxLength \in Nat
    BY <1>1, JobTypes, ToolkitAssumption
  <2>2. CASE fileJob.pc = "idle" \/ fileJob.state = "abort"
    BY <2>1, <2>2 DEF FileInv, FileCall
  <2>3. CASE fileJob.pc # "idle" /\ fileJob.state = "req"
    BY <2>1, <2>3 DEF FileInv, FileOpening
  <2>4. CASE fileJob.pc # "idle" /\ fileJob.state = "data"
    <3>1. fileJob.done < fileJob.size /\ fileJob.id <= fileJob.done + 2
      BY <2>1, <2>4 DEF FileInv, FileBlock
    <3> QED
      BY <2>1, <3>1
  <2> QED
    BY <2>1, <2>2, <2>3, <2>4
<1>3. File!TypeOK
  <2> DEFINE ids == 0 .. MaxLength + 3
  <2>1. fileJob.id \in ids
    BY <1>2
  <2> HIDE DEF ids
  <2>2. fileJob \in [op : {"none", "download", "upload"}, pc : {"idle", "send", "wait"},
              state : {"req", "data", "abort"}, id : ids, tries : 0 .. 9,
              size : 0 .. MaxLength, max : 0 .. HostBlock, len : 0 .. HostBlock,
              done : 0 .. MaxLength, ext : {"none", "first", "middle", "last"},
              right : BOOLEAN, ret : {"none", "ok", "error", "size", "checksum", "timeout"}]
    BY <1>1, <2>1 DEF FileJobRec
  <2> QED
    BY <1>1, <2>2 DEF File!TypeOK, ids
<1>4. File!DownloadIsWhole /\ File!UploadIsWhole
  BY DEF File!DownloadIsWhole, File!UploadIsWhole, File!Returned, FileInv, FileDone
<1>5. File!NoPartOfAFile
  BY DevTypes DEF File!NoPartOfAFile
<1> QED
  BY <1>3, <1>4, <1>5

----------------------------------------------------------------------------
(* All of them together, as MCToolkit runs them: every step is one of a     *)
(* unit's and leaves the others alone                                       *)

ToolkitInv == ResetInv /\ CosInv /\ TabInv /\ FileInv /\ FlashInv

LEMMA UnitSteps ==
  ASSUME [MCNext]_mcVars
  PROVE  /\ [Next]_vars /\ [Cos!Next]_cosVars /\ [Reset!Next]_resetVars
         /\ [Tab!Next]_tabVars /\ [File!Next]_fileVars /\ [Flash!Next]_flashVars
BY DEF MCNext, mcVars

LEMMA ToolkitInvariance == MCSpec => []ToolkitInv
<1>1. MCInit => ToolkitInv
  BY CosStart, ResetStart, TabStart, FileStart, FlashStart DEF MCInit, ToolkitInv
<1>2. ToolkitInv /\ [MCNext]_mcVars => ToolkitInv'
  <2> SUFFICES ASSUME ToolkitInv, [MCNext]_mcVars PROVE ToolkitInv'
    OBVIOUS
  <2>1. /\ [Cos!Next]_cosVars /\ [Reset!Next]_resetVars
        /\ [Tab!Next]_tabVars /\ [File!Next]_fileVars /\ [Flash!Next]_flashVars
    BY UnitSteps
  <2> QED
    BY <2>1, CosInductive, ResetInductive, TabInductive, FileInductive, FlashInductive
       DEF ToolkitInv
<1> QED
  BY <1>1, <1>2, PTL DEF MCSpec

LEMMA IrqRuns == MCSpec => Spec
<1>1. MCInit => Init
  BY DEF MCInit
<1>2. [MCNext]_mcVars => [Next]_vars
  BY UnitSteps
<1> QED
  BY <1>1, <1>2, PTL DEF MCSpec, Spec

(* The types of all variables of the toolkit's six parts.                   *)
THEOREM Typing == MCSpec => []TypesOK
<1>1. ToolkitInv /\ TypeOK => TypesOK
  BY ResetClean, CosClean, TabClean, FileClean, FlashClean
     DEF ToolkitInv, ResetInv, TypesOK
<1> QED
  BY <1>1, IrqTypes, IrqInvariance, IrqRuns, ToolkitInvariance, PTL

(* DeviceReset: a reset that says success was the one asked for and leaves  *)
(* the device's flags in RAM, an update has seen the device start twice,    *)
(* and the next packet goes into an empty mailbox (cifXFunctions.c,         *)
(* DEV_DoSystemStart and DEV_DoUpdateStart).                                *)
THEOREM ResetSafety == MCSpec => ResetIsClean
<1>1. ToolkitInv => /\ unit = "reset" => Reset!CleanAfterReset
                    /\ unit = "reset" => Reset!UpdateStartsTwice
  BY ResetClean DEF ToolkitInv
<1>2. ToolkitInv /\ [MCNext]_mcVars =>
        [Reset!Put /\ ~resetIrq /\ resetResult \in {"none", "ok", "failed"} /\ ~resetGaveUp
           => resetBox = "empty"]_(Reset!vars)
  BY UnitSteps, PutStep DEF ToolkitInv, Reset!vars, resetVars
<1> QED
  BY <1>1, <1>2, ToolkitInvariance, PTL DEF MCSpec, ResetIsClean, Reset!PutIntoEmpty

(* HostCos: a change of state that counts as acknowledged has been read by  *)
(* the stack, and a channel is not restarted more often than asked for      *)
(* (cifXFunctions.c, DEV_WriteHandshakeFlags and DEV_DoHostCOSChange).      *)
THEOREM ChangeSafety == MCSpec => Cos!AcknowledgedIsSeen /\ []Cos!InitOnce
<1>1. ToolkitInv => Cos!InitOnce
  BY CosClean DEF ToolkitInv
<1>2. ToolkitInv /\ [MCNext]_mcVars =>
        [Cos!Acknowledged /\ cosCall.wait => cosStack.read = cosDpm]_(Cos!vars)
  BY UnitSteps, AcknowledgedStep DEF ToolkitInv, Cos!vars, cosVars
<1> QED
  BY <1>1, <1>2, ToolkitInvariance, PTL DEF MCSpec, Cos!AcknowledgedIsSeen

(* DeviceTable: a listed device is complete, listed once and has its        *)
(* interrupts, is not removed while a channel of it is in use, and the      *)
(* toolkit's end leaves half of the devices at most (cifXInit.c,            *)
(* cifXTKitAddDevice, cifXTKitRemoveDevice, cifXTKitDeinit).                *)
THEOREM TableSafety == MCSpec => DevicesStayUsable
<1>1. ToolkitInv => /\ unit = "table" => Tab!ListedIsAlive
                    /\ unit = "table" => Tab!InterruptModeHasInterrupts
  BY TabClean DEF ToolkitInv
<1>2. ToolkitInv /\ [MCNext]_mcVars =>
        [\A d \in Devices :
           Tab!cifXTKitRemoveDevice(d, FALSE) /\ tabTable' # tabTable
             => \A c \in Tab!Channels : tabHeld[d][c] = 0]_(Tab!vars)
  BY KeepsStep DEF ToolkitInv
<1>3. ToolkitInv /\ [MCNext]_mcVars =>
        [Tab!Deinit => Tab!Cardinality((Tab!Listed \cap tabAlive') \ tabFailed)
                         <= Len(tabTable) \div 2]_(Tab!vars)
  <2>1. ToolkitInv /\ Tab!Deinit =>
          Tab!Cardinality((Tab!Listed \cap tabAlive') \ tabFailed) <= Len(tabTable) \div 2
    BY DeinitStep, SameCardinality DEF ToolkitInv
  <2> QED
    BY <2>1
<1> QED
  BY <1>1, <1>2, <1>3, ToolkitInvariance, PTL
     DEF MCSpec, DevicesStayUsable, Tab!KeepsDevicesInUse, Tab!DeinitStopsHalf

(* FileTransfer: a download or an upload that says success has moved the    *)
(* whole file, and the device never closes a part of one, whatever the      *)
(* block sizes and however late the answers (cifXDownload.c,                *)
(* DEV_DownloadFile and DEV_UploadFile).                                    *)
THEOREM TransferSafety ==
  MCSpec => [](File!DownloadIsWhole /\ File!UploadIsWhole /\ File!NoPartOfAFile)
<1>1. ToolkitInv => File!DownloadIsWhole /\ File!UploadIsWhole /\ File!NoPartOfAFile
  BY FileClean DEF ToolkitInv
<1> QED
  BY <1>1, ToolkitInvariance, PTL

(* FlashUpdate: a module keeps the base firmware, new firmware is not       *)
(* beside old files, and what is to be started is there (cifXDownload.c,    *)
(* DEV_ProcessFWDownload and DEV_RemoveChannelFiles).                       *)
THEOREM FlashSafety ==
  MCSpec => Flash!BaseOsStays /\ [](Flash!NothingOldBesideNew /\ Flash!StartedIsThere)
<1>1. ToolkitInv => Flash!NothingOldBesideNew /\ Flash!StartedIsThere
  BY FlashClean DEF ToolkitInv
<1>2. ToolkitInv /\ [MCNext]_mcVars =>
        [\A ch \in Flash!Channels :
           flashFlash[ch] # flashFlash'[ch] /\ flashJob.kind = "module"
             => {f \in Flash!Listed(ch) : f.kind = "firmware"}
                  \subseteq Flash!Listed(ch)']_(Flash!vars)
  BY UnitSteps, BaseOsStep DEF ToolkitInv
<1> QED
  BY <1>1, <1>2, ToolkitInvariance, PTL DEF MCSpec, Flash!BaseOsStays
=============================================================================
