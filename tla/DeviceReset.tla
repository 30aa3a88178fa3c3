----------------------------- MODULE DeviceReset -----------------------------
(***************************************************************************)
(* A reset of the whole device through the system channel, and what it     *)
(* does to the handshake flags the host keeps in RAM (cifXHWFunctions.c,   *)
(* DEV_DoSystemStart, DEV_DoSystemBootstart, DEV_DoUpdateStart).           *)
(*                                                                         *)
(* One flag stands for usHostFlags of all channels: SEND_MBX_CMD of a      *)
(* mailbox, with the packet that is put before and after the reset.        *)
(***************************************************************************)
EXTENDS Naturals

CONSTANT MaxResets   \* bound: calls for a reset

Modes == {"system", "boot", "update"}

VARIABLES
  irq,      \* fIrqEnabled
  ownReset, \* SystemStatus has IDPM and APP: the application resets itself
  ram,      \* usHostFlags
  active,   \* fResetActive
  call,     \* the reset in progress; boots counts the device's starts since
  result,   \* of the last reset
  gaveUp,   \* history: an update start was given up by a timeout
  resets,   \* bound
  cell,     \* the host's flag in the handshake cell
  ack,      \* the netX flag
  box,      \* the mailbox
  request,  \* reset cookie, SystemControl and HSF_RESET in the dual-port memory
  dev       \* the device: ready, what runs on it, and what it boots for

vars == <<irq, ownReset, ram, active, call, result, gaveUp, resets, cell, ack, box, request, dev>>
cells == <<cell, ack, box>>

None == [pc |-> "idle", mode |-> "system", boots |-> 0, ret |-> "ok"]

Init ==
  /\ irq \in BOOLEAN /\ ownReset \in BOOLEAN
  /\ ram = FALSE /\ active = FALSE
  /\ call = None /\ result = "none" /\ gaveUp = FALSE /\ resets = 0
  /\ cell = FALSE /\ ack = FALSE /\ box = "empty"
  /\ request = "none"
  /\ dev = [up |-> TRUE, cookie |-> "firmware", mode |-> "system"]

At(pc)      == call.pc = pc
GoTo(pc)    == call' = [call EXCEPT !.pc = pc]
Ends(ret)   ==
  /\ call' = None
  /\ result' = ret
  /\ gaveUp' = (gaveUp \/ (call.mode = "update" /\ ret \in {"timeout", "not_ready"}))
Finish(ret) == call' = [call EXCEPT !.pc = "finish", !.ret = ret]

----------------------------------------------------------------------------
(* DEV_PutPacket: the mailbox is free as far as the flags in RAM say so.    *)
Put ==
  /\ At("idle") /\ dev.up
  /\ ram = ack
  /\ box' = "full"
  /\ ram' = ~ram /\ cell' = ram'
  /\ UNCHANGED <<irq, ownReset, active, call, result, gaveUp, resets, ack, request, dev>>

(* DEV_DoSystemStart and the others, up to and with DEV_Reset_Prepare.      *)
DEV_Reset_Prepare ==
  /\ At("idle") /\ resets < MaxResets
  /\ resets' = resets + 1
  /\ \E mode \in Modes :
       IF dev.up /\ ~ownReset
       THEN /\ call' = [None EXCEPT !.pc = "execute", !.mode = mode]
            /\ active' = TRUE
            /\ ram' = FALSE
       ELSE UNCHANGED <<call, active, ram>>
  /\ UNCHANGED <<irq, ownReset, result, gaveUp, cells, request, dev>>

DEV_Reset_Execute ==
  /\ At("execute")
  /\ request' = call.mode
  /\ GoTo("gone")
  /\ UNCHANGED <<irq, ownReset, ram, active, result, gaveUp, resets, cells, dev>>

(* Mutant: NSF_READY is not waited to vanish.                               *)
DEV_WaitForNotReady_Skipped == TRUE

(* What ends DEV_WaitForNotReady_Poll.                                      *)
DEV_WaitForNotReady == ~dev.up

(* Mutant: the timeout is not an error.                                     *)
Recognized_TimeoutOk ==
  /\ At("gone")
  /\ \/ /\ DEV_WaitForNotReady
        /\ GoTo("back")
        /\ UNCHANGED <<result, gaveUp>>
     \/ /\ dev.up
        /\ Ends("ok")
  /\ UNCHANGED <<irq, ownReset, ram, active, resets, cells, request, dev>>

(* The device goes down.  When it does not, the function returns at once,   *)
(* and what DEV_Reset_Prepare has done stays.                               *)
Recognized ==
  /\ At("gone")
  /\ \/ /\ DEV_WaitForNotReady
        /\ GoTo("back")
        /\ UNCHANGED <<result, gaveUp>>
     \/ /\ dev.up
        /\ Ends("timeout")
  /\ UNCHANGED <<irq, ownReset, ram, active, resets, cells, request, dev>>

(* The device is ready again; a bootloader must run for two of the modes.   *)
Back ==
  /\ At("back") /\ dev.up
  /\ \/ call.mode = "system" /\ Finish("ok")
     \/ call.mode # "system" /\ dev.cookie # "bootloader" /\ Finish("failed")
     \/ call.mode = "boot"   /\ dev.cookie = "bootloader" /\ Finish("ok")
     \/ call.mode = "update" /\ dev.cookie = "bootloader" /\ GoTo("update_gone")
  /\ UNCHANGED <<irq, ownReset, ram, active, result, gaveUp, resets, cells, request, dev>>

NotBack ==
  /\ At("back") \/ At("update_back")
  /\ ~dev.up
  /\ Finish("not_ready")
  /\ UNCHANGED <<irq, ownReset, ram, active, result, gaveUp, resets, cells, request, dev>>

(* An update: the device resets itself once more.                           *)
Updated ==
  /\ \/ At("update_gone") /\ DEV_WaitForNotReady /\ GoTo("update_back")
     \/ At("update_gone") /\ dev.up /\ Finish("timeout")
     \/ At("update_back") /\ dev.up /\ Finish("ok")
  /\ UNCHANGED <<irq, ownReset, ram, active, result, gaveUp, resets, cells, request, dev>>

(* Mutant: the flags are taken to be zero after a reset.                    *)
DEV_Reset_Finish_NotRead ==
  /\ At("finish")
  /\ active' = FALSE /\ ram' = FALSE
  /\ Ends(call.ret)
  /\ UNCHANGED <<irq, ownReset, resets, cells, request, dev>>

(* Polling, the flags are read again; not yet those of a device that is     *)
(* still down.  In interrupt mode only the netX flags are.                  *)
DEV_Reset_Finish ==
  /\ At("finish")
  /\ active' = FALSE
  /\ \/ irq /\ ram' = ram
     \/ ~irq /\ dev.up /\ ram' = cell
     \/ ~irq /\ ~dev.up /\ ram' \in BOOLEAN
  /\ Ends(call.ret)
  /\ UNCHANGED <<irq, ownReset, resets, cells, request, dev>>

Host == \/ Put \/ DEV_Reset_Prepare \/ DEV_Reset_Execute \/ Recognized \/ Back
        \/ NotBack \/ Updated \/ DEV_Reset_Finish

----------------------------------------------------------------------------
(* The device (external)                                                    *)

DeviceTakes ==
  /\ dev.up /\ cell # ack
  /\ ack' = cell /\ box' = "empty"
  /\ UNCHANGED <<irq, ownReset, ram, active, call, result, gaveUp, resets, cell, request, dev>>

(* It sees a request, however late, or it has applied an update.            *)
DeviceGoesDown ==
  /\ dev.up
  /\ \/ request # "none" /\ dev' = [dev EXCEPT !.up = FALSE, !.mode = request]
     \/ dev.mode = "update" /\ dev.cookie = "bootloader"
        /\ dev' = [dev EXCEPT !.up = FALSE, !.mode = "system"]
  /\ UNCHANGED <<irq, ownReset, ram, active, call, result, gaveUp, resets, cells, request>>

(* What is booted may be missing.  The host's cell may be left as it was.   *)
DeviceComesUp ==
  /\ ~dev.up
  /\ \E c \in {"firmware", "bootloader"} : dev' = [dev EXCEPT !.up = TRUE, !.cookie = c]
  /\ cell' \in BOOLEAN /\ ack' = cell' /\ box' = "empty"
  /\ request' = "none"
  /\ call' = [call EXCEPT !.boots = IF At("idle") \/ @ = 2 THEN @ ELSE @ + 1]
  /\ UNCHANGED <<irq, ownReset, ram, active, result, gaveUp, resets>>

Next == Host \/ DeviceTakes \/ DeviceGoesDown \/ DeviceComesUp

Spec == Init /\ [][Next]_vars

----------------------------------------------------------------------------
(* Properties                                                               *)

(* The types of all variables.                                              *)
TypeOK ==
  /\ irq \in BOOLEAN /\ ownReset \in BOOLEAN /\ ram \in BOOLEAN /\ active \in BOOLEAN
  /\ cell \in BOOLEAN /\ ack \in BOOLEAN /\ box \in {"empty", "full"}
  /\ call \in [pc : {"idle", "execute", "gone", "back", "update_gone", "update_back", "finish"},
               mode : Modes, boots : 0 .. 2, ret : {"ok", "failed", "timeout", "not_ready"}]
  /\ gaveUp \in BOOLEAN
  /\ result \in {"none", "ok", "failed", "timeout", "not_ready"}
  /\ resets \in 0 .. MaxResets
  /\ request \in Modes \cup {"none"}
  /\ dev \in [up : BOOLEAN, cookie : {"firmware", "bootloader"}, mode : Modes]

(* Polling, after a reset that succeeded the flags in RAM are those of the  *)
(* device, whatever an earlier reset that failed has left behind ("re-read  *)
(* the device flags to continue communication").  Not so in interrupt mode, *)
(* and an update start given up may restart the device behind a success.    *)
CleanAfterReset ==
  At("idle") /\ result = "ok" /\ ~gaveUp /\ ~irq => ram = cell /\ active = FALSE

(* Unless the last reset ended by a timeout, which leaves the flags zero,   *)
(* no packet is put over one that the device has not taken.                 *)
PutIntoEmpty ==
  [][Put /\ ~irq /\ result \in {"none", "ok", "failed"} /\ ~gaveUp => box = "empty"]_vars

(* An update that succeeds has seen the device start twice.                 *)
UpdateStartsTwice ==
  At("finish") /\ call.mode = "update" /\ call.ret = "ok" => call.boots = 2
=============================================================================
