------------------------------ MODULE SpiExchange ------------------------------
(***************************************************************************)
(* The digital inputs and outputs behind the SPI device 1: the exchange of *)
(* the timer interrupt (HOSTAL_DataExchange) and the shell's commands in   *)
(* the main loop (Digital_Input.c, Digital_Output.c), over the two handles *)
(* of the SPI driver, polling (netx_drv_spi.c).                            *)
(*                                                                         *)
(* The interrupt runs to completion between any two steps of the shell.    *)
(* Each driver call locks its handle; the handles share one device, with   *)
(* its chip select and its FIFOs.  What one transfer puts into the FIFO    *)
(* stands as a whole for its bytes.                                        *)
(***************************************************************************)
EXTENDS Naturals

CONSTANTS
  ShellChips,   \* the chips the shell's user works with
  MaxCommands   \* bound: shell commands

VARIABLES
  fss,       \* device: the chip select, "none" or a chip
  fifo,      \* device: "empty", "shifting" (BSY), or "received"
  bytesOf,   \* device: whose bytes are in the FIFO
  error,     \* device: a FIFO was read while it was empty (spi_sr)
  locked,    \* the handles that are locked
  buffers,   \* the handles with TxBuffer ... RxBufferCounter not zero
  app,       \* the chips with g_DiAppControl, g_DoAppControl
  pc,        \* where the shell's command is
  chip,      \* the chip it is about
  connected, \* a PLC is connected: the output data are valid
  fresh,     \* the interrupt's last exchange read the inputs
  commands   \* bound

vars == <<fss, fifo, bytesOf, error, locked, buffers, app, pc, chip, connected,
          fresh, commands>>
device == <<fss, fifo, bytesOf, error>>

Chips == {"di", "do"}

Init ==
  /\ fss = "none"
  /\ fifo = "empty" /\ bytesOf = "isr" /\ error = FALSE
  /\ locked = {} /\ buffers = {}
  /\ app = {"do"}
  /\ pc = "idle" /\ chip = "di"
  /\ connected = FALSE
  /\ fresh = FALSE
  /\ commands = 0

----------------------------------------------------------------------------
(* Mutant: the state of the device is not looked at.                        *)
Busy_BuffersOnly(h) == h \in buffers

(* DRV_SPI_GetState: the device shifts, or the handle has a transfer; an    *)
(* error of the FIFOs goes before that.                                     *)
Busy(h) == fifo = "shifting" \/ h \in buffers

(* Mutant: the driver looks at the device only, not at the handle.          *)
Passes_DeviceOnly(h) == fifo # "shifting"

(* The interrupt's transfer on handle h gets through.                       *)
Passes(h) == h \notin locked /\ ~error /\ ~Busy(h)

(* What the interrupt exchanges; the inputs whoever has control of them.    *)
Exchange == {"di"} \cup (IF connected /\ "do" \in app THEN {"do"} ELSE {})

(* The timer interrupt: outputs first, and the inputs only after them.      *)
HOSTAL_DataExchange ==
  /\ LET done == IF "do" \in Exchange /\ ~Passes("do") THEN {}
                 ELSE {h \in Exchange : Passes(h)}
     IN /\ fresh' = ("di" \in done)
        /\ IF done = {} THEN UNCHANGED device
           ELSE /\ fss' = "none"
                /\ fifo' = "empty" /\ bytesOf' = "isr" /\ UNCHANGED error
  /\ UNCHANGED <<locked, buffers, app, pc, chip, connected, commands>>

(* What xChannelIORead returned (App_IODataHandler): connections come and go. *)
Connection ==
  /\ connected' = ~connected
  /\ UNCHANGED <<device, locked, buffers, app, pc, chip, fresh, commands>>

(* The device has shifted what was in the FIFO.                             *)
Shift ==
  /\ fifo = "shifting"
  /\ fifo' = "received"
  /\ UNCHANGED <<fss, bytesOf, error, locked, buffers, app, pc, chip, connected, fresh,
                 commands>>

----------------------------------------------------------------------------
(* Commands of the shell                                                    *)

(* read_di, read_di_all, write_do, ...: only a chip the shell controls.     *)
ShellTransfer ==
  /\ pc = "idle" /\ commands < MaxCommands
  /\ \E h \in ShellChips \ app : chip' = h
  /\ pc' = "select"
  /\ commands' = commands + 1
  /\ UNCHANGED <<device, locked, buffers, app, connected, fresh>>

(* di_ctrl, do_ctrl.                                                        *)
ShellControl ==
  /\ pc = "idle" /\ commands < MaxCommands
  /\ \E h \in ShellChips : app' \in {app \cup {h}, app \ {h}}
  /\ commands' = commands + 1
  /\ UNCHANGED <<device, locked, buffers, pc, chip, connected, fresh>>

(* The lock at the beginning of each driver call, and what follows it; no   *)
(* other call of the main loop can hold it.                                 *)
Lock ==
  /\ pc \in {"select", "transfer", "deselect"}
  /\ locked' = locked \cup {chip}
  /\ pc' = CASE pc = "select" -> "selecting"
             [] pc = "transfer" -> "clearing"
             [] pc = "deselect" -> "deselecting"
  /\ UNCHANGED <<device, buffers, app, chip, connected, fresh, commands>>

(* Mutant: an early return leaves the handle locked.                        *)
Unlock_Forgotten(next) ==
  /\ locked' = IF next = "idle" THEN locked ELSE locked \ {chip}
  /\ pc' = next

Unlock(next) ==
  /\ locked' = locked \ {chip}
  /\ pc' = next

(* DRV_SPI_ChangeFss before and after the transfer; an error returns.       *)
ChangeFss ==
  /\ pc \in {"selecting", "deselecting"}
  /\ IF error \/ Busy(chip)
     THEN Unlock("idle") /\ UNCHANGED fss
     ELSE IF pc = "selecting"
          THEN fss' = chip /\ Unlock("transfer")
          ELSE fss' = "none" /\ Unlock("idle")
  /\ UNCHANGED <<fifo, bytesOf, error, buffers, app, chip, connected, fresh, commands>>

(* DRV_SPI_Receive, DRV_SPI_Transmit: buffers are set, the FIFOs cleared.   *)
(* When the handle is busy the call is repeated at once, after an error     *)
(* when the device has recovered from it.                                   *)
Clear ==
  /\ pc = "clearing"
  /\ IF error \/ Busy(chip)
     THEN /\ Unlock(IF error THEN "recovering" ELSE "transfer")
          /\ UNCHANGED <<fifo, buffers>>
     ELSE /\ buffers' = buffers \cup {chip}
          /\ fifo' = "empty"
          /\ pc' = "filling"
          /\ UNCHANGED locked
  /\ UNCHANGED <<fss, bytesOf, error, app, chip, connected, fresh, commands>>

(* DRV_ERROR_BUFFER: DRV_SPI_Abort, and SPI_DiInit or SPI_DoInit, which end *)
(* with no chip selected.  As one step: the interrupt is refused until the  *)
(* FIFOs have been cleared.                                                 *)
Recover ==
  /\ pc = "recovering"
  /\ fss' = "none" /\ fifo' = "empty" /\ error' = FALSE
  /\ buffers' = buffers \ {chip}
  /\ pc' = "transfer"
  /\ UNCHANGED <<bytesOf, locked, app, chip, connected, fresh, commands>>

(* DRV_SPI_Flush_POLL fills the transmit FIFO.                              *)
Fill ==
  /\ pc = "filling"
  /\ fifo' = "shifting" /\ bytesOf' = "shell"
  /\ pc' = "polling"
  /\ UNCHANGED <<fss, error, locked, buffers, app, chip, connected, fresh, commands>>

Received == fifo = "received" /\ bytesOf = "shell"

(* DRV_SPI_Flush_Buffers: how many bytes are in the receive FIFO, all of    *)
(* the transfer or a part of them.                                          *)
ReadLevel ==
  /\ pc = "polling"
  /\ \/ Received /\ pc' = "reading"
     \/ fifo = "shifting" /\ pc' = "part"
  /\ UNCHANGED <<device, locked, buffers, app, chip, connected, fresh, commands>>

(* So many are read, an error if the FIFO has been cleared meanwhile.  When *)
(* all are counted the transfer is complete.                                *)
Read ==
  /\ pc \in {"reading", "part"}
  /\ error' = (error \/ fifo = "empty")
  /\ IF pc = "reading"
     THEN /\ fifo' = "empty"
          /\ buffers' = buffers \ {chip}
          /\ Unlock("deselect")
     ELSE /\ pc' = "polling"
          /\ UNCHANGED <<fifo, buffers, locked>>
  /\ UNCHANGED <<fss, bytesOf, app, chip, connected, fresh, commands>>

(* Its bytes are gone and it polls until DRV_TOUT; the buffers stay set,    *)
(* and the call is repeated.                                                *)
Timeout ==
  /\ pc = "polling"
  /\ fifo # "shifting" /\ ~Received
  /\ Unlock("transfer")
  /\ UNCHANGED <<device, buffers, app, chip, connected, fresh, commands>>

Driver ==
  Lock \/ ChangeFss \/ Clear \/ Recover \/ Fill \/ ReadLevel \/ Read \/ Timeout

Next == \/ HOSTAL_DataExchange \/ Connection \/ Shift
        \/ ShellTransfer \/ ShellControl \/ Driver

Spec == Init /\ [][Next]_vars

(* The timer interrupts, the device shifts, and the main loop runs on.      *)
FairSpec ==
  Spec /\ WF_vars(HOSTAL_DataExchange) /\ WF_vars(Shift) /\ WF_vars(Driver)

----------------------------------------------------------------------------
(* Properties                                                               *)

(* The types of all variables.                                              *)
TypeOK ==
  /\ fss \in Chips \cup {"none"}
  /\ fifo \in {"empty", "shifting", "received"}
  /\ bytesOf \in {"isr", "shell"}
  /\ connected \in BOOLEAN /\ error \in BOOLEAN
  /\ locked \subseteq {chip} /\ chip \in Chips
  /\ buffers \subseteq Chips
  /\ app \subseteq Chips
  /\ pc \in {"idle", "select", "selecting", "transfer", "clearing", "recovering", "filling",
             "polling", "reading", "part", "deselect", "deselecting"}
  /\ fresh \in BOOLEAN
  /\ commands \in 0 .. MaxCommands

(* However the interrupt falls into a command, afterwards no chip stays     *)
(* selected, no handle locked and no buffer set (SPI_StartInputDataTransmit *)
(* and SPI_StartOutputDataTransmit undo what they did).                     *)
IdleIsClean == pc = "idle" => fss = "none" /\ locked = {} /\ buffers = {}

(* While the device shifts the bytes of one transfer nobody changes the     *)
(* chip select or clears the FIFO.                                          *)
ShiftUndisturbed ==
  [][fifo = "shifting" => fss' = fss /\ fifo' \in {"shifting", "received"}]_vars

(* A command of the shell comes to its end as long as the interrupt uses    *)
(* the handle of the command only.  With the other handle it clears the     *)
(* FIFO under the command, which then polls for its bytes for ever.         *)
ShellReturns == [](Exchange = {chip}) => (pc # "idle" ~> pc = "idle")

(* As long as that is so the inputs are read again and again, however the   *)
(* commands of the shell hold the device.                                   *)
InputsServed == [](Exchange = {chip}) => []<>fresh
=============================================================================
