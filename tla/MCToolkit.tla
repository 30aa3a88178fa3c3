------------------------------ MODULE MCToolkit ------------------------------
(***************************************************************************)
(* The toolkit's parts for TLC, in one run: they share no state, so a      *)
(* behaviour chooses one unit at the start and runs that alone; the others *)
(* stay in an initial state.                                               *)
(***************************************************************************)
EXTENDS IrqMode, FiniteSets

CONSTANTS
  MaxCalls,       \* of HostCos
  MaxResets,      \* of DeviceReset
  Devices,        \* of DeviceTable
  MaxOpen,        \* of DeviceTable
  MaxLength,      \* of FileTransfer
  HostBlock,      \* of FileTransfer
  MaxTransfers,   \* of FileTransfer
  MaxFiles,       \* of FlashUpdate
  MaxFaults       \* of FlashUpdate

ASSUME ToolkitAssumption ==
  /\ MaxPackets \in Nat /\ MaxCalls \in Nat /\ MaxResets \in Nat
  /\ IsFiniteSet(Devices) /\ MaxOpen \in Nat
  /\ MaxLength \in Nat /\ HostBlock \in Nat \ {0} /\ MaxTransfers \in Nat
  /\ MaxFiles \in Nat /\ MaxFaults \in Nat

VARIABLES
  unit,
  cosCyclic, cosRam, cosDpm, cosCmd, cosAck, cosCall, cosDev, cosChanged, cosCalls,
  cosAsked, cosChan, cosCom, cosStack,
  resetIrq, resetOwn, resetRam, resetActive, resetCall, resetResult, resetGaveUp,
  resetResets, resetCell, resetAck, resetBox, resetRequest, resetDev,
  tabInitialized, tabDrivers, tabTable, tabLost, tabAlive, tabIrqMode, tabIrqOn,
  tabOpened, tabHeld, tabFailed, tabRefused,
  fileJob, fileRequest, fileAnswers, fileDev, fileCalls,
  flashFlash, flashModuleLoad, flashJob, flashConfig, flashFiles, flashFaults

cosVars == <<cosCyclic, cosRam, cosDpm, cosCmd, cosAck, cosCall, cosDev, cosChanged,
             cosCalls, cosAsked, cosChan, cosCom, cosStack>>
resetVars == <<resetIrq, resetOwn, resetRam, resetActive, resetCall, resetResult,
               resetGaveUp, resetResets, resetCell, resetAck, resetBox, resetRequest,
               resetDev>>
tabVars == <<tabInitialized, tabDrivers, tabTable, tabLost, tabAlive, tabIrqMode,
             tabIrqOn, tabOpened, tabHeld, tabFailed, tabRefused>>
fileVars == <<fileJob, fileRequest, fileAnswers, fileDev, fileCalls>>
flashVars == <<flashFlash, flashModuleLoad, flashJob, flashConfig, flashFiles, flashFaults>>

Cos == INSTANCE HostCos WITH
  cyclic <- cosCyclic, ram <- cosRam, dpm <- cosDpm, cmd <- cosCmd, ack <- cosAck,
  call <- cosCall, dev <- cosDev, changed <- cosChanged, calls <- cosCalls,
  asked <- cosAsked, chan <- cosChan, com <- cosCom, stack <- cosStack

Reset == INSTANCE DeviceReset WITH
  irq <- resetIrq, ownReset <- resetOwn, ram <- resetRam, active <- resetActive,
  call <- resetCall, result <- resetResult, gaveUp <- resetGaveUp,
  resets <- resetResets, cell <- resetCell, ack <- resetAck, box <- resetBox,
  request <- resetRequest, dev <- resetDev

Tab == INSTANCE DeviceTable WITH
  initialized <- tabInitialized, drivers <- tabDrivers, table <- tabTable,
  lost <- tabLost, alive <- tabAlive, irqMode <- tabIrqMode, irqOn <- tabIrqOn,
  opened <- tabOpened, held <- tabHeld, failed <- tabFailed, refused <- tabRefused

File == INSTANCE FileTransfer WITH
  MaxCalls <- MaxTransfers,
  job <- fileJob, request <- fileRequest, answers <- fileAnswers, dev <- fileDev,
  calls <- fileCalls

Flash == INSTANCE FlashUpdate WITH
  flash <- flashFlash, moduleLoad <- flashModuleLoad, job <- flashJob,
  config <- flashConfig, files <- flashFiles, faults <- flashFaults

Units == {"irq", "cos", "reset", "table", "file", "flash"}

(* An unit that does not run stays in one of its initial states.            *)
MCInit ==
  /\ unit \in Units
  /\ Init
  /\ Cos!Init   /\ (unit # "cos" => cosCyclic /\ cosDev = {})
  /\ Reset!Init /\ (unit # "reset" => resetIrq /\ resetOwn)
  /\ Tab!Init
  /\ File!Init
  /\ Flash!Init /\ (unit # "flash" => flashModuleLoad /\ flashFlash[1] = <<>>)

MCNext ==
  \/ /\ unit = "irq" /\ Next
     /\ UNCHANGED <<unit, cosVars, resetVars, tabVars, fileVars, flashVars>>
  \/ /\ unit = "cos" /\ Cos!Next
     /\ UNCHANGED <<unit, vars, resetVars, tabVars, fileVars, flashVars>>
  \/ /\ unit = "reset" /\ Reset!Next
     /\ UNCHANGED <<unit, vars, cosVars, tabVars, fileVars, flashVars>>
  \/ /\ unit = "table" /\ Tab!Next
     /\ UNCHANGED <<unit, vars, cosVars, resetVars, fileVars, flashVars>>
  \/ /\ unit = "file" /\ File!Next
     /\ UNCHANGED <<unit, vars, cosVars, resetVars, tabVars, flashVars>>
  \/ /\ unit = "flash" /\ Flash!Next
     /\ UNCHANGED <<unit, vars, cosVars, resetVars, tabVars, fileVars>>

mcVars == <<unit, vars, cosVars, resetVars, tabVars, fileVars, flashVars>>

MCSpec == MCInit /\ [][MCNext]_mcVars

(* The fairness of the unit that runs, as its own specification states it.  *)
MCFairSpec ==
  /\ MCSpec
  /\ WF_vars(unit = "irq" /\ cifXTKitISRHandler)
  /\ WF_vars(unit = "irq" /\ Dsr)
  /\ SF_vars(unit = "irq" /\ Receive)
  /\ SF_vars(unit = "irq" /\ thread = "registered" /\ xChannelRegisterNotification)
  /\ WF_cosVars(unit = "cos" /\ Cos!Waiting)
  /\ WF_cosVars(unit = "cos" /\ Cos!DEV_CheckCOSFlags)
  /\ WF_cosVars(unit = "cos" /\ Cos!StackReads)
  /\ WF_cosVars(unit = "cos" /\ Cos!StackAcknowledges)
  /\ WF_fileVars(unit = "file" /\ File!Host)
  /\ WF_flashVars(unit = "flash" /\ Flash!Work)

----------------------------------------------------------------------------
(* Properties: those of IrqMode, and of the instances                       *)

(* The types of all variables.                                              *)
TypesOK ==
  TypeOK /\ Cos!TypeOK /\ Reset!TypeOK /\ Tab!TypeOK /\ File!TypeOK /\ Flash!TypeOK

(* Every packet in the mailbox is notified to a callback, and received,     *)
(* whichever of event and callback the thread uses when it comes.           *)
PacketsArrive ==
  /\ [](unit = "irq" => PacketIsNotified)
  /\ unit = "irq" => PacketIsReceived

(* HostCos: a change of state reaches the stack once: when it counts as     *)
(* acknowledged the stack has read it, a channel restarts as often as asked *)
(* for, and with the cyclic timer host and stack agree in the end.          *)
SignalledOnce ==
  /\ Cos!AcknowledgedIsSeen
  /\ [](unit = "cos" => Cos!InitOnce)
  /\ unit = "cos" => Cos!FinallyAgreed

(* DeviceReset: a reset that succeeds was the one asked for and leaves the  *)
(* device's flags in RAM, so that the next packet is put into an empty      *)
(* mailbox.                                                                 *)
ResetIsClean ==
  /\ [](unit = "reset" => Reset!CleanAfterReset)
  /\ [](unit = "reset" => Reset!UpdateStartsTwice)
  /\ Reset!PutIntoEmpty

(* DeviceTable: a listed device is complete, listed once, has its           *)
(* interrupts, and is not removed while it is in use; the toolkit's end     *)
(* leaves half of them at most.                                             *)
DevicesStayUsable ==
  /\ [](unit = "table" => Tab!ListedIsAlive)
  /\ [](unit = "table" => Tab!InterruptModeHasInterrupts)
  /\ Tab!KeepsDevicesInUse
  /\ Tab!DeinitStopsHalf

(* FileTransfer: every transfer ends, one that says success has moved the   *)
(* whole file, and the device never closes a part of one.                   *)
TransfersAreWhole ==
  /\ [](unit = "file" => File!DownloadIsWhole)
  /\ [](unit = "file" => File!UploadIsWhole)
  /\ [](unit = "file" => File!NoPartOfAFile)
  /\ unit = "file" => File!TransferEnds

(* FlashUpdate: a module keeps the base firmware, new firmware is not       *)
(* beside old files, what is to be started is there, and a download ends,   *)
(* but for the protected firmware that is found first.                      *)
FlashStaysConsistent ==
  /\ Flash!BaseOsStays
  /\ [](unit = "flash" => Flash!NothingOldBesideNew)
  /\ [](unit = "flash" => Flash!StartedIsThere)
  /\ unit = "flash" => Flash!DownloadEnds
=============================================================================
