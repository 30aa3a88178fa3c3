----------------------------- MODULE DeviceTable -----------------------------
(***************************************************************************)
(* The toolkit's table of devices and the handles to them (cifXInit.c,     *)
(* cifXFunctions.c): adding and removing devices, opening and closing      *)
(* their system device and channel, the end and a restart of the toolkit.  *)
(*                                                                         *)
(* Each function holds g_pvTkitLock, or runs in the one thread there is.   *)
(* One channel stands for those of a device.  When the list can neither    *)
(* grow nor shrink the pointer is NULL and the count is not 0: nothing is  *)
(* modelled after that.  Two duties of the caller are taken as given: it   *)
(* adds a device to an initialised toolkit and once (MayAdd), and does not *)
(* use a handle to a channel once its device is gone.                      *)
(***************************************************************************)
EXTENDS Naturals, FiniteSets, Sequences, SequencesExt

CONSTANTS
  Devices,  \* the device instances the integrator has
  MaxOpen   \* bound: open handles to one channel, and of the driver

Channels == {"system", "channel"}

VARIABLES
  initialized, \* g_tDriverInfo.fInitialized
  drivers,     \* g_tDriverInfo.ulOpenCount
  table,       \* g_pptDevices[0 .. g_ulDeviceCount - 1]
  lost,        \* g_pptDevices is NULL and g_ulDeviceCount is not 0
  alive,       \* devices whose locks, mutexes and channels exist
  irqMode,     \* devices with fIrqEnabled
  irqOn,       \* devices whose interrupts are enabled in the hardware
  opened,      \* ulOpenCount
  held,        \* history: handles the application has and may use
  failed,      \* history: devices whose start failed, or failed since
  refused      \* history: devices whose removal was refused

vars == <<initialized, drivers, table, lost, alive, irqMode, irqOn, opened, held,
          failed, refused>>

Listed == {table[i] : i \in DOMAIN table}

Init ==
  /\ initialized = FALSE /\ drivers = 0
  /\ table = <<>> /\ lost = FALSE
  /\ alive = {} /\ irqMode = {} /\ irqOn = {}
  /\ opened = [d \in Devices |-> [c \in Channels |-> 0]]
  /\ held = opened
  /\ failed = {} /\ refused = {}

----------------------------------------------------------------------------
(* Adding a device                                                          *)

(* cifXCreateSystemDevice: its locks exist, even if the device does not     *)
(* get ready; those of an earlier start are forgotten.                      *)
CreateSystemDevice(d, ok) ==
  \/ ~ok /\ UNCHANGED alive
  \/ alive' = alive \cup {d}

(* cifXCreateChannels: new instances with an open count of their own.       *)
CreateChannels(d, ok) ==
  IF ok THEN /\ opened' = [opened EXCEPT ![d]["channel"] = 0]
             /\ held' = [held EXCEPT ![d]["channel"] = 0]
        ELSE UNCHANGED <<opened, held>>

(* fIrqEnabled is cleared, then set if the start gets to cifXCheckIRQEnable *)
(* and the user's function says so.                                         *)
CheckIRQEnable(d) == irqMode' \in {irqMode \ {d}, irqMode \cup {d}}

(* cifXStartDevice: when one step fails those before it are not undone.     *)
StartDevice(d, ok) ==
  /\ CreateSystemDevice(d, ok)
  /\ CreateChannels(d, ok)
  /\ CheckIRQEnable(d)
  /\ failed' = IF ok THEN failed \ {d} ELSE failed \cup {d}

(* Mutant: the hardware is not told.                                        *)
EnableInterrupts_Forgotten(d) == irqOn' = irqOn

(* cifXTKitEnableHWInterrupt for a device in interrupt mode.                *)
EnableInterrupts(d) == irqOn' = IF d \in irqMode' THEN irqOn \cup {d} ELSE irqOn

(* A duty of the caller, which cifXTKitAddDevice does not check.            *)
(* InitializeToolkit keeps it: it adds its one device to a toolkit it has   *)
(* just initialised, and calls cifXTKitDeinit when that fails.              *)
MayAdd(d) == initialized /\ d \notin Listed

cifXTKitAddDevice(d) ==
  /\ MayAdd(d) /\ ~lost
  /\ \/ /\ StartDevice(d, FALSE)
        /\ UNCHANGED <<table, lost, irqOn>>
     \/ /\ StartDevice(d, TRUE)
        /\ table' = Append(table, d)
        /\ EnableInterrupts(d)
        /\ UNCHANGED lost
     \/ /\ StartDevice(d, TRUE)
        /\ table' = <<>> /\ lost' = TRUE
        /\ UNCHANGED irqOn
  /\ UNCHANGED <<initialized, drivers, refused>>

----------------------------------------------------------------------------
(* Removing devices                                                         *)

(* Mutant: the objects of the device are kept.                              *)
StopDevices_Nothing(S) ==
  /\ alive' = alive
  /\ held' = [d \in Devices |-> IF d \in S THEN [held[d] EXCEPT !["channel"] = 0] ELSE held[d]]

(* cifXStopDevice for the devices S; their channels are freed.              *)
StopDevices(S) ==
  /\ alive' = alive \ S
  /\ held' = [d \in Devices |-> IF d \in S THEN [held[d] EXCEPT !["channel"] = 0] ELSE held[d]]

(* Mutant: the entry stays.                                                 *)
Without_Kept(d) == table

(* The list after the first entry for d has been moved over.                *)
Without(d) ==
  RemoveAt(table, CHOOSE i \in DOMAIN table :
                    table[i] = d /\ \A j \in 1 .. i - 1 : table[j] # d)

(* Mutant: the handles to the system device are not looked at.              *)
InUse_ChannelOnly(d) == opened[d]["channel"] # 0

InUse(d) == \E c \in Channels : opened[d][c] # 0

(* The list without d is moved to a smaller one, which may fail.            *)
ShrinkList(d) ==
  \/ table' = Without(d) /\ UNCHANGED lost
  \/ Without(d) # <<>> /\ table' = <<>> /\ lost' = TRUE

(* A device in use is kept, but its interrupts are disabled before that is  *)
(* known; only fIrqEnabled is restored.                                     *)
cifXTKitRemoveDevice(d, force) ==
  /\ ~lost /\ d \in Listed
  /\ irqOn' = IF d \in irqMode THEN irqOn \ {d} ELSE irqOn
  /\ IF InUse(d) /\ ~force
     THEN /\ refused' = refused \cup {d}
          /\ UNCHANGED <<table, lost, alive, held>>
     ELSE /\ StopDevices({d})
          /\ ShrinkList(d)
          /\ refused' = refused \ {d}
  /\ UNCHANGED <<initialized, drivers, irqMode, opened, failed>>

(* The loop over the table, which cifXStopDevice moves down each time.  A   *)
(* list that cannot shrink ends the loop of two devices as it would end;    *)
(* with more the loop goes on with NULL: it is taken to shrink there.       *)
StoppedByDeinit == {table[i] : i \in {j \in DOMAIN table : j % 2 = 1}}

Deinit ==
  /\ ~lost
  /\ StopDevices(StoppedByDeinit)
  /\ table' = <<>>
  /\ drivers' = 0
  /\ refused' = {}
  /\ UNCHANGED <<lost, irqMode, irqOn, opened, failed>>

cifXTKitDeinit == Deinit /\ initialized' = FALSE

(* It begins with cifXTKitDeinit; OS_Init or the lock may fail.             *)
cifXTKitInit == Deinit /\ initialized' \in BOOLEAN

----------------------------------------------------------------------------
(* The driver and its handles                                               *)

xDriverOpen ==
  /\ initialized /\ ~lost /\ drivers < MaxOpen
  /\ drivers' = drivers + 1
  /\ UNCHANGED <<initialized, table, lost, alive, irqMode, irqOn, opened, held, failed, refused>>

xDriverClose ==
  /\ initialized /\ ~lost /\ drivers > 0
  /\ drivers' = drivers - 1
  /\ UNCHANGED <<initialized, table, lost, alive, irqMode, irqOn, opened, held, failed, refused>>

(* xSysdeviceOpen, xChannelOpen.                                            *)
Open(d, c) ==
  /\ drivers > 0 /\ ~lost /\ d \in Listed
  /\ opened[d][c] < MaxOpen
  /\ opened' = [opened EXCEPT ![d][c] = @ + 1]
  /\ held' = [held EXCEPT ![d][c] = @ + 1]
  /\ UNCHANGED <<initialized, drivers, table, lost, alive, irqMode, irqOn, failed, refused>>

(* xSysdeviceClose, xChannelClose.                                          *)
Close(d, c) ==
  /\ ~lost /\ held[d][c] > 0
  /\ opened' = [opened EXCEPT ![d][c] = @ - 1]
  /\ held' = [held EXCEPT ![d][c] = @ - 1]
  /\ UNCHANGED <<initialized, drivers, table, lost, alive, irqMode, irqOn, failed, refused>>

Next ==
  \/ cifXTKitInit \/ cifXTKitDeinit \/ xDriverOpen \/ xDriverClose
  \/ \E d \in Devices :
       \/ cifXTKitAddDevice(d)
       \/ \E force \in BOOLEAN : cifXTKitRemoveDevice(d, force)
       \/ \E c \in Channels : Open(d, c) \/ Close(d, c)

Spec == Init /\ [][Next]_vars

----------------------------------------------------------------------------
(* Properties                                                               *)

(* The types of all variables.                                              *)
TypeOK ==
  /\ initialized \in BOOLEAN /\ lost \in BOOLEAN
  /\ drivers \in 0 .. MaxOpen
  /\ table \in UNION {[1 .. n -> Devices] : n \in 0 .. Cardinality(Devices)}
  /\ {alive, irqMode, irqOn, failed, refused} \subseteq SUBSET Devices
  /\ opened \in [Devices -> [Channels -> 0 .. MaxOpen]]
  /\ held \in [Devices -> [Channels -> 0 .. MaxOpen]]

(* Without force a device somebody has a handle to is not removed, however  *)
(* devices came and went before ("deny device removal").                    *)
KeepsDevicesInUse ==
  [][\A d \in Devices :
       cifXTKitRemoveDevice(d, FALSE) /\ table' # table
         => \A c \in Channels : held[d][c] = 0]_vars

(* A device in the table is complete and in the table once.                 *)
ListedIsAlive ==
  /\ Listed \subseteq alive
  /\ Cardinality(Listed) = Len(table)

(* The toolkit's end leaves the objects of every second device, and those   *)
(* of devices whose start failed; with one device, as here, of none.        *)
DeinitStopsHalf ==
  [][Deinit => Cardinality((Listed \cap alive') \ failed) <= Len(table) \div 2]_vars

(* A listed device in interrupt mode has its interrupts enabled, unless its *)
(* removal was refused: then it waits for interrupts that are off.          *)
InterruptModeHasInterrupts ==
  \A d \in Listed \ refused : d \in irqMode => d \in irqOn
=============================================================================
