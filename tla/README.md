# Verification of the EIP-FI-X90 firmware

The repository is the firmware of an EtherNet/IP adapter on the application CPU of a netX90. It runs without an operating
system. The EtherNet/IP stack runs on the other CPU of the chip and is reached through a dual-port memory: mailboxes for
packets, two areas for process data, and one *handshake cell* whose flag bits say who may act next. This directory holds
TLA+ models of the firmware's core logic, TLC configurations that check them, and proofs checked by TLAPS.

Paths are relative to `src/netXStudio_EISV5_V4.1.0.0/Components/`.

## 1. Inventory

Two threads of control run the whole program:

- the **main loop** (`App_CifXApplication`): polls the mailbox and dispatches indications, runs the terminal and the shell,
  and handles events (keys, LEDs);
- the **TIMER1 interrupt**, every millisecond (`App_IODataHandler`): kicks the watchdog and exchanges process data with the
  dual-port memory and with the input and output chips on SPI.

There is no scheduler and no mutual exclusion but `OS_EnterLock`, which disables the SysTick interrupt only. The main loop
is re-entered by itself: while it waits for a confirmation it dispatches indications, whose handlers send requests and wait
in turn.

| Component | Source | State | Operations | What is hard | What makes it correct |
|---|---|---|---|---|---|
| Synchronous packet interface | `Application/.../App_PacketCommunication.c`, handlers in `AppEIS_ApplicationFunctions.c` | id counter, confirmation queue, one packet buffer for all calls | `Pkt_SendReceivePacket`, `Pkt_SendPacket`, `Pkt_CheckReceiveMailbox`, dispatch, register handler | nesting, late confirmations, a queue of one slot, a shared buffer | a call returns with its own confirmation or an error; each indication is answered once; every call returns |
| Dual-port memory handshake | `cifXToolkit/Source/cifXHWFunctions.c`, `cifXFunctions.c`, `OS_Custom_netX.c` | host flags in RAM, flags in the cell, copies of the stack's flags, change-of-state words | put, get, I/O read, I/O write, acknowledge, lock | main loop and interrupt read-modify-write one word | no packet lost, overwritten or read twice; flags in RAM and cell agree |
| Rotary switches and mode | `HostAbstractionLayer_NXHX90/Sources/switch.c` | value of three switches, mode, saved address | read at startup, select mode, address | ranges repeated every 300, remainders | each position selects a mode; a static address is a host's |
| Register server | `HostAbstractionLayer_NXHX90/Sources/EIP/*`, `FI/FiHandlers.c`, `AppEIS_User_Indication_Handler` | handler table, key, configuration assembly | register, find, class 3 services | the table fills up, two handlers share an address, the answer overlays the request, 16 of 32 attribute bits | addresses keep their handlers; what is refused changes nothing; the key changes by its register only |
| Manufacturing parameters | `HostAbstractionLayer_NXHX90/Sources/FI/mfg.c`, `util_task.c`, `App_FileSystemPackets.c` | file, `RAMCOPY`, variables, key | load, save, out of box reset, restart, shell commands | loss of the supply, failing packets, a key set during a save | production data survive; a reset resets |
| Stack configuration (extended) | `cifXApplicationEIS_Extended/Sources/*` | the stack's items, communication, remanent data; nested configurations | startup, `reconfig`, reset type 0 and 1 | resets nested in configurations, failing requests | what is started is the whole configuration |
| Digital inputs and outputs | `Digital_Input.c`, `Digital_Output.c`, `netx_drv/Source/netx_drv_spi.c`, `netX_hostAbstractionLayer.c` | chip select, FIFOs, two handles with locks and buffers | exchange in the interrupt, shell commands | one device under two handles, errors of its FIFOs | no lock, buffer or chip select left over; commands return |
| Application lifecycle | `App_Application.c`, `App_ApplicationFunctions.c` | running flag, open channels, timer callback | startup, main loop, shell-only loop, way out | interrupts from the middle of the startup on, endless waits, errors that end the main loop | the interrupt has its channel; the device ends up serving or has said that it does not |
| Hardware watchdog | `Watchdog_driver.c` | toggle, pin | kick from loop and interrupt, stop and start | a static read and written by both | the pin goes on changing |
| Network watchdog interval | `EIP/Watchdog.c` | interval, state | register, update in the main loop, request to the stack | never served in this build (5) | what a client reads is what the stack has |
| Host change of state | `cifXHWFunctions.c` (`DEV_DoHostCOSChange`) | flags in RAM and DPM, command and acknowledge | host state, bus state, lock, channel init | flags only remembered with timeout 0, self-clearing enable bits | each change reaches the stack, an init once |
| Reset of the device | `cifXHWFunctions.c` (`DEV_DoSystemStart`, `..Bootstart`, `DEV_DoUpdateStart`) | host flags in RAM, reset active | the three resets | two processors restart, timeouts in each step | flags in RAM are the device's again |
| Device table | `cifXToolkit/Source/cifXInit.c`, `cifXFunctions.c` | list of devices, open counts | init, deinit, add, remove, open, close | steps that fail half way, removal of what is open | what is listed is complete and usable |
| Interrupt mode | `cifXInterrupt.c` | two buffers between ISR and DSR, events, callbacks | ISR, DSR, waiting, register and unregister callbacks | three levels of preemption without a lock | no change lost, no wakeup lost |
| File download and upload | `cifXDownload.c` (`DEV_DownloadFile`, `DEV_UploadFile`) | the transfer's state | packets in turn, abort | late answers, block sizes of both sides | whole files, or none |
| Firmware update | `cifXDownload.c` (`DEV_ProcessFWDownload`), `cifXInit.c` | directory of the flash, what is to be started | find, delete, download | deletes before it stores | the base firmware stays; nothing old beside it |
| LEDs | `led.c`, `netX_hostAbstractionLayer.c` | state and outputs of two LEDs, statics | status, handles, driver, console | blinking, console and status share them | a LED shows its status and no other colour |
| Real time clock | `RTC.c` | seconds, milliseconds, last count | update, set, synchronise | a counter that wraps around | the time is the clock's |
| Terminal and shell | `App_TerminalHandler.c`, `Shell.c` | line buffer | commands | blocking commands in the main loop | |
| System and file packets, sockets | `App_SystemPackets.c`, `App_FileSystemPackets.c`, `App_SockIfFunctions.c` | none | assemble packets, listing | a listing after a failed request | |
| Stack configuration (simple) | `cifXApplicationEIS_Simple` | as the extended one | one request instead of the loops | not built | |
| Temperature, I2C, diagnosis | `HostAbstractionLayer_NXHX90/Sources` | in the chips | register accesses | | |
| Bootstrap of RAM based chips | `netX5x_hboot.c` | | not for this chip | | |
| Peripheral drivers, target, C library | `netx_drv`, `Targets`, `libc_support` | registers | vendor code | | |

Interaction: the register server is called by the dispatch of the packet interface; keys it accepts are served by
`UtilDoMfg` in the main loop, whose file operations are packet calls, in whose waits further services are dispatched.
The reset handler is dispatched the same way. Packet calls and the interrupt's I/O both end in `DEV_ToggleBit`. Main loop and
interrupt both kick the hardware watchdog. The toolkit is a library: this firmware polls, has one device, and never calls
`cifXTKitCyclicTimer` or `cifXTKitISR`; interrupt mode, resets, device table and downloads are checked as what the library
promises its user beyond this build.

## 2. Modules

| Module | Models | Uses |
|---|---|---|
| `RequestReply` | abstract: calls are opened, executed at most once by the stack, and closed with an outcome; "ok" only if executed | |
| `PacketInterface` | the synchronous packet interface with the reset handler and an arbitrary stack | `RequestReply` (refinement) |
| `MCPacketInterface` | sets of commands for TLC | `PacketInterface` |
| `PacketInterface_proofs` | proofs | `PacketInterface` |
| `OneSlotChannel` | abstract: a mailbox with one slot, filled and emptied in turn | |
| `DpmHandshake`, `DpmHandshake_proofs` | the handshake cell between main loop, interrupt and stack | `OneSlotChannel` (refinement) |
| `SwitchMode` | switch values, modes and addresses | |
| `RegisterServer`, `RegisterServer_proofs` | handler table, services, key and assembly | |
| `MfgStorage` | the parameter file and its copies | |
| `NvramLayout` | the entries of the parameter file, byte by byte | |
| `StackConfiguration` | configurations nested by resets | |
| `Application`, `Application_proofs` | startup, main loop, way out, interrupt and the hardware watchdog | composes with `StackConfiguration` |
| `SpiExchange` | the SPI device under interrupt and shell | |
| `Led` | status, handles, driver and console of the LEDs | |
| `NetxTime` | the time between system counter and real time clock | |
| `HostCos` | the host's change of state | |
| `DeviceReset` | system start, boot start, update start | |
| `DeviceTable` | devices and handles | |
| `IrqMode` | ISR, DSR, events, callbacks | |
| `FileTransfer` | one file in packets | |
| `FlashUpdate` | firmware and modules in the flash | |
| `MCToolkit` | `IrqMode`, `HostCos`, `DeviceReset`, `DeviceTable`, `FileTransfer`, `FlashUpdate` for TLC | `INSTANCE` |
| `MCBoard` | `SwitchMode`, `SpiExchange`, `Led`, `NetxTime` for TLC | `INSTANCE` |
| `MCStorage` | `MfgStorage`, `NvramLayout`, `StackConfiguration` for TLC | `INSTANCE` |
| `Toolkit_proofs`, `Board_proofs`, `Storage_proofs` | proofs about all modules of the MC module of that name | `MCToolkit`, `MCBoard`, `MCStorage` |
| `SearchLemmas` | the least of some numbers; a search from place to place is a function | |

The modules gathered in an MC module share no state. A behaviour chooses one of them at the start and runs that alone, the
others stay in an initial state: the state space is the sum of theirs, and each property is the module's own.

How state and actions correspond to the code:

- **PacketInterface.** The C call stack is explicit: `depth` is the number of waiting `Pkt_SendReceivePacket` calls,
  `call[d]` what level `d` waits for, `hnd[d]` how far the handler running on level `d` is. `buf` is the one `tPacket`,
  `queue` the confirmation queue, `nextId` the id counter. Every path of the receive loop is an action (`ReceiveOwn`,
  `ReceiveForeign`, `ReceiveOverrun`, `ReceiveIndication`, `ReceiveTimeout`, `ReceiveError`); the handler's steps are
  `HandlerRequest`, `HandlerRespond`, `RejectPacket`, `DispatchDone`; the main loop's are `MainCall`, `PollQueue`,
  `PollMailbox`, `PollNothing`. The stack may confirm late, never, or out of order, send indications and stop being ready.
- **DpmHandshake.** One action per memory access of the main loop in `DEV_ReadHandshakeFlags` and `DEV_ToggleBit`, since
  the interrupt may come between any two. The interrupt's own steps are not interrupted by the main loop but interleave with
  the other processor. `Reuse` leaves open whether the compiler writes the cell from the register or from `usHostFlags`.
  `EnableTimer` is `HOSTAL_Callbacks_Enable`; behaviours without it are those of the `ONLY_MAILBOX` build.
- **SwitchMode.** Startup reads the switches, selects the mode and applies the address; the arithmetic is the code's. An I/O
  expander that was not set up gives `SWITCH_ERROR`, which selects no mode, and startup ends. Later readings (`switch.c:352`,
  `FiHandlers.c:312`) only show digits.
- **RegisterServer.** `Registers` lists the registrations in the order of `RegisterHandlers`, `Filled` is what fits into
  the table, `Find` the first entry with the address. A request is its class, instance, attribute, service, size and words.
- **MfgStorage.** `file`, `copy` (`RAMCOPY`) and `params` (variables) are records of the production items and the user's
  items. `op` is the file operation in progress and the packet it waits for; a packet is answered or fails, done or not done.
  `MfgInitParams` reads the file, or formats a file system that is reported not to be there and restarts.
- **StackConfiguration.** `frames` is the stack of configurations in progress. A request does its effect when it is sent;
  its answer is "ok", "refused" or "lost" (lost: done or not). Each loop over a table is one request.
  What fails before the first request ends a configuration that has not begun.
- **SpiExchange.** The driver call of the shell is split where the interrupt can matter: lock, change of chip select,
  clearing, filling, reading the level of the FIFO and then so many bytes, unlock. A FIFO that is read while it is empty leaves
  `error`, from which the shell's retry loop recovers (`Recover`). The exchange of the interrupt is one step, as the shell
  cannot run meanwhile.
- **Application.** `pc` is the position in `App_CifXApplication`; each of its calls is a step, and the interrupt
  (`App_IODataHandler`) may come between any two once `timer` is set. A configuration in progress is the stack of
  `StackConfiguration`; the main loop goes on when it is empty. The main loop's `WatchdogKick` is three steps (read the
  toggle, set the pin, assign the toggle), the interrupt's is one. `Shell_WdIo` stops and starts the kicks. Whether the
  device is ready is external. Keys and LEDs in the event handler are `MfgStorage` and `Led`.
- **HostCos.** `call` is the function in progress and what it waits for: room for a command, the acknowledge, the bus, or
  the channel's restart. `ram` is `ulHostCOSFlags`, `dpm` what the stack can read. The stack reads and acknowledges in two steps.
- **DeviceReset.** One flag stands for the handshake flags of all channels; `dev` is the device, which goes down and comes
  up in steps of its own, or does not, and `call.boots` counts its starts. A wait ends by its event or its timeout.
- **DeviceTable.** `table` is `g_pptDevices`; a removal moves the following devices up. `opened` are the counts in the
  device's structures, `held` the handles the application has. The steps of the start of one device fail or succeed together.
  `MayAdd` is a duty of the caller that the toolkit does not check: it adds a device to an initialised toolkit, and none twice
  (`InitializeToolkit` in the target's `main.c` keeps it). Lists may fail to grow and to shrink; in `Deinit` with more than two
  devices they are taken to shrink, as the loop would go on with NULL.
- **IrqMode.** Each access of ISR, DSR and thread to the two buffers, `usNetxFlags` and the event is a step. A counter stands
  for a handshake bit, the code sees its parity, so "never goes back" can be said. The thread waits or uses a callback.
- **FileTransfer.** One action per packet sent, answer taken and timeout of `DEV_TransferPacket`; the device takes, answers,
  or refuses. Answers have the source and id of their request, and a late one is taken by whoever they match.
  A block read may be damaged, which its checksum shows (`ChecksumFits`), or empty.
- **FlashUpdate.** `flash` is the directory in the order of listing; each exchange succeeds or fails as a whole.
- **NvramLayout.** `image` is `RAMCOPY`, 97 bytes, with the items and sizes of `mfg.c`; a value is one byte repeated.
- **Led.** An iteration takes the status from its sources and runs both handles and the driver. Whether blink times are over
  is chosen for each iteration.
- **NetxTime.** `count` is the system counter in milliseconds, `ahead` the difference to the clock's seconds; one step per
  millisecond, updates with at most `MaxGap` between two.

## 3. Runs

A pass run explores its whole bounded state space. Times are for two workers.

| Run | Question | Bounds and why they are enough | Result |
|---|---|---|---|
| `Packet_nested` | Do nested resets keep calls, queue and buffer apart? Refines `RequestReply`. | `QueueDepth` 1 as `Pkt_Init` makes it; two type 1 resets nest to depth 3 (call, reset, reset in the reset), which overruns the queue; `ConfigLen` 1, one main call, two unconfirmed requests; the device stays ready (`Packet_late` lets it stop) | passes, 2.6 million states, 1 min |
| `Packet_late` | Is a late confirmation ever taken for another call's? Do calls return? | three calls of the *same* command, queue of 2, one indication (reset or not), results good and bad, the stack may stop | passes, 818 thousand states, 45 s |
| `Packet_sequence` | Are ids unique to requests also for listings? | two commands, one with a sequence bit, three calls, no indication | violated, see 5 |
| `Dpm_mailbox` | Do the mailboxes work although the interrupt writes the same word? `SEND` refines `OneSlotChannel`. | two packets (both directions together: each toggle state of each flag is reached), one change of state, unbounded process data exchange | passes, 4.8 million states, 85 s |
| `Dpm_lock` | Do the flags in the cell and in RAM agree outside a toggle? | three packets, two changes of state | violated, see 5 |
| `Register_requests` | Does the server keep its promises for every request while the table fills up? | table of 8 (fills in the second configuration; the code's 32 fill in the sixth), attributes on both sides of each kind of register and one 65536 apart, words that are no key, zero, and a key | passes, 299 thousand states, 20 s |
| `Register_value` | Is the accepted key the client's? | set services to two registers | violated, see 5 |
| `Mfg_persist` | Do production items survive a failure within an out of box reset? | one key, one fault | violated, see 5 |
| `Storage` | `MfgStorage`: do production data survive, is a reset thorough, do saves end? `NvramLayout`: is what is read what was saved? `StackConfiguration`: is what communicates the whole configuration, does each one end? | four keys or commands and two faults (a save, a reset and a deletion can meet, with a failure in each of two packets); all items with two bytes, one of them the high byte of every index, and one changed item between two saves; two resets (nesting depth 3 at startup), one reconfiguration, two failing requests | passes, 86 thousand states, 40 s |
| `Application` | Does the interrupt find its channel, is the watchdog kicked, is a ready device served? | one reset nested in a configuration, one reconfiguration, one failing request in them; steps of the startup and the packet handler may fail at any time; interrupts, stops and starts of the watchdog without bound | passes, 282 thousand states, 2 min |
| `Board` | `SwitchMode`: is every static address a host's? `SpiExchange`: does the shared device stay usable? `Led`, `NetxTime`: below | all 1000 positions, an I/O expander set up or not, and saved last octets 0, 100, 255; four commands, both chips, connections that come and go without bound; all sources of the LEDs, a blinking and a solid state from the console; a second of 4 ms and a counter of 7 ms, so that wraps and seconds fall in every position to each other, gaps up to 6 ms, two failures or settings, left over milliseconds below and above a second | passes, 61 thousand states, 30 s |
| `Toolkit` | `IrqMode`, `HostCos`, `DeviceReset`, `DeviceTable`, `FileTransfer`, `FlashUpdate`: below | four packets (each bit toggles back twice, both buffers are used twice); two calls of the host (the first's leftovers meet the second); three resets; two devices and one open handle to each channel and the driver; files of 1 to 4 units with blocks of 2 of the host and 0 to 3 of the device, damaged ones among those read (before, on and behind the end of a block), two transfers, so late answers of the first meet the second; three files in two channels, one failing exchange | passes, 171 thousand states, 40 s |

What the properties say. A run checks a property of an MC module under one name; the named parts are defined in the
component's module, where each has its own comment.

- `Packet_late`: `OwnConfirmation`: no packet under way matches a waiting call by command and id unless it was sent for that
  call. `QueueDrainedByOwner`: a queued confirmation leaves by its own call, or to the main loop when late. `CallReturns`:
  while the device stays ready each call returns. `AnswersDispatched`: no indication is answered twice, or before it came.
- `Packet_nested`: `QueueHoldsOthers`: no call waits for a confirmation that is already queued. `AnswerOwed`: every
  indication taken from the mailbox is answered, however resets nest and overwrite the buffer. `ImplementsRequestReply`.
- `Dpm_mailbox`: `SendInOrder` (refinement of `OneSlotChannel`), `ReceivesInOrder`: lossless, ordered
  mailboxes under preemption. `MailboxOnlyIsConsistent`: without the interrupt flags agree and acknowledged changes of state
  have been read.
- `Register_requests`: `AddressesKeepHandlers`: an address keeps its handler however often handlers are registered again.
  `KeyOnlyByItsRegister`: the key changes by its register only. `RefusedChangesNothing` and `InputsAreReadOnly` are proved, not run.
- `Application`: `InterruptHasChannel`: the timer runs only with an open channel and its handler, whatever step fails.
  `ReturnedIsQuiet`: an application that has returned has stopped the timer, closed the channel and taken back its host state.
  `KicksReachTheWatchdog`: however the interrupt falls into the main loop's kick, the pin changes at least with every third
  call. `WatchdogIsKicked`: once the timer runs the pin changes for ever, unless the shell stops it. This includes the case
  that the main loop has ended: the watchdog does not notice that. `FinallyServed`: a ready device is served if nothing fails.
- `Storage`:
  - `FactoryDataSurvives` (no fault, no deletion by hand); `KeysAreServed`: `ResetIsThorough` (one fault) and `SaveEnds`.
  - `ItemsAreWhole`: every item is read as saved, in a table that is exactly full (`SavedIsRead`); in the middle of a save an
    item has its old value, its new one or none (`NoItemTorn`); the two bytes behind the table that a search may read decide
    nothing (`BehindIsHarmless`).
  - `StartedIsComplete`: communication runs on the whole configuration only, whatever nests, with one failing request at most.
    `RestoredBeforeStart`; `FinallyStarted` (`ConfigurationsEnd` and, without failures, the start).
- `Board`:
  - `StaticAddressIsHost`: a static address has no last octet 0 or 255. `BanksAgree`, that a position means the same 300
    further on, is proved.
  - `SpiStaysClean` (`IdleIsClean`, `ShiftUndisturbed`): nothing stays selected or locked, and no transfer is disturbed while
    it is shifted. `SpiIsServed` (`ShellReturns`, `InputsServed`): while the interrupt uses the handle of the command only.
  - `LedsShowStatus`: no third colour when LEDs change between solid and blinking (`NoOtherColour`); a status that stays is
    shown in the end, whatever the console did before (`StatusIsShown`, `HotAlternates`).
  - `TimeIsKept`: the time is less than a second off the clock, however wraps, seconds and updates fall (`TimeIsClose`,
    `TimeIsMadeGood`).
- `Toolkit`:
  - `FlagsFollow`: when ISR and DSR are done the flags are the device's. `NoLostWakeup`: no thread blocks on what is there.
    `PacketsArrive` (`PacketIsNotified`, `PacketIsReceived`). That old flags never replace newer ones is proved (`FlagsNeverGoBack`).
  - `SignalledOnce`: success of a change of state with a timeout means that the stack has read these flags
    (`AcknowledgedIsSeen`), an enable bit does not go out again (`InitOnce`), and with the cyclic timer
    what was only remembered reaches the stack (`FinallyAgreed`).
  - `ResetIsClean` (`CleanAfterReset`, `PutIntoEmpty`, `UpdateStartsTwice`): flags and mailbox after a reset; an update is not
    taken for done at the first of its two starts. All three say which failures they except (5).
  - `DevicesStayUsable` (`ListedIsAlive`, `InterruptModeHasInterrupts`, `KeepsDevicesInUse`); its part `DeinitStopsHalf` bounds
    what the end of the toolkit leaves: at most half of the listed devices, and none with one device as here (5).
  - `TransfersAreWhole`: success means the whole file, whatever answers of an earlier transfer come late (`DownloadIsWhole`,
    `UploadIsWhole`); the device never closes a part (`NoPartOfAFile`); every transfer ends, but for
    the upload of a file that the device gives in empty blocks (`TransferEnds`, 5).
  - `FlashStaysConsistent`: a module's download keeps the base firmware (`BaseOsStays`); `NothingOldBesideNew` and
    `StartedIsThere` (no failing exchange); `DownloadEnds`, but for the case in 5.
- `TypesOK` gathers the types of the modules of an MC module. The types of the other modules are proved and not run.

## 4. Fairness

- `PacketInterface`: weak fairness of the receive loop and the handler together: the main loop runs on, and a wait ends by
  its timeout. Of the stack nothing is assumed.
- `MfgStorage`: weak fairness of the main loop's storage steps; each packet waited for ends by its timeout.
- `StackConfiguration`: weak fairness of starting and of resuming; a wait ends by its timeout.
- `SpiExchange`: the interrupt comes, the device shifts what it is given, the main loop runs on.
- `Application`: weak fairness of the main program as a whole and of the interrupt. None of the shell's stop and start of the
  watchdog, and none of the device becoming ready.
- `HostCos`: the host's waits end, the cyclic timer is called where there is one, the stack reads and acknowledges.
- `IrqMode`: ISR and DSR run (they have priority over the thread). The thread's receiving and registering have strong
  fairness, as it may be between calls again and again but does not stay there.
- `FileTransfer`: the host's timeouts run down; nothing of the device. `FlashUpdate`: exchanges return, which is `TransferEnds`.
- `Led`: the main loop runs, periods end. `NetxTime`: time passes, the main loop runs.

The main loop has the CPU whenever the interrupt does not, and the interrupt takes a bounded part of each millisecond.

## 5. Disagreements with comments and documentation

Each of these has a run that TLC finds violated:

1. `Packet_sequence`: the id counter is documented to assign confirmations uniquely to requests
   (`App_PacketCommunication.c:76`). Requests with `HIL_PACKET_SEQ_FIRST` are not counted, because the test is on
   `MIDDLE | LAST` (0xC0), which includes the bit of `FIRST`. A repeated listing can take the late confirmation of the
   earlier one.
2. `Dpm_lock`: flag accesses are said to be locked (`cifXHWFunctions.c:76`), but the lock disables SysTick, not TIMER1. A
   toggle by the interrupt within a toggle by the main loop is lost from RAM: later I/O cycles are skipped or repeated. The
   *mailboxes* survive this (`Dpm_mailbox`): the interrupt only copies their bits from `usHostFlags`, where the main loop
   has stored the new value after the packet is complete, so it may at most publish a toggle a little early.
3. `Register_value`: the key is to be read from the request (`FiHandlers.c:240`), but it is read two words behind it, as the
   handler gets the data part of the *response* structure, whose two status words come first.
4. `Mfg_persist`: the production items "should persist even through OBR" (`mfg.c:145`). The file is deleted first and
   written later; a failure of the write or of the supply in between loses them.

The models show the following as well. They have no run of their own, the properties checked are those that hold
despite them and say so in their conditions:

- A device that becomes not ready keeps `Pkt_SendReceivePacket` in its loop for ever (`App_PacketCommunication.c:583`;
  condition of `CallReturns`).
- Main loop and interrupt may acknowledge the same change of state twice (`cifXHWFunctions.c:714`; condition of
  `MailboxOnlyIsConsistent`).
- A wrong instance is answered with the request's first word as the status (`AppEIS_ApplicationFunctions.c:266`); the
  opcode of services that are neither get nor set is not initialised (`:278`); nothing sets `mfg_enabled`
  (`sys.h:69`), so the manufacturing registers are never served.
- The search for a handler compares the address only (`EIP/Server.c:70`), though `Includes/EIP/Server.h:174` says that the data
  type counts as well. The temperature, an input, is registered at 65100 (`EIP/Init.c:25`) before the watchdog interval, an
  output (`:57`): a set of 65100 is refused by the temperature's handler, no request reaches `WatchdogInterval_Handler`,
  and the interval keeps its initial value.
- A key accepted while a save is in progress is cleared with that save's key (`util_task.c:28`).
- A nested configuration that fails lets the outer one start a part of the configuration
  (`AppEIS_ApplicationFunctions.c:536`; condition of `StartedIsComplete`). A type 1 reset whose delete fails is answered with
  success (`:658`; condition of `RestoredBeforeStart`).
- The two SPI handles lock themselves, not the device. An exchange with the other handle between two steps of a shell
  command takes its bytes from the FIFO; the command then repeats a call that is refused for ever
  (`netx_drv_spi.c:555`, `Digital_Input.c:111`; condition of `ShellReturns`). It may also take away the chip select, and the
  command reads what no chip has sent (`netX_hostAbstractionLayer.c:231`). It may also come between the driver's look at the
  level of the FIFO and its reading of so many bytes (`netx_drv_spi.c:435`). A read of the empty FIFO leaves an error. When this
  was the last part of the transfer, the command ends with the error left behind: every later exchange, of shell or
  interrupt, is refused at its chip select, before the loop that would recover (`Digital_Input.c:123`).
- A packet handler error ends the main loop while the interrupt goes on kicking the watchdog. A channel that cannot be
  opened ends the application with the result 0 (`App_Application.c:113`). The wait for the device at startup has no timeout
  and no kick, and the ADC loops of `HOSTAL_Init` do not give up (`netX_hostAbstractionLayer.c:155`).
- A reset that ends by its timeout leaves `fResetActive` set and the host flags in RAM zero (`cifXHWFunctions.c:1810`). In
  interrupt mode the host flags are not read again after a reset (`:1705`). An update start that is given up may restart
  the device later, behind a success; its end is not checked for the firmware's cookie.
- `cifXTKitDeinit` removes devices while it counts up through the list, so every second one stays (`cifXInit.c:4320`). A
  refused removal leaves the device's interrupts off (`:4222`). A list that cannot be enlarged becomes NULL with its count
  kept (`:4152`), as does one that cannot be shrunk (`:4013`). A failed start of a device is not undone. A forced removal keeps the open count of the system device.
- `DEV_CheckCOSFlags` returns without unlocking when it finds the boot loader (`cifXHWFunctions.c:1479`): harmless here, as
  the target's mutex always succeeds. The test of the handshake bits comes before the lock (`:2187`), so two threads may both
  toggle; the firmware has one. `CIFX_NOTIFY_PD1_IN` is refused exactly if there is a second area (`cifXFunctions.c:3295`).
- A firmware file that is to stay and is listed first is found for ever, as the search starts again (`cifXDownload.c:80`;
  condition of `DownloadEnds`). The old firmware is deleted before the new one is stored (`:858`). Without a running base
  firmware the RAM branch returns success without loading anything (`:682`).
- The health LED of a hot device starts with RED (`led.c:1037`). `Led_Alternate` sets the health LED for whoever calls it
  (`:1118`). `WD_FAULT` and `CONFIG_ERROR` are never set.
- `RTC_SetTime` leaves the milliseconds uninitialised (`RTC.c:319`; `Leftover`). A failed read of the clock sets a time long
  ago (`:526`). A wrap is missed if 20000 rounds of the main loop take longer than the counter's 42.9 s (`MaxGap < Wrap`).
  `_time_get` returns without a time when it sees a wrap (`:276`).
- An upload whose confirmations carry no data asks for ever (`cifXDownload.c:1435`; condition of `TransferEnds`).
- A listing goes on after a failed exchange (`App_FileSystemPackets.c:545`). An empty line repeats the last command word.

## 6. Proofs

All theorems hold for every value of the constants allowed by the named assumptions of the modules: bounds are
natural numbers, sets contain what the code knows, a block of the host is not empty, a gap between two updates of the time is shorter
than a round of the system counter, a byte is at most 255. Three theorems have a hypothesis of their own: "without sequence flags" is
`SeqCmds = {}`, as in the runs of their properties. With these flags ids repeat (5), and a late confirmation may be another call's.

The larger inductive invariants were checked with TLC on the instances of the runs before they were proved (`IdInv`,
`NvInv`, `FileInv`). What remains for TLC alone is liveness: every invariant and action property of the passing runs is
proved, and so are the refinements.

| Theorem | States | Argument |
|---|---|---|
| `PacketInterface_proofs!Typing` | `TypeOK` | inductive |
| `PacketInterface_proofs!ConfirmationsAreOwn` | `OwnConfirmation`, for any queue, nesting depth, commands, number of calls | `IdInv`, below |
| `PacketInterface_proofs!IndicationsAreOwed` | `AnswerOwed` | `Owed`, below |
| `PacketInterface_proofs!AnswersAreDispatched` | `AnswersDispatched` | `Owed` |
| `PacketInterface_proofs!QueueIsForOthers` | `QueueHoldsOthers`, without sequence flags | `CallsInv`, below |
| `PacketInterface_proofs!QueueIsDrained` | `QueueDrainedByOwner`, without sequence flags | `CallsInv` |
| `PacketInterface_proofs!CallsImplementRequestReply` | `ImplementsRequestReply`, without sequence flags | `CallsInv`; each action maps to a step of `RequestReply` or to a stutter |
| `DpmHandshake_proofs!Typing` | `TypeOK` | inductive, with the lock held in five places and nothing disabled |
| `DpmHandshake_proofs!SendOrder` | `SendInOrder`: the send mailbox implements `OneSlotChannel`, for any number of packets | `SendInv`, below |
| `DpmHandshake_proofs!ReceiveOrder` | `ReceivesInOrder`, for any number of packets | `RecvInv`, the same with the parts exchanged |
| `DpmHandshake_proofs!MailboxOnlyConsistency` | `MailboxOnlyIsConsistent` | `FlagsQuiet`, `CosQuiet`: before the timer is enabled only the main loop's own toggle is between the two copies |
| `RegisterServer_proofs!Typing` | `TypeOK` | inductive |
| `RegisterServer_proofs!AddressStability` | `AddressesKeepHandlers`, for any table size of at least one registration | entries are appended, so the first match stays; after the first configuration the table is full or holds every register, so what is appended only repeats entries and no new address appears (`TableComplete`) |
| `RegisterServer_proofs!RefusalSafety` | `RefusedChangesNothing` | by cases of the service |
| `RegisterServer_proofs!KeySafety` | `KeyOnlyByItsRegister` | only the entry at 60000 sets the key |
| `RegisterServer_proofs!InputSafety` | `InputsAreReadOnly` | a set service asks an input for what it does not accept |
| `Application_proofs!AppTyping` | `AppTypeOK` | inductive, with `LifeInv` and `KickInv` |
| `Application_proofs!InterruptSafety` | `InterruptHasChannel` | `LifeInv`: what the position in the program says of the channel, the timer and the host state |
| `Application_proofs!ExitSafety` | `ReturnedIsQuiet` | `LifeInv` |
| `Application_proofs!KickSafety` | `KicksReachTheWatchdog` | `KickInv`, below |
| `Storage_proofs!Typing`, `UnitsTyping` | `TypeOK` of `MfgStorage`, `TypesOK` of `MCStorage` | inductive |
| `Storage_proofs!ProductionSafety` | `FactoryDataSurvives` | `OperationsInOrder`, below |
| `Storage_proofs!ResetSafety` | `ResetIsThorough` | `PastDelete`: RAMCOPY has the defaults, and the file has not the user's settings unless a fault was used up for that |
| `Storage_proofs!LayoutSafety` | `ItemsAreWhole` | `NvInv`, below |
| `Storage_proofs!StartSafety` | `StartedIsComplete`, for any nesting depth | `CfgInv`, below |
| `Storage_proofs!RestoreSafety` | `RestoredBeforeStart`, for any nesting depth | `CfgRestore`, below |
| `Board_proofs!Typing` | `TypesOK` | inductive, unit by unit |
| `Board_proofs!AddressSafety` | `StaticAddressIsHost` | arithmetic of the ranges |
| `Board_proofs!EveryPositionSelects` | every value of the switches selects a mode, so startup fails there only without the I/O expander | arithmetic |
| `Board_proofs!BankSafety` | `BanksAgree` | the remainder by 300 keeps every range (`BankFold`) |
| `Board_proofs!SpiSafety` | `SpiStaysClean` | what the step of the command says of chip select, lock, buffer and FIFO |
| `Board_proofs!LedSafety` | `NoOtherColour` | each writer of a LED leaves it as its state says |
| `Board_proofs!TimeSafety` | `TimeIsClose`, for any second, counter and gap below a round of the counter | the milliseconds not yet counted are what the counter is ahead of the last update |
| `Toolkit_proofs!Typing` | `TypesOK` | inductive, unit by unit |
| `Toolkit_proofs!HandoverSafety` | `FlagsFollow`, for any number of packets | below |
| `Toolkit_proofs!FlagsAdvance` | `FlagsNeverGoBack` | the same invariant |
| `Toolkit_proofs!WakeupSafety` | `NoLostWakeup` | `Wakeup`: a blocked thread has the event, or the DSR is about to set it |
| `Toolkit_proofs!NotificationSafety` | `PacketIsNotified` | what has been told and what the DSR still has to compare |
| `Toolkit_proofs!ResetSafety` | `ResetIsClean` | `ResetInv`: what the step of the reset says of the device, its starts and the two copies of its flags |
| `Toolkit_proofs!ChangeSafety` | `AcknowledgedIsSeen` and `InitOnce` of `HostCos` | `CosInv`: command and acknowledge differ exactly while the stack has not read; restarts under way, remembered and done are no more than were asked for |
| `Toolkit_proofs!TableSafety` | `DevicesStayUsable`, for any finite set of devices | `TabInv`: no device twice; counts of handles are no less than the handles held |
| `Toolkit_proofs!TransferSafety` | `DownloadIsWhole`, `UploadIsWhole`, `NoPartOfAFile`, for any sizes of file and blocks | `FileInv`, below |
| `Toolkit_proofs!FlashSafety` | `BaseOsStays`, `NothingOldBesideNew`, `StartedIsThere` | `FlashInv`: what is before the cursor of a listing, and what a download has removed so far |

`OwnConfirmation` is not inductive: a packet saved in a handler or left in the buffer may be sent again, and a fresh id is
new only if no packet is ahead of the counter. `IdInv` therefore speaks of all packets *held* anywhere (mailboxes, work of
the stack, queue, buffer, copies in handlers), bounds their ids by the counter, and states ownership for all of them; the
other way round, a packet of a waiting call has the command and the id of that call.

`AnswerOwed` and `AnswersDispatched` rest on `Owed`: each indication a handler owes an answer has been dispatched, no two
levels owe the same, one in the mailbox has not been dispatched, and every dispatched one is owed by some level. It needs
`HandlersOk` (which steps a handler can be at, below a waiting call and on the innermost level) and `Kinds` (which kind of
packet can be in which place), as the buffer a handler answers from is the one the nested calls overwrite.

`QueueHoldsOthers`, `QueueDrainedByOwner` and the refinement of `RequestReply` rest on `CallsInv`:

- `Numbered`: every call is open or has an outcome, and a deeper one is younger;
- `Flight`: of each call at most one request or confirmation is on its way, a request only as long as the call has not been
  confirmed, and each call with a packet on its way is open or was given up;
- `QueueForeign`: a call that waits at the mailbox has no confirmation in the queue. Only a nested call can put it there,
  within a handler, and after each indication the receive loop looks at the queue before it waits again.

Each action maps to opening, executing or closing a call of `RequestReply`, or to a stutter. That the
stack executes a call at most once follows from `Flight`: the request of a confirmed call is nowhere on its way.

`FactoryDataSurvives` is not inductive either: that a file operation writes good data depends on who asked for it and at
which packet it is. `OperationsInOrder` says which operations can be at which packet, that a save writes what the variables
hold, that only the shell's deletion deletes without rewriting, and that an aborted write counts as a fault.

`ItemsAreWhole` is about searches in bytes. `NvInv` says that file and table are laid out whole or empty (`Laid`: the items at
their places, each with one value, and nothing behind them), except during the first save, when they are laid out as far
as the save has come; and that what the save has written has the values of the variables. A search passes whole items one by one
(`Passes`) and runs out where nothing is written (`RunsOut`), whatever is in the two bytes behind the table; both use
`SearchLemmas`, that a search is a function of where it starts. So a read finds what was laid out (`Reading`), and a write
changes one item, or appends the next, and leaves the others (`Writing`, `Stays`).

`StartedIsComplete` needs to know what interrupted configurations will still do when those above them have ended. `CfgInv`
says so of all levels (the depth is not bounded in the proof): the stack is whole while it communicates (`Complete`); what the
innermost configuration has passed has been configured (`InProgress`); one that waits in its middle is a reconfiguration, or
its channel init has failed and the fault is spent (`Interrupted`, `Running`); above one that was interrupted, or without a
fault, communication is stopped only by a configuration that will start it (`Stopped`, `Idling`). `CfgRestore` adds that
after a deletion of the remanent data some level has its channel init still before it, or the innermost has not yet started communication.

The handshake word is written by two parties without a lock that keeps them apart, so `usHostFlags` and the cell may disagree in
the process data flags. `SendInv` says why the mailboxes do not suffer: the interrupt never toggles `SEND` or `RECV`, so in
these bits the cell is what `usHostFlags` says and the main loop's register what it is to become (`Agree`), except between its
store and its write, when the packet is already complete. An old copy of the netX flags may say that the mailbox is full
when it is not, never the reverse. `Unpublished` marks the packet that is complete and not yet handed over.

`KicksReachTheWatchdog` needs to know how pin, toggle and the value the main loop has read can differ at each of its three
steps: two calls without a change of the pin are only possible while the main loop is between setting the pin and assigning
the toggle.

On the board, `SpiInv` ties chip select, lock, buffers and the FIFO to the step of the command, and `TimeInv` the counter to the
last update and the gap since then, modulo the counter's width.

`FlagsFollow` only speaks of the time when ISR and DSR are done. `IrqInv` says at each step of the DSR which buffer is whose
(`Handover`), that flags, the buffer taken and the buffer of the ISR hold what was read in this order (`Ordered`), and that
the last of them is the device's present state unless an interrupt is pending.

The other parts of the toolkit:

- `HostCos`: `SeenInv`: what the stack has read is what is in the memory unless a change is signalled and not read;
  `CountInv`: channel inits read, signalled and waiting for room together are no more than were asked for, and the enable
  bit never stays in the host's own flags.
- `DeviceReset`: how often the device has started at each step of the call (`BootsInv`), when the flags of both sides agree
  (`SettledInv`), and when the mailbox can hold a request (`MailboxInv`).
- `DeviceTable`: no device is twice in the table, the listed ones are alive, and the handles held are no more than those the
  device's structure counts.
- `FileTransfer`: ids tell late answers from those waited for, though each transfer starts to count again, because the
  source differs (`FileOrder`: nothing is later than the call, and a request waited for is answered once). The device
  is as far as the call when a block is sent (`InStep`), and a good answer that the call will take says what the device has (`FileTold`).
- `FlashUpdate`: without a failed exchange, what is before the cursor of a listing has been dealt with (`ScanInv`), what a
  firmware download has left is new (`NewInv`), and what is to be started is in the directory unless it is being replaced (`StartInv`).

The counter of ids is a natural number in the model; the code's wraps around after 2^32 requests, and no confirmation is
under way for that long.

Only model-checked: liveness, which is out of the prover's reach. These are `CallReturns`, `WatchdogIsKicked`,
`FinallyServed` and the liveness parts of the gathered properties: `SaveEnds`, `FinallyStarted` (`ConfigurationsEnd`),
`SpiIsServed`, `StatusIsShown`, `HotAlternates`, `TimeIsMadeGood`, `PacketIsReceived`, `FinallyAgreed`, `TransferEnds`, `DownloadEnds`.
The theorems named in the table state the safety parts of these properties. With sequence flags the properties of the
queue are neither checked nor proved.

## 7. Not modelled

- **Toolkit**: RAM based devices and their bootstrap (`netX5x_hboot.c` and the other branch of the downloads), DMA and
  synchronisation, the other notifications of `cifXInterrupt.c`, the steps within the start of one device. The netX90 boots
  from flash, and this build polls.
- **Terminal and shell**: editing and printing of a line; commands with effects are in the models above. **System and file
  packets, sockets**: assembling of packets; the requests with an effect are in the models above.
- **Simple configuration**: not built. **Temperature, I2C, diagnosis, drivers, target, C library, register definitions**:
  register sequences, vendor code and generated headers without decisions of the application.
- The clock's calendar formats and the shell's test mode `g_App_Control` 0, the LEDs' self test patterns,
  remanent data that the host stores, the network watchdog's registers, of which one is not served and the other counts.
- An upload with more data than the device announced (`cifXDownload.c:1500`).
- Packet payloads and lengths, except where a property is about them (register server, files); process data contents.

## 8. Plan

Done: packet interface and handshake with their abstractions; switches, register server and storage; layout of the
parameters; stack configuration; application and hardware watchdog; SPI, LEDs, time; of the toolkit host change of
state, resets, device table, interrupt mode, transfers and updates; the safety properties of all of them proved. In this order
remain:

1. Proofs: that calls without sequence flags keep the queue properties although others have them (a hypothesis for each
   call instead of `SeqCmds = {}`).
2. `HostCos` with the cyclic timer in a second thread, and with the DSR of `IrqMode`.
3. RAM based downloads, and the steps of the start of a device with what each failure leaves.
4. The remaining notifications and the synchronisation of the interrupt mode.
