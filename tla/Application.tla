---------------------------- MODULE Application ----------------------------
(***************************************************************************)
(* The application as a whole (App_Application.c): the startup up to the   *)
(* configuration of the stack, the main loop with its packet, terminal and *)
(* event handlers, the way out after an error, and the timer interrupt     *)
(* with the process data exchange, composed with the configurations and    *)
(* reset indications of StackConfiguration.  Main loop and interrupt both  *)
(* kick the hardware watchdog (Watchdog_driver.c).                         *)
(***************************************************************************)
EXTENDS StackConfiguration

VARIABLES
  pc,        \* where the main program is
  channel,   \* the channel's memory and handle
  timer,     \* the timer interrupt is enabled
  callback,  \* s_pfTimerCallback is set
  ready,     \* external: the device is ready
  host,      \* the host state the device has been told
  failed,    \* history: a step of the startup, or the packet handler, failed
  toggle,    \* toggle of WatchdogKick
  pin,       \* the level of the kick pin
  kick,      \* the value of toggle with which the main loop is in WatchdogKick
  wdstarted, \* cleared and set from the shell: WatchdogKick returns at once
  unkicked   \* history: calls of WatchdogKick since the pin last changed

lifeVars == <<pc, channel, timer, callback, ready, host, failed, wdstarted>>
kickVars == <<toggle, pin, kick, unkicked>>
appVars  == <<vars, lifeVars, kickVars>>

Startup == {"init", "driver", "open", "wait", "host", "callback", "configure"}
Loop    == {"packets", "terminal", "kick", "write", "store", "events"}
Exit    == {"exit", "tell", "close", "returned"}

AppInit ==
  /\ Init
  /\ pc = "init"
  /\ channel = "none"
  /\ timer = FALSE
  /\ callback = FALSE
  /\ ready \in BOOLEAN
  /\ host = "none"
  /\ failed = FALSE
  /\ wdstarted = TRUE
  /\ toggle = 1
  /\ pin = 0
  /\ kick = 1
  /\ unkicked = 0

----------------------------------------------------------------------------
(* The startup                                                              *)
StartupStep(from, to) ==
  /\ pc = from
  /\ pc' = to
  /\ UNCHANGED <<vars, ready, wdstarted, kickVars>>

(* Mutant: the timer is enabled where it is initialised.                    *)
HOSTAL_Init_Enables ==
  /\ StartupStep("init", "driver")
  /\ channel' = "allocated"
  /\ timer' = TRUE
  /\ UNCHANGED <<callback, host, failed>>

(* The channel's memory is allocated and the hardware initialised.          *)
HOSTAL_Init ==
  /\ StartupStep("init", "driver")
  /\ channel' = "allocated"
  /\ UNCHANGED <<timer, callback, host, failed>>

(* Without a driver the application returns as it is.                       *)
xDriverOpen ==
  /\ UNCHANGED <<channel, timer, callback, host>>
  /\ \/ StartupStep("driver", "open") /\ UNCHANGED failed
     \/ StartupStep("driver", "returned") /\ failed' = TRUE

App_AllChannels_Open ==
  /\ UNCHANGED <<timer, callback, host>>
  /\ \/ StartupStep("open", "wait") /\ channel' = "open" /\ UNCHANGED failed
     \/ StartupStep("open", "exit") /\ failed' = TRUE /\ UNCHANGED channel

(* Mutant: waits for RUN, which the stack reports of a configured channel.  *)
IsReady_Running == ready /\ app = "running"

IsReady == ready

(* The wait has no end but the device's being ready.                        *)
App_AllChannels_GetChannelInfo_WaitReady ==
  /\ IsReady
  /\ StartupStep("wait", "host")
  /\ UNCHANGED <<channel, timer, callback, host, failed>>

(* The device is told first; a device that is not ready does not answer.    *)
xChannelHostState ==
  /\ UNCHANGED <<channel, timer, callback>>
  /\ host' = "ready"
  /\ \/ ready /\ StartupStep("host", "callback") /\ UNCHANGED failed
     \/ StartupStep("host", "exit") /\ failed' = TRUE

HOSTAL_Callbacks_Enable ==
  /\ StartupStep("callback", "configure")
  /\ callback' = TRUE
  /\ timer' = TRUE
  /\ UNCHANGED <<channel, host, failed>>

(* The configuration runs, with the reset indications that come meanwhile.  *)
App_AllChannels_Configure ==
  /\ pc = "configure"
  /\ \/ Protocol_StartConfiguration /\ UNCHANGED pc
     \/ frames # <<>> /\ (Resume \/ AppEIS_HandleResetInd) /\ UNCHANGED pc
     \/ /\ frames = <<>> /\ app # "startup"
        /\ pc' = IF app = "running" THEN "packets" ELSE "shell"
        /\ UNCHANGED vars
  /\ UNCHANGED <<channel, timer, callback, ready, host, failed, wdstarted, kickVars>>

----------------------------------------------------------------------------
(* The main loop                                                            *)
LoopStep(from, to) ==
  /\ pc = from
  /\ pc' = to
  /\ UNCHANGED <<channel, timer, callback, ready, host>>

(* A reset indication comes while packets are looked for or a request of    *)
(* the terminal or the event handler is waited for; the configuration it or *)
(* a command has started goes on until its end.                             *)
Configuring ==
  /\ \/ frames # <<>> /\ Resume
     \/ pc \in {"packets", "terminal", "events", "shell"} /\ AppEIS_HandleResetInd
  /\ UNCHANGED <<lifeVars, kickVars>>

(* Its error is looked at after the terminal and the events; indications    *)
(* are dispatched within it.                                                *)
App_AllChannels_PacketHandler ==
  /\ frames = <<>>
  /\ LoopStep("packets", "terminal")
  /\ failed' \in {failed, TRUE}
  /\ UNCHANGED <<vars, wdstarted, kickVars>>

App_TerminalHandler ==
  /\ frames = <<>>
  /\ \/ LoopStep("terminal", "terminal") /\ Term_ReconfigCommand
     \/ LoopStep("terminal", "kick") /\ UNCHANGED vars
     \/ LoopStep("shell", "shell") /\ Term_ReconfigCommand
  /\ UNCHANGED <<failed, wdstarted, kickVars>>

(* The commands start_io_wd and stop_io_wd.                                 *)
Shell_WdIo ==
  /\ frames = <<>>
  /\ LoopStep("terminal", "terminal") \/ LoopStep("shell", "shell")
  /\ wdstarted' = ~wdstarted
  /\ UNCHANGED <<vars, failed, kickVars>>

(* The rest of HOST_EvnetHandler, and the loop's condition.                 *)
App_EventHandler ==
  /\ frames = <<>>
  /\ LoopStep("events", IF failed THEN "shell" ELSE "packets")
  /\ UNCHANGED <<vars, failed, wdstarted, kickVars>>

----------------------------------------------------------------------------
(* Kicking the hardware watchdog                                            *)
PinSet(level, calls) ==
  /\ pin' = level
  /\ unkicked' = IF level = pin THEN unkicked + calls ELSE 0

(* The main loop's call: the test, the pin, and the assignment of toggle,   *)
(* with interrupts in between.                                              *)
WatchdogKick ==
  /\ frames = <<>>
  /\ UNCHANGED <<vars, failed, wdstarted>>
  /\ \/ /\ LoopStep("kick", "events")
        /\ ~wdstarted
        /\ UNCHANGED kickVars
     \/ /\ LoopStep("kick", "write")
        /\ wdstarted
        /\ kick' = toggle
        /\ UNCHANGED <<toggle, pin, unkicked>>
     \/ /\ LoopStep("write", "store")
        /\ PinSet(kick, 1)
        /\ UNCHANGED <<toggle, kick>>
     \/ /\ LoopStep("store", "events")
        /\ toggle' = 1 - kick
        /\ UNCHANGED <<pin, kick, unkicked>>

(* Mutant: one branch of WatchdogKick does not set toggle.                  *)
InterruptKick_OneWay ==
  /\ PinSet(toggle, 1)
  /\ toggle' = IF toggle = 1 THEN 0 ELSE toggle

(* Mutant: only the main loop kicks.                                        *)
InterruptKick_None == UNCHANGED <<pin, toggle, unkicked>>

(* The interrupt's call is not interrupted.                                 *)
InterruptKick ==
  /\ PinSet(toggle, 1)
  /\ toggle' = 1 - toggle

(* The 1 ms interrupt; the exchange itself is modelled in DpmHandshake and  *)
(* SpiExchange.                                                             *)
App_IODataHandler ==
  /\ timer
  /\ IF callback /\ wdstarted THEN InterruptKick ELSE UNCHANGED <<pin, toggle, unkicked>>
  /\ UNCHANGED <<vars, lifeVars, kick>>

----------------------------------------------------------------------------
(* The way out                                                              *)
ExitStep(from, to) ==
  /\ pc = from
  /\ pc' = to
  /\ UNCHANGED <<vars, ready, failed, wdstarted, kickVars>>

HOSTAL_Callbacks_Disable ==
  /\ ExitStep("exit", IF channel = "open" THEN "tell" ELSE "close")
  /\ timer' = FALSE
  /\ callback' = FALSE
  /\ UNCHANGED <<channel, host>>

(* Mutant: the device is told that the bus is off only.                     *)
TellNotReady_BusOnly == UNCHANGED host

TellNotReady == host' = "not ready"

(* The bus off with 10 ms, the host not ready with 1 s to answer.           *)
xChannelBusState ==
  /\ ExitStep("tell", "close")
  /\ TellNotReady
  /\ UNCHANGED <<channel, timer, callback>>

(* Channels are closed and freed, the packets and the driver released.      *)
App_AllChannels_Close ==
  /\ ExitStep("close", "returned")
  /\ channel' = "freed"
  /\ UNCHANGED <<timer, callback, host>>

----------------------------------------------------------------------------
(* External: the device becomes ready, or is so no longer.                  *)
DeviceReady ==
  /\ ready' = ~ready
  /\ UNCHANGED <<vars, pc, channel, timer, callback, host, failed, wdstarted, kickVars>>

(* External: clients change settings.                                       *)
Clients == StoreRemanentData /\ UNCHANGED <<lifeVars, kickVars>>

Steps ==
  \/ HOSTAL_Init \/ xDriverOpen \/ App_AllChannels_Open
  \/ App_AllChannels_GetChannelInfo_WaitReady \/ xChannelHostState
  \/ HOSTAL_Callbacks_Enable \/ App_AllChannels_Configure
  \/ (pc \in Loop \cup {"shell"} /\ Configuring)
  \/ App_AllChannels_PacketHandler \/ App_TerminalHandler
  \/ WatchdogKick \/ App_EventHandler
  \/ HOSTAL_Callbacks_Disable \/ xChannelBusState \/ App_AllChannels_Close

AppNext == Steps \/ Shell_WdIo \/ App_IODataHandler \/ DeviceReady \/ Clients

AppSpec == AppInit /\ [][AppNext]_appVars

(* The program runs, waits for the device end when it is ready, and the     *)
(* timer goes on.                                                           *)
AppFairSpec == AppSpec /\ WF_appVars(Steps) /\ WF_appVars(App_IODataHandler)

----------------------------------------------------------------------------
(* Properties                                                               *)

(* The types of the variables added to StackConfiguration's.                *)
AppTypeOK ==
  /\ pc \in Startup \cup Loop \cup Exit \cup {"shell"}
  /\ channel \in {"none", "allocated", "open", "freed"}
  /\ timer \in BOOLEAN /\ callback \in BOOLEAN /\ ready \in BOOLEAN
  /\ host \in {"none", "ready", "not ready"}
  /\ failed \in BOOLEAN /\ wdstarted \in BOOLEAN
  /\ toggle \in 0 .. 1 /\ pin \in 0 .. 1 /\ kick \in 0 .. 1
  /\ unkicked \in Nat

(* The interrupt finds an open channel and its handler, whichever step of   *)
(* the startup fails and however the application ends.                      *)
InterruptHasChannel == timer => channel = "open" /\ callback

(* However interrupts fall into the main loop's WatchdogKick, the pin       *)
(* changes at least with every third call that is not told to do nothing.   *)
KicksReachTheWatchdog == unkicked <= 2

(* Once the timer runs the hardware watchdog is kicked for ever, unless the *)
(* shell has stopped it: during the configuration, during waits in the main *)
(* loop, and also after an error has ended it.                              *)
WatchdogIsKicked ==
  timer /\ <>[]wdstarted ~> ([]<>(pin = 0) /\ []<>(pin = 1))

(* An application that has given up has told the device so, if it had       *)
(* announced itself.                                                        *)
ReturnedIsQuiet ==
  pc = "returned" => timer = FALSE /\ host # "ready" /\ channel # "open"

(* The device is served in the end when it gets ready and nothing fails.    *)
FinallyServed ==
  <>[]ready => <>(failed \/ faults > 0 \/ [](pc \in Loop))
=============================================================================
