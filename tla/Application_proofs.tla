------------------------- MODULE Application_proofs -------------------------
(***************************************************************************)
(* Theorems about the application's life and its hardware watchdog: they   *)
(* hold for any number of resets, configurations and failing requests, and *)
(* whenever the timer interrupts.                                          *)
(***************************************************************************)
EXTENDS Application, TLAPS

(* What the program's position says of the channel, the timer and what the  *)
(* device has been told.                                                    *)
LifeInv ==
  /\ timer \in BOOLEAN /\ callback = timer
  /\ timer = TRUE => pc \in Loop \cup {"configure", "shell"}
  /\ pc \in Loop \cup {"wait", "host", "callback", "configure", "shell", "tell"} =>
       channel = "open"
  /\ pc \in {"init", "driver", "open", "wait", "host"} => host = "none"
  /\ pc \in {"init", "driver", "open"} => channel # "open"
  /\ pc = "exit" /\ channel # "open" => host = "none"
  /\ pc \in {"close", "returned"} => host # "ready"
  /\ pc = "returned" => channel # "open"

(* What can have come to pass of the pin's level and the two toggles, by    *)
(* the position of the main loop in WatchdogKick.                           *)
KickInv ==
  /\ toggle \in 0 .. 1 /\ pin \in 0 .. 1 /\ kick \in 0 .. 1 /\ unkicked \in 0 .. 2
  /\ toggle = pin => unkicked <= 1 /\ (pc = "store" \/ unkicked = 0)
  /\ pc = "write" /\ kick = pin => unkicked <= 1
  /\ pc = "store" => kick = pin \/ (toggle # pin /\ unkicked = 0)

USE DEF Loop, lifeVars, kickVars, appVars

(* The startup and the way out do not come near the pin.                    *)
LEMMA KickUntouched ==
  ASSUME KickInv, UNCHANGED kickVars, 
         pc' = pc \/ (pc # "store" /\ pc' \notin {"write", "store"})
  PROVE  KickInv'
  BY DEF KickInv

(* The interrupt's call at any point of the main loop's.                    *)
LEMMA InterruptKeepsKickInv ==
  ASSUME KickInv, InterruptKick, kick' = kick, pc' = pc
  PROVE  KickInv'
  BY DEF KickInv, InterruptKick, PinSet

(* The three steps of the main loop's call, and the call that is to do      *)
(* nothing.                                                                 *)
LEMMA MainKeepsKickInv ==
  ASSUME KickInv, WatchdogKick
  PROVE  KickInv'
<1>1. CASE LoopStep("kick", "write") /\ kick' = toggle /\ UNCHANGED <<toggle, pin, unkicked>>
  BY <1>1 DEF KickInv, LoopStep
<1>2. CASE LoopStep("write", "store") /\ PinSet(kick, 1) /\ UNCHANGED <<toggle, kick>>
  BY <1>2 DEF KickInv, LoopStep, PinSet
<1>3. CASE LoopStep("store", "events") /\ toggle' = 1 - kick /\ UNCHANGED <<pin, kick, unkicked>>
  BY <1>3 DEF KickInv, LoopStep
<1>4. CASE LoopStep("kick", "events") /\ UNCHANGED kickVars
  BY <1>4, KickUntouched DEF LoopStep
<1> QED
  BY <1>1, <1>2, <1>3, <1>4 DEF WatchdogKick

(* Every step keeps what is known of the pin.                               *)
LEMMA KickStep == ASSUME KickInv, [AppNext]_appVars PROVE KickInv'
<1>1. CASE HOSTAL_Init \/ xDriverOpen \/ App_AllChannels_Open
           \/ App_AllChannels_GetChannelInfo_WaitReady \/ xChannelHostState
           \/ HOSTAL_Callbacks_Enable
  BY <1>1, KickUntouched
  DEF HOSTAL_Init, xDriverOpen, App_AllChannels_Open,
      App_AllChannels_GetChannelInfo_WaitReady, xChannelHostState,
      HOSTAL_Callbacks_Enable, StartupStep
<1>2. CASE App_AllChannels_Configure
  BY <1>2, KickUntouched DEF App_AllChannels_Configure
<1>3. CASE pc \in Loop \cup {"shell"} /\ Configuring
  BY <1>3, KickUntouched DEF Configuring
<1>4. CASE App_AllChannels_PacketHandler \/ App_TerminalHandler \/ App_EventHandler
           \/ Shell_WdIo
  BY <1>4, KickUntouched
  DEF App_AllChannels_PacketHandler, App_TerminalHandler, App_EventHandler, Shell_WdIo,
      LoopStep
<1>5. CASE WatchdogKick
  BY <1>5, MainKeepsKickInv
<1>6. CASE HOSTAL_Callbacks_Disable \/ xChannelBusState \/ App_AllChannels_Close
  BY <1>6, KickUntouched
  DEF HOSTAL_Callbacks_Disable, xChannelBusState, App_AllChannels_Close, ExitStep
<1>7. CASE App_IODataHandler
  <2>1. pc' = pc /\ kick' = kick /\ (InterruptKick \/ UNCHANGED kickVars)
    BY <1>7 DEF App_IODataHandler
  <2> QED
    BY <2>1, InterruptKeepsKickInv, KickUntouched
<1>8. CASE DeviceReady \/ Clients \/ UNCHANGED appVars
  BY <1>8, KickUntouched DEF DeviceReady, Clients
<1> QED
  BY <1>1, <1>2, <1>3, <1>4, <1>5, <1>6, <1>7, <1>8 DEF AppNext, Steps

(* Every step keeps what is known of the channel and the timer.             *)
LEMMA LifeStep == ASSUME LifeInv, [AppNext]_appVars PROVE LifeInv'
<1>1. CASE HOSTAL_Init
  BY <1>1 DEF HOSTAL_Init, StartupStep, LifeInv
<1>2. CASE xDriverOpen
  BY <1>2 DEF xDriverOpen, StartupStep, LifeInv
<1>3. CASE App_AllChannels_Open
  BY <1>3 DEF App_AllChannels_Open, StartupStep, LifeInv
<1>4. CASE App_AllChannels_GetChannelInfo_WaitReady
  BY <1>4 DEF App_AllChannels_GetChannelInfo_WaitReady, StartupStep, LifeInv
<1>5. CASE xChannelHostState
  BY <1>5 DEF xChannelHostState, StartupStep, LifeInv
<1>6. CASE HOSTAL_Callbacks_Enable
  BY <1>6 DEF HOSTAL_Callbacks_Enable, StartupStep, LifeInv
<1>7. CASE App_AllChannels_Configure
  BY <1>7 DEF App_AllChannels_Configure, LifeInv
<1>8. CASE pc \in Loop \cup {"shell"} /\ Configuring
  BY <1>8 DEF Configuring, LifeInv
<1>9. CASE App_AllChannels_PacketHandler \/ App_TerminalHandler \/ App_EventHandler
           \/ Shell_WdIo \/ WatchdogKick
  BY <1>9 DEF App_AllChannels_PacketHandler, App_TerminalHandler, App_EventHandler,
              Shell_WdIo, WatchdogKick, LoopStep, LifeInv
<1>10. CASE HOSTAL_Callbacks_Disable
  BY <1>10 DEF HOSTAL_Callbacks_Disable, ExitStep, LifeInv
<1>11. CASE xChannelBusState
  BY <1>11 DEF xChannelBusState, TellNotReady, ExitStep, LifeInv
<1>12. CASE App_AllChannels_Close
  BY <1>12 DEF App_AllChannels_Close, ExitStep, LifeInv
<1>13. CASE App_IODataHandler \/ DeviceReady \/ Clients \/ UNCHANGED appVars
  BY <1>13 DEF App_IODataHandler, DeviceReady, Clients, LifeInv
<1> QED
  BY <1>1, <1>2, <1>3, <1>4, <1>5, <1>6, <1>7, <1>8, <1>9, <1>10, <1>11, <1>12, <1>13
  DEF AppNext, Steps

(* The timer interrupt (App_IODataHandler) always finds its channel open    *)
(* and its callback registered, whichever step of App_CifXApplication       *)
(* fails.                                                                   *)
THEOREM InterruptSafety == AppSpec => []InterruptHasChannel
<1>1. AppInit => LifeInv
  BY DEF AppInit, LifeInv
<1>2. LifeInv => InterruptHasChannel
  BY DEF LifeInv, InterruptHasChannel
<1> QED
  BY <1>1, <1>2, LifeStep, PTL DEF AppSpec

(* An application that has returned has stopped its timer, closed its       *)
(* channel and taken back "host ready" (error_exit).                        *)
THEOREM ExitSafety == AppSpec => []ReturnedIsQuiet
<1>1. AppInit => LifeInv
  BY DEF AppInit, LifeInv
<1>2. LifeInv => ReturnedIsQuiet
  BY DEF LifeInv, ReturnedIsQuiet
<1> QED
  BY <1>1, <1>2, LifeStep, PTL DEF AppSpec

(* The unprotected toggle of WatchdogKick (Watchdog_driver.c) loses at most *)
(* two kicks in a row, wherever interrupts fall between its test, its       *)
(* access to the pin and its assignment.                                    *)
THEOREM KickSafety == AppSpec => []KicksReachTheWatchdog
<1>1. AppInit => KickInv
  BY DEF AppInit, KickInv
<1>2. KickInv => KicksReachTheWatchdog
  BY DEF KickInv, KicksReachTheWatchdog
<1> QED
  BY <1>1, <1>2, KickStep, PTL DEF AppSpec

(* The types of the application's own variables (App_Application.c).        *)
THEOREM AppTyping == AppSpec => []AppTypeOK
<1> DEFINE TInv == AppTypeOK /\ LifeInv /\ KickInv
<1>0. \A n \in 0 .. 2 : n \in Nat
  OBVIOUS
<1> USE DEF AppTypeOK, Startup, Exit
<1>1. AppInit => TInv
  <2> SUFFICES ASSUME AppInit PROVE TInv
    OBVIOUS
  <2>1. toggle \in 0 .. 1 /\ pin \in 0 .. 1 /\ kick \in 0 .. 1 /\ unkicked \in Nat
    BY DEF AppInit
  <2>2. LifeInv
    BY DEF AppInit, LifeInv
  <2>3. KickInv
    BY DEF AppInit, KickInv
  <2> QED
    BY <2>1, <2>2, <2>3, Zenon DEF AppInit
<1>2. TInv /\ [AppNext]_appVars => TInv'
  <2> SUFFICES ASSUME TInv, [AppNext]_appVars PROVE AppTypeOK'
    BY LifeStep, KickStep
  <2>0. LifeInv' /\ KickInv'
    BY LifeStep, KickStep
  <2>1. toggle' \in 0 .. 1 /\ pin' \in 0 .. 1 /\ kick' \in 0 .. 1 /\ unkicked' \in Nat
    BY <1>0, <2>0, Zenon DEF KickInv
  <2>2. timer' \in BOOLEAN /\ callback' \in BOOLEAN
    BY <2>0, Zenon DEF LifeInv
  <2>3. CASE HOSTAL_Init \/ xDriverOpen \/ App_AllChannels_Open
             \/ App_AllChannels_GetChannelInfo_WaitReady \/ xChannelHostState
             \/ HOSTAL_Callbacks_Enable
    BY <2>1, <2>2, <2>3, ZenonT(30)
    DEF HOSTAL_Init, xDriverOpen, App_AllChannels_Open,
        App_AllChannels_GetChannelInfo_WaitReady, xChannelHostState,
        HOSTAL_Callbacks_Enable, StartupStep
  <2>4. CASE App_AllChannels_Configure \/ (pc \in Loop \cup {"shell"} /\ Configuring)
    BY <2>1, <2>2, <2>4, ZenonT(30) DEF App_AllChannels_Configure, Configuring
  <2>5. CASE App_AllChannels_PacketHandler \/ App_TerminalHandler \/ App_EventHandler
             \/ Shell_WdIo \/ WatchdogKick
    BY <2>1, <2>2, <2>5, ZenonT(30)
    DEF App_AllChannels_PacketHandler, App_TerminalHandler, App_EventHandler, Shell_WdIo,
        WatchdogKick, LoopStep
  <2>6. CASE HOSTAL_Callbacks_Disable \/ xChannelBusState \/ App_AllChannels_Close
    BY <2>1, <2>2, <2>6
    DEF HOSTAL_Callbacks_Disable, xChannelBusState, TellNotReady, App_AllChannels_Close,
        ExitStep
  <2>7. CASE App_IODataHandler \/ DeviceReady \/ Clients \/ UNCHANGED appVars
    BY <2>1, <2>2, <2>7 DEF App_IODataHandler, DeviceReady, Clients
  <2> QED
    BY <2>3, <2>4, <2>5, <2>6, <2>7 DEF AppNext, Steps
<1> QED
  BY <1>1, <1>2, PTL DEF AppSpec
=============================================================================
