---------------------------- MODULE Board_proofs ----------------------------
(***************************************************************************)
(* Theorems about the parts of the board support package.                  *)
(*                                                                         *)
(* Each part has its types and its own inductive invariant; the last       *)
(* section puts them together for the specification MCBoard runs.          *)
(***************************************************************************)
EXTENDS MCBoard, Integers, TLAPS

----------------------------------------------------------------------------
(* SwitchMode: for every position of the three switches and whatever        *)
(* address was saved                                                        *)

(* The value of a position is its three digits.                             *)
LEMMA SwitchValueRange ==
  ASSUME NEW d \in [1 .. 3 -> Digits]
  PROVE  SwitchValue(d) \in 0 .. 999
  BY DEF SwitchValue, Digits

(* SWITCH_set_mode (switch.c) never fails on a value that was read: every   *)
(* position selects a mode, so SYS_InitConfig has one to configure.         *)
THEOREM EveryPositionSelects ==
  ASSUME NEW d \in [1 .. 3 -> Digits]
  PROVE  ModeOf(SwitchValue(d)) # {} /\ ModeOf(SwitchValue(d)) \subseteq Flags
<1>1. SwitchValue(d) \in 0 .. 999
  BY SwitchValueRange
<1>2. ASSUME NEW v \in 0 .. 999
      PROVE  ModeOf(v) # {} /\ ModeOf(v) \subseteq Flags
  BY DEF ModeOf, Sets, IsDhcp, IsStatic, Flags
<1> QED
  BY <1>1, <1>2

(* The three static ranges fold onto host numbers by the remainder that     *)
(* sys_ConfigureCipObjects takes.                                           *)
LEMMA StaticRange ==
  ASSUME NEW v \in 0 .. 999, IsStatic(v)
  PROVE  v % 300 \in 1 .. 254
  BY DEF IsStatic

(* A mode with a static address comes from a static range.                  *)
LEMMA StaticMode ==
  ASSUME NEW v \in 0 .. 999, "STATIC_IP" \in ModeOf(v)
  PROVE  IsStatic(v)
  BY DEF ModeOf, Sets

(* No flag is set by the value of an expander that was not set up.          *)
LEMMA ErrorSelectsNothing == ModeOf(SWITCH_ERROR) = {}
  BY DEF ModeOf, Sets, IsDhcp, IsStatic, Flags, SWITCH_ERROR

IInv == TypeOK /\ StaticAddressIsHost

LEMMA AddressInit == Init => IInv
  BY SwitchAssumption DEF Init, IInv, TypeOK, StaticAddressIsHost, Digits, Flags

LEMMA AddressStep == IInv /\ [Next]_vars => IInv'
<1> SUFFICES ASSUME IInv, [Next]_vars PROVE IInv'
  OBVIOUS
<1>1. CASE SYS_InitConfig /\ expander
  <2>1. digits' \in [1 .. 3 -> Digits] /\ SwitchValue(digits') \in 0 .. 999
    BY <1>1, SwitchValueRange DEF SYS_InitConfig, SWITCH_update
  <2>2. mode' = ModeOf(SwitchValue(digits')) /\ mode' # {} /\ mode' \subseteq Flags
    BY <1>1, <2>1, EveryPositionSelects DEF SYS_InitConfig, Shown
  <2>3. ConfigureCipObjects /\ result' = "ok" /\ expander' = expander
    BY <1>1, <2>2 DEF SYS_InitConfig
  <2>4. "STATIC_IP" \in mode' => SwitchValue(digits') % 300 \in 1 .. 254
    BY <2>1, <2>2, StaticMode, StaticRange, SMTT(30)
  <2>5. "STATIC_IP" \in mode' => host' \in 1 .. 254
    BY <2>3, <2>4 DEF ConfigureCipObjects
  <2>6. host' \in 0 .. 255
    BY <2>3, <2>5, SwitchAssumption DEF ConfigureCipObjects
  <2>7. control' \in {"none", "DHCP", "INTERN"}
    BY <2>3 DEF ConfigureCipObjects, IInv, TypeOK
  <2> QED
    BY <2>1, <2>2, <2>3, <2>5, <2>6, <2>7 DEF TypeOK, IInv, StaticAddressIsHost
<1>2. CASE SYS_InitConfig /\ ~expander
  <2>1. mode' = {} /\ UNCHANGED <<expander, digits, control, host>> /\ result' = "invalid"
    BY <1>2, ErrorSelectsNothing DEF SYS_InitConfig, SWITCH_update, Shown
  <2> QED
    BY <2>1 DEF TypeOK, IInv, StaticAddressIsHost
<1>3. CASE UNCHANGED vars
  BY <1>3 DEF vars, IInv, TypeOK, StaticAddressIsHost
<1> QED
  BY <1>1, <1>2, <1>3 DEF Next

(* Types, and a static address is always that of a host: sys.c never        *)
(* configures the network or the broadcast address.                         *)
THEOREM AddressSafety == Spec => [](TypeOK /\ StaticAddressIsHost)
<1>1. IInv => TypeOK /\ StaticAddressIsHost
  BY DEF IInv
<1> QED
  BY <1>1, AddressInit, AddressStep, PTL DEF Spec

(* The remainder by 300 keeps the meaning, as IsDhcp and IsStatic name it.  *)
LEMMA BankFold ==
  ASSUME NEW v \in 0 .. 899
  PROVE  /\ v % 300 \in 0 .. 299
         /\ IsDhcp(v) <=> IsDhcp(v % 300)
         /\ IsStatic(v) <=> IsStatic(v % 300)
  BY SMTT(30) DEF IsDhcp, IsStatic

(* What SWITCH_set_mode (switch.c) makes of a value, for all 1000 of them.  *)
LEMMA BankModes ==
  ASSUME NEW v \in 0 .. 999
  PROVE  /\ "WD_ENABLED" \in ModeOf(v) <=> v < 300
         /\ v < 900 => ModeOf(v) \ {"WD_ENABLED"} = ModeOf(v % 300) \ {"WD_ENABLED"}
         /\ v > 900 <=> ModeOf(v) \cap {"DHCP", "STATIC_IP"} = {}
<1>1. "WD_ENABLED" \in ModeOf(v) <=> v < 300
  BY DEF ModeOf, Sets, IsDhcp, IsStatic, Flags
<1>2. ASSUME v < 900
      PROVE  ModeOf(v) \ {"WD_ENABLED"} = ModeOf(v % 300) \ {"WD_ENABLED"}
  <2>1. v \in 0 .. 899
    BY <1>2
  <2>2. /\ v % 300 \in 0 .. 299
        /\ IsDhcp(v) <=> IsDhcp(v % 300)
        /\ IsStatic(v) <=> IsStatic(v % 300)
    BY <2>1, BankFold, ZenonT(30)
  <2>3. ASSUME NEW f \in Flags \ {"WD_ENABLED"} PROVE Sets(v, f) <=> Sets(v % 300, f)
    BY <2>1, <2>2 DEF Sets, Flags
  <2> QED
    BY <2>3 DEF ModeOf
<1>3. v > 900 <=> ModeOf(v) \cap {"DHCP", "STATIC_IP"} = {}
  <2>1. v > 900 <=> ~IsDhcp(v) /\ ~IsStatic(v)
    BY DEF IsDhcp, IsStatic
  <2>2. ("DHCP" \in ModeOf(v) <=> IsDhcp(v)) /\ ("STATIC_IP" \in ModeOf(v) <=> IsStatic(v))
    BY DEF ModeOf, Sets, Flags
  <2> QED
    BY <2>1, <2>2
<1> QED
  BY <1>1, <1>2, <1>3

(* The three banks of 300 positions mean the same but for the watchdog,     *)
(* which only the first of them enables (switch.c).                         *)
THEOREM BankSafety == Spec => []BanksAgree
<1> DEFINE FromSwitches ==
      mode # {} => digits \in [1 .. 3 -> Digits] /\ mode = ModeOf(SwitchValue(digits))
<1>1. Init => FromSwitches
  BY DEF Init
<1>2. FromSwitches /\ [Next]_vars => FromSwitches'
  <2>1. Next => FromSwitches'
    BY ErrorSelectsNothing DEF Next, SYS_InitConfig, SWITCH_update, Shown
  <2>2. UNCHANGED vars /\ FromSwitches => FromSwitches'
    BY DEF vars
  <2> QED
    BY <2>1, <2>2
<1>3. FromSwitches => BanksAgree
  <2> SUFFICES ASSUME FromSwitches, mode # {} PROVE BanksAgree
    BY DEF BanksAgree
  <2>1. SwitchValue(digits) \in 0 .. 999
    BY SwitchValueRange
  <2>2. mode = ModeOf(SwitchValue(digits))
    OBVIOUS
  <2> DEFINE v == SwitchValue(digits)
  <2>3. /\ "WD_ENABLED" \in ModeOf(v) <=> v < 300
        /\ v < 900 => ModeOf(v) \ {"WD_ENABLED"} = ModeOf(v % 300) \ {"WD_ENABLED"}
        /\ v > 900 <=> ModeOf(v) \cap {"DHCP", "STATIC_IP"} = {}
    BY <2>1, BankModes, ZenonT(30)
  <2> QED
    BY <2>2, <2>3 DEF BanksAgree
<1> QED
  BY <1>1, <1>2, <1>3, PTL DEF Spec

----------------------------------------------------------------------------
(* SpiExchange                                                              *)

LEMMA SpiTypedInit == Spi!Init => Spi!TypeOK
<1> SUFFICES ASSUME Spi!Init PROVE Spi!TypeOK
  OBVIOUS
<1>1. spiConnected \in BOOLEAN /\ spiFresh \in BOOLEAN
  BY DEF Spi!Init
<1>2. spiCommands \in 0 .. MaxCommands
  BY BoardAssumption DEF Spi!Init
<1> QED
  BY <1>1, <1>2 DEF Spi!Init, Spi!TypeOK, Spi!Chips

(* What the place of the command says of handle, buffers and chip select;   *)
(* the device shifts only what the command polls for.  Whoever clears the   *)
(* FIFO under it, and so brings about an error, has deselected the chip.    *)
SpiInv ==
  /\ spiFifo = "shifting" => spiPc \in {"polling", "part"}
  /\ spiPc \in {"idle", "select", "transfer", "recovering", "deselect"} => spiLocked = {}
  /\ spiPc \in {"idle", "select", "selecting", "deselect", "deselecting"} => spiBuffers = {}
  /\ spiBuffers \subseteq {spiChip}
  /\ spiPc \in {"idle", "select", "selecting"} => spiFss = "none"
  /\ spiPc \in {"reading", "part"} /\ spiFifo = "empty" => spiFss = "none"
  /\ spiError = TRUE => spiFss = "none"

LEMMA SpiTypedStep == Spi!TypeOK /\ SpiInv /\ [Spi!Next]_spiVars => Spi!TypeOK'
<1> SUFFICES ASSUME Spi!TypeOK, SpiInv, [Spi!Next]_spiVars PROVE Spi!TypeOK'
  OBVIOUS
<1> USE DEF Spi!TypeOK, Spi!Chips, Spi!device
<1>1. CASE Spi!HOSTAL_DataExchange
  BY <1>1 DEF Spi!HOSTAL_DataExchange
<1>2. CASE Spi!Connection \/ Spi!Shift
  <2>1. spiConnected' \in BOOLEAN /\ spiError' = spiError /\ spiFresh' = spiFresh
    BY <1>2 DEF Spi!Connection, Spi!Shift
  <2>2. spiFifo' \in {"empty", "shifting", "received"}
    BY <1>2 DEF Spi!Connection, Spi!Shift
  <2> QED
    BY <1>2, <2>1, <2>2, ZenonT(30) DEF Spi!Connection, Spi!Shift
<1>3. CASE Spi!ShellTransfer
  <2>1. spiCommands' \in 0 .. MaxCommands
    BY <1>3, BoardAssumption DEF Spi!ShellTransfer
  <2>2. spiChip' \in Spi!Chips /\ spiLocked' \subseteq {spiChip'}
    BY <1>3, BoardAssumption DEF Spi!ShellTransfer, SpiInv
  <2>3. spiConnected' \in BOOLEAN /\ spiFresh' \in BOOLEAN
    BY <1>3 DEF Spi!ShellTransfer
  <2> QED
    BY <1>3, <2>1, <2>2, <2>3 DEF Spi!ShellTransfer
<1>4. CASE Spi!ShellControl
  BY <1>4, BoardAssumption DEF Spi!ShellControl
<1>5. CASE Spi!Lock
  BY <1>5 DEF Spi!Lock
<1>6. CASE Spi!ChangeFss
  BY <1>6 DEF Spi!ChangeFss, Spi!Unlock
<1>7. CASE Spi!Clear
  BY <1>7 DEF Spi!Clear, Spi!Unlock
<1>8. CASE Spi!Fill \/ Spi!Recover \/ Spi!ReadLevel \/ Spi!Timeout
  BY <1>8 DEF Spi!Fill, Spi!Recover, Spi!ReadLevel, Spi!Timeout, Spi!Unlock
<1>9. CASE Spi!Read
  <2>1. spiError' \in BOOLEAN
    BY <1>9, ZenonT(30) DEF Spi!Read
  <2> QED
    BY <1>9, <2>1 DEF Spi!Read, Spi!Unlock
<1>10. CASE UNCHANGED spiVars
  BY <1>10 DEF spiVars
<1> QED
  BY <1>1, <1>2, <1>3, <1>4, <1>5, <1>6, <1>7, <1>8, <1>9, <1>10 DEF Spi!Next, Spi!Driver

LEMMA SpiStep == Spi!TypeOK /\ SpiInv /\ [Spi!Next]_spiVars => SpiInv'
<1> SUFFICES ASSUME Spi!TypeOK, SpiInv, [Spi!Next]_spiVars PROVE SpiInv'
  OBVIOUS
<1> USE DEF SpiInv, Spi!device
<1>0. spiLocked \subseteq {spiChip} /\ spiBuffers \subseteq Spi!Chips
  BY DEF Spi!TypeOK
<1>1. CASE Spi!HOSTAL_DataExchange
  BY <1>1 DEF Spi!HOSTAL_DataExchange
<1>2. CASE Spi!Connection \/ Spi!Shift
  BY <1>2 DEF Spi!Connection, Spi!Shift
<1>3. CASE Spi!ShellTransfer \/ Spi!ShellControl
  BY <1>3 DEF Spi!ShellTransfer, Spi!ShellControl
<1>4. CASE Spi!Lock
  BY <1>4 DEF Spi!Lock
<1>5. CASE Spi!ChangeFss
  BY <1>0, <1>5 DEF Spi!ChangeFss, Spi!Unlock, Spi!Busy
<1>6. CASE Spi!Clear
  BY <1>0, <1>6 DEF Spi!Clear, Spi!Unlock
<1>7. CASE Spi!Fill \/ Spi!Recover \/ Spi!ReadLevel \/ Spi!Timeout
  BY <1>0, <1>7 DEF Spi!Fill, Spi!Recover, Spi!ReadLevel, Spi!Received, Spi!Timeout, Spi!Unlock
<1>8. CASE Spi!Read
  BY <1>0, <1>8 DEF Spi!Read, Spi!Unlock
<1>9. CASE UNCHANGED spiVars
  BY <1>9 DEF spiVars
<1> QED
  BY <1>1, <1>2, <1>3, <1>4, <1>5, <1>6, <1>7, <1>8, <1>9 DEF Spi!Next, Spi!Driver

(* While the device shifts, the interrupt and the shell leave it alone.     *)
LEMMA SpiShifts ==
  Spi!TypeOK /\ SpiInv /\ [Spi!Next]_spiVars =>
    (spiFifo = "shifting" => spiFss' = spiFss /\ spiFifo' \in {"shifting", "received"})
<1> SUFFICES ASSUME Spi!TypeOK, SpiInv, [Spi!Next]_spiVars, spiFifo = "shifting"
             PROVE  spiFss' = spiFss /\ spiFifo' \in {"shifting", "received"}
  OBVIOUS
<1>0. spiPc \in {"polling", "part"}
  BY DEF SpiInv
<1>1. CASE Spi!HOSTAL_DataExchange
  BY <1>1 DEF Spi!HOSTAL_DataExchange, Spi!Passes, Spi!Busy, Spi!device
<1>2. CASE Spi!Connection \/ Spi!Shift \/ Spi!ShellTransfer \/ Spi!ShellControl \/ Spi!Timeout
  BY <1>2 DEF Spi!Connection, Spi!Shift, Spi!ShellTransfer, Spi!ShellControl, Spi!Timeout,
              Spi!device
<1>3. CASE \/ Spi!Lock \/ Spi!ChangeFss \/ Spi!Clear \/ Spi!Recover \/ Spi!Fill
           \/ Spi!ReadLevel \/ Spi!Read
  BY <1>0, <1>3 DEF Spi!Lock, Spi!ChangeFss, Spi!Clear, Spi!Recover, Spi!Fill, Spi!ReadLevel,
                    Spi!Read, Spi!device
<1>4. CASE UNCHANGED spiVars
  BY <1>4 DEF spiVars
<1> QED
  BY <1>1, <1>2, <1>3, <1>4 DEF Spi!Next, Spi!Driver

----------------------------------------------------------------------------
(* Led                                                                      *)

LedRec == [control : Leds!States, red : BOOLEAN, green : BOOLEAN]

(* The outputs of a LED in terms of its state, as NoOtherColour has them.   *)
IsLit(led) ==
  /\ led.red = (led.control \in {"RED", "AMBER"})
  /\ led.green = (led.control \in {"GREEN", "AMBER"})
IsBlinking(led) ==
  /\ led.control \in Leds!Flashing
  /\ led.red = (led.control \in {"FLASHING_RED", "FLASHING_AMBER"})
  /\ led.green = (led.control \in {"FLASHING_GREEN", "FLASHING_AMBER"})
Shows(led) == IsLit(led) \/ IsBlinking(led)

LEMMA ShowsIsColour ==
  ASSUME NEW led \in LedRec
  PROVE  Shows(led) <=>
           LET shown == [red |-> led.red, green |-> led.green]
           IN \/ shown = Leds!Lit(led.control)
              \/ led.control \in Leds!Flashing /\ shown = Leds!Blinks(led.control)
  BY DEF Shows, IsLit, IsBlinking, Leds!Lit, Leds!Blinks

LEMMA LedSet ==
  ASSUME NEW led \in LedRec, NEW state \in Leds!States
  PROVE  /\ Leds!LED_Set_Internal(led, state) \in LedRec
         /\ Shows(led) => Shows(Leds!LED_Set_Internal(led, state))
<1> DEFINE set == Leds!LED_Set_Internal(led, state)
<1>1. CASE state \in Leds!Solid
  <2>1. set = [control |-> state, red |-> state \in {"RED", "AMBER"},
               green |-> state \in {"GREEN", "AMBER"}]
    BY <1>1 DEF Leds!LED_Set_Internal, Leds!Lit
  <2>2. set \in LedRec
    BY <2>1 DEF LedRec
  <2>3. set.control = state /\ set.red = (state \in {"RED", "AMBER"})
        /\ set.green = (state \in {"GREEN", "AMBER"})
    BY <2>1
  <2> QED
    BY <2>2, <2>3 DEF Shows, IsLit
<1>2. CASE state \notin Leds!Solid /\ led.control = state
  BY <1>2 DEF Leds!LED_Set_Internal
<1>3. CASE state \notin Leds!Solid /\ led.control # state
  <2>1. set = [control |-> state, red |-> FALSE, green |-> FALSE]
    BY <1>3 DEF Leds!LED_Set_Internal
  <2>2. set \in LedRec
    BY <2>1 DEF LedRec
  <2>3. set.control = state /\ set.red = FALSE /\ set.green = FALSE
    BY <2>1
  <2>4. state \notin {"RED", "AMBER"} /\ state \notin {"GREEN", "AMBER"}
    BY <1>3 DEF Leds!Solid
  <2>5. (state \in {"RED", "AMBER"}) = FALSE /\ (state \in {"GREEN", "AMBER"}) = FALSE
    BY <2>4
  <2> QED
    BY <2>2, <2>3, <2>5 DEF Shows, IsLit
<1> QED
  BY <1>1, <1>2, <1>3

LEMMA LedBlinks ==
  ASSUME NEW led \in LedRec, NEW state \in Leds!States, NEW over \in BOOLEAN
  PROVE  /\ Leds!LED_StateMachine(led, state, over) \in LedRec
         /\ Shows(led) => Shows(Leds!LED_StateMachine(led, state, over))
<1> DEFINE ran == Leds!LED_StateMachine(led, state, over)
<1>1. CASE over /\ led.control \in Leds!Flashing /\ state = led.control
  <2> DEFINE isRed   == led.control \in {"FLASHING_RED", "FLASHING_AMBER"}
             isGreen == led.control \in {"FLASHING_GREEN", "FLASHING_AMBER"}
  <2>1. ran = [led EXCEPT !.red = isRed /\ ~led.red, !.green = isGreen /\ ~led.green]
    BY <1>1 DEF Leds!LED_StateMachine, Leds!Blinks
  <2>2. ran \in LedRec
    BY <2>1 DEF LedRec
  <2>3. ran.control = led.control
    BY <2>1 DEF LedRec
  <2>4. ran.red = (isRed /\ ~led.red) /\ ran.green = (isGreen /\ ~led.green)
    <3> DEFINE r == isRed /\ ~led.red
               g == isGreen /\ ~led.green
    <3>1. ran = [led EXCEPT !.red = r, !.green = g]
      BY <2>1
    <3>2. DOMAIN led = {"control", "red", "green"}
      BY DEF LedRec
    <3> HIDE DEF r, g, ran
    <3>3. ran.red = r /\ ran.green = g
      BY <3>1, <3>2
    <3> QED
      BY <3>3 DEF r, g
  <2>5. /\ (led.control \in {"RED", "AMBER"}) = FALSE
        /\ (led.control \in {"GREEN", "AMBER"}) = FALSE
    BY <1>1 DEF Leds!Flashing
  <2>6. CASE IsLit(led)
    <3>1. led.red = FALSE /\ led.green = FALSE
      BY <2>5, <2>6 DEF IsLit
    <3>2. ran.red = isRed /\ ran.green = isGreen
      BY <2>4, <3>1
    <3>3. IsBlinking(ran)
      BY <1>1, <2>3, <3>2 DEF IsBlinking
    <3> QED
      BY <2>2, <3>3 DEF Shows
  <2>7. CASE IsBlinking(led)
    <3>1. ran.red = FALSE /\ ran.green = FALSE
      BY <2>4, <2>7 DEF IsBlinking
    <3> HIDE DEF ran
    <3>2. /\ (ran.control \in {"RED", "AMBER"}) = FALSE
          /\ (ran.control \in {"GREEN", "AMBER"}) = FALSE
      BY <2>3, <2>5
    <3>3. IsLit(ran)
      BY <3>1, <3>2 DEF IsLit
    <3> QED
      BY <2>2, <3>3 DEF Shows, ran
  <2> QED
    BY <2>2, <2>6, <2>7 DEF Shows
<1>2. CASE ~(over /\ led.control \in Leds!Flashing /\ state = led.control)
  <2>1. ran = led
    BY <1>2 DEF Leds!LED_StateMachine
  <2> QED
    BY <2>1
<1> QED
  BY <1>1, <1>2

(* The colour the handles want is a state of a LED.                         *)
LEMMA WantedState ==
  ASSUME Leds!TypeOK, NEW i \in Leds!Ids
  PROVE  Leds!Wanted(i) \in Leds!States
<1> USE DEF Leds!States, Leds!Solid, Leds!Flashing
<1>1. ledLeds[i].control \in Leds!States
  BY DEF Leds!TypeOK
<1>2. ledAlternate.colour \in Leds!States
  BY DEF Leds!TypeOK
<1>3. Leds!NetworkColour(Leds!NetworkStatus) \in Leds!States
  <2>1. Leds!NetworkStatus \in {"NO_CONNECTION", "CONNECTED", "WAIT_FOR_LEASE", "STANDBY"}
    BY DEF Leds!NetworkStatus
  <2> QED
    BY <2>1 DEF Leds!NetworkColour
<1>4. Leds!HealthColour(Leds!HealthStatus) \in Leds!States
  BY DEF Leds!HealthColour
<1> QED
  BY <1>1, <1>2, <1>3, <1>4 DEF Leds!Wanted

LEMMA LedsStep ==
  Leds!TypeOK /\ Leds!NoOtherColour /\ [Leds!Next]_ledVars =>
    Leds!TypeOK' /\ Leds!NoOtherColour'
<1> DEFINE LInv == /\ ledLeds \in [Leds!Ids -> LedRec]
                   /\ \A i \in Leds!Ids : Shows(ledLeds[i])
           Rest == /\ ledSource \in Leds!Sources /\ ledTest \in BOOLEAN
                   /\ ledAlternate \in [started : BOOLEAN, colour : {"RED", "GREEN", "AMBER"}]
<1> SUFFICES ASSUME Leds!TypeOK, Leds!NoOtherColour, [Leds!Next]_ledVars
             PROVE  Leds!TypeOK' /\ Leds!NoOtherColour'
  OBVIOUS
<1>1. ASSUME NEW f \in [Leds!Ids -> LedRec], NEW i \in Leds!Ids
      PROVE  Shows(f[i]) <=>
               LET c == f[i].control
                   shown == [red |-> f[i].red, green |-> f[i].green]
               IN shown = Leds!Lit(c) \/ (c \in Leds!Flashing /\ shown = Leds!Blinks(c))
  BY ShowsIsColour
<1>2. LInv /\ Rest
  BY <1>1 DEF Leds!TypeOK, Leds!NoOtherColour, LedRec
<1>3. LInv'
  <2>1. ASSUME NEW elapsed \in BOOLEAN, Leds!HOST_EvnetHandler(elapsed) PROVE LInv'
    <3>1. PICK over \in SUBSET Leds!Ids :
            ledLeds' = [i \in Leds!Ids |->
                          Leds!LED_Set_Internal(
                            Leds!LED_StateMachine(ledLeds[i], Leds!Wanted(i), i \in over),
                            Leds!Wanted(i))]
      BY <2>1 DEF Leds!HOST_EvnetHandler
    <3>2. ASSUME NEW i \in Leds!Ids PROVE ledLeds'[i] \in LedRec /\ Shows(ledLeds'[i])
      <4>1. Leds!Wanted(i) \in Leds!States
        BY WantedState
      <4> DEFINE ran == Leds!LED_StateMachine(ledLeds[i], Leds!Wanted(i), i \in over)
      <4>2. ledLeds[i] \in LedRec /\ Shows(ledLeds[i])
        BY <1>2
      <4>3. ran \in LedRec /\ Shows(ran)
        <5> DEFINE o == i \in over
        <5>1. o \in BOOLEAN
          OBVIOUS
        <5> HIDE DEF o
        <5>2. LET r == Leds!LED_StateMachine(ledLeds[i], Leds!Wanted(i), o)
              IN r \in LedRec /\ Shows(r)
          BY <4>1, <4>2, <5>1, LedBlinks
        <5> QED
          BY <5>2 DEF o
      <4>4. ledLeds'[i] = Leds!LED_Set_Internal(ran, Leds!Wanted(i))
        BY <3>1
      <4> HIDE DEF ran
      <4> QED
        BY <4>1, <4>3, <4>4, LedSet
    <3>3. ledLeds' \in [Leds!Ids -> LedRec]
      BY <3>1, <3>2
    <3> QED
      BY <3>2, <3>3
  <2>2. CASE Leds!console_led_set
    <3>1. PICK i \in Leds!Ids, state \in ConsoleStates :
            ledLeds' = [ledLeds EXCEPT ![i] = Leds!LED_Set_Internal(ledLeds[i], state)]
      BY <2>2 DEF Leds!console_led_set
    <3>2. Leds!LED_Set_Internal(ledLeds[i], state) \in LedRec
          /\ Shows(Leds!LED_Set_Internal(ledLeds[i], state))
      BY <1>2, BoardAssumption, LedSet
    <3> QED
      BY <1>2, <3>1, <3>2
  <2>3. CASE Leds!console_led_selftest
    <3>1. "OFF" \in Leds!States
      BY DEF Leds!States, Leds!Solid
    <3>2. ledLeds' = [i \in Leds!Ids |-> Leds!LED_Set_Internal(ledLeds[i], "OFF")]
      BY <2>3 DEF Leds!console_led_selftest
    <3>3. ASSUME NEW i \in Leds!Ids PROVE ledLeds'[i] \in LedRec /\ Shows(ledLeds'[i])
      BY <1>2, <3>1, <3>2, LedSet
    <3>4. ledLeds' \in [Leds!Ids -> LedRec]
      BY <3>2, <3>3
    <3> QED
      BY <3>3, <3>4
  <2>4. ledLeds' = ledLeds => LInv'
    BY <1>2
  <2>5. CASE Leds!console_led_testmode \/ Leds!Change \/ UNCHANGED ledVars
    BY <2>4, <2>5 DEF Leds!console_led_testmode, Leds!Change, ledVars
  <2> QED
    BY <2>1, <2>2, <2>3, <2>5 DEF Leds!Next
<1>4. Rest'
  <2>1. ASSUME NEW elapsed \in BOOLEAN, Leds!HOST_EvnetHandler(elapsed) PROVE Rest'
    <3>1. Leds!Alternated(elapsed) \in [started : BOOLEAN, colour : {"RED", "GREEN", "AMBER"}]
      BY <1>2 DEF Leds!Alternated, Leds!OtherColour
    <3> QED
      BY <1>2, <2>1, <3>1 DEF Leds!HOST_EvnetHandler
  <2>2. CASE Leds!Change
    <3>1. CASE ledSource' = [ledSource EXCEPT !.hot = ~ledSource.hot]
      BY <1>2, <2>2, <3>1 DEF Leds!Change, Leds!Sources
    <3>2. CASE ledSource' = [ledSource EXCEPT !.link = ~ledSource.link]
      BY <1>2, <2>2, <3>2 DEF Leds!Change, Leds!Sources
    <3>3. CASE \E c \in {"none", "stopped", "operate"} :
                 ledSource' = [ledSource EXCEPT !.comm = c]
      BY <1>2, <2>2, <3>3 DEF Leds!Change, Leds!Sources
    <3>4. CASE ledSource' = [ledSource EXCEPT !.noLease = FALSE]
      BY <1>2, <2>2, <3>4 DEF Leds!Change, Leds!Sources
    <3> QED
      BY <2>2, <3>1, <3>2, <3>3, <3>4 DEF Leds!Change
  <2>3. CASE Leds!console_led_testmode
    BY <1>2, <2>3 DEF Leds!console_led_testmode
  <2>4. CASE Leds!console_led_set \/ Leds!console_led_selftest \/ UNCHANGED ledVars
    BY <1>2, <2>4 DEF Leds!console_led_set, Leds!console_led_selftest, ledVars
  <2> QED
    BY <2>1, <2>2, <2>3, <2>4 DEF Leds!Next
<1> QED
  BY <1>1, <1>3, <1>4 DEF Leds!TypeOK, Leds!NoOtherColour, LedRec

LEMMA LedsInit == Leds!Init => Leds!TypeOK /\ Leds!NoOtherColour
<1> SUFFICES ASSUME Leds!Init PROVE Leds!TypeOK /\ Leds!NoOtherColour
  OBVIOUS
<1>1. ledSource \in Leds!Sources /\ ledTest \in BOOLEAN
      /\ ledAlternate \in [started : BOOLEAN, colour : {"RED", "GREEN", "AMBER"}]
  BY DEF Leds!Init
<1>2. ASSUME NEW i \in Leds!Ids PROVE ledLeds[i] \in LedRec /\ IsLit(ledLeds[i])
  <2>1. CASE i = "HLT"
    <3>1. ledLeds[i] = [control |-> "AMBER", red |-> TRUE, green |-> TRUE]
      BY <2>1 DEF Leds!Init, Leds!Ids
    <3>2. "AMBER" \in Leds!States /\ ("AMBER" \in {"RED", "AMBER"}) = TRUE
          /\ ("AMBER" \in {"GREEN", "AMBER"}) = TRUE
      BY DEF Leds!States, Leds!Solid
    <3>3. ledLeds[i] \in LedRec
      BY <3>1, <3>2 DEF LedRec
    <3>4. ledLeds[i].control = "AMBER" /\ ledLeds[i].red = TRUE /\ ledLeds[i].green = TRUE
      BY <3>1
    <3> QED
      BY <3>2, <3>3, <3>4 DEF IsLit
  <2>2. CASE i = "NET"
    <3>1. ledLeds[i] = [control |-> "OFF", red |-> FALSE, green |-> FALSE]
      BY <2>2 DEF Leds!Init, Leds!Ids
    <3>2. "OFF" \in Leds!States /\ ("OFF" \in {"RED", "AMBER"}) = FALSE
          /\ ("OFF" \in {"GREEN", "AMBER"}) = FALSE
      BY DEF Leds!States, Leds!Solid
    <3>3. ledLeds[i] \in LedRec
      BY <3>1, <3>2 DEF LedRec
    <3>4. ledLeds[i].control = "OFF" /\ ledLeds[i].red = FALSE /\ ledLeds[i].green = FALSE
      BY <3>1
    <3> QED
      BY <3>2, <3>3, <3>4 DEF IsLit
  <2> QED
    BY <2>1, <2>2 DEF Leds!Ids
<1>3. ledLeds \in [Leds!Ids -> LedRec]
  BY <1>2 DEF Leds!Init
<1> QED
  BY <1>1, <1>2, <1>3, ShowsIsColour DEF Leds!TypeOK, Leds!NoOtherColour, LedRec, Shows

----------------------------------------------------------------------------
(* NetxTime                                                                 *)

(* The system counter is gap milliseconds after the last update, perhaps    *)
(* beyond a wrap; and what nothing has upset is within a second of a clock  *)
(* that runs.                                                               *)
TimeInv ==
  /\ rtcCount = rtcLast + rtcGap \/ rtcCount = rtcLast + rtcGap - Wrap
  /\ rtcUpset = FALSE => /\ rtcRuns = TRUE
                         /\ rtcMs \in 0 .. Second - 1
                         /\ Time!Difference \in 1 - Second .. Second - 1

LEMMA Carry ==
  ASSUME NEW n \in Nat, NEW d \in Nat \ {0}, NEW a \in Int
  PROVE  /\ n % d \in 0 .. d - 1 /\ n \div d \in Nat
         /\ (a + (n \div d)) * d + (n % d) = a * d + n
<1>1. n % d \in 0 .. d - 1 /\ n \div d \in Nat
  OBVIOUS
<1>2. n = d * (n \div d) + (n % d)
  OBVIOUS
<1>3. ASSUME NEW q \in Nat PROVE (a + q) * d = a * d + d * q
  OBVIOUS
<1>4. (a + (n \div d)) * d = a * d + d * (n \div d)
  BY <1>1, <1>3
<1>5. a * d \in Int /\ d * (n \div d) \in Int
  BY <1>1
<1> QED
  BY <1>1, <1>2, <1>4, <1>5

LEMMA TimeStep ==
  Time!TypeOK /\ TimeInv /\ [Time!Next]_rtcVars => Time!TypeOK' /\ TimeInv'
<1> SUFFICES ASSUME Time!TypeOK, TimeInv, [Time!Next]_rtcVars
             PROVE  Time!TypeOK' /\ TimeInv'
  OBVIOUS
<1>0. /\ rtcCount \in 0 .. Wrap - 1 /\ rtcLast \in 0 .. Wrap - 1 /\ rtcAhead \in Int
      /\ rtcMs \in Nat /\ rtcFrac \in 0 .. Second - 1 /\ rtcGap \in 0 .. MaxGap
      /\ rtcEvents \in 0 .. MaxEvents
      /\ Second \in Nat \ {0} /\ Wrap \in Nat /\ MaxGap \in Nat /\ MaxGap < Wrap
      /\ MaxEvents \in Nat /\ Leftover \subseteq Nat
  BY BoardAssumption DEF Time!TypeOK
<1>1. CASE Time!Tick
  <2>1. /\ rtcGap < MaxGap /\ rtcGap' = rtcGap + 1 /\ rtcCount' = (rtcCount + 1) % Wrap
        /\ rtcFrac' = (rtcFrac + 1) % Second
        /\ rtcAhead' = IF rtcFrac + 1 = Second THEN rtcAhead - 1 ELSE rtcAhead
        /\ rtcLast' = rtcLast /\ rtcMs' = rtcMs /\ rtcEvents' = rtcEvents
    BY <1>1 DEF Time!Tick
  <2>2. rtcRuns' = rtcRuns /\ rtcUpset' = rtcUpset
    BY <1>1 DEF Time!Tick
  <2>3. rtcCount' = (IF rtcCount + 1 = Wrap THEN 0 ELSE rtcCount + 1)
        /\ rtcFrac' = (IF rtcFrac + 1 = Second THEN 0 ELSE rtcFrac + 1)
    BY <1>0, <2>1
  <2>4. Time!TypeOK'
    BY <1>0, <2>1, <2>2, <2>3 DEF Time!TypeOK
  <2>5. Time!Difference' = Time!Difference
    <3>1. (rtcAhead - 1) * Second = rtcAhead * Second - Second
      BY <1>0
    <3>2. rtcAhead * Second \in Int
      BY <1>0
    <3>3. CASE rtcFrac + 1 = Second
      <4>1. Time!Difference' = (rtcAhead - 1) * Second + rtcMs + (rtcGap + 1) - 0
        BY <2>1, <2>3, <3>3 DEF Time!Difference
      <4> QED
        BY <1>0, <3>1, <3>2, <3>3, <4>1 DEF Time!Difference
    <3>4. CASE rtcFrac + 1 # Second
      <4>1. Time!Difference' = rtcAhead * Second + rtcMs + (rtcGap + 1) - (rtcFrac + 1)
        BY <2>1, <2>3, <3>4 DEF Time!Difference
      <4> QED
        BY <1>0, <3>2, <4>1 DEF Time!Difference
    <3> QED
      BY <3>3, <3>4
  <2>6. rtcCount' = rtcLast' + rtcGap' \/ rtcCount' = rtcLast' + rtcGap' - Wrap
    BY <1>0, <2>1, <2>3 DEF TimeInv
  <2> QED
    BY <2>1, <2>2, <2>4, <2>5, <2>6 DEF TimeInv
<1>2. CASE Time!TimeGet
  <2>1. /\ rtcGap' = 0 /\ rtcLast' = rtcCount /\ rtcCount' = rtcCount /\ rtcFrac' = rtcFrac
        /\ rtcRuns' = rtcRuns
    BY <1>2 DEF Time!TimeGet
  <2>2. CASE rtcCount < rtcLast
    <3>1. Time!HOSTAL_RTC_SyncTime /\ rtcMs' = rtcMs
      BY <1>2, <2>2 DEF Time!TimeGet, Time!Wrapped
    <3>2. CASE /\ rtcAhead' = (IF rtcRuns THEN 0 ELSE Time!Far)
               /\ rtcUpset' = (rtcUpset /\ (~rtcRuns \/ rtcMs >= Second))
               /\ UNCHANGED rtcEvents
      <4>1. rtcAhead' \in Int /\ rtcUpset' \in BOOLEAN
        BY <3>2 DEF Time!Far
      <4>2. Time!TypeOK'
        BY <1>0, <2>1, <3>1, <3>2, <4>1 DEF Time!TypeOK
      <4>3. ASSUME rtcUpset' = FALSE
            PROVE  rtcRuns = TRUE /\ rtcMs \in 0 .. Second - 1
        <5>1. rtcRuns \in BOOLEAN /\ rtcUpset \in BOOLEAN
          BY DEF Time!TypeOK
        <5>2. CASE rtcUpset = FALSE
          BY <5>2 DEF TimeInv
        <5>3. CASE rtcUpset = TRUE
          <6>1. rtcRuns = TRUE /\ ~(rtcMs >= Second)
            BY <3>2, <4>3, <5>1, <5>3
          <6> QED
            BY <1>0, <6>1
        <5> QED
          BY <5>1, <5>2, <5>3
      <4>4. ASSUME rtcUpset' = FALSE
            PROVE  Time!Difference' \in 1 - Second .. Second - 1
        <5>1. rtcAhead' = 0
          BY <3>2, <4>3, <4>4
        <5>2. Time!Difference' = 0 * Second + rtcMs + 0 - rtcFrac
          BY <2>1, <3>1, <5>1 DEF Time!Difference
        <5>3. rtcMs \in 0 .. Second - 1
          BY <4>3, <4>4
        <5>4. 0 * Second = 0
          BY <1>0
        <5> QED
          BY <1>0, <5>2, <5>3, <5>4
      <4>5. rtcCount' = rtcLast' + rtcGap'
        BY <1>0, <2>1
      <4>6. ASSUME rtcUpset' = FALSE PROVE rtcRuns' = TRUE /\ rtcMs' \in 0 .. Second - 1
        BY <2>1, <3>1, <4>3, <4>6
      <4> QED
        BY <4>2, <4>4, <4>5, <4>6 DEF TimeInv
    <3>3. CASE /\ rtcEvents < MaxEvents /\ rtcEvents' = rtcEvents + 1
               /\ rtcAhead' = Time!Far /\ rtcUpset' = TRUE
      <4>1. Time!TypeOK'
        BY <1>0, <2>1, <3>1, <3>3 DEF Time!TypeOK, Time!Far
      <4> QED
        BY <1>0, <2>1, <3>3, <4>1 DEF TimeInv
    <3> QED
      BY <3>1, <3>2, <3>3 DEF Time!HOSTAL_RTC_SyncTime
  <2>3. CASE ~(rtcCount < rtcLast)
    <3>1. /\ rtcMs' = (rtcMs + (rtcCount - rtcLast)) % Second
          /\ rtcAhead' = rtcAhead + ((rtcMs + (rtcCount - rtcLast)) \div Second)
          /\ rtcEvents' = rtcEvents
      BY <1>2, <2>3 DEF Time!TimeGet, Time!Elapsed
    <3>2. rtcUpset' = rtcUpset
      BY <1>2, <2>3 DEF Time!TimeGet
    <3>3. rtcCount - rtcLast = rtcGap
      BY <1>0, <2>3 DEF TimeInv
    <3>4. rtcMs + rtcGap \in Nat
      BY <1>0
    <3>5. /\ rtcMs' \in 0 .. Second - 1 /\ rtcAhead' \in Int
          /\ rtcAhead' * Second + rtcMs' = rtcAhead * Second + (rtcMs + rtcGap)
      BY <1>0, <3>1, <3>3, <3>4, Carry
    <3>6. Time!Difference' = Time!Difference
      <4>1. rtcAhead' * Second \in Int /\ rtcAhead * Second \in Int
        BY <1>0, <3>5
      <4>2. Time!Difference' = rtcAhead' * Second + rtcMs' + 0 - rtcFrac
        BY <2>1 DEF Time!Difference
      <4>3. Time!Difference = rtcAhead * Second + rtcMs + rtcGap - rtcFrac
        BY DEF Time!Difference
      <4>4. ASSUME NEW p \in Int, NEW q \in Int, NEW m \in Int, p + m = q + (rtcMs + rtcGap)
            PROVE  p + m + 0 - rtcFrac = q + rtcMs + rtcGap - rtcFrac
        BY <1>0, <4>4
      <4>5. rtcMs' \in Int
        BY <3>5
      <4> QED
        BY <3>5, <4>1, <4>2, <4>3, <4>4, <4>5
    <3>7. Time!TypeOK'
      BY <1>0, <2>1, <3>1, <3>2, <3>5 DEF Time!TypeOK
    <3> QED
      BY <1>0, <2>1, <3>2, <3>5, <3>6, <3>7 DEF TimeInv
  <2> QED
    BY <2>2, <2>3
<1>3. CASE Time!RTC_SetTime
  <2>1. /\ rtcCount' = rtcCount /\ rtcLast' = rtcLast /\ rtcGap' = rtcGap
        /\ rtcEvents < MaxEvents /\ rtcEvents' = rtcEvents + 1 /\ rtcMs' \in Leftover
    BY <1>3 DEF Time!RTC_SetTime
  <2>2. rtcUpset' = TRUE /\ rtcRuns' \in BOOLEAN
    BY <1>3 DEF Time!RTC_SetTime, Time!TypeOK
  <2>3. rtcAhead' \in Int /\ rtcFrac' \in 0 .. Second - 1
    BY <1>0, <1>3 DEF Time!RTC_SetTime, Time!Far
  <2>4. Time!TypeOK'
    BY <1>0, <2>1, <2>2, <2>3 DEF Time!TypeOK
  <2> QED
    BY <2>1, <2>2, <2>4 DEF TimeInv
<1>4. CASE UNCHANGED rtcVars
  BY <1>4 DEF rtcVars, Time!TypeOK, TimeInv, Time!Difference
<1> QED
  BY <1>1, <1>2, <1>3, <1>4 DEF Time!Next

LEMMA TimeInit == Time!Init => Time!TypeOK /\ TimeInv
<1> SUFFICES ASSUME Time!Init PROVE Time!TypeOK /\ TimeInv
  OBVIOUS
<1>1. /\ rtcCount \in 0 .. Wrap - 1 /\ rtcFrac \in 0 .. Second - 1 /\ rtcLast = rtcCount
      /\ rtcAhead = 0 /\ rtcMs = 0 /\ rtcGap = 0 /\ rtcEvents = 0
      /\ Second \in Nat \ {0} /\ Wrap \in Nat /\ MaxGap \in Nat /\ MaxEvents \in Nat
  BY BoardAssumption DEF Time!Init
<1>2. rtcRuns = TRUE /\ rtcUpset = FALSE
  BY DEF Time!Init
<1>3. Time!Difference \in 1 - Second .. Second - 1
  BY <1>1 DEF Time!Difference
<1>4. rtcAhead \in Int /\ rtcGap \in 0 .. MaxGap /\ rtcEvents \in 0 .. MaxEvents
  BY <1>1
<1>5. Time!TypeOK
  BY <1>1, <1>2, <1>4 DEF Time!TypeOK
<1> QED
  BY <1>1, <1>2, <1>3, <1>5 DEF TimeInv

----------------------------------------------------------------------------
(* All parts                                                                *)

(* A step of MCBoard is one of the unit that runs, and none of the others.  *)
LEMMA UnitSteps ==
  [MCNext]_mcVars =>
    /\ [Next]_vars /\ [Spi!Next]_spiVars /\ [Leds!Next]_ledVars
    /\ [Time!Next]_rtcVars
  BY DEF MCNext, mcVars

BoardInv ==
  /\ TypeOK /\ StaticAddressIsHost
  /\ Spi!TypeOK /\ SpiInv
  /\ Leds!TypeOK /\ Leds!NoOtherColour
  /\ Time!TypeOK /\ TimeInv

LEMMA BoardInvariance == MCSpec => []BoardInv
<1>1. MCInit => BoardInv
  <2> SUFFICES ASSUME MCInit PROVE BoardInv
    OBVIOUS
  <2>1. TypeOK /\ StaticAddressIsHost
    BY AddressInit DEF MCInit, IInv
  <2>2. Spi!TypeOK /\ SpiInv
    BY SpiTypedInit DEF MCInit, Spi!Init, SpiInv
  <2>3. /\ Leds!TypeOK /\ Leds!NoOtherColour /\ Time!TypeOK /\ TimeInv
    BY LedsInit, TimeInit DEF MCInit
  <2> QED
    BY <2>1, <2>2, <2>3 DEF BoardInv
<1>2. BoardInv /\ [MCNext]_mcVars => BoardInv'
  <2> SUFFICES ASSUME BoardInv, [MCNext]_mcVars PROVE BoardInv'
    OBVIOUS
  <2>1. (TypeOK /\ StaticAddressIsHost)'
    BY UnitSteps, AddressStep DEF BoardInv, IInv
  <2>2. Spi!TypeOK' /\ SpiInv'
    BY UnitSteps, SpiTypedStep, SpiStep DEF BoardInv
  <2>3. /\ Leds!TypeOK' /\ Leds!NoOtherColour' /\ Time!TypeOK' /\ TimeInv'
    BY UnitSteps, LedsStep, TimeStep DEF BoardInv
  <2> QED
    BY <2>1, <2>2, <2>3 DEF BoardInv
<1> QED
  BY <1>1, <1>2, PTL DEF MCSpec

(* Every part keeps its types, whatever the switches, the shell, the bus    *)
(* and the console do.                                                      *)
THEOREM Typing == MCSpec => []TypesOK
<1>1. BoardInv => TypesOK
  BY DEF BoardInv, TypesOK
<1> QED
  BY <1>1, BoardInvariance, PTL

(* However the interrupt falls into a command of the shell, the command     *)
(* leaves nothing selected, locked or set behind (Digital_Input.c,          *)
(* Digital_Output.c), and while the device shifts the bytes of a transfer   *)
(* nobody changes its chip select or clears its FIFO (netx_drv_spi.c).      *)
THEOREM SpiSafety == MCSpec => SpiStaysClean
<1>1. BoardInv => (unit = "spi" => Spi!IdleIsClean)
  BY DEF BoardInv, SpiInv, Spi!IdleIsClean
<1>2. BoardInv /\ [MCNext]_mcVars =>
        [spiFifo = "shifting" =>
           spiFss' = spiFss /\ spiFifo' \in {"shifting", "received"}]_(Spi!vars)
  BY UnitSteps, SpiShifts DEF BoardInv
<1> QED
  BY <1>1, <1>2, BoardInvariance, PTL DEF MCSpec, SpiStaysClean, Spi!ShiftUndisturbed

(* Whatever blinks, alternates or is set from the console, a LED shows no   *)
(* colour but that of its state (led.c).                                    *)
THEOREM LedSafety == MCSpec => []Leds!NoOtherColour
<1>1. BoardInv => Leds!NoOtherColour
  BY DEF BoardInv
<1> QED
  BY <1>1, BoardInvariance, PTL

(* Updated at least once in a round of the system counter, the time is      *)
(* never a second off the real time clock (RTC.c), unless it was set, or    *)
(* the clock could not be read, and this is not made good yet: for every    *)
(* length of a second and of a round.                                       *)
THEOREM TimeSafety == MCSpec => []Time!TimeIsClose
<1>1. BoardInv => Time!TimeIsClose
  BY DEF BoardInv, TimeInv, Time!TimeIsClose
<1> QED
  BY <1>1, BoardInvariance, PTL
=============================================================================
