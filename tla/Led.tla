------------------------------- MODULE Led -------------------------------
(***************************************************************************)
(* The two LEDs of the board: what the application has to show (health and *)
(* network status, netX_hostAbstractionLayer.c), the handles that turn a   *)
(* status into a LED state (led.c) and the LED driver with its two outputs *)
(* per LED, its blinking and its test mode of the serial console.          *)
(*                                                                         *)
(* One iteration of the main loop takes the status from its sources and    *)
(* then runs both handles and the driver; the console is served between    *)
(* iterations.  Which blink times, and whether the 125 ms of Led_Alternate,*)
(* are over is chosen for each iteration.                                  *)
(***************************************************************************)
EXTENDS Naturals

CONSTANT ConsoleStates  \* bound: the LED states set from the console

VARIABLES
  source,    \* external: temperature, mode, communication state, link, lease
  test,      \* g_led_testmode
  leds,      \* led_cntrl_st and the outputs of both LEDs
  alternate  \* the statics of HOSTAL_Health_Led_Handle

vars == <<source, test, leds, alternate>>

Ids    == {"NET", "HLT"}
Solid  == {"OFF", "RED", "GREEN", "AMBER"}
Flashing == {"FLASHING_RED", "FLASHING_GREEN", "FLASHING_AMBER"}
States == Solid \cup Flashing

(* The sources a status is taken from; communication "none" stands for      *)
(* UNKNOWN and NOT_CONFIGURED, "stopped" for STOP and IDLE, and noLease for *)
(* the DHCP mode without an address.                                        *)
Sources == [hot : BOOLEAN, wdEnabled : BOOLEAN, noLease : BOOLEAN,
            link : BOOLEAN, comm : {"none", "stopped", "operate"}]

(* A flashing LED toggles the outputs of its colour.                        *)
Lit(state) ==
  [red |-> state \in {"RED", "AMBER"}, green |-> state \in {"GREEN", "AMBER"}]
Blinks(state) ==
  [red |-> state \in {"FLASHING_RED", "FLASHING_AMBER"},
   green |-> state \in {"FLASHING_GREEN", "FLASHING_AMBER"}]

Init ==
  /\ source \in {s \in Sources : ~s.link /\ s.comm = "none" /\ ~s.hot}
  /\ test = FALSE
  /\ leds = [i \in Ids |-> [control |-> IF i = "HLT" THEN "AMBER" ELSE "OFF",
                            red |-> i = "HLT", green |-> i = "HLT"]]
  /\ alternate = [started |-> FALSE, colour |-> "RED"]

----------------------------------------------------------------------------
(* The driver                                                               *)

(* Mutant: blinking starts from the outputs as they are.                    *)
LED_Set_Internal_NotFromOff(led, state) ==
  IF state \in Solid
  THEN [control |-> state, red |-> Lit(state).red, green |-> Lit(state).green]
  ELSE [led EXCEPT !.control = state]

(* A new state starts at once: a blinking one from both outputs off.        *)
LED_Set_Internal(led, state) ==
  IF state \in Solid
  THEN [control |-> state, red |-> Lit(state).red, green |-> Lit(state).green]
  ELSE IF led.control = state THEN led
  ELSE [control |-> state, red |-> FALSE, green |-> FALSE]

(* A blinking LED that is to stay in its state and whose blink time is over *)
(* toggles the outputs of its colour, the other one is off.  The driver     *)
(* runs with every LED that is set and once more at the end; a blink time   *)
(* starts anew with the first of them.                                      *)
LED_StateMachine(led, state, over) ==
  IF over /\ led.control \in Flashing /\ state = led.control
  THEN [led EXCEPT !.red = Blinks(state).red /\ ~led.red,
                   !.green = Blinks(state).green /\ ~led.green]
  ELSE led

----------------------------------------------------------------------------
(* The handles                                                              *)

(* HOSTAL_Sensor_GetState                                                   *)
HealthStatus ==
  IF source.hot THEN "HOT" ELSE IF source.wdEnabled THEN "CONNECTED" ELSE "DIAG_MODE"

(* HOSTAL_Device_UpdateStatus                                               *)
NetworkStatus ==
  CASE source.comm = "none" -> "NO_CONNECTION"
    [] source.comm = "operate" -> "CONNECTED"
    [] OTHER -> IF source.noLease /\ source.link
                THEN "WAIT_FOR_LEASE" ELSE "STANDBY"

(* Mutant: a connection without a link goes on flashing.                    *)
NetworkColour_NoLink(status) ==
  CASE status = "NO_CONNECTION" -> "RED"
    [] status = "WAIT_FOR_LEASE" -> "AMBER"
    [] status = "STANDBY" -> IF source.link THEN "FLASHING_AMBER" ELSE "RED"
    [] status = "CONNECTED" -> "FLASHING_GREEN"
    [] OTHER -> "OFF"

NetworkColour(status) ==
  CASE status = "NO_CONNECTION" -> "RED"
    [] status = "WAIT_FOR_LEASE" -> "AMBER"
    [] status = "STANDBY" -> IF source.link THEN "FLASHING_AMBER" ELSE "RED"
    [] status = "CONNECTED" -> IF source.link THEN "FLASHING_GREEN" ELSE "RED"
    [] OTHER -> "OFF"

HealthColour(status) == IF status = "CONNECTED" THEN "FLASHING_GREEN" ELSE "FLASHING_AMBER"

OtherColour == IF alternate.colour = "GREEN" THEN "AMBER" ELSE "GREEN"

(* Mutant: the change of colour does not start the next period.             *)
Alternated_Once(elapsed) ==
  IF alternate.started /\ elapsed
  THEN [started |-> TRUE, colour |-> OtherColour]
  ELSE [alternate EXCEPT !.started = TRUE]

(* The colour changes after each period, which starts with setting the LED. *)
Alternated(elapsed) ==
  IF alternate.started /\ elapsed
  THEN [started |-> FALSE, colour |-> OtherColour]
  ELSE [alternate EXCEPT !.started = TRUE]

(* The state a LED is to have after the handles: the application sets none  *)
(* in the test mode, and Led_Alternate one when a period starts only.       *)
Wanted(i) ==
  IF test THEN leds[i].control
  ELSE IF i = "NET" THEN NetworkColour(NetworkStatus)
  ELSE IF HealthStatus # "HOT" THEN HealthColour(HealthStatus)
  ELSE IF alternate.started THEN leds[i].control ELSE alternate.colour

(* The part of the main loop that shows the status.                         *)
HOST_EvnetHandler(elapsed) ==
  /\ \E over \in SUBSET Ids :
       leds' = [i \in Ids |->
                  LED_Set_Internal(LED_StateMachine(leds[i], Wanted(i), i \in over), Wanted(i))]
  /\ alternate' = IF HealthStatus = "HOT" THEN Alternated(elapsed) ELSE alternate
  /\ UNCHANGED <<source, test>>

----------------------------------------------------------------------------
(* The console                                                              *)
console_led_testmode ==
  /\ test' = ~test
  /\ UNCHANGED <<source, leds, alternate>>

console_led_set ==
  /\ test
  /\ \E i \in Ids, state \in ConsoleStates :
       leds' = [leds EXCEPT ![i] = LED_Set_Internal(@, state)]
  /\ UNCHANGED <<source, test, alternate>>

(* The self test leaves both LEDs off, and the test mode on.                *)
console_led_selftest ==
  /\ test
  /\ leds' = [i \in Ids |-> LED_Set_Internal(leds[i], "OFF")]
  /\ UNCHANGED <<source, test, alternate>>

(* External: the device warms up or cools down, the link and the            *)
(* connections come and go, an address is assigned once.                    *)
Change ==
  /\ \/ source' = [source EXCEPT !.hot = ~source.hot]
     \/ source' = [source EXCEPT !.link = ~source.link]
     \/ \E c \in {"none", "stopped", "operate"} : source' = [source EXCEPT !.comm = c]
     \/ source' = [source EXCEPT !.noLease = FALSE]
  /\ UNCHANGED <<test, leds, alternate>>

Next == \/ \E elapsed \in BOOLEAN : HOST_EvnetHandler(elapsed)
        \/ console_led_testmode \/ console_led_set \/ console_led_selftest
        \/ Change

Spec == Init /\ [][Next]_vars

(* The main loop runs, and each period of Led_Alternate ends.               *)
FairSpec == Spec /\ WF_vars(HOST_EvnetHandler(TRUE))

----------------------------------------------------------------------------
(* Properties                                                               *)

(* The types of all variables.                                              *)
TypeOK ==
  /\ source \in Sources
  /\ test \in BOOLEAN
  /\ leds \in [Ids -> [control : States, red : BOOLEAN, green : BOOLEAN]]
  /\ alternate \in [started : BOOLEAN, colour : {"RED", "GREEN", "AMBER"}]

(* A LED shows no colour but that of its state, whatever it showed before:  *)
(* a solid one shows it, the outputs of a blinking one are off or together. *)
NoOtherColour ==
  \A i \in Ids :
    LET c == leds[i].control
        shown == [red |-> leds[i].red, green |-> leds[i].green]
    IN shown = Lit(c) \/ (c \in Flashing /\ shown = Blinks(c))

(* A status that stays is shown in the end, whatever the console did to the *)
(* LEDs before it left the test mode; the network LED shows a lost link in  *)
(* every state.                                                             *)
StatusIsShown ==
  /\ <>[](~test /\ ~source.link) =>
       <>[](leds["NET"].control \in {"RED", "OFF"})
  /\ <>[](~test /\ HealthStatus = "DIAG_MODE") =>
       <>[](leds["HLT"].control = "FLASHING_AMBER")
  /\ <>[](~test /\ HealthStatus = "CONNECTED") =>
       <>[](leds["HLT"].control = "FLASHING_GREEN")

(* While the device stays hot its health LED goes on alternating between    *)
(* green and amber, and shows nothing else in the end ("alternating GREEN,  *)
(* YELLOW", HOSTAL_Health_Led_Handle).                                      *)
HotAlternates ==
  <>[](~test /\ source.hot) =>
    /\ []<>(leds["HLT"].control = "GREEN")
    /\ []<>(leds["HLT"].control = "AMBER")
    /\ <>[](leds["HLT"].control # "RED")
=============================================================================
