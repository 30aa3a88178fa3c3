------------------------------ MODULE SwitchMode ------------------------------
(***************************************************************************)
(* What the three rotary switches select (switch.c, sys.c): the operating  *)
(* mode and, with a static address, the last octet of the IP address.      *)
(***************************************************************************)
EXTENDS Naturals

CONSTANT SavedHosts  \* last octets of the default and of the saved address

ASSUME SwitchAssumption == SavedHosts \subseteq 0 .. 255

Digits == 0 .. 9

VARIABLES
  expander, \* g_RotaryInitComplete: the I/O expander has been set up
  digits,   \* g_RotaryValues: units, tens and hundreds
  result,   \* of SYS_InitConfig; "none" before
  mode,     \* g_FI_unit_stats.mode, a set of flags
  control,  \* g_ulConfigControl
  host      \* the last octet of g_tInterfaceConfig.ulIpAddr

vars == <<expander, digits, result, mode, control, host>>

SWITCH_ERROR == 65535

SwitchValue(d) == d[1] + d[2] * 10 + d[3] * 100

(* SWITCH_get_value: of an expander that has not been set up, an error.     *)
Shown(d) == IF expander THEN SwitchValue(d) ELSE SWITCH_ERROR

IsDhcp(v) == \/ v = 0
             \/ v \in 255 .. 300
             \/ v \in 555 .. 600
             \/ v \in 855 .. 900

IsStatic(v) == v \in 1 .. 254 \/ v \in 301 .. 554 \/ v \in 601 .. 854

Flags == {"DHCP", "STATIC_IP", "WD_ENABLED", "SYS_CFG", "MFG_CFG"}

(* SWITCH_set_mode: the value v sets the flag f.                            *)
Sets(v, f) ==
  \/ f = "DHCP"       /\ IsDhcp(v)
  \/ f = "STATIC_IP"  /\ IsStatic(v)
  \/ f = "WD_ENABLED" /\ ((IsDhcp(v) /\ v <= 299) \/ (IsStatic(v) /\ v <= 254))
  \/ f = "SYS_CFG"    /\ v \in 901 .. 977 \cup 979 .. 999
  \/ f = "MFG_CFG"    /\ v = 978

ModeOf(v) == {f \in Flags : Sets(v, f)}

(* Startup goes on when Rotary_I2C_Init has failed.                         *)
Init ==
  /\ expander \in BOOLEAN
  /\ digits = <<0, 0, 0>>
  /\ result = "none"
  /\ mode = {}
  /\ control = "none"
  /\ host \in SavedHosts

(* The I/O expander is read; when that fails the digits stay zero.  Later   *)
(* readings, by the shell and a register, only show the digits.             *)
SWITCH_update ==
  IF expander THEN digits' \in [1 .. 3 -> Digits] ELSE UNCHANGED digits

(* Mutant: the whole value becomes the last octet.                          *)
ConfigureCipObjects_NoModulo ==
  /\ control' = IF "DHCP" \in mode' THEN "DHCP"
                ELSE IF "STATIC_IP" \in mode' THEN "INTERN" ELSE control
  /\ host' \in IF "STATIC_IP" \in mode' THEN {SwitchValue(digits')} ELSE SavedHosts

(* Other modes keep the address that MfgInitParams has just read.           *)
ConfigureCipObjects ==
  /\ control' = IF "DHCP" \in mode' THEN "DHCP"
                ELSE IF "STATIC_IP" \in mode' THEN "INTERN" ELSE control
  /\ host' \in IF "STATIC_IP" \in mode' THEN {SwitchValue(digits') % 300}
                                       ELSE SavedHosts

(* Once, at startup.  A value that selects no mode ends it before the saved *)
(* address is read, and the startup with it (StackConfiguration).           *)
SYS_InitConfig ==
  /\ result = "none"
  /\ SWITCH_update
  /\ mode' = ModeOf(Shown(digits'))
  /\ \/ mode' # {} /\ ConfigureCipObjects /\ result' = "ok"
     \/ mode' = {} /\ UNCHANGED <<control, host>> /\ result' = "invalid"
  /\ UNCHANGED expander

Next == SYS_InitConfig

Spec == Init /\ [][Next]_vars

----------------------------------------------------------------------------
(* Properties                                                               *)

(* The types of all variables.                                              *)
TypeOK ==
  /\ expander \in BOOLEAN
  /\ result \in {"none", "ok", "invalid"}
  /\ digits \in [1 .. 3 -> Digits]
  /\ mode \subseteq Flags
  /\ control \in {"none", "DHCP", "INTERN"}
  /\ host \in 0 .. 255

(* Whatever the switches say, a static address names a host: never the      *)
(* network address, the broadcast address or more than an octet.            *)
StaticAddressIsHost == "STATIC_IP" \in mode => host \in 1 .. 254

(* The switches divide into three banks of 300 with the same meaning but    *)
(* for the watchdog, which only the first bank enables, and the rest.       *)
BanksAgree ==
  mode # {} =>
    LET v == SwitchValue(digits)
    IN /\ "WD_ENABLED" \in mode <=> v < 300
       /\ v < 900 => mode \ {"WD_ENABLED"} = ModeOf(v % 300) \ {"WD_ENABLED"}
       /\ v > 900 <=> mode \cap {"DHCP", "STATIC_IP"} = {}
=============================================================================
