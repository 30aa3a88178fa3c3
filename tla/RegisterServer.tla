---------------------------- MODULE RegisterServer ----------------------------
(***************************************************************************)
(* The register server behind the explicit messages of EtherNet/IP: the    *)
(* table of handlers (Server.c), the registers that fill it after every    *)
(* configuration of the stack (Init.c), the dispatch of a class 3 service  *)
(* (AppEIS_HandleCl3Ind, AppEIS_User_Indication_Handler) and the handlers. *)
(*                                                                         *)
(* The response is written over the indication in the shared packet:       *)
(* ulGRC lies where the first word of the request's data was, the data the *)
(* handler reads and writes where the third one was.  Words the request    *)
(* does not carry hold what earlier packets left there.                    *)
(***************************************************************************)
EXTENDS Integers, Sequences

CONSTANTS
  MaxHandlers,  \* MAX_NET_HANDLERS
  Services,     \* the services clients use
  Attributes,   \* ulAttribute of their requests, 32 bit
  Words,        \* the words a request carries
  Keys,         \* those MfgSetKey accepts; CLEARKEY is 0
  MaxConfigs    \* bound: completed configurations of the stack

ASSUME ServerAssumption ==
  /\ MaxHandlers \in Nat
  /\ Services \subseteq {"get", "set", "other"}
  /\ Attributes \subseteq Nat
  /\ Words \subseteq Nat
  /\ Keys \subseteq Words
  /\ 0 \in Keys
  /\ MaxConfigs \in Nat

VARIABLES
  handlers,  \* s_network_handlers, up to the first IND_EOF
  configs,   \* history: completed configurations
  request,   \* the indication being handled, or NoRequest
  key,       \* slclManufacturingInformation.u16Key
  assembly,  \* s_abConfigAssemblyData
  answer     \* history: how the last request was answered

vars == <<handlers, configs, request, key, assembly, answer>>

(* first, third: words of the packet; size: bytes of data in the request.   *)
Requests ==
  [class : {"assembly", "register", "unknown"}, instance : {1, 2},
   attribute : Attributes, member : {0, 1}, service : Services,
   size : {0, 2, 4, 12}, first : Words, third : Words]

NoRequest == [class |-> "none"]

Init ==
  /\ handlers = <<>>
  /\ configs = 0
  /\ request = NoRequest
  /\ key = 0
  /\ assembly = 0
  /\ answer = "none"

----------------------------------------------------------------------------
(* The table of handlers                                                    *)

Entry(type, addr, qty, handler) ==
  [type |-> type, first |-> addr, last |-> addr + qty - 1, handler |-> handler]

mfg_enabled == FALSE  \* g_FI_unit_stats is zero initialised, nothing sets it

(* The registers in the order of RegisterHandlers.                          *)
Registers ==
  <<Entry("IN", 65000, 4, "time"),
    Entry("IN", 65100, 1, "temperature"),
    Entry("IN", 10000, 23, "device_info"),
    Entry("OUT", 60000, 1, "key")>>
  \o (IF mfg_enabled THEN <<Entry("OUT", 60001, 24, "manufacturing"),
                            Entry("OUT", 60025, 6, "rtc"),
                            Entry("OUT", 60031, 1, "aio")>> ELSE <<>>)
  \o <<Entry("OUT", 65100, 1, "watchdog_interval"),
       Entry("OUT", 65101, 1, "watchdog_count")>>

(* Mutant: a full table starts again with the first slot.                   *)
Filled_WrapsAround(t, regs) ==
  [i \in 1 .. (IF Len(t) + Len(regs) <= MaxHandlers
               THEN Len(t) + Len(regs) ELSE MaxHandlers) |->
     IF i <= Len(t) + Len(regs) - MaxHandlers
     THEN regs[i + MaxHandlers - Len(t)]
     ELSE IF i <= Len(t) THEN t[i] ELSE regs[i - Len(t)]]

(* acyclic_reg_handler for each of regs: it takes the first free slot, and  *)
(* RegisterHandlers returns when there is none.                             *)
Filled(t, regs) ==
  [i \in 1 .. (IF Len(t) + Len(regs) <= MaxHandlers
               THEN Len(t) + Len(regs) ELSE MaxHandlers) |->
     IF i <= Len(t) THEN t[i] ELSE regs[i - Len(t)]]

(* Mutant: the range has one register too many.                             *)
Covering_OneMore(t, a) ==
  {i \in DOMAIN t : t[i].first <= a /\ a <= t[i].last + 1}

Covering(t, a) == {i \in DOMAIN t : t[i].first <= a /\ a <= t[i].last}

(* acyclic_handler_find: the first entry whose range has the address; the   *)
(* opcode is not looked at, the data type is an output.                     *)
Find(t, a) ==
  IF Covering(t, a) = {} THEN Entry("EOF", 0, 0, "none")
  ELSE t[CHOOSE i \in Covering(t, a) : \A j \in Covering(t, a) : i <= j]

----------------------------------------------------------------------------
(* The handlers                                                             *)

(* What the callee finds in opcode, not initialised for other services.     *)
Opcodes(service) ==
  CASE service = "get" -> {"IO_GET"}
    [] service = "set" -> {"IO_SET"}
    [] OTHER -> {"IO_GET", "IO_SET", "IO_LOCK"}

(* The handler returns no error.  The quantity asked for is the whole       *)
(* packet, cut to the registers there are: only offset 0 is left.           *)
Accepts(e, opcode, offset, word) ==
  /\ e.handler # "none"
  /\ offset = 0
  /\ opcode \in (IF e.type = "IN" THEN {"IO_GET"} ELSE {"IO_GET", "IO_SET"})
  /\ e.handler = "watchdog_count" /\ opcode = "IO_SET" => word = 0

(* MfgSetKey: keys it does not know are ignored.                            *)
SetKey(word) == key' = IF word \in Keys THEN word ELSE key

----------------------------------------------------------------------------
(* Actions                                                                  *)

(* Pkt_DispatchIndication has received the service of a client.             *)
Receive ==
  /\ request = NoRequest
  /\ request' \in Requests
  /\ UNCHANGED <<handlers, configs, key, assembly, answer>>

AnswerWith(status) ==
  /\ answer' = status
  /\ request' = NoRequest
  /\ UNCHANGED <<handlers, configs>>

(* The assembly object accepts its configuration, or none at all.           *)
Accepted(r) ==
  /\ r.service = "set"
  /\ r.instance = 1  \* EIP_CONFIGURATION_ASSEMBLY_INSTANCE
  /\ r.attribute = 3
  /\ r.size \in {0, 4}

AssemblyService ==
  /\ request.class = "assembly"
  /\ AnswerWith(IF Accepted(request) THEN "success" ELSE "error")
  /\ assembly' = IF Accepted(request) /\ request.size # 0
                 THEN request.first ELSE assembly
  /\ UNCHANGED key

(* The wrong instance: return without writing ulGRC.                        *)
WrongInstance ==
  /\ request.class = "register" /\ request.instance # 1
  /\ AnswerWith(IF request.first = 0 THEN "success" ELSE "error")
  /\ UNCHANGED <<key, assembly>>

RegisterService ==
  /\ request.class = "register" /\ request.instance = 1
  /\ LET e == Find(handlers, request.attribute % 65536)
     IN \E opcode \in Opcodes(request.service) :
          IF Accepts(e, opcode, request.member, request.third)
          THEN /\ AnswerWith("success")
               /\ IF e.handler = "key" /\ opcode = "IO_SET"
                  THEN SetKey(request.third) ELSE UNCHANGED key
          ELSE AnswerWith("error") /\ UNCHANGED key
  /\ UNCHANGED assembly

UnknownClass ==
  /\ request.class = "unknown"
  /\ AnswerWith("error")
  /\ UNCHANGED <<key, assembly>>

(* AppEIS_ConfigureStack has completed the configuration.                   *)
RegisterHandlers ==
  /\ request = NoRequest
  /\ configs < MaxConfigs
  /\ configs' = configs + 1
  /\ handlers' = Filled(handlers, Registers)
  /\ UNCHANGED <<request, key, assembly, answer>>

Next == \/ Receive \/ AssemblyService \/ WrongInstance \/ RegisterService
        \/ UnknownClass \/ RegisterHandlers

Spec == Init /\ [][Next]_vars

----------------------------------------------------------------------------
(* Properties                                                               *)

HandlerNames == {"time", "temperature", "device_info", "key", "manufacturing",
                 "rtc", "aio", "watchdog_interval", "watchdog_count"}
EntryType == [type : {"IN", "OUT"}, first : Nat, last : Nat, handler : HandlerNames]

(* The types of all variables.                                              *)
TypeOK ==
  /\ Len(handlers) <= MaxHandlers
  /\ \A i \in DOMAIN handlers : handlers[i] \in EntryType
  /\ configs \in Nat
  /\ request \in Requests \cup {NoRequest}
  /\ key \in Keys
  /\ assembly \in Words \cup {0}
  /\ answer \in {"none", "success", "error"}

(* Once the stack has been configured, every address keeps the handler it   *)
(* has, although each further configuration registers all of them again     *)
(* until the table is full (RegisterHandlers, its result is not looked at). *)
AddressesKeepHandlers ==
  [][configs > 0 => \A a \in Attributes : Find(handlers', a) = Find(handlers, a)]_vars

(* A service that is answered with an error has changed nothing.            *)
RefusedChangesNothing ==
  [][answer' = "error" => UNCHANGED <<key, assembly>>]_vars

(* The key changes only by a service that addresses the key register.       *)
KeyOnlyByItsRegister ==
  [][key' # key => /\ request.class = "register" /\ request.instance = 1
                   /\ request.attribute % 65536 = 60000]_vars

(* A set that reaches an input register is refused and leaves the key alone. *)
InputsAreReadOnly ==
  [][/\ request.class = "register" /\ request.instance = 1
     /\ request.service = "set"
     /\ Find(handlers, request.attribute % 65536).type = "IN"
     => answer' = "error" /\ key' = key]_vars

(* As the comment of Mfg_Key_Handler has it ("Read in and save the key if   *)
(* it was valid"), the key is the one the request carries.                  *)
KeyIsCarried ==
  [][key' # key => request.size >= 2 /\ key' = request.first]_vars
=============================================================================
