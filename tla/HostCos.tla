------------------------------- MODULE HostCos -------------------------------
(***************************************************************************)
(* The host's change of state on a communication channel: the flags of     *)
(* ulApplicationCOS, which the host writes and signals with the handshake  *)
(* bit HOST_COS_CMD and the stack acknowledges (cifXHWFunctions.c,         *)
(* cifXFunctions.c), in polling mode.                                      *)
(*                                                                         *)
(* One thread of the host calls the functions; DEV_CheckCOSFlags runs in   *)
(* the same thread between the calls, if the integrator calls the          *)
(* toolkit's cyclic timer (the firmware does not).  The protocol stack on  *)
(* the other processor is external and interleaves with each access.       *)
(***************************************************************************)
EXTENDS Naturals, FiniteSets

CONSTANT MaxCalls   \* bound: calls of the host

VARIABLES
  cyclic,   \* the integrator calls cifXTKitCyclicTimer
  ram,      \* ulHostCOSFlags
  dpm,      \* ulApplicationCOS in the dual-port memory
  cmd, ack, \* the bits HOST_COS_CMD and HOST_COS_ACK
  call,     \* the function in progress
  dev,      \* ulDeviceCOSFlags: what the host knows of the channel
  changed,  \* ulDeviceCOSFlagsChanged
  calls,    \* bound: calls so far
  asked,    \* history: requests for a channel init
  chan,     \* stack: ulCommunicationCOS
  com,      \* stack: the bit COMMUNICATING
  stack     \* stack: what it took over from the host's flags

vars == <<cyclic, ram, dpm, cmd, ack, call, dev, changed, calls, asked, chan, com, stack>>
stackVars == <<ack, chan, com, stack>>
hostVars  == <<cyclic, ram, dpm, cmd, call, dev, changed, calls, asked>>

Enables == {"BUS_ON_ENABLE", "INITIALIZATION_ENABLE", "LOCK_CONFIGURATION_ENABLE"}
AppCos  == {"APPLICATION_READY", "BUS_ON", "INITIALIZATION", "LOCK_CONFIGURATION"} \cup Enables
CommCos == {"READY", "RUN", "BUS_ON", "CONFIG_LOCKED"}

(* The calls of DEV_DoHostCOSChange: what is set, cleared, and cleared      *)
(* after it has been signalled.                                             *)
Change ==
  [host_ready |-> [set |-> {"APPLICATION_READY"}, clear |-> {}, post |-> {}],
   host_not_ready |-> [set |-> {}, clear |-> {"APPLICATION_READY"}, post |-> {}],
   bus_on |-> [set |-> {"BUS_ON", "BUS_ON_ENABLE"}, clear |-> {}, post |-> {"BUS_ON_ENABLE"}],
   bus_off |-> [set |-> {"BUS_ON_ENABLE"}, clear |-> {"BUS_ON"}, post |-> {"BUS_ON_ENABLE"}],
   lock |-> [set |-> {"LOCK_CONFIGURATION", "LOCK_CONFIGURATION_ENABLE"}, clear |-> {},
             post |-> {"LOCK_CONFIGURATION_ENABLE"}],
   unlock |-> [set |-> {"LOCK_CONFIGURATION_ENABLE"}, clear |-> {"LOCK_CONFIGURATION"},
               post |-> {"LOCK_CONFIGURATION_ENABLE"}],
   init |-> [set |-> {"INITIALIZATION", "INITIALIZATION_ENABLE"}, clear |-> {},
             post |-> {"INITIALIZATION_ENABLE"}]]

Ops == DOMAIN Change
Idle == [pc |-> "idle", op |-> "host_ready", wait |-> FALSE, ran |-> FALSE]

Init ==
  /\ cyclic \in BOOLEAN
  /\ ram = {} /\ dpm = {}
  /\ cmd = FALSE /\ ack = FALSE
  /\ call = Idle
  /\ dev \in {{}, {"READY", "RUN"}} /\ changed = {}
  /\ calls = 0 /\ asked = 0
  /\ chan = {"READY", "RUN"} /\ com = FALSE
  /\ stack = [read |-> {}, ready |-> FALSE, inits |-> 0, restart |-> FALSE, pc |-> "idle"]

----------------------------------------------------------------------------
SymDiff(S, T) == (S \ T) \cup (T \ S)

(* DEV_ReadHandshakeFlags: the channel's flags are read when they are new.  *)
Poll ==
  /\ dev' = chan
  /\ changed' = IF dev = chan THEN changed ELSE SymDiff(dev, chan)

Ready   == "READY" \in chan
Running == {"READY", "RUN"} \subseteq chan

(* Mutant: the state of the handshake is not looked at.                     *)
Equal_Always == TRUE

(* The stack has acknowledged the last change.                              *)
Equal == cmd = ack

At(pc)    == call.pc = pc
GoTo(pc)  == call' = [call EXCEPT !.pc = pc]
Return    == call' = Idle

(* The guards of the callers: DEV_SetHostState, DEV_BusState,               *)
(* xChannelConfigLock, DEV_DoChannelInit.                                   *)
Applies(op) ==
  CASE op \in {"host_ready", "host_not_ready"} -> Ready
    [] op = "bus_on"  -> "BUS_ON" \notin chan /\ Running /\ ~com
    [] op = "bus_off" -> Ready /\ ("BUS_ON" \in chan \/ (Running /\ com))
    [] op = "lock"    -> "CONFIG_LOCKED" \notin chan
    [] op = "unlock"  -> "CONFIG_LOCKED" \in chan
    [] OTHER          -> TRUE

(* DEV_BusState waits for the bus even when the state need not be changed.  *)
WaitsAnyway(op) ==
  \/ op = "bus_on" /\ Running /\ ~com
  \/ op = "bus_off" /\ Ready

Call ==
  /\ At("idle") /\ calls < MaxCalls
  /\ calls' = calls + 1
  /\ Poll
  /\ \E op \in Ops, wait \in BOOLEAN :
       /\ op = "init" => wait
       /\ asked' = IF op = "init" THEN asked + 1 ELSE asked
       /\ IF op \in {"host_ready", "host_not_ready"} /\ Ready /\ ~wait
          THEN /\ ram' = (ram \cup Change[op].set) \ Change[op].clear
               /\ UNCHANGED call
          ELSE /\ call' = IF Applies(op) THEN [pc |-> "room", op |-> op, wait |-> wait, ran |-> Running]
                          ELSE IF wait /\ WaitsAnyway(op)
                          THEN [pc |-> "com", op |-> op, wait |-> wait, ran |-> Running]
                          ELSE Idle
               /\ UNCHANGED ram
  /\ UNCHANGED <<cyclic, dpm, cmd, stackVars>>

(* What follows a change that was signalled, or, if not ok, not             *)
(* acknowledged in time: switching off waits for the bus even then.         *)
After(ok) ==
  CASE call.wait /\ (call.op = "bus_off" \/ (call.op = "bus_on" /\ ok)) -> GoTo("com")
    [] call.op = "init" /\ ok -> GoTo("not_running")
    [] OTHER -> Return

(* The beginning of DEV_DoHostCOSChange: no room yet, and no time to wait:  *)
(* the change is remembered.                                                *)
Remember ==
  /\ At("room") /\ ~Equal /\ ~call.wait
  /\ ram' = (ram \cup Change[call.op].set) \ Change[call.op].clear
  /\ Poll
  /\ After(TRUE)
  /\ UNCHANGED <<cyclic, dpm, cmd, calls, asked, stackVars>>

(* The wait for room ends by its timeout: an error.                         *)
NoRoom ==
  /\ At("room") /\ ~Equal /\ call.wait
  /\ Poll
  /\ Return
  /\ UNCHANGED <<cyclic, ram, dpm, cmd, calls, asked, stackVars>>

(* Mutant: the enable bits stay in the local flags.                         *)
Publish_NoPostClear ==
  /\ At("room") /\ Equal
  /\ ram' = (ram \cup Change[call.op].set) \ Change[call.op].clear
  /\ dpm' = ram'
  /\ cmd' = ~cmd
  /\ Poll /\ GoTo("ack")
  /\ UNCHANGED <<cyclic, calls, asked, stackVars>>

(* There is room: the flags are written and signalled; the enable bits do   *)
(* not stay in the local flags.                                             *)
Publish ==
  /\ At("room") /\ Equal
  /\ dpm' = (ram \cup Change[call.op].set) \ Change[call.op].clear
  /\ ram' = dpm' \ Change[call.op].post
  /\ cmd' = ~cmd
  /\ Poll /\ GoTo("ack")
  /\ UNCHANGED <<cyclic, calls, asked, stackVars>>

(* The acknowledge comes, or is not waited for; or the timeout is an error. *)
Acknowledged ==
  /\ At("ack") /\ (Equal \/ ~call.wait)
  /\ Poll
  /\ After(TRUE)
  /\ UNCHANGED <<cyclic, ram, dpm, cmd, calls, asked, stackVars>>

NotAcknowledged ==
  /\ At("ack") /\ ~Equal /\ call.wait
  /\ Poll
  /\ After(FALSE)
  /\ UNCHANGED <<cyclic, ram, dpm, cmd, calls, asked, stackVars>>

(* DEV_BusState: the state of the bus is there, or the timeout comes.       *)
BusStateEnds ==
  /\ At("com")
  /\ Poll
  /\ Return
  /\ UNCHANGED <<cyclic, ram, dpm, cmd, calls, asked, stackVars>>

(* DEV_DoChannelInit: a channel that ran stops, unless its change has been  *)
(* seen already; then it is no longer ready, and ready again.  Without the  *)
(* first two it returns.                                                    *)
StoppedAlready == "RUN" \notin dev \/ "RUN" \in changed

ChannelInitWaits ==
  /\ \/ At("not_running") /\ (~call.ran \/ StoppedAlready \/ ~Running) /\ GoTo("not_ready")
     \/ At("not_running") /\ call.ran /\ ~StoppedAlready /\ Running /\ Return
     \/ At("not_ready") /\ ~Ready /\ GoTo("ready")
     \/ At("not_ready") /\ Ready /\ Return
     \/ At("ready") /\ Return
  /\ Poll
  /\ UNCHANGED <<cyclic, ram, dpm, cmd, calls, asked, stackVars>>

(* A wait that goes on reads the handshake flags each time around.          *)
PollWhileWaiting ==
  /\ ~At("idle")
  /\ Poll
  /\ UNCHANGED <<cyclic, ram, dpm, cmd, call, calls, asked, stackVars>>

Waiting == Remember \/ NoRoom \/ Publish \/ Acknowledged \/ NotAcknowledged \/ BusStateEnds
           \/ ChannelInitWaits

(* Mutant: the flags are written only, not signalled.                       *)
DEV_CheckCOSFlags_Silent ==
  /\ cyclic /\ At("idle")
  /\ ram # dpm /\ Equal
  /\ dpm' = ram /\ ram' = ram \ Enables /\ cmd' = cmd
  /\ dev' = chan /\ changed' = {}
  /\ UNCHANGED <<cyclic, call, calls, asked, stackVars>>

(* The toolkit's cyclic timer: what was only remembered is signalled.       *)
DEV_CheckCOSFlags ==
  /\ cyclic /\ At("idle")
  /\ IF ram # dpm /\ Equal
     THEN dpm' = ram /\ ram' = ram \ Enables /\ cmd' = ~cmd
     ELSE UNCHANGED <<ram, dpm, cmd>>
  /\ dev' = chan /\ changed' = {}
  /\ UNCHANGED <<cyclic, call, calls, asked, stackVars>>

Host == Call \/ PollWhileWaiting \/ Waiting \/ DEV_CheckCOSFlags

----------------------------------------------------------------------------
(* The protocol stack (external)                                            *)

(* It reads a change that is signalled to it and does what is enabled.      *)
StackReads ==
  /\ cmd # ack /\ stack.pc = "idle"
  /\ LET init == {"INITIALIZATION", "INITIALIZATION_ENABLE"} \subseteq dpm
     IN stack' = [read |-> dpm, pc |-> "ack",
                  ready |-> "APPLICATION_READY" \in dpm,
                  restart |-> stack.restart \/ init,
                  inits |-> stack.inits + (IF init THEN 1 ELSE 0)]
  /\ chan' = (chan \ ((IF "BUS_ON_ENABLE" \in dpm THEN {"BUS_ON"} ELSE {})
                      \cup (IF "LOCK_CONFIGURATION_ENABLE" \in dpm THEN {"CONFIG_LOCKED"} ELSE {})))
             \cup (IF {"BUS_ON", "BUS_ON_ENABLE"} \subseteq dpm THEN {"BUS_ON"} ELSE {})
             \cup (IF {"LOCK_CONFIGURATION", "LOCK_CONFIGURATION_ENABLE"} \subseteq dpm
                   THEN {"CONFIG_LOCKED"} ELSE {})
  /\ UNCHANGED <<hostVars, ack, com>>

StackAcknowledges ==
  /\ stack.pc = "ack"
  /\ ack' = ~ack
  /\ stack' = [stack EXCEPT !.pc = "idle"]
  /\ UNCHANGED <<hostVars, chan, com>>

(* A channel init: RUN and READY go and come back.                          *)
StackRestarts ==
  /\ \/ stack.restart /\ Running /\ chan' = chan \ {"RUN"} /\ UNCHANGED stack
     \/ stack.restart /\ Ready /\ ~Running /\ chan' = {} /\ stack' = [stack EXCEPT !.restart = FALSE]
     \/ ~Ready /\ chan' = {"READY", "RUN"} /\ UNCHANGED stack
  /\ com' = FALSE
  /\ UNCHANGED <<hostVars, ack>>

(* Connections come and go while the bus is on.                             *)
StackCommunicates ==
  /\ com' = ~com /\ (com' => "BUS_ON" \in chan)
  /\ UNCHANGED <<hostVars, ack, chan, stack>>

Stack == StackReads \/ StackAcknowledges \/ StackRestarts \/ StackCommunicates

Next == Host \/ Stack

Spec == Init /\ [][Next]_vars

(* The host's waits end; the timer, where there is one, is called; the      *)
(* stack answers.                                                           *)
FairSpec == /\ Spec
            /\ WF_vars(Waiting) /\ WF_vars(DEV_CheckCOSFlags)
            /\ WF_vars(StackReads) /\ WF_vars(StackAcknowledges)

----------------------------------------------------------------------------
(* Properties                                                               *)

Pcs == {"idle", "room", "ack", "com", "not_running", "not_ready", "ready"}

(* The types of all variables.                                              *)
TypeOK ==
  /\ cyclic \in BOOLEAN /\ cmd \in BOOLEAN /\ ack \in BOOLEAN /\ com \in BOOLEAN
  /\ ram \subseteq AppCos /\ dpm \subseteq AppCos
  /\ call \in [pc : Pcs, op : Ops, wait : BOOLEAN, ran : BOOLEAN]
  /\ dev \subseteq CommCos /\ changed \subseteq CommCos /\ chan \subseteq CommCos
  /\ calls \in 0 .. MaxCalls /\ asked \in 0 .. MaxCalls
  /\ stack \in [read : SUBSET AppCos, ready : BOOLEAN, inits : 0 .. MaxCalls,
                restart : BOOLEAN, pc : {"idle", "ack"}]

(* DEV_DoHostCOSChange with a timeout says success only if the stack has    *)
(* read exactly the flags that are in the dual-port memory, whatever was    *)
(* still under way when it was called.                                      *)
AcknowledgedIsSeen ==
  [][Acknowledged /\ call.wait => stack.read = dpm]_vars

(* A channel is not restarted more often than asked for: an enable bit that *)
(* has been signalled does not go out again with a later change.            *)
InitOnce == stack.inits <= asked

(* With the cyclic timer, what was only remembered (timeout 0) reaches the  *)
(* stack: it and the host agree on the application's state.                 *)
FinallyAgreed ==
  cyclic => <>[](stack.ready = ("APPLICATION_READY" \in ram) /\ dpm = ram)
=============================================================================
