-------------------------- MODULE StackConfiguration --------------------------
(***************************************************************************)
(* The configuration of the EtherNet/IP stack by the application: at       *)
(* startup (Protocol_StartConfiguration), by the terminal's "reconfig" and *)
(* by reset indications (AppEIS_HandleResetInd).                           *)
(*                                                                         *)
(* A configuration is a sequence of requests, each waited for with         *)
(* Pkt_SendReceivePacket.  A reset indication that arrives meanwhile is    *)
(* handled inside that wait, with a configuration of its own: the          *)
(* configurations in progress form a stack of frames.  Requests reach the  *)
(* stack in the order they are sent, so what a request does is decided     *)
(* when it is sent and seen when its frame resumes.                        *)
(***************************************************************************)
EXTENDS Naturals, Sequences, SequencesExt

CONSTANTS
  MaxResets,     \* bound: reset services of clients
  MaxReconfigs,  \* bound: "reconfig" commands
  MaxFaults      \* bound: requests that are refused or get no answer, and a
                 \* startup that fails before the first of them

ASSUME ConfigurationAssumption ==
  MaxResets \in Nat /\ MaxReconfigs \in Nat /\ MaxFaults \in Nat

VARIABLES
  frames,      \* configurations in progress, the innermost last
  app,         \* "startup", "running", or "failed": only the shell is served
  registered,  \* stack: the application receives indications
  items,       \* stack: what has been configured
  started,     \* stack: communication is started
  remanent,    \* stack: its remanent data
  resets,      \* bound
  reconfigs,   \* bound and history
  faults       \* bound and history

vars == <<frames, app, registered, items, started, remanent, resets, reconfigs, faults>>
stackVars == <<registered, items, started, remanent>>

(* One item for each of the loops over the tables.                          *)
Items == {"assemblies", "connections", "objects", "attributes"}

(* Mutant: communication is not started after the configuration.            *)
ConfigureStack_NoStart ==
  <<"assemblies", "connections", "objects", "attributes", "done">>

(* Mutant: communication is started before the configuration is complete.   *)
ConfigureStack_StartFirst ==
  <<"assemblies", "connections", "objects", "attributes", "start", "done">>

ConfigureStack ==
  <<"assemblies", "connections", "objects", "attributes", "done", "start">>

Starts == {"startup", "reconfig", "reset", "factory"}

(* The requests a configuration consists of.                                *)
Requests ==
  [startup |-> <<"mac", "ddp", "app", "data">> \o ConfigureStack,
   reconfig |-> ConfigureStack,
   reset |-> <<"init">> \o ConfigureStack,
   factory |-> <<"delete", "init">> \o ConfigureStack]

Outcomes == {"ok", "refused", "lost"}
Frame == [why : Starts, at : 1 .. 10, seen : Outcomes]

Init ==
  /\ frames = <<>>
  /\ app = "startup"
  /\ registered = FALSE
  /\ items = {}
  /\ started = FALSE
  /\ remanent = "user"
  /\ resets = 0
  /\ reconfigs = 0
  /\ faults = 0

----------------------------------------------------------------------------
(* Mutant: the completion of the configuration counts as part of it.        *)
Does_DoneIsItem(request) ==
  /\ registered' = (registered \/ request = "app")
  /\ items' = CASE request = "init" -> {}
                [] request \in Items \cup {"done"} -> items \cup {request}
                [] OTHER -> items
  /\ started' = IF request = "init" THEN FALSE
                ELSE started \/ request = "start"
  /\ UNCHANGED remanent

(* What the stack does with a request.                                      *)
Does(request) ==
  /\ registered' = (registered \/ request = "app")
  /\ items' = CASE request = "init" -> {}
                [] request \in Items -> items \cup {request}
                [] OTHER -> items
  /\ started' = IF request = "init" THEN FALSE
                ELSE started \/ request = "start"
  /\ remanent' = CASE request = "delete" -> "invalid"
                   [] request = "done" /\ remanent = "invalid" -> "default"
                   [] OTHER -> remanent

(* A request is sent from the frame f, now on top of below.                 *)
Send(below, f) ==
  LET request == Requests[f.why][f.at]
  IN \E seen \in Outcomes :
       /\ frames' = Append(below, [f EXCEPT !.seen = seen])
       /\ IF seen = "ok" THEN UNCHANGED faults
          ELSE faults < MaxFaults /\ faults' = faults + 1
       /\ \/ seen # "refused" /\ Does(request)
          \/ seen # "ok" /\ UNCHANGED stackVars

Start(why) == Send(frames, [why |-> why, at |-> 1, seen |-> "ok"])

----------------------------------------------------------------------------
(* Before the first request the receive queue, the configuration from the   *)
(* switches (SYS_InitConfig) or the registration of the handler may fail.   *)
Protocol_StartConfiguration ==
  /\ app = "startup" /\ frames = <<>>
  /\ \/ Start("startup") /\ UNCHANGED app
     \/ /\ faults < MaxFaults
        /\ faults' = faults + 1
        /\ app' = "failed"
        /\ UNCHANGED <<frames, stackVars>>
  /\ UNCHANGED <<resets, reconfigs>>

(* The terminal's "reconfig"; the terminal is served after a failed         *)
(* configuration, too.                                                      *)
Term_ReconfigCommand ==
  /\ app # "startup" /\ frames = <<>>
  /\ reconfigs < MaxReconfigs
  /\ reconfigs' = reconfigs + 1
  /\ Start("reconfig")
  /\ UNCHANGED <<app, resets>>

(* A client resets the device, and the main loop or a wait receives the     *)
(* indication.  While communication is stopped no client can.               *)
AppEIS_HandleResetInd ==
  /\ app # "startup" \/ frames # <<>>
  /\ registered /\ started
  /\ resets < MaxResets
  /\ resets' = resets + 1
  /\ \E why \in {"reset", "factory"} : Start(why)
  /\ UNCHANGED <<app, reconfigs>>

(* Mutant: the error of a request is not looked at.                         *)
StopsAt_Never(request, seen) == FALSE

(* What ends a configuration: those of the reset itself are not looked at,  *)
(* and of the registration only that it was answered.                       *)
StopsAt(request, seen) ==
  CASE request \in {"delete", "init"} -> FALSE
    [] request = "app" -> seen = "lost"
    [] OTHER -> seen # "ok"

(* Mutant: the index of a loop starts over.                                 *)
NextRequest_StartsOver(f) == [f EXCEPT !.at = (f.at % 5) + 1]

NextRequest(f) == [f EXCEPT !.at = f.at + 1]

(* The main loop is entered after a complete configuration, or one that the *)
(* stack has stopped with ERR_HIL_FIRMWARE_STARTUP_ERROR.                   *)
StartupEnds(stops, seen) ==
  IF ~stops THEN {"running"}
  ELSE IF seen = "refused" THEN {"running", "failed"} ELSE {"failed"}

(* The innermost configuration sees its answer and goes on, or returns.     *)
Resume ==
  /\ frames # <<>>
  /\ LET f == Last(frames)
         below == Front(frames)
         stops == StopsAt(Requests[f.why][f.at], f.seen)
     IN IF stops \/ f.at = Len(Requests[f.why])
        THEN /\ frames' = below
             /\ app' \in IF f.why # "startup" THEN {app}
                         ELSE StartupEnds(stops, f.seen)
             /\ UNCHANGED <<stackVars, faults>>
        ELSE /\ Send(below, NextRequest(f))
             /\ UNCHANGED app
  /\ UNCHANGED <<resets, reconfigs>>

(* A client changes settings, the stack stores them.                        *)
StoreRemanentData ==
  /\ started
  /\ remanent' = "user"
  /\ UNCHANGED <<frames, app, registered, items, started, resets, reconfigs, faults>>

Next == \/ Protocol_StartConfiguration \/ Term_ReconfigCommand
        \/ AppEIS_HandleResetInd \/ Resume \/ StoreRemanentData

Spec == Init /\ [][Next]_vars

(* The application runs on, and a wait ends, by its timeout at the latest.  *)
FairSpec == Spec /\ WF_vars(Resume) /\ WF_vars(Protocol_StartConfiguration)

----------------------------------------------------------------------------
(* Properties                                                               *)

(* The types of all variables.                                              *)
TypeOK ==
  /\ frames \in Seq(Frame)
  /\ app \in {"startup", "running", "failed"}
  /\ registered \in BOOLEAN
  /\ items \subseteq Items
  /\ started \in BOOLEAN
  /\ remanent \in {"user", "invalid", "default"}
  /\ resets \in 0 .. MaxResets
  /\ reconfigs \in 0 .. MaxReconfigs
  /\ faults \in 0 .. MaxFaults

(* Whatever resets are nested in each other, the stack communicates with    *)
(* the whole configuration only, as long as not more than one request fails *)
(* and the terminal's "reconfig" was not used, or as long as none fails.    *)
StartedIsComplete ==
  faults = 0 \/ (faults = 1 /\ reconfigs = 0) => (started => items = Items)

(* Every configuration comes to its end, with those nested in it.           *)
ConfigurationsEnd == frames # <<>> ~> frames = <<>>

(* Without failures the device communicates in the end, once the startup    *)
(* has come to the configuration.                                           *)
FinallyStarted == <>[](app # "startup" /\ faults = 0 => started)

(* The data a factory reset has deleted are restored from the configuration *)
(* before communication starts again, however resets nest ("The stack will  *)
(* then reset the remanent data", AppEIS_HandleResetInd): the stack is      *)
(* without them only while a factory reset is on its way to the channel     *)
(* init.                                                                    *)
RestoredBeforeStart ==
  faults = 0 /\ started /\ remanent = "invalid" =>
    \E i \in DOMAIN frames : frames[i].why = "factory" /\ frames[i].at = 1
=============================================================================
