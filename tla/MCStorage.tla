------------------------------ MODULE MCStorage ------------------------------
(***************************************************************************)
(* What is kept over a restart and what is configured after it, for TLC,   *)
(* in one run: a behaviour chooses one unit at the start and runs that     *)
(* alone; the others stay in an initial state.                             *)
(***************************************************************************)
EXTENDS MfgStorage

CONSTANTS
  Values,         \* of NvramLayout
  MaxChanges,     \* of NvramLayout
  MaxResets,      \* of StackConfiguration
  MaxReconfigs,   \* of StackConfiguration
  MaxFailures     \* of StackConfiguration

ASSUME UnitsAssumption ==
  /\ Values \subseteq 0 .. 255 /\ MaxChanges \in Nat
  /\ MaxResets \in Nat /\ MaxReconfigs \in Nat /\ MaxFailures \in Nat

VARIABLES
  unit,
  nvImage, nvSize, nvParams, nvFile, nvNext, nvChanges,
  cfgFrames, cfgApp, cfgRegistered, cfgItems, cfgStarted, cfgRemanent, cfgResets,
  cfgReconfigs, cfgFaults

nvVars  == <<nvImage, nvSize, nvParams, nvFile, nvNext, nvChanges>>
cfgVars == <<cfgFrames, cfgApp, cfgRegistered, cfgItems, cfgStarted, cfgRemanent,
             cfgResets, cfgReconfigs, cfgFaults>>

Nvram == INSTANCE NvramLayout WITH
  image <- nvImage, nvsize <- nvSize, params <- nvParams, file <- nvFile,
  next <- nvNext, changes <- nvChanges

Config == INSTANCE StackConfiguration WITH
  MaxFaults <- MaxFailures,
  frames <- cfgFrames, app <- cfgApp, registered <- cfgRegistered, items <- cfgItems,
  started <- cfgStarted, remanent <- cfgRemanent, resets <- cfgResets,
  reconfigs <- cfgReconfigs, faults <- cfgFaults

Units == {"storage", "nvram", "config"}

(* An unit that does not run stays in one of its initial states.            *)
MCInit ==
  /\ unit \in Units
  /\ Init
  /\ Nvram!Init  /\ (unit # "nvram" => nvParams[1] = 0)
  /\ Config!Init

MCNext ==
  \/ unit = "storage" /\ Next         /\ UNCHANGED <<unit, nvVars, cfgVars>>
  \/ unit = "nvram"   /\ Nvram!Next   /\ UNCHANGED <<unit, vars, cfgVars>>
  \/ unit = "config"  /\ Config!Next  /\ UNCHANGED <<unit, vars, nvVars>>

MCSpec == MCInit /\ [][MCNext]_<<unit, vars, nvVars, cfgVars>>

(* The fairness of the unit that runs, as its own specification states it.  *)
MCFairSpec ==
  /\ MCSpec
  /\ WF_vars(unit = "storage" /\ Device)
  /\ WF_cfgVars(unit = "config" /\ Config!Resume)
  /\ WF_cfgVars(unit = "config" /\ Config!Protocol_StartConfiguration)

----------------------------------------------------------------------------
(* Properties: those of MfgStorage, and of the instances                    *)

(* The types of all variables.                                              *)
TypesOK == TypeOK /\ Nvram!TypeOK /\ Config!TypeOK

(* MfgStorage: what the keys ask for is done: a save once, and a reset so   *)
(* that no single failure brings the user's settings back.                  *)
KeysAreServed == ResetIsThorough /\ SaveEnds

(* NvramLayout: an item is read as it was saved, in the middle of a save    *)
(* old, new or not at all, and what lies behind the table decides nothing.  *)
ItemsAreWhole ==
  unit = "nvram" => Nvram!SavedIsRead /\ Nvram!NoItemTorn /\ Nvram!BehindIsHarmless

(* StackConfiguration: communication only with the whole configuration.     *)
StartedIsComplete == Config!StartedIsComplete

(* StackConfiguration: deleted data are restored before the start.          *)
RestoredBeforeStart == Config!RestoredBeforeStart

(* StackConfiguration: every configuration ends, and without failures the   *)
(* device communicates.                                                     *)
FinallyStarted == Config!ConfigurationsEnd /\ Config!FinallyStarted
=============================================================================
