------------------------------ MODULE MfgStorage ------------------------------
(***************************************************************************)
(* The parameters kept over restarts: the file "nvram" on the file system  *)
(* of the communication CPU, its copy RAMCOPY and the variables in RAM     *)
(* (mfg.c), the keys by which a client has them saved or reset             *)
(* (UtilDoMfg), and the shell commands that do the same (Shell.c).         *)
(*                                                                         *)
(* A file operation is a sequence of packets.  Each may fail, the supply   *)
(* may fail between any two, and while one is waited for a client may set  *)
(* another key, since Pkt_SendReceivePacket dispatches indications.        *)
(***************************************************************************)
EXTENDS Naturals

CONSTANTS
  MaxRequests,  \* bound: keys set and shell commands given
  MaxFaults     \* bound: file packets that fail, file systems reported not to be
                \* there, and losses of the supply

ASSUME StorageAssumption == MaxRequests \in Nat /\ MaxFaults \in Nat

VARIABLES
  file,     \* the file, or NoFile
  copy,     \* RAMCOPY, NoFile while it is all zero
  params,   \* SysSerialNumber, SysMacAddress, ... and g_tInterfaceConfig, ...
  key,      \* slclManufacturingInformation.u16Key
  op,       \* the file operation in progress, or NoOp
  up,       \* SYS_InitConfig has been executed
  deleted,  \* history: the shell has deleted the file
  requests, \* bound
  faults    \* history: faults so far

vars == <<file, copy, params, key, op, up, deleted, requests, faults>>

Keys == {"CLEARKEY", "RESETKEY", "FLASHAPP", "OBRKEY", "NVSAVE"}

(* mfg: the items set in production; cfg: those a user sets.                *)
Params == [mfg : {"factory", "initial"}, cfg : {"site", "default"}]
Initial == [mfg |-> "initial", cfg |-> "default"]
NoFile == [mfg |-> "none", cfg |-> "none"]

(* by: who asked for the operation; at: the packet waited for.              *)
Ops == [by : {"obr", "nvsave", "shell"}, at : {"delete", "name", "data", "abort"}]
NoOp == [by |-> "none", at |-> "none"]

Init ==
  /\ file = [mfg |-> "factory", cfg |-> "default"]
  /\ copy = NoFile
  /\ params = Initial
  /\ key = "CLEARKEY"
  /\ op = NoOp
  /\ up = FALSE
  /\ deleted = FALSE
  /\ requests = 0
  /\ faults = 0

----------------------------------------------------------------------------
(* MfgInitParams, reading the file f: a file that is not there leaves       *)
(* RAMCOPY alone, and what is not in RAMCOPY leaves the variables alone.    *)
Reads(f) ==
  LET read == IF f = NoFile THEN copy ELSE f
  IN /\ copy' = read
     /\ params' = IF read = NoFile THEN params ELSE read

(* mks_netX90_system_restart, and what a loss of the supply leaves.         *)
Restart ==
  /\ copy' = NoFile
  /\ params' = Initial
  /\ key' = "CLEARKEY"
  /\ op' = NoOp
  /\ up' = FALSE

(* A packet is answered, or it fails and counts.                            *)
Answered == UNCHANGED faults
Fails == faults < MaxFaults /\ faults' = faults + 1

(* The first part of MfgSaveParams.                                         *)
StartSave(by) ==
  /\ copy' = params
  /\ op' = [by |-> by, at |-> "name"]

(* Mutant: the key stays after it has been served.                          *)
Finish_KeepsKey ==
  IF op.by = "obr" THEN Restart
  ELSE /\ op' = NoOp
       /\ key' = key
       /\ UNCHANGED <<copy, params, up>>

(* What the caller of MfgSaveParams or MfgDelParams does after it.          *)
Finish ==
  IF op.by = "obr" THEN Restart
  ELSE /\ op' = NoOp
       /\ key' = IF op.by = "nvsave" THEN "CLEARKEY" ELSE key
       /\ UNCHANGED <<copy, params, up>>

----------------------------------------------------------------------------
(* The file is read, or cannot be.  A file system that is reported not to   *)
(* be there is formatted first, which ends in a restart; after a format     *)
(* that fails, too, what it may have left is read.                          *)
MfgInitParams ==
  \/ /\ \/ Answered /\ Reads(file)
        \/ Fails /\ Reads(NoFile)
     /\ up' = TRUE
     /\ UNCHANGED <<file, key, op>>
  \/ /\ Fails
     /\ file' = NoFile
     /\ Restart
  \/ /\ Fails
     /\ file' \in {file, NoFile}
     /\ \E f \in {file', NoFile} : Reads(f)
     /\ up' = TRUE
     /\ UNCHANGED <<key, op>>

(* Startup.                                                                 *)
SYS_InitConfig ==
  /\ up = FALSE
  /\ MfgInitParams
  /\ UNCHANGED <<deleted, requests>>

(* MfgSetKey, from a client's request: in the main loop, or dispatched      *)
(* while a file packet is waited for.                                       *)
MfgSetKey(k) ==
  /\ up
  /\ requests < MaxRequests
  /\ requests' = requests + 1
  /\ key' = k
  /\ UNCHANGED <<file, copy, params, op, up, deleted, faults>>

UtilDoMfg ==
  /\ up /\ op = NoOp
  /\ \/ /\ key = "RESETKEY"
        /\ Restart
     \/ /\ key = "OBRKEY"
        /\ op' = [by |-> "obr", at |-> "delete"]
        /\ UNCHANGED <<copy, params, key, up>>
     \/ /\ key = "NVSAVE"
        /\ StartSave("nvsave")
        /\ UNCHANGED <<params, key, up>>
  /\ UNCHANGED <<file, deleted, requests, faults>>

ShellCommand ==
  /\ up /\ op = NoOp
  /\ requests < MaxRequests
  /\ requests' = requests + 1
  /\ \/ /\ params' = [params EXCEPT !.cfg = "site"]  \* ipsave, baseip
        /\ UNCHANGED <<file, copy, key, op, up, deleted, faults>>
     \/ /\ StartSave("shell")                        \* nvsave
        /\ UNCHANGED <<file, params, key, up, deleted, faults>>
     \/ /\ op' = [by |-> "shell", at |-> "delete"]   \* nvdel
        /\ deleted' = TRUE
        /\ UNCHANGED <<file, copy, params, key, up, faults>>
     \/ /\ MfgInitParams                             \* nvshow
        /\ UNCHANGED deleted

(* Mutant: the reset takes the production items back as well.               *)
DeleteConfirmed_AllDefaults ==
  /\ op.at = "delete"
  /\ \/ Answered /\ file' = NoFile
     \/ Fails /\ file' \in {file, NoFile}
  /\ IF op.by = "obr"
     THEN /\ params' = Initial
          /\ copy' = params'
          /\ op' = [op EXCEPT !.at = "name"]
          /\ UNCHANGED <<key, up>>
     ELSE Finish
  /\ UNCHANGED <<deleted, requests>>

(* Mutant: the reset deletes another file.                                  *)
DeleteConfirmed_OtherFile ==
  /\ op.at = "delete"
  /\ \/ Answered /\ file' = file
     \/ Fails /\ file' = file
  /\ IF op.by = "obr"
     THEN /\ params' = [params EXCEPT !.cfg = "default"]
          /\ copy' = params'
          /\ op' = [op EXCEPT !.at = "name"]
          /\ UNCHANGED <<key, up>>
     ELSE Finish
  /\ UNCHANGED <<deleted, requests>>

(* FileSystemDelete; the rest of an out of box reset then follows whether   *)
(* or not it succeeded.                                                     *)
DeleteConfirmed ==
  /\ op.at = "delete"
  /\ \/ Answered /\ file' = NoFile
     \/ Fails /\ file' \in {file, NoFile}
  /\ IF op.by = "obr"
     THEN /\ params' = [params EXCEPT !.cfg = "default"]
          /\ copy' = params'
          /\ op' = [op EXCEPT !.at = "name"]
          /\ UNCHANGED <<key, up>>
     ELSE Finish
  /\ UNCHANGED <<deleted, requests>>

(* FileSystemWrite, the first packet: the name of the file.                 *)
NameConfirmed ==
  /\ op.at = "name"
  /\ \/ Answered /\ op' = [op EXCEPT !.at = "data"] /\ UNCHANGED <<copy, params, key, up>>
     \/ Fails /\ op' = [op EXCEPT !.at = "abort"] /\ UNCHANGED <<copy, params, key, up>>
     \/ Fails /\ Finish
  /\ UNCHANGED <<file, deleted, requests>>

(* The second packet: the data, or the end of a refused write.              *)
DataConfirmed ==
  /\ op.at \in {"data", "abort"}
  /\ \/ Answered /\ file' = IF op.at = "data" THEN copy ELSE file
     \/ Fails /\ file' \in IF op.at = "data" THEN {file, copy} ELSE {file}
  /\ Finish
  /\ UNCHANGED <<deleted, requests>>

(* The supply fails.                                                        *)
Crash ==
  /\ up
  /\ Fails
  /\ Restart
  /\ UNCHANGED <<file, deleted, requests>>

Device == SYS_InitConfig \/ UtilDoMfg \/ DeleteConfirmed \/ NameConfirmed \/ DataConfirmed

Next == Device \/ ShellCommand \/ Crash \/ \E k \in Keys : MfgSetKey(k)

Spec == Init /\ [][Next]_vars

(* The main loop runs on and every packet waited for ends, by its timeout   *)
(* if nothing else.                                                         *)
FairSpec == Spec /\ WF_vars(Device)

----------------------------------------------------------------------------
(* Properties                                                               *)

(* The types of all variables.                                              *)
TypeOK ==
  /\ file \in Params \cup {NoFile}
  /\ copy \in Params \cup {NoFile}
  /\ params \in Params
  /\ key \in Keys
  /\ op \in Ops \cup {NoOp}
  /\ up \in BOOLEAN
  /\ deleted \in BOOLEAN
  /\ requests \in 0 .. MaxRequests
  /\ faults \in 0 .. MaxFaults

(* As long as nothing fails and the shell deletes nothing, the items set in *)
(* production survive all saves and resets, also at the one moment of an    *)
(* out of box reset when they are in RAM only.                              *)
FactoryDataSurvives ==
  faults = 0 /\ ~deleted =>
    /\ up => params.mfg = "factory"
    /\ \/ file.mfg = "factory"
       \/ op.by = "obr" /\ op.at \in {"name", "data"} /\ copy.mfg = "factory"

(* Once an out of box reset is past its delete, no single failure, not even *)
(* a loss of the supply, lets the next start find the user's settings.      *)
ResetIsThorough ==
  [][op.by = "obr" /\ op.at # "delete" /\ ~up' /\ faults' <= 1
     => file'.cfg # "site"]_vars

(* A save asked for by the key is made once: its key does not stay.         *)
SaveEnds == key = "NVSAVE" ~> key # "NVSAVE"

(* As MfgSaveParams notes ("These are MFG items and should persist even     *)
(* through OBR"), production items that are known in RAM when an out of box *)
(* reset is going on are in the file when the device restarts.              *)
ProductionItemsPersist ==
  [][op.by = "obr" /\ params.mfg = "factory" /\ ~up' => file'.mfg = "factory"]_vars
=============================================================================
