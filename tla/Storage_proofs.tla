-------------------------- MODULE Storage_proofs ------------------------------
(***************************************************************************)
(* Theorems about what the device keeps and configures itself from.        *)
(*                                                                         *)
(* MfgStorage: the production items survive saves and resets, whatever the *)
(* number of requests, as between the delete and the data of an out of box *)
(* reset RAMCOPY holds what RAM holds; and a reset is thorough.            *)
(* StackConfiguration: what communicates is the whole configuration,       *)
(* however deep resets nest.  NvramLayout: what is read is what was saved. *)
(***************************************************************************)
EXTENDS MCStorage, SearchLemmas, TLAPS, SequenceTheorems

(* An operation is going on in a running device; only the key OBRKEY and    *)
(* the shell delete; a write is given up only after a fault; RAMCOPY is the *)
(* image of the variables until it has been written.                        *)
OperationsInOrder ==
  /\ op # NoOp => up
  /\ op.by = "nvsave" => op.at # "delete"
  /\ op.by = "shell" /\ op.at = "delete" => deleted
  /\ op.at = "abort" => faults > 0
  /\ op.at \in {"name", "data"} => copy = params

IInv == TypeOK /\ OperationsInOrder /\ FactoryDataSurvives

(* The initial states.                                                      *)
LEMMA Initially == Init => IInv
<1> SUFFICES ASSUME Init PROVE IInv
  OBVIOUS
<1>1. TypeOK
  <2>1. requests \in 0 .. MaxRequests /\ faults \in 0 .. MaxFaults
    BY StorageAssumption DEF Init
  <2>2. file \in Params /\ params \in Params /\ copy = NoFile /\ op = NoOp /\ key \in Keys
    BY DEF Init, Params, Initial, Keys
  <2>3. up \in BOOLEAN /\ deleted \in BOOLEAN
    BY DEF Init
  <2> QED
    BY <2>1, <2>2, <2>3 DEF TypeOK
<1>2. OperationsInOrder
  BY DEF Init, OperationsInOrder, NoOp
<1>3. FactoryDataSurvives
  BY DEF Init, FactoryDataSurvives
<1> QED
  BY <1>1, <1>2, <1>3 DEF IInv

(* Whatever is loaded, without a fault it is the file; a format is a fault. *)
LEMMA LoadStep ==
  ASSUME IInv, MfgInitParams, op = NoOp, UNCHANGED deleted, requests' \in 0 .. MaxRequests
  PROVE  IInv'
<1> USE DEF IInv
<1>1. \/ faults' = faults /\ file' = file /\ Reads(file) /\ UNCHANGED <<key, op>> /\ up' = TRUE
      \/ /\ faults' = faults + 1 /\ faults < MaxFaults /\ file' \in {file, NoFile}
         /\ \/ Restart
            \/ /\ \E f \in {file, NoFile} : Reads(f)
               /\ up' = TRUE /\ UNCHANGED <<key, op>>
  BY DEF MfgInitParams, Answered, Fails
<1>2. CASE faults' = faults /\ file' = file /\ Reads(file) /\ UNCHANGED <<key, op>> /\ up' = TRUE
  <2>1. TypeOK'
    BY <1>2 DEF TypeOK, Reads
  <2>2. OperationsInOrder'
    BY <1>2 DEF OperationsInOrder, NoOp
  <2>3. ASSUME faults' = 0, ~deleted' PROVE params'.mfg = "factory" /\ file'.mfg = "factory"
    <3>1. file.mfg = "factory"
      BY <1>2, <2>3 DEF FactoryDataSurvives, NoOp
    <3> QED
      BY <1>2, <3>1 DEF NoFile, Reads
  <2> QED
    BY <2>1, <2>2, <2>3 DEF FactoryDataSurvives
<1>3. CASE /\ faults' = faults + 1 /\ faults < MaxFaults /\ file' \in {file, NoFile}
           /\ \/ Restart
              \/ /\ \E f \in {file, NoFile} : Reads(f)
                 /\ up' = TRUE /\ UNCHANGED <<key, op>>
  <2>1. faults' \in 0 .. MaxFaults /\ faults' # 0
    BY <1>3, StorageAssumption DEF TypeOK
  <2>2. TypeOK'
    <3>1. CASE Restart
      <4>1. params' \in Params /\ key' \in Keys /\ up' \in BOOLEAN
        BY <3>1 DEF Restart, Params, Initial, Keys
      <4>2. file' \in Params \cup {NoFile} /\ deleted' \in BOOLEAN
        BY <1>3 DEF TypeOK
      <4> QED
        BY <2>1, <3>1, <4>1, <4>2 DEF TypeOK, Restart
    <3>2. CASE /\ \E f \in {file, NoFile} : Reads(f)
               /\ up' = TRUE /\ UNCHANGED <<key, op>>
      BY <1>3, <2>1, <3>2 DEF TypeOK, Reads
    <3> QED
      BY <1>3, <3>1, <3>2
  <2>3. OperationsInOrder'
    BY <1>3 DEF OperationsInOrder, NoOp, Restart
  <2> QED
    BY <2>1, <2>2, <2>3 DEF FactoryDataSurvives
<1> QED
  BY <1>1, <1>2, <1>3

(* Startup.                                                                 *)
LEMMA StartupStep == IInv /\ SYS_InitConfig => IInv'
<1> SUFFICES ASSUME IInv, SYS_InitConfig PROVE IInv'
  OBVIOUS
<1>1. op = NoOp
  BY DEF IInv, OperationsInOrder, SYS_InitConfig
<1>2. requests' \in 0 .. MaxRequests
  BY DEF IInv, TypeOK, SYS_InitConfig
<1> QED
  BY <1>1, <1>2, LoadStep DEF SYS_InitConfig

(* A key that is set disturbs nothing.                                      *)
LEMMA KeyStep == IInv /\ (\E k \in Keys : MfgSetKey(k)) => IInv'
BY StorageAssumption
DEF IInv, MfgSetKey, TypeOK, OperationsInOrder, FactoryDataSurvives

(* The start of an operation by a key.                                      *)
LEMMA TaskStep == IInv /\ UtilDoMfg => IInv'
<1> SUFFICES ASSUME IInv, UtilDoMfg PROVE IInv'
  OBVIOUS
<1> USE DEF IInv, UtilDoMfg, TypeOK, OperationsInOrder, FactoryDataSurvives, Keys, Ops,
            NoOp, Params, Initial, NoFile
<1>1. CASE Restart
  BY <1>1 DEF Restart
<1>2. CASE op' = [by |-> "obr", at |-> "delete"] /\ UNCHANGED <<copy, params, key, up>>
  BY <1>2
<1>3. CASE StartSave("nvsave") /\ UNCHANGED <<params, key, up>>
  BY <1>3 DEF StartSave
<1> QED
  BY <1>1, <1>2, <1>3

(* A command of the shell.                                                  *)
LEMMA ShellStep == IInv /\ ShellCommand => IInv'
<1> SUFFICES ASSUME IInv, ShellCommand PROVE IInv'
  OBVIOUS
<1>0. requests' \in 0 .. MaxRequests /\ op = NoOp
  BY StorageAssumption DEF IInv, TypeOK, ShellCommand
<1> USE DEF IInv, TypeOK, OperationsInOrder, FactoryDataSurvives, Keys, Ops,
            NoOp, Params, Initial, NoFile
<1>1. CASE /\ params' = [params EXCEPT !.cfg = "site"]
           /\ UNCHANGED <<file, copy, key, op, up, deleted, faults>>
  BY <1>0, <1>1
<1>2. CASE StartSave("shell") /\ UNCHANGED <<file, params, key, up, deleted, faults>>
  BY <1>0, <1>2 DEF StartSave, ShellCommand
<1>3. CASE /\ op' = [by |-> "shell", at |-> "delete"] /\ deleted' = TRUE
           /\ UNCHANGED <<file, copy, params, key, up, faults>>
  BY <1>0, <1>3 DEF ShellCommand
<1>4. CASE MfgInitParams /\ UNCHANGED deleted
  <2> HIDE DEF IInv, NoOp
  <2> QED
    BY <1>0, <1>4, LoadStep
<1> QED
  BY <1>1, <1>2, <1>3, <1>4 DEF ShellCommand

(* The end of an operation, when it leaves the production items in the file. *)
LEMMA FinishStep ==
  ASSUME IInv, op # NoOp, Finish, UNCHANGED <<deleted, requests>>,
         file' \in Params \cup {NoFile}, faults' \in 0 .. MaxFaults, faults' >= faults,
         faults' = 0 /\ ~deleted => file'.mfg = "factory"
  PROVE  IInv'
<1> USE DEF IInv, TypeOK, OperationsInOrder, FactoryDataSurvives, Keys, Ops,
            NoOp, Params, Initial, NoFile
<1>1. CASE op.by = "obr"
  <2>1. Restart
    BY <1>1 DEF Finish
  <2>2. TypeOK'
    BY <2>1 DEF Restart
  <2>3. OperationsInOrder'
    BY <2>1 DEF Restart
  <2>4. up' = FALSE
    BY <2>1 DEF Restart
  <2>5. FactoryDataSurvives'
    BY <2>4
  <2> QED
    BY <2>2, <2>3, <2>5
<1>2. CASE op.by # "obr"
  BY <1>2 DEF Finish
<1> QED
  BY <1>1, <1>2

(* The delete: of the shell, or the first packet of an out of box reset.    *)
LEMMA DeleteStep == IInv /\ DeleteConfirmed => IInv'
<1> SUFFICES ASSUME IInv, DeleteConfirmed PROVE IInv'
  OBVIOUS
<1>1. /\ op # NoOp /\ op.at = "delete" /\ UNCHANGED <<deleted, requests>>
      /\ file' \in Params \cup {NoFile}
      /\ faults' \in 0 .. MaxFaults /\ faults' >= faults
  BY StorageAssumption DEF IInv, TypeOK, DeleteConfirmed, Answered, Fails, NoOp
<1>2. CASE op.by # "obr"
  <2>1. op.by = "shell"
    BY <1>1, <1>2 DEF IInv, TypeOK, OperationsInOrder, Ops
  <2>2. deleted
    BY <1>1, <2>1 DEF IInv, OperationsInOrder
  <2> QED
    BY <1>1, <1>2, <2>2, FinishStep DEF DeleteConfirmed
<1>3. CASE op.by = "obr"
  BY <1>1, <1>3
  DEF DeleteConfirmed, IInv, TypeOK, OperationsInOrder, FactoryDataSurvives, Ops, NoOp, Params
<1> QED
  BY <1>2, <1>3

(* The name: the write goes on, is refused, or ends with a fault.           *)
LEMMA NameStep == IInv /\ NameConfirmed => IInv'
<1> SUFFICES ASSUME IInv, NameConfirmed PROVE IInv'
  OBVIOUS
<1> USE DEF NameConfirmed, IInv
<1>1. CASE /\ Answered /\ op' = [op EXCEPT !.at = "data"]
           /\ UNCHANGED <<copy, params, key, up>>
  BY <1>1
  DEF Answered, TypeOK, OperationsInOrder, FactoryDataSurvives, Ops, NoOp
<1>2. CASE /\ Fails /\ op' = [op EXCEPT !.at = "abort"]
           /\ UNCHANGED <<copy, params, key, up>>
  BY <1>2, StorageAssumption
  DEF Fails, TypeOK, OperationsInOrder, FactoryDataSurvives, Ops, NoOp
<1>3. CASE Fails /\ Finish
  <2>1. faults' \in 0 .. MaxFaults /\ faults' > faults /\ faults' # 0
    BY <1>3, StorageAssumption DEF Fails, TypeOK
  <2> QED
    BY <1>3, <2>1, FinishStep DEF TypeOK, NoOp
<1> QED
  BY <1>1, <1>2, <1>3

(* The data: without a fault the file becomes RAMCOPY.                      *)
LEMMA DataStep == IInv /\ DataConfirmed => IInv'
<1> SUFFICES ASSUME IInv, DataConfirmed PROVE IInv'
  OBVIOUS
<1> USE DEF DataConfirmed, IInv
<1>1. /\ op # NoOp /\ Finish /\ UNCHANGED <<deleted, requests>>
      /\ file' \in Params \cup {NoFile}
      /\ faults' \in 0 .. MaxFaults /\ faults' >= faults
  BY StorageAssumption DEF TypeOK, Answered, Fails, NoOp
<1>2. ASSUME faults' = 0, ~deleted PROVE file'.mfg = "factory"
  <2>1. faults = 0 /\ Answered /\ op.at = "data"
    BY <1>2, StorageAssumption
    DEF TypeOK, Answered, Fails, OperationsInOrder
  <2>2. file' = copy /\ copy = params /\ up
    BY <1>1, <1>2, <2>1 DEF OperationsInOrder, Fails, TypeOK
  <2> QED
    BY <1>2, <2>1, <2>2 DEF FactoryDataSurvives
<1> QED
  BY <1>1, <1>2, FinishStep

(* The supply fails: this is a fault.                                       *)
LEMMA CrashStep == IInv /\ Crash => IInv'
<1> SUFFICES ASSUME IInv, Crash PROVE IInv'
  OBVIOUS
<1> USE DEF IInv, Crash, Fails, Restart, NoOp
<1>1. TypeOK'
  <2>1. faults' \in 0 .. MaxFaults
    BY StorageAssumption DEF TypeOK
  <2>2. params' \in Params /\ copy' = NoFile /\ op' = NoOp /\ key' \in Keys
    BY DEF Params, Initial, Keys
  <2>3. up' \in BOOLEAN /\ UNCHANGED <<file, deleted, requests>>
    OBVIOUS
  <2> QED
    BY <2>1, <2>2, <2>3 DEF TypeOK
<1>2. OperationsInOrder'
  BY DEF OperationsInOrder
<1>3. faults' # 0
  BY StorageAssumption DEF TypeOK
<1>4. FactoryDataSurvives'
  BY <1>3 DEF FactoryDataSurvives
<1> QED
  BY <1>1, <1>2, <1>4

(* The invariant is inductive.                                              *)
LEMMA Inductive == IInv /\ [Next]_vars => IInv'
<1>1. IInv /\ UNCHANGED vars => IInv'
  BY DEF IInv, vars, TypeOK, OperationsInOrder, FactoryDataSurvives
<1> QED
  BY <1>1, StartupStep, KeyStep, TaskStep, ShellStep, DeleteStep, NameStep, DataStep,
     CrashStep DEF Next, Device

(* In every behaviour.                                                      *)
LEMMA Invariance == Spec => []IInv
BY Initially, Inductive, PTL DEF Spec

(* The variables keep their types.                                          *)
THEOREM Typing == Spec => []TypeOK
<1>1. IInv => TypeOK
  BY DEF IInv
<1> QED
  BY <1>1, Invariance, PTL

(* As long as nothing fails and the shell deletes nothing, saves and out of *)
(* box resets keep the production items, for any number of requests.        *)
THEOREM ProductionSafety == Spec => []FactoryDataSurvives
<1>1. IInv => FactoryDataSurvives
  BY DEF IInv
<1> QED
  BY <1>1, Invariance, PTL

(* After the delete of an out of box reset RAMCOPY has the default          *)
(* settings, and the file has not those of the user, or the single fault    *)
(* has been used up for that.                                               *)
Resetting == op.by = "obr" /\ op.at # "delete"
PastDelete ==
  Resetting =>
    /\ copy.cfg = "default"
    /\ op.at = "abort" /\ faults <= 1 => file.cfg # "site"
    /\ op.at \in {"name", "data"} /\ faults = 0 => file.cfg # "site"

(* What no single failure brings back.                                      *)
Thorough == Resetting /\ ~up' /\ faults' <= 1 => file'.cfg # "site"

(* The steps that are possible between the delete and the data.             *)
LEMMA ResettingSteps ==
  ASSUME IInv, PastDelete, Resetting, [Next]_vars
  PROVE  \/ NameConfirmed \/ DataConfirmed \/ Crash \/ \E k \in Keys : MfgSetKey(k)
         \/ UNCHANGED vars
<1>1. op # NoOp /\ up /\ op.at # "delete"
  BY DEF Resetting, NoOp, IInv, OperationsInOrder
<1> QED
  BY <1>1 DEF Next, Device, SYS_InitConfig, UtilDoMfg, DeleteConfirmed, ShellCommand

LEMMA ResetThorough == IInv /\ PastDelete /\ [Next]_vars => Thorough
<1> SUFFICES ASSUME IInv, PastDelete, [Next]_vars, Resetting, ~up', faults' <= 1
             PROVE  file'.cfg # "site"
  BY DEF Thorough
<1>1. /\ up /\ op.at \in {"name", "data", "abort"} /\ faults \in Nat /\ copy.cfg = "default"
      /\ op.at = "abort" /\ faults <= 1 => file.cfg # "site"
      /\ op.at \in {"name", "data"} /\ faults = 0 => file.cfg # "site"
  BY DEF Resetting, NoOp, IInv, TypeOK, OperationsInOrder, Ops, PastDelete
<1>2. CASE NameConfirmed
  <2>1. op.at = "name" /\ file' = file /\ ~UNCHANGED up
    BY <1>1, <1>2, Zenon DEF NameConfirmed
  <2>2. Fails
    BY <1>2, <2>1, Zenon DEF NameConfirmed
  <2>3. faults = 0
    BY <1>1, <2>2 DEF Fails
  <2> QED
    BY <1>1, <2>1, <2>3
<1>3. CASE DataConfirmed
  <2>1. CASE op.at = "data"
    BY <1>1, <1>3, <2>1 DEF DataConfirmed, Answered, Fails
  <2>2. CASE op.at = "abort"
    BY <1>1, <1>3, <2>2 DEF DataConfirmed, Answered, Fails
  <2> QED
    BY <1>3, <2>1, <2>2 DEF DataConfirmed
<1>4. CASE Crash
  BY <1>1, <1>4 DEF Crash, Fails, IInv, OperationsInOrder
<1>5. CASE \E k \in Keys : MfgSetKey(k)
  BY <1>1, <1>5 DEF MfgSetKey
<1>6. CASE UNCHANGED vars
  BY <1>1, <1>6 DEF vars
<1> QED
  BY <1>2, <1>3, <1>4, <1>5, <1>6, ResettingSteps

LEMMA PastDeleteStep == IInv /\ PastDelete /\ [Next]_vars => PastDelete'
<1> SUFFICES ASSUME IInv, PastDelete, [Next]_vars, Resetting' PROVE PastDelete'
  BY DEF PastDelete
<1>1. faults \in Nat
  BY DEF IInv, TypeOK
<1>2. CASE Resetting
  <2>1. /\ op \in Ops /\ op.at \in {"name", "data", "abort"} /\ copy.cfg = "default"
        /\ op.at = "abort" /\ faults <= 1 => file.cfg # "site"
        /\ op.at \in {"name", "data"} /\ faults = 0 => file.cfg # "site"
    BY <1>2 DEF Resetting, NoOp, IInv, TypeOK, Ops, PastDelete
  <2>2. CASE NameConfirmed
    <3>1. ~Finish
      BY <1>2 DEF Resetting, Finish, Restart, NoOp
    <3> QED
      BY <1>1, <2>1, <2>2, <3>1
      DEF NameConfirmed, Answered, Fails, PastDelete, Resetting, Ops
  <2>3. CASE DataConfirmed
    BY <1>2, <2>3 DEF DataConfirmed, Finish, Restart, NoOp, Resetting
  <2>4. CASE Crash
    BY <2>4 DEF Crash, Restart, NoOp, Resetting
  <2>5. CASE \E k \in Keys : MfgSetKey(k)
    BY <2>1, <2>5 DEF MfgSetKey, PastDelete, Resetting
  <2>6. CASE UNCHANGED vars
    BY <2>1, <2>6 DEF vars, PastDelete, Resetting
  <2> QED
    BY <1>2, <2>2, <2>3, <2>4, <2>5, <2>6, ResettingSteps
<1>3. CASE ~Resetting
  <2>1. DeleteConfirmed /\ op.by = "obr"
    <3>1. op'.by = "obr" /\ op'.at # "delete"
      BY DEF Resetting
    <3>2. ~Restart
      BY <3>1 DEF Restart, NoOp
    <3>3. ~UNCHANGED op
      BY <1>3, <3>1 DEF Resetting
    <3>4. ~Finish
      BY <3>1, <3>2 DEF Finish, NoOp
    <3>5. ~SYS_InitConfig /\ ~Crash /\ ~(\E k \in Keys : MfgSetKey(k)) /\ ~UNCHANGED vars
      BY <3>2, <3>3 DEF SYS_InitConfig, MfgInitParams, Crash, MfgSetKey, vars
    <3>6. ~UtilDoMfg /\ ~ShellCommand
      BY <3>1, <3>2, <3>3 DEF UtilDoMfg, ShellCommand, MfgInitParams, StartSave
    <3>7. ~DataConfirmed
      BY <3>4 DEF DataConfirmed
    <3>8. ~NameConfirmed
      <4>1. op \in Ops \cup {NoOp}
        BY DEF IInv, TypeOK
      <4> QED
        BY <1>3, <3>1, <3>4, <4>1 DEF NameConfirmed, Resetting, Ops, NoOp
    <3>9. DeleteConfirmed
      BY <3>5, <3>6, <3>7, <3>8 DEF Next, Device
    <3> QED
      BY <3>4, <3>9 DEF DeleteConfirmed
  <2>2. /\ op' = [op EXCEPT !.at = "name"] /\ params' = [params EXCEPT !.cfg = "default"]
        /\ copy' = params' /\ op \in Ops /\ params \in Params
    BY <2>1 DEF DeleteConfirmed, IInv, TypeOK, NoOp
  <2>3. faults' = 0 => file' = NoFile
    BY <1>1, <2>1 DEF DeleteConfirmed, Answered, Fails
  <2>4. op'.at = "name" /\ copy'.cfg = "default"
    BY <2>2 DEF Ops, Params
  <2> QED
    BY <2>3, <2>4 DEF PastDelete, NoFile
<1> QED
  BY <1>2, <1>3

(* Once an out of box reset is past its delete no single failure brings the *)
(* user's settings back, whatever the number of requests.                   *)
THEOREM ResetSafety == Spec => ResetIsThorough
<1>1. Init => PastDelete
  BY DEF Init, PastDelete, Resetting, NoOp
<1>2. IInv /\ PastDelete /\ [Next]_vars =>
        [op.by = "obr" /\ op.at # "delete" /\ ~up' /\ faults' <= 1
           => file'.cfg # "site"]_vars
  BY ResetThorough DEF Thorough, Resetting
<1> QED
  BY <1>1, <1>2, PastDeleteStep, Invariance, PTL DEF Spec, ResetIsThorough

----------------------------------------------------------------------------
(* StackConfiguration                                                       *)

(* The requests of a configuration before those of ConfigureStack.          *)
Before(why) == CASE why = "startup" -> 4 [] why = "reset" -> 1 [] why = "factory" -> 2
                 [] OTHER -> 0
Length(f)   == Before(f.why) + 6
Request(f)  == Config!Requests[f.why][f.at]

(* A frame is at a request of its configuration.                            *)
CfgFrames == {f \in Config!Frame : f.at <= Length(f)}

(* What the request at each place is.                                       *)
LEMMA RequestAt ==
  ASSUME NEW f \in CfgFrames
  PROVE  /\ Len(Config!Requests[f.why]) = Length(f)
         /\ f.at = Before(f.why) + 1 => Request(f) = "assemblies"
         /\ f.at = Before(f.why) + 2 => Request(f) = "connections"
         /\ f.at = Before(f.why) + 3 => Request(f) = "objects"
         /\ f.at = Before(f.why) + 4 => Request(f) = "attributes"
         /\ f.at = Before(f.why) + 5 => Request(f) = "done"
         /\ f.at = Before(f.why) + 6 => Request(f) = "start"
         /\ f.at <= Before(f.why) => Request(f) \in {"mac", "ddp", "app", "data", "delete", "init"}
         /\ Request(f) = "init" <=> /\ f.why \in {"reset", "factory"}
                                    /\ f.at = Before(f.why)
         /\ Request(f) = "delete" <=> f.why = "factory" /\ f.at = 1
<1>1. /\ f.why \in {"startup", "reconfig", "reset", "factory"}
      /\ f.at \in 1 .. 10 /\ f.at <= Length(f)
  BY DEF CfgFrames, Config!Frame, Config!Starts
<1>2. CASE f.why = "startup"
  BY <1>1, <1>2 DEF Request, Length, Before, Config!Requests, Config!ConfigureStack
<1>3. CASE f.why = "reconfig"
  BY <1>1, <1>3 DEF Request, Length, Before, Config!Requests, Config!ConfigureStack
<1>4. CASE f.why = "reset"
  BY <1>1, <1>4 DEF Request, Length, Before, Config!Requests, Config!ConfigureStack
<1>5. CASE f.why = "factory"
  BY <1>1, <1>5 DEF Request, Length, Before, Config!Requests, Config!ConfigureStack
<1> QED
  BY <1>1, <1>2, <1>3, <1>4, <1>5

Early(f)    == f.why = "factory" /\ f.at = 1
AtEnd(f)    == f.at = Length(f)
Middle(f)   == ~Early(f) /\ ~AtEnd(f)
IsInit(f)   == f.why \in {"reset", "factory"} /\ f.at = Before(f.why)
Stopping(f) == Config!StopsAt(Request(f), f.seen)

(* A request that was answered stops nothing, and neither do those of the   *)
(* reset itself; a failure that does not stop is of these, or "app".        *)
LEMMA WhatStops ==
  ASSUME NEW f \in CfgFrames
  PROVE  /\ f.seen = "ok" => ~Stopping(f)
         /\ Early(f) \/ IsInit(f) => ~Stopping(f)
         /\ f.seen # "ok" => Stopping(f) \/ f.at <= Before(f.why)
<1>1. f.at \in 1 .. 10 /\ f.why \in {"startup", "reconfig", "reset", "factory"} /\ f.at <= Length(f)
  BY DEF CfgFrames, Config!Frame, Config!Starts
<1>2. f.seen = "ok" => ~Stopping(f)
  BY DEF Stopping, Config!StopsAt
<1>3. Early(f) \/ IsInit(f) => ~Stopping(f)
  BY RequestAt DEF Stopping, Config!StopsAt, Early, IsInit
<1>4. f.seen # "ok" /\ f.at > Before(f.why) => Stopping(f)
  <2> SUFFICES ASSUME f.seen # "ok", f.at > Before(f.why) PROVE Stopping(f)
    OBVIOUS
  <2>1. f.at \in {Before(f.why) + 1, Before(f.why) + 2, Before(f.why) + 3, Before(f.why) + 4,
                  Before(f.why) + 5, Before(f.why) + 6}
    BY <1>1 DEF Before, Length
  <2>2. Request(f) \in {"assemblies", "connections", "objects", "attributes", "done", "start"}
    BY <2>1, RequestAt
  <2> QED
    BY <2>2 DEF Stopping, Config!StopsAt
<1> QED
  BY <1>1, <1>2, <1>3, <1>4 DEF Before

(* What the stack has of the requests up to that of a frame.                *)
HasDone(f) ==
  /\ f.at > Before(f.why)     => "assemblies"  \in cfgItems
  /\ f.at > Before(f.why) + 1 => "connections" \in cfgItems
  /\ f.at > Before(f.why) + 2 => "objects"     \in cfgItems
  /\ f.at > Before(f.why) + 3 => "attributes"  \in cfgItems

(* What a request does, by its place.                                       *)
LEMMA DoesAt ==
  ASSUME NEW f \in CfgFrames, Config!Does(Request(f)), cfgItems \subseteq Config!Items,
         cfgStarted \in BOOLEAN
  PROVE  /\ AtEnd(f) => cfgStarted' = TRUE /\ cfgItems' = cfgItems
         /\ IsInit(f) => cfgStarted' = FALSE /\ cfgItems' = {}
         /\ ~AtEnd(f) /\ ~IsInit(f) => /\ cfgStarted' = cfgStarted
                                       /\ cfgItems \subseteq cfgItems'
                                       /\ cfgItems' \subseteq Config!Items
         /\ f.at = Before(f.why) + 1 => "assemblies" \in cfgItems'
         /\ f.at = Before(f.why) + 2 => "connections" \in cfgItems'
         /\ f.at = Before(f.why) + 3 => "objects" \in cfgItems'
         /\ f.at = Before(f.why) + 4 => "attributes" \in cfgItems'
<1>1. f.at \in 1 .. 10 /\ f.why \in {"startup", "reconfig", "reset", "factory"} /\ f.at <= Length(f)
  BY DEF CfgFrames, Config!Frame, Config!Starts
<1>6. Before(f.why) \in Nat
  BY DEF Before
<1>2. CASE f.at <= Before(f.why)
  <2>1. Request(f) \in {"mac", "ddp", "app", "data", "delete", "init"}
    BY <1>2, RequestAt
  <2>2. IsInit(f) <=> Request(f) = "init"
    BY RequestAt DEF IsInit
  <2>3. ~AtEnd(f)
    BY <1>1, <1>2 DEF AtEnd, Length, Before
  <2>4. CASE Request(f) = "init"
    <3>1. cfgStarted' = FALSE /\ cfgItems' = {}
      BY <2>4 DEF Config!Does, Config!Items
    <3> QED
      BY <1>1, <1>2, <1>6, <2>2, <2>3, <2>4, <3>1
  <2>5. CASE Request(f) # "init"
    <3>1. cfgStarted' = cfgStarted /\ cfgItems' = cfgItems
      BY <2>1, <2>5 DEF Config!Does, Config!Items
    <3> QED
      BY <1>1, <1>2, <1>6, <2>2, <2>3, <2>5, <3>1
  <2> QED
    BY <2>4, <2>5
<1>3. CASE f.at \in {Before(f.why) + 1, Before(f.why) + 2, Before(f.why) + 3, Before(f.why) + 4}
  <2>1. Request(f) \in Config!Items
    BY <1>3, RequestAt DEF Config!Items
  <2>2. ~IsInit(f) /\ ~AtEnd(f)
    BY <1>1, <1>3 DEF AtEnd, IsInit, Length, Before
  <2>3. cfgStarted' = cfgStarted /\ cfgItems' = cfgItems \cup {Request(f)}
    BY <2>1 DEF Config!Does, Config!Items
  <2> QED
    BY <1>1, <1>3, <2>1, <2>2, <2>3, RequestAt DEF Before
<1>4. CASE f.at = Before(f.why) + 5
  <2>1. Request(f) = "done"
    BY <1>4, RequestAt
  <2>2. ~IsInit(f) /\ ~AtEnd(f)
    BY <1>1, <1>4 DEF AtEnd, IsInit, Length, Before
  <2>3. cfgStarted' = cfgStarted /\ cfgItems' = cfgItems
    BY <2>1 DEF Config!Does, Config!Items
  <2> QED
    BY <1>1, <1>4, <1>6, <2>2, <2>3
<1>5. CASE f.at = Before(f.why) + 6
  <2>1. Request(f) = "start"
    BY <1>5, RequestAt
  <2>2. ~IsInit(f) /\ AtEnd(f)
    BY <1>1, <1>5 DEF AtEnd, IsInit, Length, Before
  <2>3. cfgStarted' = TRUE /\ cfgItems' = cfgItems
    BY <2>1 DEF Config!Does, Config!Items
  <2> QED
    BY <1>1, <1>5, <1>6, <2>2, <2>3
<1>7. \/ f.at <= Before(f.why)
      \/ f.at \in {Before(f.why) + 1, Before(f.why) + 2, Before(f.why) + 3, Before(f.why) + 4}
      \/ f.at = Before(f.why) + 5
      \/ f.at = Before(f.why) + 6
  BY <1>1, <1>6 DEF Length
<1> QED
  BY <1>2, <1>3, <1>4, <1>5, <1>7

(* How a step changes the frames: f is put on top of the first n of them.   *)
Pushed(n, f) == /\ cfgFrames' \in Seq(CfgFrames)
                /\ Len(cfgFrames') = n + 1
                /\ \A i \in 1 .. n : cfgFrames'[i] = cfgFrames[i]
                /\ cfgFrames'[n + 1] = f

(* The request of f is sent: what is seen of it, and what the stack does.   *)
Sends(f) ==
  /\ \/ f.seen = "ok" /\ cfgFaults' = cfgFaults
     \/ f.seen # "ok" /\ cfgFaults < MaxFailures /\ cfgFaults' = cfgFaults + 1
  /\ \/ f.seen # "refused" /\ Config!Does(Request(f))
     \/ f.seen # "ok" /\ UNCHANGED Config!stackVars

(* A configuration begins: why it may.                                      *)
Begins(f) ==
  /\ f.at = 1
  /\ Pushed(Len(cfgFrames), f)
  /\ Sends(f)
  /\ UNCHANGED cfgApp
  /\ \/ /\ f.why = "startup" /\ cfgApp = "startup" /\ cfgFrames = <<>>
        /\ UNCHANGED <<cfgReconfigs, cfgResets>>
     \/ /\ f.why = "reconfig" /\ cfgApp # "startup" /\ cfgFrames = <<>>
        /\ cfgReconfigs < MaxReconfigs /\ cfgReconfigs' = cfgReconfigs + 1
        /\ UNCHANGED cfgResets
     \/ /\ f.why \in {"reset", "factory"} /\ cfgStarted
        /\ cfgApp # "startup" \/ cfgFrames # <<>>
        /\ cfgResets < MaxResets /\ cfgResets' = cfgResets + 1
        /\ UNCHANGED cfgReconfigs

Top == cfgFrames[Len(cfgFrames)]

(* The innermost one goes on.                                               *)
GoesOn(f) ==
  /\ cfgFrames # <<>> /\ ~Stopping(Top) /\ ~AtEnd(Top)
  /\ f.why = Top.why /\ f.at = Top.at + 1
  /\ Pushed(Len(cfgFrames) - 1, f)
  /\ Sends(f)
  /\ UNCHANGED <<cfgApp, cfgResets, cfgReconfigs>>

(* It comes to its end.                                                     *)
Ends ==
  /\ cfgFrames # <<>>
  /\ Stopping(Top) \/ AtEnd(Top)
  /\ cfgFrames' \in Seq(CfgFrames)
  /\ Len(cfgFrames') = Len(cfgFrames) - 1
  /\ \A i \in 1 .. Len(cfgFrames) - 1 : cfgFrames'[i] = cfgFrames[i]
  /\ Top.why # "startup" => cfgApp' = cfgApp
  /\ Top.why = "startup" => cfgApp' \in {"running", "failed"}
  /\ UNCHANGED <<Config!stackVars, cfgFaults, cfgResets, cfgReconfigs>>

(* The startup fails before it has sent a request.                          *)
StartFails ==
  /\ cfgFrames = <<>> /\ cfgFaults < MaxFailures /\ cfgFaults' = cfgFaults + 1
  /\ cfgApp = "startup" /\ cfgApp' = "failed"
  /\ UNCHANGED <<cfgFrames, Config!stackVars, cfgResets, cfgReconfigs>>

CfgTyped == Config!TypeOK /\ cfgFrames \in Seq(CfgFrames)

LEMMA SendSteps ==
  ASSUME NEW below \in Seq(CfgFrames), NEW f \in CfgFrames, Config!Send(below, f)
  PROVE  \E g \in CfgFrames :
           /\ g.why = f.why /\ g.at = f.at
           /\ cfgFrames' = Append(below, g)
           /\ Sends(g)
<1>1. PICK seen \in Config!Outcomes :
        /\ cfgFrames' = Append(below, [f EXCEPT !.seen = seen])
        /\ IF seen = "ok" THEN UNCHANGED cfgFaults
           ELSE cfgFaults < MaxFailures /\ cfgFaults' = cfgFaults + 1
        /\ \/ seen # "refused" /\ Config!Does(Request(f))
           \/ seen # "ok" /\ UNCHANGED Config!stackVars
  BY DEF Config!Send, Request
<1>2. PICK g : g = [f EXCEPT !.seen = seen]
  OBVIOUS
<1>3. g \in Config!Frame /\ g.why = f.why /\ g.at = f.at /\ g.seen = seen
  BY <1>2 DEF CfgFrames, Config!Frame
<1>4. g \in CfgFrames /\ Request(g) = Request(f)
  BY <1>3 DEF CfgFrames, Length, Request
<1> QED
  BY <1>1, <1>2, <1>3, <1>4 DEF Sends

LEMMA FrontProperties ==
  ASSUME NEW S, NEW s \in Seq(S), s # <<>>
  PROVE  /\ Config!Front(s) \in Seq(S)
         /\ Len(Config!Front(s)) = Len(s) - 1
         /\ \A i \in 1 .. Len(s) - 1 : Config!Front(s)[i] = s[i]
<1>1. PICK n : n = Len(s) - 1
  OBVIOUS
<1>2. n \in Nat /\ Len(s) = n + 1
  BY <1>1
<1>3. \A i \in 1 .. n : s[i] \in S
  BY <1>2, ElementOfSeq
<1>4. Config!Front(s) = SubSeq(s, 1, n)
  BY <1>1 DEF Config!Front
<1>5. /\ SubSeq(s, 1, n) \in Seq(S)
      /\ Len(SubSeq(s, 1, n)) = IF 1 <= n THEN n - 1 + 1 ELSE 0
      /\ \A i \in 1 .. n - 1 + 1 : SubSeq(s, 1, n)[i] = s[1 + i - 1]
  BY <1>2, <1>3, SubSeqProperties
<1>6. n - 1 + 1 = n /\ \A i \in 1 .. n : 1 + i - 1 = i
  BY <1>2
<1> QED
  BY <1>1, <1>2, <1>4, <1>5, <1>6

(* Every step of a configuration is one of these.                           *)
LEMMA CfgSteps ==
  ASSUME CfgTyped, Config!Next
  PROVE  \/ \E f \in CfgFrames : Begins(f) \/ GoesOn(f)
         \/ Ends
         \/ StartFails
         \/ Config!StoreRemanentData
         
<1>0. cfgFrames \in Seq(CfgFrames) /\ Len(cfgFrames) \in Nat
  BY DEF CfgTyped
<1>1. ASSUME NEW why \in Config!Starts, Config!Start(why)
      PROVE  \E g \in CfgFrames : /\ g.why = why /\ g.at = 1
                                  /\ Pushed(Len(cfgFrames), g)
                                  /\ Sends(g)
  <2>1. PICK f : f = [why |-> why, at |-> 1, seen |-> "ok"]
    OBVIOUS
  <2>2. f \in CfgFrames
    BY <2>1 DEF CfgFrames, Config!Frame, Config!Starts, Config!Outcomes, Length, Before
  <2>3. Config!Send(cfgFrames, f)
    BY <1>1, <2>1 DEF Config!Start
  <2>4. PICK g \in CfgFrames : /\ g.why = f.why /\ g.at = f.at
                               /\ cfgFrames' = Append(cfgFrames, g)
                               /\ Sends(g)
    BY <1>0, <2>2, <2>3, SendSteps
  <2> QED
    BY <1>0, <2>1, <2>4, AppendProperties DEF Pushed
<1>2. CASE Config!Protocol_StartConfiguration
  <2>1. CASE Config!Start("startup") /\ UNCHANGED cfgApp
    BY <1>1, <1>2, <2>1 DEF Config!Protocol_StartConfiguration, Begins, Config!Starts
  <2>2. CASE cfgApp' = "failed"
    BY <1>2, <2>2 DEF Config!Protocol_StartConfiguration, StartFails
  <2> QED
    BY <1>2, <2>1, <2>2 DEF Config!Protocol_StartConfiguration
<1>3. CASE Config!Term_ReconfigCommand
  BY <1>1, <1>3 DEF Config!Term_ReconfigCommand, Begins, Config!Starts
<1>4. CASE Config!AppEIS_HandleResetInd
  BY <1>1, <1>4 DEF Config!AppEIS_HandleResetInd, Begins, Config!Starts
<1>5. CASE Config!Resume
  <2>1. cfgFrames # <<>> /\ Config!Last(cfgFrames) = Top /\ Top \in CfgFrames
    BY <1>0, <1>5 DEF Config!Resume, Config!Last, Top
  <2>2. /\ Config!Front(cfgFrames) \in Seq(CfgFrames)
        /\ Len(Config!Front(cfgFrames)) = Len(cfgFrames) - 1
        /\ \A i \in 1 .. Len(cfgFrames) - 1 : Config!Front(cfgFrames)[i] = cfgFrames[i]
    BY <1>0, <2>1, FrontProperties
  <2>3. Len(Config!Requests[Top.why]) = Length(Top)
    BY <2>1, RequestAt
  <2>4. CASE Stopping(Top) \/ AtEnd(Top)
    <3>1. /\ cfgFrames' = Config!Front(cfgFrames)
          /\ cfgApp' \in IF Top.why # "startup" THEN {cfgApp}
                         ELSE Config!StartupEnds(Stopping(Top), Top.seen)
          /\ UNCHANGED <<Config!stackVars, cfgFaults, cfgResets, cfgReconfigs>>
      BY <1>5, <2>1, <2>3, <2>4 DEF Config!Resume, Stopping, Request, AtEnd
    <3> QED
      BY <2>1, <2>2, <2>4, <3>1 DEF Ends, Config!StartupEnds
  <2>5. CASE ~Stopping(Top) /\ ~AtEnd(Top)
    <3>1. /\ Config!Send(Config!Front(cfgFrames), Config!NextRequest(Top))
          /\ UNCHANGED <<cfgApp, cfgResets, cfgReconfigs>>
      BY <1>5, <2>1, <2>3, <2>5 DEF Config!Resume, Stopping, Request, AtEnd
    <3>2. PICK f : f = Config!NextRequest(Top)
      OBVIOUS
    <3>3. f \in CfgFrames /\ f.why = Top.why /\ f.at = Top.at + 1
      BY <2>1, <2>5, <3>2
      DEF Config!NextRequest, CfgFrames, Config!Frame, AtEnd, Length, Before, Config!Starts
    <3>4. PICK g \in CfgFrames : /\ g.why = f.why /\ g.at = f.at
                                 /\ cfgFrames' = Append(Config!Front(cfgFrames), g)
                                 /\ Sends(g)
      BY <2>2, <3>1, <3>2, <3>3, SendSteps
    <3>5. Pushed(Len(cfgFrames) - 1, g)
      BY <1>0, <2>2, <3>4, AppendProperties DEF Pushed
    <3> QED
      BY <2>1, <2>5, <3>1, <3>3, <3>4, <3>5 DEF GoesOn
  <2> QED
    BY <2>4, <2>5
<1> QED
  BY <1>2, <1>3, <1>4, <1>5 DEF Config!Next

(* Types.                                                                   *)
LEMMA SendsTyped ==
  ASSUME NEW f \in CfgFrames, Config!TypeOK, Sends(f)
  PROVE  /\ cfgRegistered' \in BOOLEAN /\ cfgItems' \subseteq Config!Items
         /\ cfgStarted' \in BOOLEAN /\ cfgRemanent' \in {"user", "invalid", "default"}
         /\ cfgFaults' \in 0 .. MaxFailures
<1>1. cfgFaults' \in 0 .. MaxFailures
  BY UnitsAssumption DEF Config!TypeOK, Sends
<1>2. CASE Config!Does(Request(f))
  <2>1. cfgItems' \in {{}, cfgItems, cfgItems \cup ({Request(f)} \cap Config!Items)}
    BY <1>2 DEF Config!Does, Config!Items
  <2>2. cfgStarted' \in BOOLEAN /\ cfgRegistered' \in BOOLEAN
    BY <1>2 DEF Config!Does, Config!TypeOK
  <2>3. cfgRemanent' \in {"user", "invalid", "default"}
    BY <1>2 DEF Config!Does, Config!TypeOK
  <2> QED
    BY <1>1, <2>1, <2>2, <2>3 DEF Config!TypeOK
<1>3. CASE UNCHANGED Config!stackVars
  BY <1>1, <1>3 DEF Config!stackVars, Config!TypeOK
<1> QED
  BY <1>2, <1>3 DEF Sends

LEMMA CfgTypedStep == CfgTyped /\ [Config!Next]_cfgVars => CfgTyped'
<1> SUFFICES ASSUME CfgTyped, [Config!Next]_cfgVars PROVE CfgTyped'
  OBVIOUS
<1>0. Config!TypeOK
  BY DEF CfgTyped
<1>1. cfgFrames' \in Seq(CfgFrames) => cfgFrames' \in Seq(Config!Frame)
  BY SeqMonotonic DEF CfgFrames
<1>2. CASE UNCHANGED cfgVars
  BY <1>2 DEF CfgTyped, cfgVars, Config!TypeOK
<1>3. ASSUME NEW f \in CfgFrames, Begins(f) PROVE CfgTyped'
  <2>1. cfgFrames' \in Seq(CfgFrames) /\ Sends(f) /\ cfgApp' = cfgApp
    BY <1>3 DEF Begins, Pushed
  <2>2. cfgReconfigs' \in 0 .. MaxReconfigs /\ cfgResets' \in 0 .. MaxResets
    BY <1>0, <1>3, UnitsAssumption DEF Begins, Config!TypeOK
  <2> QED
    BY <1>0, <1>1, <2>1, <2>2, SendsTyped DEF CfgTyped, Config!TypeOK
<1>4. ASSUME NEW f \in CfgFrames, GoesOn(f) PROVE CfgTyped'
  BY <1>0, <1>1, <1>4, SendsTyped DEF CfgTyped, GoesOn, Pushed, Config!TypeOK
<1>5. CASE Ends
  BY <1>0, <1>1, <1>5 DEF CfgTyped, Ends, Config!TypeOK, Config!stackVars
<1>6. CASE Config!StoreRemanentData
  BY <1>6 DEF CfgTyped, Config!StoreRemanentData, Config!TypeOK
<1>7. CASE StartFails
  <2>1. cfgFaults' \in 0 .. MaxFailures
    BY <1>0, <1>7, UnitsAssumption DEF StartFails, Config!TypeOK
  <2> QED
    BY <1>0, <1>7, <2>1 DEF CfgTyped, StartFails, Config!TypeOK, Config!stackVars
<1> QED
  BY <1>2, <1>3, <1>4, <1>5, <1>6, <1>7, CfgSteps

(* Nothing fails without a fault; "reconfig" runs only after the command;   *)
(* until the startup's configuration has ended it is the outermost.         *)
CfgOrder ==
  /\ cfgFaults = 0 => \A i \in 1 .. Len(cfgFrames) : cfgFrames[i].seen = "ok"
  /\ cfgReconfigs = 0 => \A i \in 1 .. Len(cfgFrames) : cfgFrames[i].why # "reconfig"
  /\ cfgApp = "startup" /\ cfgFrames # <<>> => cfgFrames[1].why = "startup"
  /\ cfgApp = "startup" /\ cfgFrames = <<>> => /\ cfgStarted = FALSE
                                               /\ cfgFaults = 0
                                               /\ cfgRemanent = "user"

LEMMA CfgOrderStep == CfgTyped /\ CfgOrder /\ [Config!Next]_cfgVars => CfgOrder'
<1> SUFFICES ASSUME CfgTyped, CfgOrder, [Config!Next]_cfgVars PROVE CfgOrder'
  OBVIOUS
<1>0. /\ cfgFrames \in Seq(CfgFrames) /\ Len(cfgFrames) \in Nat
      /\ cfgFrames = <<>> <=> Len(cfgFrames) = 0
      /\ cfgFaults \in Nat /\ cfgReconfigs \in Nat
  BY DEF CfgTyped, Config!TypeOK
<1>1. CASE UNCHANGED cfgVars
  BY <1>1 DEF CfgOrder, cfgVars
<1>2. ASSUME NEW f \in CfgFrames, Begins(f) PROVE CfgOrder'
  <2>1. /\ Len(cfgFrames') = Len(cfgFrames) + 1 /\ cfgFrames'[Len(cfgFrames) + 1] = f
        /\ \A i \in 1 .. Len(cfgFrames) : cfgFrames'[i] = cfgFrames[i]
        /\ cfgFrames' # <<>>
    BY <1>0, <1>2 DEF Begins, Pushed
  <2>2. cfgFaults' = 0 => cfgFaults = 0 /\ f.seen = "ok"
    BY <1>0, <1>2 DEF Begins, Sends
  <2>3. cfgReconfigs' = 0 => cfgReconfigs = 0 /\ f.why # "reconfig"
    BY <1>0, <1>2 DEF Begins
  <2>4. cfgApp' = cfgApp /\ (cfgApp = "startup" /\ cfgFrames = <<>> => f.why = "startup")
    BY <1>2 DEF Begins
  <2> QED
    BY <1>0, <2>1, <2>2, <2>3, <2>4 DEF CfgOrder
<1>3. ASSUME NEW f \in CfgFrames, GoesOn(f) PROVE CfgOrder'
  <2>1. /\ Len(cfgFrames') = Len(cfgFrames) /\ cfgFrames'[Len(cfgFrames)] = f
        /\ \A i \in 1 .. Len(cfgFrames) - 1 : cfgFrames'[i] = cfgFrames[i]
        /\ cfgFrames # <<>> /\ cfgFrames' # <<>>
    BY <1>0, <1>3 DEF GoesOn, Pushed
  <2>2. cfgFaults' = 0 => cfgFaults = 0 /\ f.seen = "ok"
    BY <1>0, <1>3 DEF GoesOn, Sends
  <2>3. cfgReconfigs' = cfgReconfigs /\ cfgApp' = cfgApp /\ f.why = cfgFrames[Len(cfgFrames)].why
    BY <1>3 DEF GoesOn, Top
  <2> QED
    BY <1>0, <2>1, <2>2, <2>3 DEF CfgOrder
<1>4. CASE Ends
  <2>1. /\ Len(cfgFrames') = Len(cfgFrames) - 1 /\ cfgFrames' \in Seq(CfgFrames)
        /\ \A i \in 1 .. Len(cfgFrames) - 1 : cfgFrames'[i] = cfgFrames[i]
        /\ cfgFrames # <<>>
        /\ cfgFaults' = cfgFaults /\ cfgReconfigs' = cfgReconfigs
    BY <1>4 DEF Ends
  <2>2. cfgApp' = "startup" => cfgApp = "startup" /\ Top.why # "startup"
    BY <1>4 DEF Ends
  <2>3. cfgApp' = "startup" => Len(cfgFrames) # 1
    BY <2>1, <2>2 DEF CfgOrder, Top
  <2> QED
    BY <1>0, <2>1, <2>2, <2>3, SMTT(30) DEF CfgOrder
<1>5. CASE Config!StoreRemanentData
  BY <1>5 DEF CfgOrder, Config!StoreRemanentData
<1>6. CASE StartFails
  BY <1>0, <1>6 DEF CfgOrder, StartFails
<1> QED
  BY <1>1, <1>2, <1>3, <1>4, <1>5, <1>6, CfgSteps

(* The condition of StartedIsComplete.                                      *)
Good == cfgFaults = 0 \/ (cfgFaults = 1 /\ cfgReconfigs = 0)

(* The one fault was of a request that stops nothing: a reset's own.        *)
OneFault == cfgFaults = 1 /\ \A j \in 1 .. Len(cfgFrames) : ~Stopping(cfgFrames[j])

(* The stack is whole while it communicates; otherwise the innermost        *)
(* configuration has done its part so far, or is about to begin or to end.  *)
Complete == cfgStarted = TRUE => cfgItems = Config!Items
InProgress ==
  cfgStarted = FALSE /\ cfgFrames # <<>> =>
    Stopping(Top) \/ Early(Top) \/ AtEnd(Top) \/ HasDone(Top)

(* A configuration is in its middle while the stack communicates, or is     *)
(* interrupted there, only if its channel init has failed, and nothing else *)
(* fails then; or if it is a "reconfig".                                    *)
Interrupted ==
  \A i \in 1 .. Len(cfgFrames) - 1 :
    Middle(cfgFrames[i]) => cfgFrames[i].why = "reconfig" \/ OneFault
Running ==
  cfgStarted = TRUE /\ cfgFrames # <<>> /\ Middle(Top) => Top.why = "reconfig" \/ OneFault

(* Communication is stopped above one that was interrupted, or without a    *)
(* fault, only by a configuration that will start it.                       *)
Stopped ==
  cfgStarted = FALSE /\ cfgFrames # <<>>
  /\ (cfgFaults = 0 \/ \E i \in 1 .. Len(cfgFrames) - 1 : Middle(cfgFrames[i]))
    => Middle(Top) /\ Top.why # "reconfig"
Idling == cfgFrames = <<>> /\ cfgApp # "startup" /\ cfgFaults = 0 => cfgStarted = TRUE

CfgStart == Good => Complete /\ InProgress /\ Interrupted /\ Running /\ Stopped /\ Idling

LEMMA SendsAt ==
  ASSUME NEW f \in CfgFrames, CfgTyped, Sends(f)
  PROVE  \/ /\ AtEnd(f) => cfgStarted' = TRUE /\ cfgItems' = cfgItems
            /\ IsInit(f) => cfgStarted' = FALSE /\ cfgItems' = {}
            /\ ~AtEnd(f) /\ ~IsInit(f) => /\ cfgStarted' = cfgStarted
                                          /\ cfgItems \subseteq cfgItems'
                                          /\ cfgItems' \subseteq Config!Items
            /\ f.at = Before(f.why) + 1 => "assemblies" \in cfgItems'
            /\ f.at = Before(f.why) + 2 => "connections" \in cfgItems'
            /\ f.at = Before(f.why) + 3 => "objects" \in cfgItems'
            /\ f.at = Before(f.why) + 4 => "attributes" \in cfgItems'
         \/ f.seen # "ok" /\ cfgStarted' = cfgStarted /\ cfgItems' = cfgItems
<1>1. cfgItems \subseteq Config!Items /\ cfgStarted \in BOOLEAN
  BY DEF CfgTyped, Config!TypeOK
<1>2. CASE Config!Does(Request(f))
  BY <1>1, <1>2, DoesAt
<1>3. CASE f.seen # "ok" /\ UNCHANGED Config!stackVars
  BY <1>3 DEF Config!stackVars
<1> QED
  BY <1>2, <1>3 DEF Sends

(* The last request of a configuration that has done its part finds it      *)
(* whole.                                                                   *)
LEMMA WholeAtEnd ==
  ASSUME NEW f \in CfgFrames, CfgTyped, HasDone(f), f.at = Length(f) - 1
  PROVE  cfgItems = Config!Items
  BY DEF CfgTyped, Config!TypeOK, HasDone, Length, Before, Config!Items

LEMMA GoesOnStart ==
  ASSUME CfgTyped, CfgOrder, CfgStart, NEW f \in CfgFrames, GoesOn(f), Good'
  PROVE  Complete' /\ InProgress' /\ Interrupted' /\ Running' /\ Stopped' /\ Idling'
<1> DEFINE n == Len(cfgFrames)
           Executed == /\ AtEnd(f) => cfgStarted' = TRUE /\ cfgItems' = cfgItems
                       /\ IsInit(f) => cfgStarted' = FALSE /\ cfgItems' = {}
                       /\ ~AtEnd(f) /\ ~IsInit(f) => /\ cfgStarted' = cfgStarted
                                                     /\ cfgItems \subseteq cfgItems'
                                                     /\ cfgItems' \subseteq Config!Items
                       /\ f.at = Before(f.why) + 1 => "assemblies" \in cfgItems'
                       /\ f.at = Before(f.why) + 2 => "connections" \in cfgItems'
                       /\ f.at = Before(f.why) + 3 => "objects" \in cfgItems'
                       /\ f.at = Before(f.why) + 4 => "attributes" \in cfgItems'
           Skipped == f.seen # "ok" /\ cfgStarted' = cfgStarted /\ cfgItems' = cfgItems
<1>0. /\ cfgFrames \in Seq(CfgFrames) /\ n \in Nat \ {0}
      /\ cfgFaults \in Nat /\ cfgReconfigs \in Nat
      /\ cfgStarted \in BOOLEAN /\ cfgItems \subseteq Config!Items
      /\ cfgStarted' \in BOOLEAN
  <2>1. cfgStarted' \in BOOLEAN
    BY SendsTyped DEF GoesOn, CfgTyped
  <2> QED
    BY <2>1 DEF CfgTyped, Config!TypeOK, GoesOn
<1>1. /\ Len(cfgFrames') = n /\ cfgFrames'[n] = f
      /\ \A i \in 1 .. n - 1 : cfgFrames'[i] = cfgFrames[i]
      /\ cfgFrames # <<>> /\ cfgFrames' # <<>>
      /\ Top' = f
  BY <1>0 DEF GoesOn, Pushed, Top
<1>2. /\ Top \in CfgFrames /\ Top = cfgFrames[n]
      /\ f.why = Top.why /\ f.at = Top.at + 1
      /\ ~Stopping(Top) /\ ~AtEnd(Top)
      /\ cfgReconfigs' = cfgReconfigs
  BY <1>0, <1>1 DEF GoesOn, Top
<1>3. /\ Good
      /\ \/ f.seen = "ok" /\ cfgFaults' = cfgFaults
         \/ /\ f.seen # "ok" /\ cfgFaults = 0 /\ cfgFaults' = 1 /\ cfgReconfigs = 0
  BY <1>0, <1>2 DEF GoesOn, Sends, Good
<1>4. Complete /\ InProgress /\ Interrupted /\ Running /\ Stopped
  BY <1>3 DEF CfgStart
<1>5. Executed \/ Skipped
  BY SendsAt DEF GoesOn
<1>6. /\ ~Early(f)
      /\ IsInit(f) => ~AtEnd(f) /\ f.why # "reconfig"
      /\ Early(Top) => IsInit(f)
      /\ AtEnd(f) => Top.at = Length(Top) - 1
      /\ ~Early(Top) => Middle(Top)
      /\ Before(f.why) \in Nat /\ Before(Top.why) = Before(f.why)
      /\ f.at \in Nat
      /\ f.why \in {"startup", "reconfig", "reset", "factory"}
  BY <1>2 DEF CfgFrames, Config!Frame, Config!Starts, Early, IsInit, AtEnd, Middle, Length, Before
<1>7. f.seen # "ok" => \A i \in 1 .. n - 1 : ~Stopping(cfgFrames[i])
  BY <1>0, <1>3, WhatStops DEF CfgOrder
<1>8. OneFault /\ f.seen = "ok" => OneFault'
  BY <1>0, <1>1, <1>3, WhatStops DEF OneFault, Stopping, Request
<1>9. f.seen # "ok" /\ ~Stopping(f) => OneFault'
  BY <1>0, <1>1, <1>3, <1>7 DEF OneFault, Stopping, Request
<1> HIDE DEF n, Executed, Skipped
<1>10. Complete'
  <2> SUFFICES ASSUME cfgStarted' = TRUE PROVE cfgItems' = Config!Items
    BY DEF Complete
  <2>1. CASE Skipped
    BY <1>4, <2>1 DEF Complete, Skipped
  <2>2. CASE Executed /\ AtEnd(f)
    <3>1. CASE cfgStarted = TRUE
      BY <1>4, <2>2, <3>1 DEF Complete, Executed
    <3>2. CASE cfgStarted = FALSE
      <4>1. HasDone(Top)
        BY <1>1, <1>2, <1>4, <1>6, <2>2, <3>2 DEF InProgress
      <4> QED
        BY <1>2, <1>6, <2>2, <4>1, WholeAtEnd DEF Executed
    <3> QED
      BY <1>0, <3>1, <3>2
  <2>3. CASE Executed /\ ~AtEnd(f)
    BY <1>0, <1>4, <2>3 DEF Complete, Executed
  <2> QED
    BY <1>5, <2>1, <2>2, <2>3
<1>11. InProgress'
  <2> SUFFICES ASSUME cfgStarted' = FALSE, ~Stopping(f), ~AtEnd(f)
               PROVE  HasDone(f)'
    BY <1>1 DEF InProgress, HasDone
  <2>1. CASE f.at <= Before(f.why)
    BY <1>6, <2>1 DEF HasDone
  <2>2. CASE f.at > Before(f.why)
    <3>1. Executed /\ ~IsInit(f)
      BY <1>5, <1>6, <2>2, WhatStops DEF Skipped, IsInit
    <3>2. HasDone(Top)
      BY <1>1, <1>2, <1>4, <1>6, <3>1 DEF InProgress, Executed
    <3>3. cfgItems \subseteq cfgItems' /\ Top.at = f.at - 1
      BY <1>2, <1>6, <3>1 DEF Executed, CfgFrames, Config!Frame
    <3>4. /\ f.at > Before(f.why) + 1 => "assemblies" \in cfgItems'
          /\ f.at > Before(f.why) + 2 => "connections" \in cfgItems'
          /\ f.at > Before(f.why) + 3 => "objects" \in cfgItems'
          /\ f.at > Before(f.why) + 4 => "attributes" \in cfgItems'
      BY <1>6, <3>2, <3>3 DEF HasDone
    <3> QED
      BY <1>6, <3>1, <3>4 DEF HasDone, Executed
  <2> QED
    BY <1>6, <2>1, <2>2
<1>12. Interrupted'
  <2> SUFFICES ASSUME NEW i \in 1 .. n - 1, Middle(cfgFrames[i])
               PROVE  cfgFrames[i].why = "reconfig" \/ OneFault'
    BY <1>1 DEF Interrupted
  <2>1. cfgFrames[i].why = "reconfig" \/ OneFault
    BY <1>4 DEF Interrupted, n
  <2> QED
    BY <1>3, <1>8, <2>1 DEF OneFault
<1>13. Running'
  <2> SUFFICES ASSUME cfgStarted' = TRUE, Middle(f) PROVE f.why = "reconfig" \/ OneFault'
    BY <1>1 DEF Running
  <2>1. CASE IsInit(f)
    <3>1. f.seen # "ok"
      BY <1>5, <2>1 DEF Executed, Skipped
    <3> QED
      BY <1>9, <2>1, <3>1, WhatStops
  <2>2. CASE ~IsInit(f)
    <3>1. cfgStarted = TRUE
      BY <1>5, <2>2 DEF Executed, Skipped, Middle
    <3>2. Top.why = "reconfig" \/ OneFault
      BY <1>1, <1>4, <1>6, <2>2, <3>1 DEF Running
    <3> QED
      BY <1>2, <1>3, <1>8, <3>2 DEF OneFault
  <2> QED
    BY <2>1, <2>2
<1>14. Stopped'
  <2> SUFFICES ASSUME cfgStarted' = FALSE,
                      cfgFaults' = 0 \/ \E i \in 1 .. n - 1 : Middle(cfgFrames[i])
               PROVE  Middle(f) /\ f.why # "reconfig"
    BY <1>1 DEF Stopped
  <2>1. CASE IsInit(f)
    BY <1>6, <2>1 DEF Middle
  <2>2. CASE ~IsInit(f) /\ AtEnd(f)
    <3>1. f.seen # "ok"
      BY <1>5, <2>2 DEF Executed, Skipped
    <3>2. PICK i \in 1 .. n - 1 : Middle(cfgFrames[i])
      BY <1>3, <3>1
    <3>3. cfgFrames[i].why # "reconfig" /\ cfgFaults = 0
      BY <1>0, <1>3, <3>1 DEF CfgOrder, n
    <3> QED
      BY <1>4, <3>2, <3>3 DEF Interrupted, OneFault, n
  <2>3. CASE ~IsInit(f) /\ ~AtEnd(f)
    <3>1. cfgStarted = FALSE
      BY <1>5, <2>3 DEF Executed, Skipped
    <3>2. cfgFaults = 0 \/ \E i \in 1 .. n - 1 : Middle(cfgFrames[i])
      BY <1>3
    <3>3. Top.why # "reconfig"
      BY <1>1, <1>4, <3>1, <3>2 DEF Stopped, n
    <3> QED
      BY <1>2, <1>6, <2>3, <3>3 DEF Middle
  <2> QED
    BY <2>1, <2>2, <2>3
<1>15. Idling'
  BY <1>1 DEF Idling
<1> QED
  BY <1>10, <1>11, <1>12, <1>13, <1>14, <1>15

LEMMA BeginsStart ==
  ASSUME CfgTyped, CfgOrder, CfgStart, NEW f \in CfgFrames, Begins(f), Good'
  PROVE  Complete' /\ InProgress' /\ Interrupted' /\ Running' /\ Stopped' /\ Idling'
<1> DEFINE n == Len(cfgFrames)
           Executed == /\ IsInit(f) => cfgStarted' = FALSE /\ cfgItems' = {}
                       /\ ~IsInit(f) => /\ cfgStarted' = cfgStarted
                                        /\ cfgItems \subseteq cfgItems'
                                        /\ cfgItems' \subseteq Config!Items
                       /\ f.at = Before(f.why) + 1 => "assemblies" \in cfgItems'
           Skipped == f.seen # "ok" /\ cfgStarted' = cfgStarted /\ cfgItems' = cfgItems
<1>0. /\ cfgFrames \in Seq(CfgFrames) /\ n \in Nat
      /\ cfgFaults \in Nat /\ cfgReconfigs \in Nat
      /\ cfgStarted \in BOOLEAN /\ cfgItems \subseteq Config!Items
      /\ cfgStarted' \in BOOLEAN
  <2>1. cfgStarted' \in BOOLEAN
    BY SendsTyped DEF Begins, CfgTyped
  <2> QED
    BY <2>1 DEF CfgTyped, Config!TypeOK
<1>1. /\ Len(cfgFrames') = n + 1 /\ cfgFrames'[n + 1] = f
      /\ \A i \in 1 .. n : cfgFrames'[i] = cfgFrames[i]
      /\ cfgFrames' # <<>>
      /\ Top' = f
  BY <1>0 DEF Begins, Pushed, Top
<1>2. /\ f.at = 1 /\ ~AtEnd(f)
      /\ f.why = "startup" => /\ cfgFrames = <<>> /\ cfgApp = "startup" /\ cfgStarted = FALSE
                              /\ ~IsInit(f) /\ ~Early(f) /\ f.at <= Before(f.why)
      /\ f.why = "reconfig" => /\ cfgFrames = <<>> /\ cfgApp # "startup"
                               /\ ~IsInit(f) /\ f.at = Before(f.why) + 1
                               /\ cfgReconfigs' # 0
      /\ f.why = "reset" => cfgStarted = TRUE /\ IsInit(f) /\ ~Early(f) /\ f.at <= Before(f.why)
      /\ f.why = "factory" => cfgStarted = TRUE /\ ~IsInit(f) /\ Early(f) /\ f.at <= Before(f.why)
      /\ f.why \in {"startup", "reconfig", "reset", "factory"}
      /\ Before(f.why) \in Nat
  <2>1. f.at = 1 /\ f.why \in {"startup", "reconfig", "reset", "factory"}
    BY DEF Begins
  <2>2. /\ f.why = "startup" => cfgFrames = <<>> /\ cfgApp = "startup" /\ cfgStarted = FALSE
        /\ f.why = "reconfig" => cfgFrames = <<>> /\ cfgApp # "startup" /\ cfgReconfigs' # 0
        /\ f.why \in {"reset", "factory"} => cfgStarted = TRUE
    BY <1>0 DEF Begins, CfgOrder
  <2>3. /\ ~AtEnd(f) /\ Before(f.why) \in Nat
        /\ f.why = "startup" => ~IsInit(f) /\ ~Early(f) /\ f.at <= Before(f.why)
        /\ f.why = "reconfig" => ~IsInit(f) /\ f.at = Before(f.why) + 1
        /\ f.why = "reset" => IsInit(f) /\ ~Early(f) /\ f.at <= Before(f.why)
        /\ f.why = "factory" => ~IsInit(f) /\ Early(f) /\ f.at <= Before(f.why)
    BY <2>1 DEF AtEnd, Length, Before, IsInit, Early
  <2> QED
    BY <2>1, <2>2, <2>3
<1>3. /\ Good
      /\ \/ f.seen = "ok" /\ cfgFaults' = cfgFaults
         \/ /\ f.seen # "ok" /\ cfgFaults = 0 /\ cfgFaults' = 1 /\ f.why # "reconfig"
  BY <1>0, <1>2 DEF Begins, Sends, Good
<1>4. Complete /\ InProgress /\ Interrupted /\ Running /\ Stopped /\ Idling
  BY <1>3 DEF CfgStart
<1>5. Executed \/ Skipped
  BY <1>2, SendsAt DEF Begins
<1>6. f.seen # "ok" => \A i \in 1 .. n : ~Stopping(cfgFrames[i])
  BY <1>0, <1>3, WhatStops DEF CfgOrder
<1>7. OneFault /\ f.seen = "ok" => OneFault'
  BY <1>0, <1>1, <1>3, WhatStops DEF OneFault, Stopping, Request
<1>8. f.seen # "ok" /\ ~Stopping(f) => OneFault'
  BY <1>0, <1>1, <1>3, <1>6 DEF OneFault, Stopping, Request
<1> HIDE DEF Executed, Skipped
<1>9. Complete'
  BY <1>0, <1>4, <1>5 DEF Complete, Executed, Skipped
<1>10. InProgress'
  <2>1. HasDone(f)'
    <3>1. CASE f.why = "reconfig"
      BY <1>2, <1>3, <1>5, <3>1 DEF HasDone, Executed, Skipped
    <3>2. CASE f.why # "reconfig"
      BY <1>2, <3>2 DEF HasDone
    <3> QED
      BY <3>1, <3>2
  <2> QED
    BY <1>1, <2>1 DEF InProgress, HasDone
<1>11. Interrupted'
  <2> SUFFICES ASSUME NEW i \in 1 .. n, Middle(cfgFrames[i])
               PROVE  cfgFrames[i].why = "reconfig" \/ OneFault'
    BY <1>0, <1>1 DEF Interrupted
  <2>1. cfgFrames[i].why = "reconfig" \/ OneFault
    <3>1. CASE i = n
      <4>1. cfgFrames # <<>> /\ cfgFrames[i] = Top
        BY <1>0, <3>1 DEF Top
      <4>2. cfgStarted = TRUE
        BY <1>2, <4>1
      <4> QED
        BY <1>4, <4>1, <4>2 DEF Running
    <3>2. CASE i # n
      BY <1>0, <1>4, <3>2 DEF Interrupted
    <3> QED
      BY <3>1, <3>2
  <2> QED
    BY <1>3, <1>7, <2>1 DEF OneFault
<1>12. Running'
  <2> SUFFICES ASSUME cfgStarted' = TRUE, Middle(f), f.why # "reconfig" PROVE OneFault'
    BY <1>1 DEF Running
  <2>1. f.why = "reset"
    BY <1>2, <1>5 DEF Middle, Executed, Skipped
  <2>2. f.seen # "ok"
    BY <1>2, <1>5, <2>1 DEF Executed, Skipped
  <2> QED
    BY <1>2, <1>8, <2>1, <2>2, WhatStops
<1>13. Stopped'
  <2>0. ASSUME NEW i \in 1 .. Len(cfgFrames') - 1, Middle(cfgFrames'[i])
        PROVE  \E k \in 1 .. n : Middle(cfgFrames[k])
    <3>1. i \in 1 .. n /\ cfgFrames'[i] = cfgFrames[i]
      BY <1>0, <1>1
    <3> QED
      BY <2>0, <3>1
  <2> SUFFICES ASSUME cfgStarted' = FALSE,
                      cfgFaults' = 0 \/ \E i \in 1 .. n : Middle(cfgFrames[i])
               PROVE  Middle(f) /\ f.why # "reconfig"
    BY <1>1, <2>0 DEF Stopped
  <2>1. f.why # "factory"
    BY <1>2, <1>5 DEF Executed, Skipped
  <2>2. f.why # "reconfig"
    <3> SUFFICES ASSUME f.why = "reconfig" PROVE FALSE
      OBVIOUS
    <3>1. cfgFaults = 0
      BY <1>0, <1>2, <1>3
    <3>2. cfgStarted = TRUE
      BY <1>2, <1>4, <3>1 DEF Idling
    <3> QED
      BY <1>2, <1>5, <3>2 DEF Executed, Skipped
  <2> QED
    BY <1>2, <2>1, <2>2 DEF Middle
<1>14. Idling'
  BY <1>1 DEF Idling
<1> QED
  BY <1>9, <1>10, <1>11, <1>12, <1>13, <1>14

LEMMA EndsStart ==
  ASSUME CfgTyped, CfgOrder, CfgStart, Ends, Good'
  PROVE  Complete' /\ InProgress' /\ Interrupted' /\ Running' /\ Stopped' /\ Idling'
<1> DEFINE n == Len(cfgFrames)
<1>0. /\ cfgFrames \in Seq(CfgFrames) /\ n \in Nat \ {0}
      /\ cfgFaults \in Nat /\ cfgReconfigs \in Nat
      /\ cfgStarted \in BOOLEAN
      /\ Top \in CfgFrames /\ Top = cfgFrames[n]
  BY DEF CfgTyped, Config!TypeOK, Ends, Top
<1>1. /\ cfgFrames' \in Seq(CfgFrames) /\ Len(cfgFrames') = n - 1
      /\ \A i \in 1 .. n - 1 : cfgFrames'[i] = cfgFrames[i]
      /\ cfgFrames # <<>>
      /\ cfgFrames' = <<>> <=> n = 1
      /\ Stopping(Top) \/ AtEnd(Top)
  BY <1>0 DEF Ends
<1>2. /\ cfgStarted' = cfgStarted /\ cfgItems' = cfgItems
      /\ cfgFaults' = cfgFaults /\ cfgReconfigs' = cfgReconfigs
  BY DEF Ends, Config!stackVars
<1>3. Good
  BY <1>2 DEF Good
<1>4. Complete /\ InProgress /\ Interrupted /\ Running /\ Stopped /\ Idling
  BY <1>3 DEF CfgStart
<1>5. cfgFaults = 0 => ~Stopping(Top) /\ ~Middle(Top)
  BY <1>0, <1>1, WhatStops DEF CfgOrder, Middle
<1>6. OneFault => OneFault' /\ ~Stopping(Top) /\ ~Middle(Top)
  BY <1>0, <1>1, <1>2 DEF OneFault, Stopping, Request, Middle
<1>7. cfgFaults # 0 => \A i \in 1 .. n : cfgFrames[i].why # "reconfig"
  BY <1>3 DEF Good, CfgOrder
<1>8. cfgStarted = FALSE => cfgFaults # 0 /\ \A i \in 1 .. n - 1 : ~Middle(cfgFrames[i])
  <2> SUFFICES ASSUME cfgStarted = FALSE
               PROVE  cfgFaults # 0 /\ \A i \in 1 .. n - 1 : ~Middle(cfgFrames[i])
    OBVIOUS
  <2>1. cfgFaults # 0
    BY <1>1, <1>4, <1>5 DEF Stopped
  <2>2. ASSUME NEW i \in 1 .. n - 1, Middle(cfgFrames[i]) PROVE FALSE
    <3>1. Middle(Top)
      BY <1>1, <1>4, <2>2 DEF Stopped
    <3>2. OneFault
      BY <1>0, <1>4, <1>7, <2>1, <2>2 DEF Interrupted
    <3> QED
      BY <1>6, <3>1, <3>2
  <2> QED
    BY <2>1, <2>2
<1> HIDE DEF n
<1>9. cfgFrames' # <<>> => n - 1 \in 1 .. n - 1 /\ Top' = cfgFrames[n - 1]
  BY <1>0, <1>1 DEF Top
<1>10. Complete'
  BY <1>2, <1>4 DEF Complete
<1>11. InProgress'
  <2> SUFFICES ASSUME cfgStarted = FALSE, cfgFrames' # <<>> PROVE ~Middle(Top)'
    BY <1>2 DEF InProgress, Middle, Early, AtEnd, Length
  <2>1. ~Middle(cfgFrames[n - 1])
    BY <1>8, <1>9
  <2> QED
    BY <1>9, <2>1 DEF Middle, Early, AtEnd, Length
<1>12. Interrupted'
  BY <1>0, <1>1, <1>4, <1>6 DEF Interrupted, Middle, Early, AtEnd, Length, n
<1>13. Running'
  <2> SUFFICES ASSUME cfgFrames' # <<>>, Middle(cfgFrames[n - 1])
               PROVE  cfgFrames[n - 1].why = "reconfig" \/ OneFault'
    BY <1>9 DEF Running, Middle, Early, AtEnd, Length
  <2> QED
    BY <1>4, <1>6, <1>9 DEF Interrupted, n
<1>14. Stopped'
  <2>1. ASSUME NEW i \in 1 .. Len(cfgFrames') - 1, Middle(cfgFrames'[i])
        PROVE  \E k \in 1 .. n - 1 : Middle(cfgFrames[k])
    <3>1. i \in 1 .. n - 1 /\ cfgFrames'[i] = cfgFrames[i]
      BY <1>0, <1>1
    <3> QED
      BY <2>1, <3>1
  <2> QED
    BY <1>2, <1>8, <2>1 DEF Stopped
<1>15. Idling'
  BY <1>0, <1>2, <1>8 DEF Idling
<1> QED
  BY <1>10, <1>11, <1>12, <1>13, <1>14, <1>15

CfgInv == CfgTyped /\ CfgOrder /\ CfgStart

LEMMA CfgInvInit == Config!Init => CfgInv
<1> SUFFICES ASSUME Config!Init PROVE CfgInv
  OBVIOUS
<1>1. cfgFrames = <<>> /\ cfgFrames \in Seq(CfgFrames) /\ cfgFrames \in Seq(Config!Frame)
  BY DEF Config!Init
<1>2. Config!TypeOK
  <2>1. /\ cfgResets \in 0 .. MaxResets /\ cfgReconfigs \in 0 .. MaxReconfigs
        /\ cfgFaults \in 0 .. MaxFailures
    BY UnitsAssumption DEF Config!Init
  <2>2. /\ cfgRegistered \in BOOLEAN /\ cfgStarted \in BOOLEAN /\ cfgItems \subseteq Config!Items
        /\ cfgApp \in {"startup", "running", "failed"}
        /\ cfgRemanent \in {"user", "invalid", "default"}
    BY DEF Config!Init
  <2> QED
    BY <1>1, <2>1, <2>2 DEF Config!TypeOK
<1>3. CfgOrder
  BY DEF Config!Init, CfgOrder
<1>4. CfgStart
  BY DEF Config!Init, CfgStart, Complete, InProgress, Interrupted, Running, Stopped, Idling
<1> QED
  BY <1>1, <1>2, <1>3, <1>4 DEF CfgInv, CfgTyped

LEMMA CfgInvStep == CfgInv /\ [Config!Next]_cfgVars => CfgInv'
<1> SUFFICES ASSUME CfgInv, [Config!Next]_cfgVars PROVE CfgInv'
  OBVIOUS
<1>1. CfgTyped' /\ CfgOrder'
  BY CfgTypedStep, CfgOrderStep DEF CfgInv
<1>2. CfgStart'
  <2>1. CASE UNCHANGED cfgVars
    BY <2>1 DEF CfgInv, cfgVars, CfgStart, Good, Complete, InProgress, Interrupted, Running,
                Stopped, Idling, OneFault, Top, HasDone, Early, AtEnd, Middle, Stopping, Length,
                Request
  <2>2. CASE Config!StoreRemanentData
    BY <2>2 DEF CfgInv, Config!StoreRemanentData, CfgStart, Good, Complete, InProgress,
                Interrupted, Running, Stopped, Idling, OneFault, Top, HasDone, Early, AtEnd,
                Middle, Stopping, Length, Request
  <2>3. CASE StartFails
    <3>1. /\ cfgStarted' = FALSE /\ cfgFrames' = <<>> /\ Len(cfgFrames') = 0
          /\ cfgFaults' # 0
      BY <2>3 DEF CfgInv, CfgTyped, Config!TypeOK, CfgOrder, StartFails, Config!stackVars
    <3> QED
      BY <3>1 DEF CfgStart, Complete, InProgress, Interrupted, Running, Stopped, Idling
  <2>4. CASE Config!Next /\ ~Config!StoreRemanentData /\ ~StartFails
    BY <2>4, CfgSteps, BeginsStart, GoesOnStart, EndsStart DEF CfgInv, CfgStart
  <2> QED
    BY <2>1, <2>2, <2>3, <2>4
<1> QED
  BY <1>1, <1>2 DEF CfgInv

(* Data that have been deleted: the channel init is still to come, or the   *)
(* configuration that stopped communication has not been completed.         *)
Restores == cfgStarted = FALSE /\ cfgFrames # <<>> /\ Top.at < Length(Top) - 1
CfgRestore ==
  cfgFaults = 0 /\ cfgRemanent = "invalid" =>
    (\E i \in 1 .. Len(cfgFrames) : Early(cfgFrames[i])) \/ Restores

LEMMA CfgRestoreStep == CfgTyped /\ CfgOrder /\ CfgRestore /\ [Config!Next]_cfgVars => CfgRestore'
<1> SUFFICES ASSUME CfgTyped, CfgOrder, CfgRestore, [Config!Next]_cfgVars,
                    cfgFaults' = 0, cfgRemanent' = "invalid"
             PROVE  (\E i \in 1 .. Len(cfgFrames) : Early(cfgFrames[i]))' \/ Restores'
  BY DEF CfgRestore
<1>0. /\ cfgFrames \in Seq(CfgFrames) /\ Len(cfgFrames) \in Nat
      /\ cfgFaults \in Nat /\ cfgStarted \in BOOLEAN
  BY DEF CfgTyped, Config!TypeOK
<1>1. ASSUME NEW f \in CfgFrames, Sends(f)
      PROVE  /\ cfgFaults = 0
             /\ Early(f) \/ cfgRemanent = "invalid"
             /\ f.at # Length(f) - 1
             /\ IsInit(f) => cfgStarted' = FALSE
             /\ cfgStarted = FALSE /\ ~AtEnd(f) => cfgStarted' = FALSE
  <2>1. cfgFaults = 0 /\ Config!Does(Request(f))
    BY <1>0, <1>1 DEF Sends
  <2>2. /\ IsInit(f) => Request(f) = "init"
        /\ ~Early(f) => Request(f) # "delete"
        /\ f.at = Length(f) - 1 => Request(f) = "done"
    BY RequestAt DEF IsInit, Early, Length, Before
  <2>3. ~Early(f) => cfgRemanent = "invalid"
    BY <2>1, <2>2 DEF Config!Does
  <2>4. f.at # Length(f) - 1
    BY <2>1, <2>2 DEF Config!Does
  <2>5. /\ IsInit(f) => cfgStarted' = FALSE
        /\ cfgStarted = FALSE /\ ~AtEnd(f) => cfgStarted' = FALSE
    BY <2>1, DoesAt DEF CfgTyped, Config!TypeOK
  <2> QED
    BY <2>1, <2>3, <2>4, <2>5
<1>2. ASSUME NEW f \in CfgFrames, Begins(f)
      PROVE  \E i \in 1 .. Len(cfgFrames') : Early(cfgFrames'[i])
  <2>1. /\ Len(cfgFrames') = Len(cfgFrames) + 1 /\ cfgFrames'[Len(cfgFrames) + 1] = f
        /\ \A i \in 1 .. Len(cfgFrames) : cfgFrames'[i] = cfgFrames[i]
    BY <1>2 DEF Begins, Pushed
  <2>2. CASE Early(f)
    BY <1>0, <2>1, <2>2
  <2>3. CASE ~Early(f)
    <3>1. cfgRemanent = "invalid" /\ cfgFaults = 0
      BY <1>1, <1>2, <2>3 DEF Begins
    <3>2. ~Restores
      BY <1>0, <1>2, <3>1 DEF Restores, Begins, CfgOrder
    <3>3. PICK i \in 1 .. Len(cfgFrames) : Early(cfgFrames[i])
      BY <3>1, <3>2 DEF CfgRestore
    <3> QED
      BY <1>0, <2>1, <3>3
  <2> QED
    BY <2>2, <2>3
<1>3. ASSUME NEW f \in CfgFrames, GoesOn(f)
      PROVE  (\E i \in 1 .. Len(cfgFrames') : Early(cfgFrames'[i])) \/ Restores'
  <2>1. /\ Len(cfgFrames') = Len(cfgFrames) /\ cfgFrames'[Len(cfgFrames)] = f
        /\ \A i \in 1 .. Len(cfgFrames) - 1 : cfgFrames'[i] = cfgFrames[i]
        /\ cfgFrames # <<>> /\ cfgFrames' # <<>>
        /\ Top' = f
    BY <1>0, <1>3 DEF GoesOn, Pushed, Top
  <2>2. /\ f.why = Top.why /\ f.at = Top.at + 1 /\ Top \in CfgFrames
        /\ Top = cfgFrames[Len(cfgFrames)]
    BY <1>0, <2>1, <1>3 DEF GoesOn, Top
  <2>3. /\ ~Early(f) /\ (Early(Top) => IsInit(f) /\ f.at < Length(f) - 1)
        /\ Length(f) = Length(Top) /\ f.at \in Nat
        /\ Top.at < Length(Top) - 1 => f.at < Length(f) - 1 \/ f.at = Length(f) - 1
        /\ f.at < Length(f) - 1 => ~AtEnd(f)
    BY <2>2 DEF Early, IsInit, Length, Before, AtEnd, CfgFrames, Config!Frame
  <2>4. cfgRemanent = "invalid" /\ cfgFaults = 0 /\ f.at # Length(f) - 1
    BY <1>1, <1>3, <2>3 DEF GoesOn
  <2>5. CASE Restores
    <3>1. f.at < Length(f) - 1 /\ cfgStarted' = FALSE
      BY <1>1, <1>3, <2>3, <2>4, <2>5 DEF Restores, GoesOn
    <3> QED
      BY <2>1, <3>1 DEF Restores, Length
  <2>6. CASE ~Restores
    <3>1. PICK i \in 1 .. Len(cfgFrames) : Early(cfgFrames[i])
      BY <2>4, <2>6 DEF CfgRestore
    <3>2. CASE i # Len(cfgFrames)
      BY <1>0, <2>1, <3>1, <3>2
    <3>3. CASE i = Len(cfgFrames)
      <4>1. f.at < Length(f) - 1 /\ cfgStarted' = FALSE
        BY <1>1, <1>3, <2>2, <2>3, <3>1, <3>3 DEF GoesOn
      <4> QED
        BY <2>1, <4>1 DEF Restores, Length
    <3> QED
      BY <3>2, <3>3
  <2> QED
    BY <2>5, <2>6
<1>4. ASSUME Ends PROVE \E i \in 1 .. Len(cfgFrames') : Early(cfgFrames'[i])
  <2>1. /\ Len(cfgFrames') = Len(cfgFrames) - 1
        /\ \A i \in 1 .. Len(cfgFrames) - 1 : cfgFrames'[i] = cfgFrames[i]
        /\ cfgFrames # <<>>
        /\ cfgRemanent = "invalid" /\ cfgFaults = 0
    BY <1>4 DEF Ends, Config!stackVars
  <2>2. Top \in CfgFrames /\ Top = cfgFrames[Len(cfgFrames)]
    BY <1>0, <2>1 DEF Top
  <2>3. AtEnd(Top)
    BY <1>0, <1>4, <2>1, <2>2, WhatStops DEF Ends, CfgOrder
  <2>4. ~Early(Top) /\ ~Restores
    BY <2>2, <2>3 DEF AtEnd, Early, Restores, Length, Before, CfgFrames, Config!Frame
  <2>5. PICK i \in 1 .. Len(cfgFrames) : Early(cfgFrames[i])
    BY <2>1, <2>4 DEF CfgRestore
  <2>6. i # Len(cfgFrames)
    BY <2>2, <2>4, <2>5
  <2> QED
    BY <1>0, <2>1, <2>5, <2>6
<1>5. CASE Config!StoreRemanentData
  BY <1>5 DEF Config!StoreRemanentData
<1>6. CASE UNCHANGED cfgVars
  BY <1>6 DEF cfgVars, CfgRestore, Restores, Top, Length, Early
<1>7. CASE StartFails
  BY <1>0, <1>7 DEF StartFails
<1> QED
  BY <1>2, <1>3, <1>4, <1>5, <1>6, <1>7, CfgSteps

LEMMA CfgInvariance == Config!Spec => [](CfgInv /\ CfgRestore)
<1>1. Config!Init => CfgInv /\ CfgRestore
  BY CfgInvInit DEF Config!Init, CfgRestore
<1>2. CfgInv /\ CfgRestore /\ [Config!Next]_cfgVars => (CfgInv /\ CfgRestore)'
  BY CfgInvStep, CfgRestoreStep DEF CfgInv
<1>3. [Config!Next]_(Config!vars) => [Config!Next]_cfgVars
  BY DEF Config!vars, cfgVars
<1> QED
  BY <1>1, <1>2, <1>3, PTL DEF Config!Spec

(* The stack communicates with the whole configuration only, however deep   *)
(* resets nest in configurations, for any number of them, while not more    *)
(* than one request fails and "reconfig" is not used, or while none fails.  *)
THEOREM StartSafety == Config!Spec => []StartedIsComplete
<1>1. CfgInv => StartedIsComplete
  BY DEF CfgInv, CfgTyped, Config!TypeOK, CfgStart, Good, Complete, StartedIsComplete,
         Config!StartedIsComplete
<1> QED
  BY <1>1, CfgInvariance, PTL

(* What a factory reset (AppEIS_HandleResetInd) has deleted is restored     *)
(* from the configuration before communication starts again.                *)
THEOREM RestoreSafety == Config!Spec => []RestoredBeforeStart
<1>1. CfgInv /\ CfgRestore => RestoredBeforeStart
  <2> SUFFICES ASSUME CfgInv, CfgRestore, cfgFaults = 0, cfgStarted, cfgRemanent = "invalid"
               PROVE  \E i \in DOMAIN cfgFrames : cfgFrames[i].why = "factory" /\ cfgFrames[i].at = 1
    BY DEF RestoredBeforeStart, Config!RestoredBeforeStart
  <2>1. cfgStarted # FALSE
    OBVIOUS
  <2>2. PICK i \in 1 .. Len(cfgFrames) : Early(cfgFrames[i])
    BY <2>1 DEF CfgRestore, Restores
  <2>3. i \in DOMAIN cfgFrames
    BY DEF CfgInv, CfgTyped
  <2> QED
    BY <2>2, <2>3 DEF Early
<1> QED
  BY <1>1, CfgInvariance, PTL

(* The runs of the unit are those of StackConfiguration.                    *)
LEMMA ConfigRuns == MCSpec => Config!Spec
<1>1. MCInit => Config!Init
  BY DEF MCInit
<1>2. [MCNext]_<<unit, vars, nvVars, cfgVars>> => [Config!Next]_(Config!vars)
  BY DEF MCNext, cfgVars, Config!vars
<1> QED
  BY <1>1, <1>2, PTL DEF MCSpec, Config!Spec

----------------------------------------------------------------------------
(* NvramLayout: for all values of the items, and whatever lies behind the   *)
(* table                                                                    *)

(* Where the items start when all are in the table, and its end.            *)
NvPlace == <<0, 15, 22, 31, 46, 53, 60, 67, 74, 79, 86, 93, 97>>
NvCells == 0 .. 96
NvItem == 1 .. 12

HasItem(table, j, v) ==
  /\ table[NvPlace[j]] = Nvram!Items[j].lo /\ table[NvPlace[j] + 1] = 240
  /\ table[NvPlace[j] + 2] = Nvram!Items[j].size
  /\ \A k \in 1 .. Nvram!Items[j].size : table[NvPlace[j] + 2 + k] = v

(* The first m items are in the table, and nothing behind them.             *)
Laid(table, m) ==
  /\ \A j \in 1 .. m : \E v \in Values : HasItem(table, j, v)
  /\ \A loc \in NvPlace[m + 1] .. 96 : table[loc] = 0

NvTyped ==
  /\ nvImage \in [NvCells -> Nat] /\ nvSize \in 0 .. 97
  /\ nvParams \in [NvItem -> Values]
  /\ nvFile = <<>> \/ nvFile \in [NvCells -> Nat]
  /\ nvNext \in 0 .. 13 /\ nvChanges \in 0 .. MaxChanges

(* The table is whole or empty, but for a save that makes the first; what   *)
(* a save has written so far has the values of now.                         *)
NvInv ==
  /\ NvTyped
  /\ nvFile # <<>> => Laid(nvFile, 12)
  /\ nvNext = 0 => Laid(nvImage, 0) \/ Laid(nvImage, 12)
  /\ nvNext > 0 =>
       /\ nvSize = NvPlace[nvNext]
       /\ Laid(nvImage, nvNext - 1) \/ Laid(nvImage, 12)
       /\ \A j \in 1 .. nvNext - 1 : HasItem(nvImage, j, nvParams[j])

(* The twelve items, their sizes and their places, in numbers.              *)
LEMMA ItemsAre ==
  /\ Nvram!Item = NvItem
  /\ \A i \in NvItem : /\ Nvram!Items[i].lo \in 1 .. 16
                       /\ Nvram!Items[i].size \in 1 .. 12
                       /\ NvPlace[i] \in 0 .. 93
                       /\ NvPlace[i + 1] = NvPlace[i] + Nvram!Items[i].size + 3
                       /\ NvPlace[i + 1] \in 0 .. 97
  /\ NvPlace[1] = 0 /\ NvPlace[13] = 97
  /\ Len(Nvram!Items) = 12
<1>1. Nvram!Item = NvItem /\ Len(Nvram!Items) = 12
  BY DEF Nvram!Item, Nvram!Items, NvItem
<1>2. ASSUME NEW i \in NvItem
      PROVE  /\ Nvram!Items[i].lo \in 1 .. 16
             /\ Nvram!Items[i].size \in 1 .. 12
             /\ NvPlace[i] \in 0 .. 93
             /\ NvPlace[i + 1] = NvPlace[i] + Nvram!Items[i].size + 3
             /\ NvPlace[i + 1] \in 0 .. 97
  <2>1. \/ i = 1 \/ i = 2 \/ i = 3 \/ i = 4 \/ i = 5 \/ i = 6
        \/ i = 7 \/ i = 8 \/ i = 9 \/ i = 10 \/ i = 11 \/ i = 12
    BY DEF NvItem
  <2> QED
    BY <2>1 DEF Nvram!Items, NvPlace
<1>3. NvPlace[1] = 0 /\ NvPlace[13] = 97
  BY DEF NvPlace
<1> QED
  BY <1>1, <1>2, <1>3

(* No two items have the same index.                                        *)
LEMMA ItemsDiffer ==
  \A i, j \in NvItem : i # j => Nvram!Items[i].lo # Nvram!Items[j].lo
<1> SUFFICES ASSUME NEW i \in NvItem, NEW j \in NvItem, i # j
             PROVE  Nvram!Items[i].lo # Nvram!Items[j].lo
  OBVIOUS
<1>1. \/ i = 1 \/ i = 2 \/ i = 3 \/ i = 4 \/ i = 5 \/ i = 6
      \/ i = 7 \/ i = 8 \/ i = 9 \/ i = 10 \/ i = 11 \/ i = 12
  BY DEF NvItem
<1>2. \/ j = 1 \/ j = 2 \/ j = 3 \/ j = 4 \/ j = 5 \/ j = 6
      \/ j = 7 \/ j = 8 \/ j = 9 \/ j = 10 \/ j = 11 \/ j = 12
  BY DEF NvItem
<1> QED
  BY <1>1, <1>2 DEF Nvram!Items

(* An item ends before a later one starts.                                  *)
LEMMA PlacesRise ==
  \A i, j \in NvItem \cup {13} : j < i => NvPlace[j + 1] <= NvPlace[i]
<1> SUFFICES ASSUME NEW i \in NvItem \cup {13}, NEW j \in NvItem \cup {13}, j < i
             PROVE  NvPlace[j + 1] <= NvPlace[i]
  OBVIOUS
<1> DEFINE Late == {n \in Nat : n > j /\ n <= 13 /\ NvPlace[n] < NvPlace[j + 1]}
<1>1. i \in Nat /\ i <= 13 /\ j \in NvItem
  BY DEF NvItem
<1>2. SUFFICES ASSUME Late # {} PROVE FALSE
  <2>1. NvPlace[j + 1] \in 0 .. 97
    BY <1>1, ItemsAre
  <2>2. NvPlace[i] \in Nat
    <3>1. CASE i = 13
      BY <3>1, ItemsAre
    <3>2. CASE i \in NvItem
      <4>1. NvPlace[i] \in 0 .. 93
        BY <3>2, ItemsAre
      <4> QED
        BY <4>1
    <3> QED
      BY <3>1, <3>2
  <2> QED
    BY <1>1, <2>1, <2>2
<1>3. PICK n \in Late : \A k \in Late : n <= k
  <2> HIDE DEF Late
  <2>1. Late \in SUBSET Nat
    BY DEF Late
  <2> QED
    BY <1>2, <2>1, LeastElement
<1>4. n # j + 1
  <2>1. NvPlace[j + 1] \in 0 .. 97
    BY ItemsAre, <1>1
  <2> QED
    BY <1>3, <2>1
<1>5. PICK m \in NvItem : n = m + 1 /\ m > j
  <2>1. n - 1 \in NvItem /\ n - 1 > j /\ n = (n - 1) + 1
    BY <1>1, <1>3, <1>4 DEF NvItem
  <2> QED
    BY <2>1
<1>6. NvPlace[m] < NvPlace[n] /\ NvPlace[m] \in Nat /\ NvPlace[n] \in Nat
      /\ NvPlace[j + 1] \in Nat
  <2>1. /\ Nvram!Items[m].size \in Nat /\ Nvram!Items[j].size \in Nat
        /\ NvPlace[m] \in Nat /\ NvPlace[j] \in Nat
        /\ NvPlace[m + 1] = NvPlace[m] + Nvram!Items[m].size + 3
        /\ NvPlace[j + 1] = NvPlace[j] + Nvram!Items[j].size + 3
    BY <1>1, <1>5, ItemsAre, SMTT(30)
  <2> QED
    BY <1>5, <2>1
<1>7. m \in Late /\ m < n
  BY <1>1, <1>3, <1>5, <1>6 DEF NvItem
<1> QED
  BY <1>3, <1>5, <1>7 DEF NvItem

NvBehind == [0 .. 1 -> Nat]

(* Where the search for an item stops, and where it goes on.                *)
NvStops(i, end, behind) ==
  {loc \in Nat : \/ Nvram!AtEnd(loc, end)
                 \/ /\ Nvram!Byte(loc, behind) = Nvram!Items[i].lo
                    /\ Nvram!Byte(loc + 1, behind) = 240}

NvGoes(behind) == [loc \in Nat |-> loc + Nvram!Byte(loc + 2, behind) + 3]

NvSearches(f, i, end, behind) ==
  \A loc \in Nat :
    f[loc] = IF loc \in NvStops(i, end, behind) THEN loc ELSE f[NvGoes(behind)[loc]]

LEMMA BytesAreNumbers ==
  ASSUME nvImage \in [NvCells -> Nat], NEW behind \in NvBehind, NEW loc \in Nat
  PROVE  /\ Nvram!Byte(loc, behind) \in Nat
         /\ loc < 97 => Nvram!Byte(loc, behind) = nvImage[loc]
<1>1. CASE loc < 97
  BY <1>1 DEF Nvram!Byte, Nvram!NVRAM_MAX_SIZE, NvCells
<1>2. CASE ~(loc < 97)
  <2>1. (loc - 97) % 2 \in 0 .. 1
    BY <1>2
  <2>2. Nvram!Byte(loc, behind) = behind[(loc - 97) % 2]
    BY <1>2 DEF Nvram!Byte, Nvram!NVRAM_MAX_SIZE
  <2> QED
    BY <1>2, <2>1, <2>2 DEF NvBehind
<1> QED
  BY <1>1, <1>2

(* NvReadRam and NvWriteRam search the table from its start.                *)
LEMMA EntrySearches ==
  ASSUME nvImage \in [NvCells -> Nat], NEW behind \in NvBehind, NEW i, NEW end
  PROVE  \E f : NvSearches(f, i, end, behind) /\ Nvram!Entry(i, end, behind) = f[0]
<1> DEFINE G(f) == [loc \in Nat |->
             IF \/ Nvram!AtEnd(loc, end)
                \/ /\ Nvram!Byte(loc, behind) = Nvram!Items[i].lo
                   /\ Nvram!Byte(loc + 1, behind) = 240
             THEN loc ELSE f[loc + Nvram!Byte(loc + 2, behind) + 3]]
           H(f) == [loc \in Nat |-> IF loc \in NvStops(i, end, behind) THEN loc
                                    ELSE f[NvGoes(behind)[loc]]]
<1>1. NvGoes(behind) \in [Nat -> Nat]
  <2>1. \A loc \in Nat : loc + Nvram!Byte(loc + 2, behind) + 3 \in Nat
    BY BytesAreNumbers
  <2> QED
    BY <2>1 DEF NvGoes
<1>2. NvStops(i, end, behind) \in SUBSET Nat
  BY DEF NvStops
<1>3. \E f : f = H(f)
  <2> DEFINE stop == NvStops(i, end, behind)
             goes == NvGoes(behind)
  <2>1. stop \in SUBSET Nat /\ goes \in [Nat -> Nat]
    BY <1>1, <1>2
  <2>2. ASSUME NEW stops \in SUBSET Nat, NEW step \in [Nat -> Nat]
        PROVE  \E f : f = [loc \in Nat |-> IF loc \in stops THEN loc ELSE f[step[loc]]]
    BY SearchExists, Zenon
  <2> HIDE DEF stop, goes
  <2>3. \E f : f = [loc \in Nat |-> IF loc \in stop THEN loc ELSE f[goes[loc]]]
    BY <2>1, <2>2, Zenon
  <2> QED
    BY <2>3, Zenon DEF stop, goes
<1>4. ASSUME NEW f PROVE H(f) = G(f)
  BY DEF NvStops, NvGoes
<1>5. Nvram!Entry(i, end, behind) = (CHOOSE f : f = G(f))[0]
  BY DEF Nvram!Entry
<1> DEFINE g == CHOOSE f : f = G(f)
<1>6. g = H(g)
  <2> HIDE DEF G, H
  <2>1. \E f : f = G(f)
    BY <1>3, <1>4
  <2> QED
    BY <1>4, <2>1
<1>7. NvSearches(g, i, end, behind)
  <2> HIDE DEF g
  <2> QED
    BY <1>6 DEF NvSearches
<1> HIDE DEF g
<1> QED
  BY <1>5, <1>7 DEF g

(* The search stops at the item it looks for and goes on behind another.    *)
LEMMA AtAnItem ==
  ASSUME nvImage \in [NvCells -> Nat], NEW behind \in NvBehind,
         NEW i \in NvItem, NEW end \in 0 .. 97,
         NEW j \in NvItem, NEW v, HasItem(nvImage, j, v), NvPlace[j] < end
  PROVE  /\ j = i => NvPlace[j] \in NvStops(i, end, behind)
         /\ j # i => /\ NvPlace[j] \notin NvStops(i, end, behind)
                     /\ NvGoes(behind)[NvPlace[j]] = NvPlace[j + 1]
<1> DEFINE p == NvPlace[j]
<1>1. /\ p \in Nat /\ p + 2 < 97
      /\ Nvram!Items[j].size \in Nat
      /\ NvPlace[j + 1] = p + Nvram!Items[j].size + 3
  BY ItemsAre
<1> HIDE DEF p
<1>2. /\ Nvram!Byte(p, behind) = Nvram!Items[j].lo
      /\ Nvram!Byte(p + 1, behind) = 240
      /\ Nvram!Byte(p + 2, behind) = Nvram!Items[j].size
  <2>1. p \in Nat /\ p + 1 \in Nat /\ p + 2 \in Nat /\ p < 97 /\ p + 1 < 97
    BY <1>1
  <2>2. /\ Nvram!Byte(p, behind) = nvImage[p]
        /\ Nvram!Byte(p + 1, behind) = nvImage[p + 1]
        /\ Nvram!Byte(p + 2, behind) = nvImage[p + 2]
    BY <1>1, <2>1, BytesAreNumbers
  <2> QED
    BY <2>2 DEF HasItem, p
<1>3. ~Nvram!AtEnd(p, end)
  BY <1>1 DEF Nvram!AtEnd, p
<1>4. p \in NvStops(i, end, behind) <=> Nvram!Items[j].lo = Nvram!Items[i].lo
  BY <1>1, <1>2, <1>3 DEF NvStops
<1>5. NvGoes(behind)[p] = NvPlace[j + 1]
  BY <1>1, <1>2 DEF NvGoes
<1> QED
  BY <1>4, <1>5, ItemsDiffer DEF p

(* Items other than the one it looks for lead the search to their end.      *)
LEMMA Passes ==
  ASSUME nvImage \in [NvCells -> Nat], NEW behind \in NvBehind,
         NEW i \in NvItem, NEW end \in 0 .. 97, NEW k \in 1 .. 13, k <= i,
         NvPlace[k] <= end,
         \A j \in 1 .. k - 1 : \E v \in Values : HasItem(nvImage, j, v),
         NEW f, NvSearches(f, i, end, behind)
  PROVE  f[0] = f[NvPlace[k]]
<1> DEFINE Off == {n \in Nat : n >= 1 /\ n <= k /\ f[0] # f[NvPlace[n]]}
<1>1. SUFFICES ASSUME Off # {} PROVE FALSE
  OBVIOUS
<1>2. PICK n \in Off : \A m \in Off : n <= m
  <2> HIDE DEF Off
  <2>1. Off \in SUBSET Nat
    BY DEF Off
  <2> QED
    BY <1>1, <2>1, LeastElement
<1>3. n # 1
  BY <1>2, ItemsAre
<1>4. PICK j \in NvItem : n = j + 1 /\ j < k
  <2>1. n - 1 \in NvItem /\ n = (n - 1) + 1 /\ n - 1 < k
    BY <1>2, <1>3 DEF NvItem
  <2> QED
    BY <2>1
<1>5. f[0] = f[NvPlace[j]]
  BY <1>2, <1>4 DEF NvItem
<1>6. PICK v \in Values : HasItem(nvImage, j, v)
  BY <1>4 DEF NvItem
<1>7. NvPlace[j] < end /\ NvPlace[j] \in Nat
  <2>1. NvPlace[j + 1] <= NvPlace[k]
    BY <1>4, PlacesRise DEF NvItem
  <2>2. /\ NvPlace[j] \in Nat /\ Nvram!Items[j].size \in Nat
        /\ NvPlace[j + 1] = NvPlace[j] + Nvram!Items[j].size + 3
    BY ItemsAre
  <2>3. NvPlace[k] \in Nat
    BY ItemsAre, SMTT(30) DEF NvItem
  <2> QED
    BY <2>1, <2>2, <2>3
<1>8. j # i
  BY <1>4 DEF NvItem
<1>9. f[NvPlace[j]] = f[NvPlace[j + 1]]
  <2>1. /\ NvPlace[j] \notin NvStops(i, end, behind)
        /\ NvGoes(behind)[NvPlace[j]] = NvPlace[j + 1]
    BY <1>6, <1>7, <1>8, AtAnItem
  <2> QED
    BY <1>7, <2>1 DEF NvSearches
<1> QED
  BY <1>2, <1>4, <1>5, <1>9

(* Where nothing is written any more the search ends behind the table.      *)
LEMMA RunsOut ==
  ASSUME nvImage \in [NvCells -> Nat], NEW behind \in NvBehind,
         NEW i \in NvItem, NEW from \in Nat,
         \A loc \in from .. 96 : nvImage[loc] = 0,
         NEW f, NvSearches(f, i, 97, behind)
  PROVE  f[from] \in Nat /\ f[from] >= 97
<1> DEFINE Behind(loc) == f[loc] \in Nat /\ f[loc] >= 97
           Bad == {n \in Nat : \E loc \in Nat : loc >= from /\ loc + n = 97 /\ ~Behind(loc)}
<1>1. ASSUME NEW loc \in Nat, loc >= 97 PROVE Behind(loc)
  <2>1. loc \in NvStops(i, 97, behind)
    BY <1>1 DEF NvStops, Nvram!AtEnd
  <2> QED
    BY <1>1, <2>1 DEF NvSearches
<1>2. ASSUME NEW loc \in Nat, loc >= from, loc < 97
      PROVE  \E on \in Nat : on > loc /\ f[loc] = f[on]
  <2>1. Nvram!Byte(loc, behind) = 0
    BY <1>2, BytesAreNumbers
  <2>2. loc \notin NvStops(i, 97, behind)
    BY <1>2, <2>1, ItemsAre DEF NvStops, Nvram!AtEnd
  <2>3. /\ NvGoes(behind)[loc] = loc + Nvram!Byte(loc + 2, behind) + 3
        /\ Nvram!Byte(loc + 2, behind) \in Nat
    BY BytesAreNumbers DEF NvGoes
  <2>4. f[loc] = f[NvGoes(behind)[loc]]
    BY <2>2 DEF NvSearches
  <2> QED
    BY <2>3, <2>4
<1>3. Bad = {}
  <2>1. SUFFICES ASSUME Bad # {} PROVE FALSE
    OBVIOUS
  <2>2. PICK n \in Bad : \A m \in Bad : n <= m
    <3> HIDE DEF Bad
    <3>1. Bad \in SUBSET Nat
      BY DEF Bad
    <3> QED
      BY <2>1, <3>1, LeastElement
  <2>3. PICK loc \in Nat : loc >= from /\ loc + n = 97 /\ ~Behind(loc)
    BY <2>2
  <2>4. loc < 97
    BY <1>1, <2>3
  <2>5. PICK on \in Nat : on > loc /\ f[loc] = f[on]
    BY <1>2, <2>3, <2>4
  <2>6. ~Behind(on) /\ on < 97
    BY <1>1, <2>3, <2>5
  <2>7. 97 - on \in Bad
    BY <2>3, <2>5, <2>6
  <2>8. n \in Nat
    BY <2>2
  <2> HIDE DEF Bad, Behind
  <2>9. n <= 97 - on
    BY <2>2, <2>7
  <2> QED
    BY <2>3, <2>5, <2>8, <2>9
<1>4. CASE from < 97
  <2>1. 97 - from \notin Bad
    BY <1>3
  <2> QED
    BY <1>4, <2>1
<1> QED
  BY <1>1, <1>4

(* NvReadRam of a table with the first m items: the value of one of these,  *)
(* and nothing for another, whatever lies behind the table.                 *)
ReadsRight(m) ==
  \A i \in NvItem, behind \in NvBehind :
    /\ i > m => Nvram!NvReadRam(i, behind) = <<>>
    /\ i <= m => \A v \in Values : HasItem(nvImage, i, v) =>
         Nvram!NvReadRam(i, behind) = [k \in 1 .. Nvram!Items[i].size |-> v]

ReadingIsRight ==
  \A m \in 0 .. 12 : nvImage \in [NvCells -> Nat] /\ Laid(nvImage, m) => ReadsRight(m)

LEMMA Reading == ReadingIsRight
<1> SUFFICES ASSUME NEW m \in 0 .. 12, nvImage \in [NvCells -> Nat], Laid(nvImage, m),
                    NEW i \in NvItem, NEW behind \in NvBehind
             PROVE  /\ i > m => Nvram!NvReadRam(i, behind) = <<>>
                    /\ i <= m => \A v \in Values : HasItem(nvImage, i, v) =>
                         Nvram!NvReadRam(i, behind) = [k \in 1 .. Nvram!Items[i].size |-> v]
  BY DEF ReadingIsRight, ReadsRight
<1>1. PICK f : NvSearches(f, i, 97, behind) /\ Nvram!Entry(i, 97, behind) = f[0]
  BY EntrySearches
<1>2. ASSUME NEW k \in 1 .. 13, k <= i, NvPlace[k] <= 97,
             \A j \in 1 .. k - 1 : \E v \in Values : HasItem(nvImage, j, v)
      PROVE  f[0] = f[NvPlace[k]]
  <2>1. 97 \in 0 .. 97
    OBVIOUS
  <2> QED
    BY <1>1, <1>2, <2>1, Passes
<1>3. ASSUME i > m PROVE Nvram!NvReadRam(i, behind) = <<>>
  <2>1. /\ m + 1 \in 1 .. 13 /\ m + 1 <= i
        /\ NvPlace[m + 1] \in 0 .. 97 /\ NvPlace[m + 1] \in Nat
    <3>1. m + 1 \in NvItem /\ m + 1 <= i
      BY <1>3 DEF NvItem
    <3>2. NvPlace[m + 1] \in 0 .. 93
      BY <3>1, ItemsAre
    <3> QED
      BY <3>1, <3>2 DEF NvItem
  <2>2. \A j \in 1 .. (m + 1) - 1 : \E v \in Values : HasItem(nvImage, j, v)
    BY DEF Laid
  <2>3. f[0] = f[NvPlace[m + 1]]
    BY <2>1, <2>2, <1>2
  <2>4. \A loc \in NvPlace[m + 1] .. 96 : nvImage[loc] = 0
    BY DEF Laid
  <2>5. f[NvPlace[m + 1]] \in Nat /\ f[NvPlace[m + 1]] >= 97
    BY <1>1, <2>1, <2>4, RunsOut
  <2> QED
    BY <1>1, <2>3, <2>5 DEF Nvram!NvReadRam, Nvram!AtEnd, Nvram!NVRAM_MAX_SIZE
<1>4. ASSUME i <= m, NEW v \in Values, HasItem(nvImage, i, v)
      PROVE  Nvram!NvReadRam(i, behind) = [k \in 1 .. Nvram!Items[i].size |-> v]
  <2> DEFINE p == NvPlace[i]
             size == Nvram!Items[i].size
  <2>1. p \in Nat /\ size \in 1 .. 12 /\ p + 2 + size < 97 /\ p < 97
    <3>1. /\ p \in 0 .. 93 /\ size \in 1 .. 12
          /\ NvPlace[i + 1] = p + size + 3 /\ NvPlace[i + 1] \in 0 .. 97
      BY ItemsAre
    <3> HIDE DEF p, size
    <3> QED
      BY <3>1
  <2>2. \A j \in 1 .. i - 1 : \E w \in Values : HasItem(nvImage, j, w)
    BY <1>4 DEF Laid, NvItem
  <2>3. f[0] = f[p]
    <3>1. i \in 1 .. 13 /\ i <= i /\ p <= 97
      BY <2>1 DEF NvItem
    <3> QED
      BY <2>2, <3>1, <1>2
  <2>4. f[p] = p
    <3>1. 97 \in 0 .. 97
      OBVIOUS
    <3>2. p \in NvStops(i, 97, behind)
      BY <1>4, <2>1, <3>1, AtAnItem
    <3> QED
      BY <1>1, <2>1, <3>2 DEF NvSearches
  <2>5. /\ nvImage[p + 2] = size
        /\ \A k \in 1 .. size : nvImage[p + 2 + k] = v
    BY <1>4 DEF HasItem
  <2> HIDE DEF p, size
  <2>6. Nvram!Byte(p + 2, behind) = size
    <3>1. p + 2 \in Nat /\ p + 2 < 97
      BY <2>1
    <3> QED
      BY <2>5, <3>1, BytesAreNumbers
  <2>7. \A k \in 1 .. size : Nvram!Byte(p + 2 + k, behind) = v
    <3>1. \A k \in 1 .. size : p + 2 + k \in Nat /\ p + 2 + k < 97
      BY <2>1
    <3> QED
      BY <2>5, <3>1, BytesAreNumbers
  <2>8. ~Nvram!AtEnd(p, 97)
    BY <2>1 DEF Nvram!AtEnd
  <2>9. Nvram!NVRAM_MAX_SIZE = 97
    BY DEF Nvram!NVRAM_MAX_SIZE
  <2>10. Nvram!NvReadRam(i, behind) = [k \in 1 .. size |-> Nvram!Byte(p + 2 + k, behind)]
    BY <1>1, <2>3, <2>4, <2>6, <2>8, <2>9 DEF Nvram!NvReadRam, size
  <2> QED
    BY <2>7, <2>10 DEF size
<1> QED
  BY <1>3, <1>4

(* NvWriteRam puts the next item behind those before it and leaves all      *)
(* others as they are.                                                      *)
LEMMA Writing ==
  ASSUME nvImage \in [NvCells -> Nat], nvParams \in [NvItem -> Values], Values \subseteq Nat,
         NEW i \in NvItem, nvSize = NvPlace[i],
         \A j \in 1 .. i - 1 : HasItem(nvImage, j, nvParams[j]),
         Nvram!NvWriteRam(i)
  PROVE  /\ nvImage' \in [NvCells -> Nat]
         /\ nvSize' = NvPlace[i + 1]
         /\ HasItem(nvImage', i, nvParams[i])
         /\ \A at \in NvCells : at < NvPlace[i] \/ at >= NvPlace[i + 1] =>
              nvImage'[at] = nvImage[at]
<1> DEFINE p == NvPlace[i]
           size == Nvram!Items[i].size
<1>1. /\ p \in 0 .. 93 /\ size \in 1 .. 12 /\ NvPlace[i + 1] = p + size + 3
      /\ p + size + 3 <= 97
  <2>1. /\ p \in 0 .. 93 /\ size \in 1 .. 12
        /\ NvPlace[i + 1] = p + size + 3 /\ NvPlace[i + 1] \in 0 .. 97
    BY ItemsAre
  <2> QED
    BY <2>1
<1>2. Nvram!Entry(i, p, Nvram!Zero) = p
  <2>1. Nvram!Zero \in NvBehind
    BY DEF Nvram!Zero, NvBehind
  <2>2. PICK f : NvSearches(f, i, p, Nvram!Zero) /\ Nvram!Entry(i, p, Nvram!Zero) = f[0]
    BY <2>1, EntrySearches
  <2>3. \A j \in 1 .. i - 1 : \E v \in Values : HasItem(nvImage, j, v)
    <3>1. \A j \in 1 .. i - 1 : j \in NvItem
      BY DEF NvItem
    <3>2. \A j \in NvItem : nvParams[j] \in Values
      BY Zenon
    <3> QED
      BY <3>1, <3>2, Zenon
  <2>4. f[0] = f[p]
    <3>1. i \in 1 .. 13 /\ i <= i /\ p <= p /\ p \in 0 .. 97
      BY <1>1 DEF NvItem
    <3> QED
      BY <2>1, <2>2, <2>3, <3>1, Passes
  <2>5. p \in NvStops(i, p, Nvram!Zero)
    BY <1>1 DEF NvStops, Nvram!AtEnd
  <2> QED
    BY <1>1, <2>2, <2>4, <2>5 DEF NvSearches
<1> HIDE DEF p, size
<1>3. Nvram!AtEnd(p, p) /\ Nvram!Fits(p, size)
  BY <1>1 DEF Nvram!AtEnd, Nvram!Fits, Nvram!NVRAM_MAX_SIZE
<1> DEFINE new(at) == CASE at = p -> Nvram!Items[i].lo
                        [] at = p + 1 -> 240
                        [] at = p + 2 -> size
                        [] at \in p + 3 .. p + 2 + size -> nvParams[i]
                        [] OTHER -> nvImage[at]
<1>4. nvImage' = [at \in NvCells |-> new(at)] /\ nvSize' = p + size + 3
  <2>1. nvSize = p
    BY DEF p
  <2> QED
    BY <1>2, <1>3, <2>1 DEF Nvram!NvWriteRam, size
<1>5. Nvram!Items[i].lo \in Nat /\ nvParams[i] \in Nat
  <2>1. nvParams[i] \in Values
    BY Zenon
  <2>2. nvParams[i] \in Nat
    BY <2>1, Zenon
  <2> QED
    BY <2>2, ItemsAre
<1>6. nvImage' \in [NvCells -> Nat]
  <2>1. \A at \in NvCells : new(at) \in Nat
    BY <1>1, <1>5 DEF NvCells
  <2> HIDE DEF new
  <2> QED
    BY <1>4, <2>1
<1>7. HasItem(nvImage', i, nvParams[i])
  <2>1. /\ p \in NvCells /\ p + 1 \in NvCells /\ p + 2 \in NvCells
        /\ \A k \in 1 .. size : p + 2 + k \in NvCells
    BY <1>1 DEF NvCells
  <2>2. /\ new(p) = Nvram!Items[i].lo /\ new(p + 1) = 240 /\ new(p + 2) = size
        /\ \A k \in 1 .. size : new(p + 2 + k) = nvParams[i]
    BY <1>1
  <2> HIDE DEF new
  <2> QED
    BY <1>4, <2>1, <2>2 DEF HasItem, p, size
<1>8. \A at \in NvCells : at < p \/ at >= p + size + 3 => nvImage'[at] = nvImage[at]
  <2>1. \A at \in NvCells : at < p \/ at >= p + size + 3 => new(at) = nvImage[at]
    BY <1>1 DEF NvCells
  <2> HIDE DEF new
  <2> QED
    BY <1>4, <2>1
<1> HIDE DEF new
<1> QED
  BY <1>1, <1>4, <1>6, <1>7, <1>8 DEF p

(* An item of which no byte has changed is still there.                     *)
LEMMA Stays ==
  ASSUME nvImage \in [NvCells -> Nat], NEW i \in NvItem,
         \A at \in NvCells : at < NvPlace[i] \/ at >= NvPlace[i + 1] =>
           nvImage'[at] = nvImage[at],
         NEW j \in NvItem, j # i, NEW v, HasItem(nvImage, j, v)
  PROVE  HasItem(nvImage', j, v)
<1> DEFINE p == NvPlace[j]
           size == Nvram!Items[j].size
<1>1. /\ p \in 0 .. 93 /\ size \in 1 .. 12 /\ NvPlace[j + 1] = p + size + 3
      /\ p + size + 3 <= 97
      /\ NvPlace[i] \in 0 .. 97 /\ NvPlace[i + 1] \in 0 .. 97
  <2>1. /\ p \in 0 .. 93 /\ size \in 1 .. 12
        /\ NvPlace[j + 1] = p + size + 3 /\ NvPlace[j + 1] \in 0 .. 97
        /\ NvPlace[i] \in 0 .. 93 /\ NvPlace[i + 1] \in 0 .. 97
    BY ItemsAre
  <2> QED
    BY <2>1
<1>2. NvPlace[j + 1] <= NvPlace[i] \/ NvPlace[i + 1] <= p
  BY PlacesRise DEF NvItem
<1> HIDE DEF p, size
<1>3. \A at \in p .. p + 2 + size : nvImage'[at] = nvImage[at]
  <2>1. \A at \in p .. p + 2 + size :
          at \in NvCells /\ (at < NvPlace[i] \/ at >= NvPlace[i + 1])
    BY <1>1, <1>2 DEF NvCells
  <2> QED
    BY <2>1
<1>4. /\ p \in p .. p + 2 + size /\ p + 1 \in p .. p + 2 + size
      /\ p + 2 \in p .. p + 2 + size
      /\ \A k \in 1 .. size : p + 2 + k \in p .. p + 2 + size
  BY <1>1
<1> QED
  BY <1>3, <1>4 DEF HasItem, p, size

(* A table of zeros is an empty one.                                        *)
LEMMA NothingIsLaid == Laid([loc \in NvCells |-> 0], 0)
<1>1. NvPlace[0 + 1] = 0
  BY ItemsAre
<1>2. \A loc \in NvPlace[0 + 1] .. 96 : [at \in NvCells |-> 0][loc] = 0
  BY <1>1 DEF NvCells
<1>3. \A j \in 1 .. 0 : FALSE
  OBVIOUS
<1> QED
  BY <1>2, <1>3 DEF Laid

(* The invariant holds at first and after each step.                        *)
LEMMA NvStart == Nvram!Init => NvInv
<1> SUFFICES ASSUME Nvram!Init PROVE NvInv
  OBVIOUS
<1>1. nvImage = [loc \in NvCells |-> 0] /\ nvSize = 0 /\ nvFile = <<>> /\ nvNext = 0 /\ nvChanges = 0
  BY DEF Nvram!Init, Nvram!NVRAM_MAX_SIZE, NvCells
<1>2. nvParams \in [NvItem -> Values]
  <2>1. PICK v \in Values : nvParams = [i \in Nvram!Item |-> v]
    BY Zenon DEF Nvram!Init
  <2> QED
    BY <2>1, ItemsAre
<1>3. Laid(nvImage, 0)
  BY <1>1, NothingIsLaid
<1>4. nvImage \in [NvCells -> Nat]
  BY <1>1
<1>5. NvTyped
  BY <1>1, <1>2, <1>4, UnitsAssumption DEF NvTyped
<1> QED
  BY <1>1, <1>3, <1>5 DEF NvInv

LEMMA NvChange ==
  ASSUME NvInv, NEW i \in Nvram!Item, NEW v \in Values, Nvram!Change(i, v)
  PROVE  NvInv'
<1>1. /\ nvNext = 0 /\ nvChanges < MaxChanges /\ nvChanges' = nvChanges + 1
      /\ nvParams' = [nvParams EXCEPT ![i] = v]
      /\ nvImage' = nvImage /\ nvSize' = nvSize /\ nvFile' = nvFile /\ nvNext' = nvNext
  BY DEF Nvram!Change
<1>2. nvParams' \in [NvItem -> Values]
  BY <1>1 DEF NvInv, NvTyped
<1>3. nvChanges' \in 0 .. MaxChanges
  BY <1>1, UnitsAssumption DEF NvInv, NvTyped
<1>4. NvTyped'
  BY <1>1, <1>2, <1>3 DEF NvInv, NvTyped
<1>5. /\ nvFile # <<>> => Laid(nvFile, 12)
      /\ Laid(nvImage, 0) \/ Laid(nvImage, 12)
  BY <1>1 DEF NvInv
<1>6. /\ nvFile' # <<>> => Laid(nvFile', 12)
      /\ Laid(nvImage', 0) \/ Laid(nvImage', 12)
  BY <1>1, <1>5
<1>7. nvNext' = 0 /\ ~(nvNext' > 0)
  BY <1>1
<1> QED
  BY <1>4, <1>6, <1>7 DEF NvInv

LEMMA NvBegins == NvInv /\ Nvram!NvWriteStart => NvInv'
<1> SUFFICES ASSUME NvInv, Nvram!NvWriteStart PROVE NvInv'
  OBVIOUS
<1>1. /\ nvNext = 0 /\ nvSize' = 0 /\ nvNext' = 1
      /\ nvImage' = nvImage /\ nvParams' = nvParams /\ nvFile' = nvFile
      /\ nvChanges' = nvChanges
  BY DEF Nvram!NvWriteStart
<1>2. NvTyped'
  BY <1>1 DEF NvInv, NvTyped
<1>3. Laid(nvImage, 0) \/ Laid(nvImage, 12)
  BY <1>1 DEF NvInv
<1>4. Laid(nvImage', 0) \/ Laid(nvImage', 12)
  BY <1>1, <1>3
<1>5. nvFile # <<>> => Laid(nvFile, 12)
  BY DEF NvInv
<1>6. nvFile' # <<>> => Laid(nvFile', 12)
  BY <1>1, <1>5
<1>7. nvSize' = NvPlace[nvNext'] /\ nvNext' - 1 = 0
  BY <1>1, ItemsAre
<1>8. \A j \in 1 .. nvNext' - 1 : HasItem(nvImage', j, nvParams'[j])
  BY <1>1
<1> QED
  BY <1>1, <1>2, <1>4, <1>6, <1>7, <1>8 DEF NvInv

(* One more item is in the table, or all of them are still there.           *)
LEMMA NvSaves ==
  ASSUME NvInv, nvNext \in Nvram!Item, Nvram!NvWriteRam(nvNext), nvNext' = nvNext + 1,
         UNCHANGED <<nvParams, nvFile, nvChanges>>
  PROVE  NvInv'
<1> DEFINE i == nvNext
<1>1. /\ i \in NvItem /\ i > 0 /\ i + 1 \in 0 .. 13 /\ (i + 1) - 1 = i /\ i + 1 > 0
      /\ i + 1 # 0
  BY ItemsAre DEF NvItem
<1>2. /\ nvSize = NvPlace[i]
      /\ Laid(nvImage, i - 1) \/ Laid(nvImage, 12)
      /\ \A j \in 1 .. i - 1 : HasItem(nvImage, j, nvParams[j])
  BY <1>1 DEF NvInv
<1>3. nvImage \in [NvCells -> Nat] /\ nvParams \in [NvItem -> Values]
  BY DEF NvInv, NvTyped
<1>4. \A v \in Values : v \in Nat
  BY UnitsAssumption
<1>5. /\ nvImage' \in [NvCells -> Nat]
      /\ nvSize' = NvPlace[i + 1]
      /\ HasItem(nvImage', i, nvParams[i])
      /\ \A at \in NvCells : at < NvPlace[i] \/ at >= NvPlace[i + 1] =>
           nvImage'[at] = nvImage[at]
  <2>1. Values \subseteq Nat
    BY <1>4
  <2> QED
    BY <1>1, <1>2, <1>3, <2>1, Writing
<1>6. \A j \in NvItem : j # i => \A v : HasItem(nvImage, j, v) => HasItem(nvImage', j, v)
  BY <1>1, <1>3, <1>5, Stays
<1>7. nvParams[i] \in Values
  BY <1>1, <1>3
<1> HIDE DEF i
<1>8. ASSUME NEW m \in NvItem \cup {0}, \A j \in 1 .. m : j # i => \E v \in Values : HasItem(nvImage, j, v)
      PROVE  \A j \in 1 .. m : \E v \in Values : HasItem(nvImage', j, v)
  <2>1. \A j \in 1 .. m : j \in NvItem
    BY DEF NvItem
  <2> QED
    BY <1>5, <1>6, <1>7, <1>8, <2>1
<1>9. Laid(nvImage', i) \/ Laid(nvImage', 12)
  <2>1. CASE Laid(nvImage, i - 1)
    <3>1. \A j \in 1 .. i : j # i => \E v \in Values : HasItem(nvImage, j, v)
      BY <1>1, <2>1 DEF Laid, NvItem
    <3>2. \A j \in 1 .. i : \E v \in Values : HasItem(nvImage', j, v)
      BY <1>1, <1>8, <3>1
    <3>3. NvPlace[i + 1] \in Nat /\ NvPlace[i] \in Nat /\ NvPlace[i] < NvPlace[i + 1]
      <4>1. /\ NvPlace[i] \in Nat /\ Nvram!Items[i].size \in Nat
            /\ NvPlace[i + 1] = NvPlace[i] + Nvram!Items[i].size + 3
        BY <1>1, ItemsAre
      <4> QED
        BY <4>1
    <3>4. \A loc \in NvPlace[i] .. 96 : nvImage[loc] = 0
      <4>1. (i - 1) + 1 = i
        BY <1>1 DEF NvItem
      <4> QED
        BY <2>1, <4>1 DEF Laid
    <3>5. \A loc \in NvPlace[i + 1] .. 96 : nvImage'[loc] = 0
      BY <1>5, <3>3, <3>4 DEF NvCells
    <3> QED
      BY <3>2, <3>5 DEF Laid
  <2>2. CASE Laid(nvImage, 12)
    <3>1. \A j \in 1 .. 12 : \E v \in Values : HasItem(nvImage', j, v)
      <4>1. \A j \in 1 .. 12 : j # i => \E v \in Values : HasItem(nvImage, j, v)
        BY <2>2 DEF Laid
      <4>2. 12 \in NvItem \cup {0}
        BY DEF NvItem
      <4> QED
        BY <1>8, <4>1, <4>2
    <3>2. \A loc \in NvPlace[12 + 1] .. 96 : nvImage'[loc] = 0
      BY ItemsAre
    <3> QED
      BY <3>1, <3>2 DEF Laid
  <2> QED
    BY <1>2, <2>1, <2>2
<1>10. \A j \in 1 .. i : HasItem(nvImage', j, nvParams[j])
  <2>1. \A j \in 1 .. i : j \in NvItem /\ (j # i => j \in 1 .. i - 1)
    BY <1>1 DEF NvItem
  <2> QED
    BY <1>2, <1>5, <1>6, <2>1
<1>11. nvNext' = i + 1 /\ nvParams' = nvParams /\ nvFile' = nvFile /\ nvChanges' = nvChanges
  BY DEF i
<1>12. NvTyped'
  <2>1. NvPlace[i + 1] \in 0 .. 97
    BY <1>1, ItemsAre
  <2> QED
    BY <1>1, <1>5, <1>11, <2>1 DEF NvInv, NvTyped
<1>13. nvFile' # <<>> => Laid(nvFile', 12)
  BY <1>11 DEF NvInv, Laid, HasItem
<1> QED
  BY <1>1, <1>5, <1>9, <1>10, <1>11, <1>12, <1>13 DEF NvInv

LEMMA NvMfgSaves == NvInv /\ Nvram!MfgSaveParams => NvInv'
<1> SUFFICES ASSUME NvInv, Nvram!MfgSaveParams PROVE NvInv'
  OBVIOUS
<1>1. CASE /\ nvNext \in Nvram!Item /\ Nvram!NvWriteRam(nvNext) /\ nvNext' = nvNext + 1
           /\ UNCHANGED <<nvParams, nvFile, nvChanges>>
  BY <1>1, NvSaves
<1>2. CASE /\ nvNext = Len(Nvram!Items) + 1 /\ nvNext' = 0 /\ nvFile' \in {nvImage, nvFile}
           /\ UNCHANGED <<nvImage, nvSize, nvParams, nvChanges>>
  <2>1. nvNext = 13 /\ nvNext > 0 /\ nvNext - 1 = 12
    BY <1>2, ItemsAre
  <2>2. Laid(nvImage, 12) /\ (nvFile # <<>> => Laid(nvFile, 12))
    BY <2>1 DEF NvInv
  <2>3. NvTyped'
    BY <1>2 DEF NvInv, NvTyped
  <2>4. nvFile' # <<>> => Laid(nvFile', 12)
    BY <1>2, <2>2, Zenon
  <2>5. Laid(nvImage', 12)
    BY <1>2, <2>2
  <2>6. nvNext' = 0 /\ ~(nvNext' > 0)
    BY <1>2
  <2> QED
    BY <2>3, <2>4, <2>5, <2>6 DEF NvInv
<1> QED
  BY <1>1, <1>2, Zenon DEF Nvram!MfgSaveParams

(* What a restart finds are values, or it has the initial ones.             *)
LEMMA NvRestarts == NvInv /\ Nvram!MfgInitParams => NvInv'
<1> SUFFICES ASSUME NvInv, Nvram!MfgInitParams PROVE NvInv'
  OBVIOUS
<1>1. /\ nvNext = 0 /\ nvNext' = 0 /\ nvSize' = 0 /\ nvFile' = nvFile /\ nvChanges' = nvChanges
      /\ nvImage' = IF nvFile = <<>> THEN [loc \in DOMAIN nvImage |-> 0] ELSE nvFile
  BY DEF Nvram!MfgInitParams
<1>2. PICK m \in {0, 12} : Laid(nvImage', m)
  <2>1. CASE nvFile = <<>>
    <3>1. nvImage' = [loc \in NvCells |-> 0]
      BY <1>1, <2>1 DEF NvInv, NvTyped
    <3> QED
      BY <3>1, NothingIsLaid
  <2>2. CASE nvFile # <<>>
    <3>1. Laid(nvFile, 12) /\ nvImage' = nvFile
      BY <1>1, <2>2 DEF NvInv
    <3> QED
      BY <3>1
  <2> QED
    BY <2>1, <2>2
<1>3. nvImage' \in [NvCells -> Nat]
  BY <1>1 DEF NvInv, NvTyped
<1>4. ReadsRight(m)'
  <2>1. ReadingIsRight'
    BY Reading, PTL
  <2>2. m \in 0 .. 12
    BY <1>2
  <2> QED
    BY <1>2, <1>3, <2>1, <2>2 DEF ReadingIsRight
<1>5. PICK initial \in Values :
        nvParams' = [i \in Nvram!Item |-> LET v == Nvram!NvReadRam(i, Nvram!Zero)'
                                         IN IF v = <<>> THEN initial ELSE v[1]]
  BY Zenon DEF Nvram!MfgInitParams
<1>6. ASSUME NEW i \in NvItem
      PROVE  \/ Nvram!NvReadRam(i, Nvram!Zero)' = <<>>
             \/ Nvram!NvReadRam(i, Nvram!Zero)'[1] \in Values
  <2>1. Nvram!Zero \in NvBehind /\ Nvram!Zero' = Nvram!Zero
    BY DEF Nvram!Zero, NvBehind
  <2>2. CASE i > m
    BY <1>4, <2>1, <2>2 DEF ReadsRight
  <2>3. CASE ~(i > m)
    <3>1. i <= m /\ m = 12 /\ i \in 1 .. 12
      BY <1>2, <2>3 DEF NvItem
    <3>2. PICK v \in Values : HasItem(nvImage', i, v)
      BY <1>2, <3>1 DEF Laid
    <3>3. Nvram!NvReadRam(i, Nvram!Zero)' = [k \in 1 .. Nvram!Items[i].size |-> v]
      BY <1>4, <2>1, <3>1, <3>2 DEF ReadsRight
    <3>4. 1 \in 1 .. Nvram!Items[i].size
      BY ItemsAre
    <3> QED
      BY <3>2, <3>3, <3>4
  <2> QED
    BY <2>2, <2>3
<1>7. nvParams' \in [NvItem -> Values]
  <2> DEFINE read(i) == LET v == Nvram!NvReadRam(i, Nvram!Zero)'
                        IN IF v = <<>> THEN initial ELSE v[1]
  <2>1. \A i \in NvItem : read(i) \in Values
    BY <1>6
  <2>2. nvParams' = [i \in NvItem |-> read(i)]
    BY <1>5, ItemsAre, Zenon
  <2> HIDE DEF read
  <2> QED
    BY <2>1, <2>2
<1>8. NvTyped'
  BY <1>1, <1>3, <1>7 DEF NvInv, NvTyped
<1>9. nvFile' # <<>> => Laid(nvFile', 12)
  <2>1. nvFile # <<>> => Laid(nvFile, 12)
    BY DEF NvInv
  <2> QED
    BY <1>1, <2>1
<1>10. Laid(nvImage', 0) \/ Laid(nvImage', 12)
  BY <1>2
<1>11. nvNext' = 0 /\ ~(nvNext' > 0)
  BY <1>1
<1> QED
  BY <1>8, <1>9, <1>10, <1>11 DEF NvInv

LEMMA NvStep == NvInv /\ [Nvram!Next]_nvVars => NvInv'
<1> SUFFICES ASSUME NvInv, [Nvram!Next]_nvVars PROVE NvInv'
  OBVIOUS
<1>1. CASE UNCHANGED nvVars
  <2>1. /\ nvImage' = nvImage /\ nvSize' = nvSize /\ nvParams' = nvParams
        /\ nvFile' = nvFile /\ nvNext' = nvNext /\ nvChanges' = nvChanges
    BY <1>1 DEF nvVars
  <2>2. NvTyped'
    BY <2>1 DEF NvInv, NvTyped
  <2>3. /\ Laid(nvFile, 12)' <=> Laid(nvFile, 12)
        /\ \A m \in 0 .. 12 : Laid(nvImage, m)' <=> Laid(nvImage, m)
    BY <2>1 DEF Laid, HasItem
  <2>4. \A j \in 1 .. nvNext - 1 : HasItem(nvImage, j, nvParams[j])' <=> HasItem(nvImage, j, nvParams[j])
    BY <2>1 DEF HasItem
  <2>5. nvNext > 0 => nvNext - 1 \in 0 .. 12
    BY DEF NvInv, NvTyped
  <2> HIDE DEF NvTyped, Laid, HasItem
  <2> QED
    BY <2>1, <2>2, <2>3, <2>4, <2>5 DEF NvInv
<1>2. ASSUME NEW i \in Nvram!Item, NEW v \in Values, Nvram!Change(i, v) PROVE NvInv'
  BY <1>2, NvChange
<1> QED
  BY <1>1, <1>2, NvBegins, NvMfgSaves, NvRestarts, Zenon DEF Nvram!Next

(* The items of the table are read as they were saved.                      *)
LEMMA NvReads ==
  ASSUME NvInv
  PROVE  Nvram!TypeOK /\ Nvram!SavedIsRead /\ Nvram!NoItemTorn /\ Nvram!BehindIsHarmless
<1>1. PICK m \in 0 .. 12 : Laid(nvImage, m)
  <2>1. nvNext \in 0 .. 13
    BY DEF NvInv, NvTyped
  <2>2. CASE nvNext = 0
    BY <2>2 DEF NvInv
  <2>3. CASE nvNext # 0
    <3>1. nvNext > 0 /\ nvNext - 1 \in 0 .. 12 /\ 12 \in 0 .. 12
      BY <2>1, <2>3
    <3>2. Laid(nvImage, nvNext - 1) \/ Laid(nvImage, 12)
      BY <3>1 DEF NvInv
    <3> QED
      BY <3>1, <3>2
  <2> QED
    BY <2>2, <2>3
<1>2. ReadsRight(m)
  BY <1>1, Reading DEF ReadingIsRight, NvInv, NvTyped
<1>3. Nvram!Zero \in NvBehind
  BY DEF Nvram!Zero, NvBehind
<1>4. ASSUME NEW i \in NvItem
      PROVE  \/ \A behind \in NvBehind : Nvram!NvReadRam(i, behind) = <<>>
             \/ \E v \in Values : \A behind \in NvBehind :
                  Nvram!NvReadRam(i, behind) = [k \in 1 .. Nvram!Items[i].size |-> v]
  <2>1. CASE i > m
    BY <1>2, <2>1 DEF ReadsRight
  <2>2. CASE ~(i > m)
    <3>1. i <= m /\ i \in 1 .. m
      BY <1>1, <2>2 DEF NvItem
    <3>2. PICK v \in Values : HasItem(nvImage, i, v)
      BY <1>1, <3>1 DEF Laid
    <3> QED
      BY <1>2, <3>1, <3>2 DEF ReadsRight
  <2> QED
    BY <2>1, <2>2
<1>5. Nvram!TypeOK
  <2>1. NvTyped /\ Nvram!NVRAM_MAX_SIZE = 97
    BY DEF NvInv, Nvram!NVRAM_MAX_SIZE
  <2>2. DOMAIN nvImage = 0 .. 97 - 1
    BY <2>1 DEF NvTyped, NvCells
  <2>3. nvFile = <<>> \/ DOMAIN nvFile = DOMAIN nvImage
    BY <2>1 DEF NvTyped
  <2>4. nvNext \in 0 .. Len(Nvram!Items) + 1
    BY <2>1, ItemsAre DEF NvTyped
  <2>5. nvSize \in 0 .. 97 /\ nvParams \in [Nvram!Item -> Values] /\ nvChanges \in 0 .. MaxChanges
    BY <2>1, ItemsAre DEF NvTyped
  <2> QED
    BY <2>1, <2>2, <2>3, <2>4, <2>5 DEF Nvram!TypeOK
<1>6. Nvram!SavedIsRead
  <2>1. SUFFICES ASSUME nvNext = 13, NEW i \in NvItem
                 PROVE  Nvram!NvReadRam(i, Nvram!Zero)
                          = [k \in 1 .. Nvram!Items[i].size |-> nvParams[i]]
    BY ItemsAre DEF Nvram!SavedIsRead
  <2>2. nvNext > 0 /\ nvNext - 1 = 12 /\ i \in 1 .. 12 /\ i <= 12 /\ 12 \in 0 .. 12
    BY <2>1 DEF NvItem
  <2>3. Laid(nvImage, 12) /\ HasItem(nvImage, i, nvParams[i])
    BY <2>2 DEF NvInv
  <2>4. ReadsRight(12)
    BY <2>2, <2>3, Reading DEF ReadingIsRight, NvInv, NvTyped
  <2>5. nvParams[i] \in Values
    BY DEF NvInv, NvTyped
  <2> QED
    BY <1>3, <2>2, <2>3, <2>4, <2>5 DEF ReadsRight
<1>7. Nvram!NoItemTorn
  <2>1. SUFFICES ASSUME NEW i \in NvItem, Nvram!NvReadRam(i, Nvram!Zero) # <<>>
                 PROVE  \A k \in DOMAIN Nvram!NvReadRam(i, Nvram!Zero) :
                          /\ Nvram!NvReadRam(i, Nvram!Zero)[k] = Nvram!NvReadRam(i, Nvram!Zero)[1]
                          /\ Nvram!NvReadRam(i, Nvram!Zero)[1] \in Values
    BY ItemsAre DEF Nvram!NoItemTorn
  <2>2. PICK v \in Values :
          Nvram!NvReadRam(i, Nvram!Zero) = [k \in 1 .. Nvram!Items[i].size |-> v]
    BY <1>3, <1>4, <2>1
  <2>3. 1 \in 1 .. Nvram!Items[i].size
    BY ItemsAre
  <2> QED
    BY <2>2, <2>3
<1>8. Nvram!BehindIsHarmless
  <2>1. SUFFICES ASSUME NEW i \in NvItem,
                        NEW behind \in [0 .. 1 -> {1, Nvram!Items[i].lo, 240}]
                 PROVE  Nvram!NvReadRam(i, behind) = Nvram!NvReadRam(i, Nvram!Zero)
    BY ItemsAre DEF Nvram!BehindIsHarmless
  <2>2. behind \in NvBehind
    <3>1. Nvram!Items[i].lo \in Nat
      BY ItemsAre
    <3> QED
      BY <3>1 DEF NvBehind
  <2> QED
    BY <1>3, <1>4, <2>2
<1> QED
  BY <1>5, <1>6, <1>7, <1>8

LEMMA NvInvariance == MCSpec => []NvInv
<1>1. MCInit => NvInv
  BY NvStart DEF MCInit
<1>2. [MCNext]_<<unit, vars, nvVars, cfgVars>> => [Nvram!Next]_nvVars
  BY DEF MCNext
<1>3. NvInv /\ [MCNext]_<<unit, vars, nvVars, cfgVars>> => NvInv'
  BY <1>2, NvStep
<1> QED
  BY <1>1, <1>3, PTL DEF MCSpec

(* NvReadRam finds every item as NvWriteRam saved it, whole, in the middle  *)
(* of a save old or new or not at all, and reads nothing into what lies     *)
(* behind RAMCOPY, for all bytes and any number of changes, saves (nvram.c) *)
(* and restarts.                                                            *)
THEOREM LayoutSafety == MCSpec => []ItemsAreWhole
<1>1. NvInv => ItemsAreWhole
  BY NvReads DEF ItemsAreWhole
<1> QED
  BY <1>1, NvInvariance, PTL

(* The variables of all units keep their types.                             *)
THEOREM UnitsTyping == MCSpec => []TypesOK
<1>1. MCInit => IInv
  BY Initially DEF MCInit
<1>2. IInv /\ [MCNext]_<<unit, vars, nvVars, cfgVars>> => IInv'
  <2>1. [MCNext]_<<unit, vars, nvVars, cfgVars>> => [Next]_vars
    BY DEF MCNext
  <2> QED
    BY <2>1, Inductive
<1>3. IInv /\ NvInv /\ CfgInv => TypesOK
  BY NvReads DEF IInv, CfgInv, CfgTyped, TypesOK
<1> QED
  BY <1>1, <1>2, <1>3, NvInvariance, ConfigRuns, CfgInvariance, PTL DEF MCSpec
=============================================================================
