----------------------------- MODULE FlashUpdate -----------------------------
(***************************************************************************)
(* Firmware and modules loaded into the file system of a flash based       *)
(* device (cifXDownload.c, DEV_ProcessFWDownload and                       *)
(* DEV_RemoveChannelFiles), by cifXDownloadFWFiles (cifXInit.c).  Each     *)
(* packet exchange of it, from FileTransfer or a single request, is one    *)
(* step that succeeds or fails.                                            *)
(***************************************************************************)
EXTENDS Naturals, Sequences, SequencesExt

CONSTANTS
  MaxFiles,   \* bound: files loaded
  MaxFaults   \* bound: exchanges that fail

Channels == {0, 1}
Kinds == {"firmware", "module", "other", "short"}   \* short: less than x.abc
Firmware == [kind |-> "firmware", new |-> FALSE]

VARIABLES
  flash,       \* the directory of every channel, in the order it is listed
  moduleLoad,  \* fModuleLoad: a base OS is running
  job,         \* DEV_ProcessFWDownload
  config,      \* tDevChannelCfg: what is to be started
  files,       \* bound
  faults       \* bound

vars == <<flash, moduleLoad, job, config, files, faults>>

NoJob == [pc |-> "idle", kind |-> "other", ch |-> 0, from |-> 0, keep |-> FALSE,
          first |-> TRUE, cursor |-> 0]
NoModules == [ch \in Channels |-> FALSE]

Listed(ch) == {flash[ch][i] : i \in DOMAIN flash[ch]}

Init ==
  /\ moduleLoad \in BOOLEAN
  /\ \E before \in {<<>>, <<"short">>}, modules \in {<<>>, <<"module">>, <<"other">>} :
       LET File(kind) == [kind |-> kind, new |-> FALSE]
           Files(kinds) == [i \in DOMAIN kinds |-> File(kinds[i])]
       IN flash = [ch \in Channels |->
                     IF ch = 0 THEN Files(before) \o <<Firmware>> \o Files(modules)
                     ELSE Files(before \o modules)]
  /\ job = NoJob
  /\ config = [firmware |-> FALSE, modules |-> NoModules]
  /\ files = 0 /\ faults = 0

Ok    == UNCHANGED faults
Fails == faults < MaxFaults /\ faults' = faults + 1

----------------------------------------------------------------------------
(* DEV_CheckForDownload: the device has a file with this content.           *)
Identical(kind, ch) == [kind |-> kind, new |-> TRUE] \in Listed(ch)

(* It is there already: only what is to be started is noted.                *)
Skipped(kind, ch) ==
  /\ Identical(kind, ch)
  /\ config' = CASE kind = "firmware" ->
                      [config EXCEPT !.modules = NoModules]
                 [] kind = "module" /\ moduleLoad ->
                      [config EXCEPT !.modules[ch] = TRUE]
                 [] OTHER -> config
  /\ UNCHANGED job

(* Firmware goes to channel 0, a module needs a base OS.                    *)
Loadable(kind, ch) == (kind = "firmware" /\ ch = 0) \/ (kind = "module" /\ moduleLoad)

(* Mutant: all files of the channel are removed for a module, too.          *)
Needed_KeepsNothing(kind, ch) ==
  /\ ~Identical(kind, ch)
  /\ IF Loadable(kind, ch)
     THEN job' = [NoJob EXCEPT !.pc = "list", !.kind = kind, !.ch = ch,
                    !.from = IF kind = "firmware" THEN 0 ELSE ch]
     ELSE UNCHANGED job
  /\ UNCHANGED config

(* It is needed: all files are removed first, for a module those of its     *)
(* channel except the firmware.                                             *)
Needed(kind, ch) ==
  /\ ~Identical(kind, ch)
  /\ IF Loadable(kind, ch)
     THEN job' = [NoJob EXCEPT !.pc = "list", !.kind = kind, !.ch = ch,
                    !.from = IF kind = "firmware" THEN 0 ELSE ch,
                    !.keep = kind = "module"]
     ELSE UNCHANGED job
  /\ UNCHANGED config

DEV_ProcessFWDownload(kind, ch) ==
  /\ job.pc = "idle" /\ files < MaxFiles
  /\ files' = files + 1
  /\ \/ Ok /\ (Skipped(kind, ch) \/ Needed(kind, ch))
     \/ Fails /\ UNCHANGED <<job, config>>
  /\ UNCHANGED <<flash, moduleLoad>>

----------------------------------------------------------------------------
(* DEV_RemoveChannelFiles                                                   *)

(* Mutant: the search for the next file starts from the first again.        *)
Found_FromStart == IF flash[job.from] = <<>> THEN 0 ELSE 1

(* The entry that is found, or 0.                                           *)
Found == LET i == IF job.first THEN 1 ELSE job.cursor + 1
         IN IF i \in DOMAIN flash[job.from] THEN i ELSE 0

(* A valid file name, and not the file that is to stay.                     *)
Deletable(file) == file.kind # "short" /\ ~(job.keep /\ file.kind = "firmware")

(* Mutant: the first channel only.                                          *)
NextChannel_None == [job EXCEPT !.pc = "load"]

NextChannel ==
  IF job.kind = "firmware" /\ job.from + 1 \in Channels
  THEN [job EXCEPT !.from = @ + 1, !.first = TRUE]
  ELSE [job EXCEPT !.pc = "load"]

(* xSysdeviceFindFirstFile and xSysdeviceFindNextFile: no more, an error,   *)
(* or a file.  A file that stays does not lead from the first to the next.  *)
FindFile ==
  /\ job.pc = "list"
  /\ \/ Fails /\ job' = NextChannel
     \/ Ok /\ Found = 0 /\ job' = NextChannel
     \/ /\ Ok /\ Found # 0
        /\ LET file == flash[job.from][Found]
           IN job' = [job EXCEPT !.pc = IF Deletable(file) THEN "delete" ELSE @,
                        !.cursor = Found,
                        !.first = IF Deletable(file) THEN TRUE
                                  ELSE @ /\ file.kind # "short"]
  /\ UNCHANGED <<flash, moduleLoad, config, files>>

(* The result of a deletion is ignored.                                     *)
DEV_DeleteFile ==
  /\ job.pc = "delete"
  /\ job' = [job EXCEPT !.pc = "list"]
  /\ \/ Ok /\ flash' = [flash EXCEPT ![job.from] = RemoveAt(@, job.cursor)]
     \/ Fails /\ UNCHANGED flash
  /\ UNCHANGED <<moduleLoad, config, files>>

----------------------------------------------------------------------------
(* Mutant: what was to be started stays when new firmware is loaded.        *)
Store_KeepsModules ==
  [firmware |-> config.firmware \/ job.kind = "firmware",
   modules |-> IF job.kind = "firmware" THEN config.modules
               ELSE [config.modules EXCEPT ![job.ch] = TRUE]]

(* cifXDownloadFWFiles notes what was loaded.                               *)
Store ==
  [firmware |-> config.firmware \/ job.kind = "firmware",
   modules |-> IF job.kind = "firmware" THEN NoModules
               ELSE [config.modules EXCEPT ![job.ch] = TRUE]]

(* The file is downloaded, or what was removed is gone.                     *)
DEV_DownloadFile ==
  /\ job.pc = "load"
  /\ job' = NoJob
  /\ \/ /\ Ok
        /\ flash' = [flash EXCEPT ![job.ch] = Append(@, [kind |-> job.kind, new |-> TRUE])]
        /\ config' = Store
     \/ Fails /\ UNCHANGED <<flash, config>>
  /\ UNCHANGED <<moduleLoad, files>>

Work == FindFile \/ DEV_DeleteFile \/ DEV_DownloadFile

Next ==
  \/ \E kind \in {"firmware", "module", "other"}, ch \in Channels : DEV_ProcessFWDownload(kind, ch)
  \/ Work

Spec == Init /\ [][Next]_vars

(* Every exchange returns (FileTransfer).                                   *)
FairSpec == Spec /\ WF_vars(Work)

----------------------------------------------------------------------------
(* Properties                                                               *)

(* The types of all variables.                                              *)
TypeOK ==
  /\ \A ch \in Channels : \A file \in Listed(ch) : file \in [kind : Kinds, new : BOOLEAN]
  /\ job \in [pc : {"idle", "list", "delete", "load"}, kind : Kinds, ch : Channels,
              from : Channels, keep : BOOLEAN, first : BOOLEAN, cursor : 0 .. MaxFiles + 3]
  /\ config \in [firmware : BOOLEAN, modules : [Channels -> BOOLEAN]]
  /\ files \in 0 .. MaxFiles /\ faults \in 0 .. MaxFaults

(* The base firmware is removed only for another one ("an existing NXF      *)
(* must be protected, because it is the base module").                      *)
BaseOsStays ==
  [][\A ch \in Channels : flash[ch] # flash'[ch] /\ job.kind = "module"
       => {f \in Listed(ch) : f.kind = "firmware"} \subseteq Listed(ch)']_vars

(* When no exchange has failed, new firmware is alone with its modules      *)
(* loaded since ("all other files should be deleted").                      *)
NothingOldBesideNew ==
  faults = 0 /\ job.pc = "idle" /\ config.firmware =>
    \A ch \in Channels : \A file \in Listed(ch) : file.kind # "short" => file.new

(* Only modules on the device are started: loading firmware unselects those *)
(* that it has removed.                                                     *)
StartedIsThere ==
  job.pc = "idle" /\ faults = 0 => \A ch \in Channels : config.modules[ch] => Identical("module", ch)

(* A download ends, except where the firmware is to stay in the channel: it *)
(* is found again and again as soon as it is the first file listed.         *)
DownloadEnds ==
  job.pc # "idle" ~>
    \/ job.pc = "idle"
    \/ job.keep /\ \E file \in Listed(job.from) : file.kind = "firmware"
=============================================================================
