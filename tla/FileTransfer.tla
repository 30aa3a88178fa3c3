----------------------------- MODULE FileTransfer -----------------------------
(***************************************************************************)
(* A file sent to the device or read from it in packets (cifXDownload.c,   *)
(* DEV_DownloadFile and DEV_UploadFile, over DEV_TransferPacket).          *)
(*                                                                         *)
(* The device is external: it may refuse a request, answer it after the    *)
(* host has given up, or not take it from the mailbox.  It checks the      *)
(* order of the blocks (ulBlockNo and the continued ulChksum) and closes   *)
(* the file with the packet that is marked as its last.  Lengths are in    *)
(* units; what a block holds is where in the file it starts, or nothing of *)
(* it when it is damaged, and its checksum tells that it is not the next.  *)
(***************************************************************************)
EXTENDS Naturals, Sequences

CONSTANTS
  MaxLength,  \* bound: length of a file
  HostBlock,  \* the most a packet of the host's mailbox can carry
  MaxCalls    \* bound: files transferred

VARIABLES
  job,      \* the call in progress
  request,  \* the send mailbox
  answers,  \* what the receive mailbox delivers
  dev,      \* the device: its transfer, and the file last closed
  calls     \* bound, and ulSrc: the time at which a call starts

vars == <<job, request, answers, dev, calls>>

Least(a, b) == IF a < b THEN a ELSE b

NoJob == [op |-> "none", pc |-> "idle", state |-> "req", id |-> 0, tries |-> 0,
          size |-> 0, max |-> HostBlock, len |-> 0, done |-> 0, ext |-> "none",
          right |-> TRUE, ret |-> "none"]
NoRequest == [op |-> "none", state |-> "req", src |-> 0, id |-> 0, ext |-> "none",
              size |-> 0, at |-> 0, len |-> 0]

Init ==
  /\ job = NoJob
  /\ request = NoRequest
  /\ answers = <<>>
  /\ dev = [op |-> "none", size |-> 0, max |-> 0, got |-> 0, file |-> 0]
  /\ calls = 0

----------------------------------------------------------------------------
(* The host                                                                 *)

(* A call: size is the length of the file, or of the buffer for an upload.  *)
Transfer(op, size) ==
  /\ job.pc = "idle" /\ calls < MaxCalls
  /\ calls' = calls + 1
  /\ job' = [NoJob EXCEPT !.op = op, !.pc = "send", !.size = size]
  /\ UNCHANGED <<request, answers, dev>>

(* DEV_TransferPacket puts the request the job has come to, if the mailbox  *)
(* is free; otherwise it ends with an error.                                *)
DEV_PutPacket ==
  /\ job.pc = "send"
  /\ request = NoRequest
  /\ request' = [op |-> job.op, state |-> job.state, src |-> calls, id |-> job.id + 1,
                 ext |-> job.ext, size |-> job.size, at |-> job.done, len |-> job.len]
  /\ job' = [job EXCEPT !.pc = "wait", !.id = @ + 1, !.tries = 0]
  /\ UNCHANGED <<answers, dev, calls>>

(* Mutant: an abort that fails is sent again.                               *)
Failed_AbortsAgain(ret) ==
  job' = [job EXCEPT !.pc = "send", !.state = "abort", !.ext = "none",
                     !.ret = IF job.state = "abort" THEN @ ELSE ret, !.id = 1]

(* The first error is returned, and an abort is sent after it.              *)
Failed(ret) ==
  job' = IF job.state = "abort"
         THEN [job EXCEPT !.pc = "idle"]
         ELSE [job EXCEPT !.pc = "send", !.state = "abort", !.ext = "none",
                          !.ret = ret]

Done == job' = [job EXCEPT !.pc = "idle", !.ret = IF @ = "none" THEN "ok" ELSE @]

(* Mutant: what is left is compared with the block before the last.         *)
NextBlock_OneLess(done) ==
  IF job.size <= job.len + done + 1
  THEN [job EXCEPT !.pc = "send", !.done = done, !.len = Least(job.len, job.size - done),
                   !.ext = "last"]
  ELSE [job EXCEPT !.pc = "send", !.done = done, !.ext = "middle"]

(* The next data packet of a download.                                      *)
NextBlock(done) ==
  IF job.size <= job.len + done
  THEN [job EXCEPT !.pc = "send", !.done = done, !.len = job.size - done, !.ext = "last"]
  ELSE [job EXCEPT !.pc = "send", !.done = done, !.ext = "middle"]

(* Mutant: the device's block size is taken as it is.                       *)
BlockSize_Device(theirs) == theirs

(* The smaller of the device's block size and what the mailbox can carry.   *)
BlockSize(theirs) == Least(job.max, theirs)

(* HIL_FILE_DOWNLOAD_REQ and HIL_FILE_DOWNLOAD_DATA_REQ confirmed           *)
DownloadConfirmed(a) ==
  \/ job.state = "req" /\ a.n = 0 /\ Failed("size")
  \/ /\ job.state = "req" /\ a.n # 0
     /\ LET max == BlockSize(a.n)
        IN job' = [job EXCEPT !.pc = "send", !.state = "data", !.max = max,
                     !.len = Least(job.size, max),
                     !.ext = IF job.size <= max THEN "none" ELSE "first"]
  \/ job.state = "data" /\ job.ext \in {"last", "none"} /\ Done
  \/ job.state = "data" /\ job.ext \notin {"last", "none"}
     /\ job' = NextBlock(job.done + job.len)

(* Mutant: the checksum is not compared.                                    *)
ChecksumFits_Always(a) == a.n >= 0

(* CreateCRC32, continued from block to block, gives what the device sends. *)
ChecksumFits(a) == a.at = job.done

(* HIL_FILE_UPLOAD_REQ and HIL_FILE_UPLOAD_DATA_REQ confirmed.  right: the  *)
(* blocks in the buffer are those of the file asked for, one after the      *)
(* other.  An empty block is asked for again without end; its id is used    *)
(* again here, with no request or answer left that has it.                  *)
UploadConfirmed(a) ==
  \/ job.state = "req" /\ a.size > job.size /\ Failed("size")
  \/ /\ job.state = "req" /\ a.size <= job.size
     /\ LET max == BlockSize(a.n)
        IN job' = [job EXCEPT !.pc = IF a.size = 0 THEN "idle" ELSE "send",
                     !.ret = IF a.size = 0 THEN "ok" ELSE @,
                     !.state = "data", !.max = max, !.size = a.size,
                     !.ext = IF a.size <= max THEN "none" ELSE "first"]
  \/ job.state = "data" /\ ~ChecksumFits(a) /\ Failed("checksum")
  \/ /\ job.state = "data" /\ ChecksumFits(a)
     /\ LET done == job.done + a.n
        IN job' = [job EXCEPT !.done = done,
                     !.right = @ /\ a.src = calls /\ a.at = job.done,
                     !.id  = IF a.n = 0 THEN @ - 1 ELSE @,
                     !.pc  = IF done = job.size THEN "idle" ELSE "send",
                     !.ret = IF done = job.size THEN "ok" ELSE @,
                     !.ext = IF done = job.size THEN @
                             ELSE IF job.size - done <= job.max THEN "last" ELSE "middle"]

Confirmed(a) ==
  \/ a.sta = "error" /\ Failed("error")
  \/ a.sta = "ok" /\ job.state = "abort" /\ Done
  \/ a.sta = "ok" /\ job.state # "abort" /\ job.op = "download" /\ DownloadConfirmed(a)
  \/ a.sta = "ok" /\ job.state # "abort" /\ job.op = "upload" /\ UploadConfirmed(a)

(* Mutant: the source of an answer is not looked at.                        *)
IsAnswer_AnySource(a) == a.op = job.op /\ a.state = job.state /\ a.id = job.id

(* The answer is found by command, source and id.                           *)
IsAnswer(a) == a.op = job.op /\ a.state = job.state /\ a.src = calls /\ a.id = job.id

(* Other packets are dropped, ten at most.                                  *)
DEV_TransferPacket ==
  /\ job.pc = "wait"
  /\ answers # <<>>
  /\ answers' = Tail(answers)
  /\ \/ IsAnswer(Head(answers)) /\ Confirmed(Head(answers))
     \/ ~IsAnswer(Head(answers)) /\ job.tries < 9 /\ job' = [job EXCEPT !.tries = @ + 1]
     \/ ~IsAnswer(Head(answers)) /\ job.tries = 9 /\ Failed("timeout")
  /\ UNCHANGED <<request, dev, calls>>

(* No answer in time, or the last request is still in the mailbox.          *)
Timeout ==
  /\ \/ job.pc = "wait" /\ answers = <<>>
     \/ job.pc = "send" /\ request # NoRequest
  /\ Failed("timeout")
  /\ UNCHANGED <<request, answers, dev, calls>>

Host == DEV_PutPacket \/ DEV_TransferPacket \/ Timeout

----------------------------------------------------------------------------
(* The device (external)                                                    *)

Answer(sta, n, size, at) ==
  /\ answers' = Append(answers, [op |-> request.op, state |-> request.state,
       src |-> request.src, id |-> request.id, sta |-> sta, n |-> n, size |-> size, at |-> at])
  /\ request' = NoRequest

Closed == [dev EXCEPT !.op = "none", !.got = 0]

DeviceRefuses ==
  /\ request # NoRequest
  /\ Answer("error", 0, 0, 0)
  /\ UNCHANGED <<job, dev, calls>>

(* A transfer starts; an upload is of a file of any length.                 *)
DeviceOpens ==
  /\ request.op # "none" /\ request.state = "req"
  /\ \E max \in 0 .. HostBlock + 1, size \in 0 .. MaxLength :
       /\ request.op = "download" => size = request.size
       /\ dev' = [dev EXCEPT !.op = request.op, !.size = size, !.got = 0, !.max = max,
                             !.file = 0]
       /\ Answer("ok", max, size, 0)
  /\ UNCHANGED <<job, calls>>

(* A block is written, if it is the next; the last closes the file.         *)
DeviceWrites ==
  /\ request.op = "download" /\ request.state = "data"
  /\ IF /\ dev.op = "download" /\ request.at = dev.got /\ request.len \in 1 .. dev.max
        /\ (dev.got = 0) = (request.ext \in {"first", "none"})
     THEN /\ Answer("ok", 0, 0, 0)
          /\ dev' = IF request.ext \in {"last", "none"}
                    THEN [Closed EXCEPT !.file = dev.got + request.len]
                    ELSE [dev EXCEPT !.got = @ + request.len]
     ELSE Answer("error", 0, 0, 0) /\ UNCHANGED dev
  /\ UNCHANGED <<job, calls>>

(* The next block is read, no longer than both sides can take (with a block *)
(* size of 0 it is empty), and may be damaged on its way.                   *)
DeviceReads ==
  /\ request.op = "upload" /\ request.state = "data"
  /\ IF dev.op = "upload" /\ dev.got < dev.size
     THEN LET n == Least(Least(dev.max, HostBlock), dev.size - dev.got)
          IN /\ \E at \in {dev.got, MaxLength + 1} : Answer("ok", n, 0, at)
             /\ dev' = [dev EXCEPT !.got = @ + n]
     ELSE Answer("error", 0, 0, 0) /\ UNCHANGED dev
  /\ UNCHANGED <<job, calls>>

DeviceAborts ==
  /\ request.op # "none" /\ request.state = "abort"
  /\ Answer("ok", 0, 0, 0)
  /\ dev' = Closed
  /\ UNCHANGED <<job, calls>>

Device == DeviceRefuses \/ DeviceOpens \/ DeviceWrites \/ DeviceReads \/ DeviceAborts

Next ==
  \/ \E size \in 1 .. MaxLength : Transfer("download", size) \/ Transfer("upload", size)
  \/ Host \/ Device

Spec == Init /\ [][Next]_vars

(* The timeouts run down; the device may have stopped.                      *)
FairSpec == Spec /\ WF_vars(Host)

----------------------------------------------------------------------------
(* Properties                                                               *)

(* The types of all variables.                                              *)
TypeOK ==
  /\ job \in [op : {"none", "download", "upload"}, pc : {"idle", "send", "wait"},
              state : {"req", "data", "abort"}, id : 0 .. MaxLength + 3, tries : 0 .. 9,
              size : 0 .. MaxLength, max : 0 .. HostBlock, len : 0 .. HostBlock,
              done : 0 .. MaxLength, ext : {"none", "first", "middle", "last"},
              right : BOOLEAN,
              ret : {"none", "ok", "error", "size", "checksum", "timeout"}]
  /\ calls \in 0 .. MaxCalls
  /\ dev.file \in 0 .. MaxLength

Returned(op) == job.op = op /\ job.pc = "idle" /\ job.ret = "ok"

(* A download that succeeds has left the whole file on the device, however  *)
(* the block sizes fall and whatever answers of earlier files came late.    *)
DownloadIsWhole == Returned("download") => dev.file = job.size

(* An upload that succeeds has delivered the whole file in its order.       *)
UploadIsWhole == Returned("upload") => job.done = job.size /\ job.right /\ job.size = dev.size

(* The device never closes a file that is not whole: a transfer that fails  *)
(* leaves an old file or none.                                              *)
NoPartOfAFile == dev.file # 0 => dev.file = dev.size

(* A transfer ends, also when the device no longer answers, but for an      *)
(* upload from a device that gives empty blocks.                            *)
TransferEnds ==
  job.pc # "idle" ~> job.pc = "idle" \/ (job.state = "data" /\ job.max = 0)
=============================================================================
