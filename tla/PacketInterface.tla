-------------------------- MODULE PacketInterface --------------------------
(***************************************************************************)
(* The synchronous packet interface of the application (file               *)
(* App_PacketCommunication.c) as the EtherNet/IP application uses it: one  *)
(* channel, one shared packet buffer, a confirmation queue, and an         *)
(* indication handler (AppEIS_PacketHandler) which itself issues requests  *)
(* while an outer Pkt_SendReceivePacket is still waiting.                  *)
(*                                                                         *)
(* The call stack of the main loop is explicit.  Level 0 is the main loop; *)
(* level d > 0 is a Pkt_SendReceivePacket waiting for the confirmation of  *)
(* call[d].  hnd[d] is the dispatch of an indication running on level d.   *)
(* The protocol stack on the other side of the two mailboxes is external:  *)
(* it confirms late, out of order or never, and indicates when it likes.   *)
(***************************************************************************)
EXTENDS Naturals, FiniteSets

CONSTANTS
  MainCmds,      \* commands the main loop issues (terminal, watchdog, ...)
  SeqCmds,       \* those whose ulExt carries HIL_PACKET_SEQ_FIRST or _MIDDLE
  QueueDepth,    \* slots of the confirmation queue, Pkt_Init(0,1) makes 1
  ConfigLen,     \* requests issued by one AppEIS_ConfigureStack
  MaxCalls,      \* bound: the main loop issues no request after this many
  MaxInd,        \* bound: indications the stack sends
  MaxDepth,      \* bound: nesting of Pkt_SendReceivePacket
  MaxWork,       \* bound: requests the stack holds unconfirmed
  StackInds,     \* the kinds of indications the stack sends
  StackResults,  \* whether a confirmation's ulState may be zero, or not
  MayStop        \* whether the device may become "not ready"

HandlerCmds == {"DELETE_CONFIG", "CHANNEL_INIT", "CONFIGURE"}
Cmds        == MainCmds \cup HandlerCmds
IndCmds     == {"RESET_0", "RESET_1", "OTHER"}

ASSUME PacketAssumption ==
  /\ SeqCmds \subseteq MainCmds
  /\ MainCmds \cap (HandlerCmds \cup IndCmds \cup {"none"}) = {}
  /\ QueueDepth \in Nat
  /\ ConfigLen \in Nat \ {0}
  /\ MaxCalls \in Nat
  /\ MaxInd \in Nat
  /\ MaxDepth \in Nat \ {0}
  /\ MaxWork \in Nat
  /\ StackInds \subseteq IndCmds
  /\ StackResults \subseteq BOOLEAN
  /\ MayStop \in BOOLEAN

VARIABLES
  nextId,      \* s_ulNextPacketId
  calls,       \* history: number of Pkt_SendReceivePacket calls so far
  depth,       \* nesting level of Pkt_SendReceivePacket, 0 in the main loop
  call,        \* per level: ulCmd, ulPacketId and the number of the call
  hnd,         \* per level: progress of the indication handler
  buf,         \* the packet resource tPacket shared by all levels
  queue,       \* s_aaptReceiveQueue
  registered,  \* an indication handler has been registered
  toDev,       \* host -> stack mailbox
  toHost,      \* stack -> host mailbox
  ready,       \* DEV_IsReady
  work,        \* external: requests the stack has accepted, not confirmed
  confirmed,   \* external, history: calls the stack has executed
  inds,        \* external, history: state of every indication
  outcome      \* history: how each call returned

host  == <<nextId, calls, depth, call, hnd, buf, queue, registered, outcome>>
stack == <<ready, work, confirmed>>
vars  == <<host, toDev, toHost, stack, inds>>

Levels == 1 .. MaxDepth
Slots  == 1 .. QueueDepth

(* A packet header: ulCmd without bit 0, bit 0 ("answer"), ulId and whether *)
(* ulState is zero.  num identifies, for the properties only, the call or   *)
(* the indication the packet belongs to.                                    *)
Packet == [cmd : Cmds \cup IndCmds \cup {"none"}, ans : BOOLEAN, id : Nat,
           ok : BOOLEAN, num : Nat]

NoPacket == [cmd |-> "none", ans |-> FALSE, id |-> 0, ok |-> TRUE, num |-> 0]
NoCall   == [cmd |-> "none", id |-> 0, num |-> 0]
NoHnd    == [pc |-> "none", ind |-> NoPacket, step |-> 0]

HndPc == {"none", "delete", "respond", "reject", "init", "config", "end"}

Init ==
  /\ nextId = 1
  /\ calls = 0
  /\ depth = 0
  /\ call = [d \in Levels |-> NoCall]
  /\ hnd = [l \in 0 .. MaxDepth |-> NoHnd]
  /\ buf = NoPacket
  /\ queue = [s \in Slots |-> NoPacket]
  /\ registered = FALSE
  /\ toDev = NoPacket
  /\ toHost = NoPacket
  /\ ready = TRUE
  /\ work = {}
  /\ confirmed = {}
  /\ inds = [i \in 1 .. MaxInd |-> "idle"]
  /\ outcome = [n \in {} |-> "none"]

----------------------------------------------------------------------------
(* Helpers                                                                  *)

(* Pkt_SendPacket -> DEV_PutPacket: the mailbox has to be empty in time.    *)
CanPut  == ready /\ toDev = NoPacket
PutFails == ~ready \/ toDev # NoPacket

(* Mutant: the id is not compared.                                          *)
Matches_ByCommand(p, c) == p.ans /\ p.cmd = c.cmd

(* A confirmation matches a call by command and by id.                      *)
Matches(p, c) == p.ans /\ p.cmd = c.cmd /\ p.id = c.id

Running(l) == hnd[l].pc # "none"

(* Mutant: the counter is never incremented.                                *)
IdFor_Constant(cmd) == nextId

(* The request id: incremented unless ulExt has a sequence bit set, and     *)
(* SEQ_FIRST (0x80) is one of the bits of MIDDLE | LAST (0xC0).             *)
IdFor(cmd) == IF cmd \in SeqCmds THEN nextId ELSE nextId + 1

(* How the handler continues after one of its requests has returned.        *)
AfterCall(h, good) ==
  CASE h.pc = "delete" -> [h EXCEPT !.pc = "respond"]
    [] h.pc = "init"   -> [h EXCEPT !.pc = "config", !.step = 1]
    [] h.pc = "config" -> IF good /\ h.step < ConfigLen
                          THEN [h EXCEPT !.step = @ + 1]
                          ELSE [h EXCEPT !.pc = "end"]
    [] OTHER -> h

(* Level depth returns to its caller with a packet or with an error.        *)
Return(ret, good) ==
  /\ depth' = depth - 1
  /\ call' = [call EXCEPT ![depth] = NoCall]
  /\ hnd' = [hnd EXCEPT ![depth] = NoHnd,
                        ![depth - 1] = AfterCall(@, ret = "ok" /\ good)]
  /\ outcome' = [n \in DOMAIN outcome \cup {call[depth].num} |->
                   IF n = call[depth].num THEN ret ELSE outcome[n]]

(* The first step of the handler for an indication p.                       *)
FirstStep(p) ==
  CASE ~registered \/ p.ans -> "reject"
    [] registered /\ ~p.ans /\ p.cmd = "RESET_1" -> "delete"
    [] OTHER -> "respond"

Dispatch(l, p) ==
  hnd' = [hnd EXCEPT ![l] = [pc |-> FirstStep(p), ind |-> p, step |-> 0]]

----------------------------------------------------------------------------
(* Pkt_SendReceivePacket, on the main loop or in the handler at level depth *)

(* The request is numbered and sent; if that fails the call returns at once. *)
Call(cmd) ==
  LET pkt == [cmd |-> cmd, ans |-> FALSE, id |-> IdFor(cmd), ok |-> TRUE,
              num |-> calls + 1]
  IN /\ nextId' = pkt.id
     /\ calls' = pkt.num
     /\ buf' = pkt
     /\ \/ /\ CanPut
           /\ depth < MaxDepth
           /\ toDev' = pkt
           /\ depth' = depth + 1
           /\ call' = [call EXCEPT ![depth + 1] =
                         [cmd |-> cmd, id |-> pkt.id, num |-> pkt.num]]
           /\ UNCHANGED <<hnd, outcome>>
        \/ /\ PutFails
           /\ hnd' = [hnd EXCEPT ![depth] = AfterCall(@, FALSE)]
           /\ outcome' = [n \in DOMAIN outcome \cup {pkt.num} |->
                            IF n = pkt.num THEN "refused" ELSE outcome[n]]
           /\ UNCHANGED <<depth, call, toDev>>
     /\ UNCHANGED <<queue, registered, toHost, stack, inds>>

MainCall ==
  /\ depth = 0
  /\ ~Running(0)
  /\ calls < MaxCalls
  /\ \E cmd \in MainCmds : Call(cmd)

Waiting == depth > 0 /\ ~Running(depth)

(* The confirmation of this call.                                           *)
ReceiveOwn ==
  /\ Waiting
  /\ ready
  /\ Matches(toHost, call[depth])
  /\ buf' = toHost
  /\ toHost' = NoPacket
  /\ Return("ok", toHost.ok)
  /\ UNCHANGED <<nextId, calls, queue, registered, toDev, stack, inds>>

(* Pkt_QueueConfirmation: the first free slot.                              *)
Enqueue(p) ==
  \E s \in Slots :
    /\ queue[s] = NoPacket
    /\ \A t \in Slots : t < s => queue[t] # NoPacket
    /\ queue' = [queue EXCEPT ![s] = p]

ForeignConfirmation ==
  /\ Waiting
  /\ ready
  /\ toHost.ans
  /\ ~Matches(toHost, call[depth])

ReceiveForeign ==
  /\ ForeignConfirmation
  /\ Enqueue(toHost)
  /\ buf' = toHost
  /\ toHost' = NoPacket
  /\ UNCHANGED <<nextId, calls, depth, call, hnd, registered, outcome, toDev,
                 stack, inds>>

(* "Confirmation queue overrun": the confirmation is gone, this call fails. *)
ReceiveOverrun ==
  /\ ForeignConfirmation
  /\ \A s \in Slots : queue[s] # NoPacket
  /\ buf' = toHost
  /\ toHost' = NoPacket
  /\ Return("failed", FALSE)
  /\ UNCHANGED <<nextId, calls, queue, registered, toDev, stack, inds>>

ReceiveIndication ==
  /\ Waiting
  /\ ready
  /\ toHost # NoPacket
  /\ ~toHost.ans
  /\ buf' = toHost
  /\ toHost' = NoPacket
  /\ Dispatch(depth, toHost)
  /\ inds' = [inds EXCEPT ![toHost.num] = "dispatched"]
  /\ UNCHANGED <<nextId, calls, depth, call, queue, registered, outcome, toDev,
                 stack>>

(* Mutant: a timeout is not the end of the loop.                            *)
ReceiveTimeout_Retry ==
  Waiting /\ ready /\ toHost = NoPacket /\ UNCHANGED vars

(* CIFX_DEV_GET_NO_PACKET: nothing arrived within ulTimeout.                *)
ReceiveTimeout ==
  /\ Waiting
  /\ ready
  /\ toHost = NoPacket
  /\ Return("failed", FALSE)
  /\ UNCHANGED <<nextId, calls, buf, queue, registered, toDev, toHost, stack,
                 inds>>

(* Any other error, here CIFX_DEV_NOT_READY: the loop just tries again.      *)
ReceiveError == Waiting /\ ~ready /\ UNCHANGED vars

----------------------------------------------------------------------------
(* Pkt_DispatchIndication and AppEIS_PacketHandler                          *)

(* Requests of AppEIS_HandleResetInd: delete config (type 1), channel init, *)
(* and the sequence of AppEIS_ConfigureStack which ends at the first error. *)
HandlerRequest ==
  /\ \/ hnd[depth].pc = "delete" /\ Call("DELETE_CONFIG")
     \/ hnd[depth].pc = "init" /\ Call("CHANNEL_INIT")
     \/ hnd[depth].pc = "config" /\ Call("CONFIGURE")

(* Mutant: the reset handler keeps no copy of the indication.               *)
Response_FromBuffer(h) == [buf EXCEPT !.ans = TRUE]

(* The response: from the copy of the reset indication on the stack, for    *)
(* the others from the packet buffer, which still holds the indication.     *)
Response(h) ==
  IF h.ind.cmd \in {"RESET_0", "RESET_1"}
  THEN [h.ind EXCEPT !.ans = TRUE]
  ELSE [buf EXCEPT !.ans = TRUE]

(* Mutant: the handler has responded but returns false.                     *)
AfterResponse_NotHandled(h) ==
  IF h.ind.cmd \in {"RESET_0", "RESET_1"}
  THEN [h EXCEPT !.pc = "init"]
  ELSE [h EXCEPT !.pc = "reject"]

AfterResponse(h) ==
  IF h.ind.cmd \in {"RESET_0", "RESET_1"}
  THEN [h EXCEPT !.pc = "init"]
  ELSE [h EXCEPT !.pc = "end"]

(* A packet p is put into the send mailbox; a failed send is only counted.  *)
Answer(p, i) ==
  \/ /\ CanPut
     /\ toDev' = p
     /\ inds' = IF p.cmd \in IndCmds
                THEN [inds EXCEPT ![p.num] = "answered"] ELSE inds
  \/ /\ PutFails
     /\ inds' = IF i.cmd \in IndCmds
                THEN [inds EXCEPT ![i.num] = "dropped"] ELSE inds
     /\ UNCHANGED toDev

HandlerRespond ==
  /\ hnd[depth].pc = "respond"
  /\ buf' = Response(hnd[depth])
  /\ Answer(Response(hnd[depth]), hnd[depth].ind)
  /\ hnd' = [hnd EXCEPT ![depth] = AfterResponse(@)]
  /\ UNCHANGED <<nextId, calls, depth, call, queue, registered, outcome, toHost,
                 stack>>

(* Not handled: the packet goes back with CIFX_INVALID_COMMAND.             *)
RejectPacket ==
  /\ hnd[depth].pc = "reject"
  /\ buf' = [buf EXCEPT !.ans = TRUE, !.ok = FALSE]
  /\ Answer([buf EXCEPT !.ans = TRUE, !.ok = FALSE], hnd[depth].ind)
  /\ hnd' = [hnd EXCEPT ![depth].pc = "end"]
  /\ UNCHANGED <<nextId, calls, depth, call, queue, registered, outcome, toHost,
                 stack>>

(* Mutant: the queue is not searched after a dispatch.                      *)
TryDequeue_Skipped ==
  /\ hnd' = [hnd EXCEPT ![depth] = NoHnd]
  /\ UNCHANGED <<buf, queue, depth, call, outcome>>

(* Pkt_TryDequeConfirmation: the confirmation of the waiting call may have  *)
(* been queued by a request the handler issued.                             *)
TryDequeue ==
  IF \E s \in Slots : Matches(queue[s], call[depth])
  THEN \E s \in Slots :
         /\ Matches(queue[s], call[depth])
         /\ \A t \in Slots : t < s => ~Matches(queue[t], call[depth])
         /\ buf' = queue[s]
         /\ queue' = [queue EXCEPT ![s] = NoPacket]
         /\ Return("ok", queue[s].ok)
  ELSE /\ hnd' = [hnd EXCEPT ![depth] = NoHnd]
       /\ UNCHANGED <<buf, queue, depth, call, outcome>>

DispatchDone ==
  /\ hnd[depth].pc = "end"
  /\ IF depth > 0
     THEN TryDequeue
     ELSE /\ hnd' = [hnd EXCEPT ![0] = NoHnd]
          /\ UNCHANGED <<buf, queue, depth, call, outcome>>
  /\ UNCHANGED <<nextId, calls, registered, toDev, toHost, stack, inds>>

----------------------------------------------------------------------------
(* Pkt_CheckReceiveMailbox and Pkt_RegisterIndicationHandler, main loop     *)

Idle == depth = 0 /\ ~Running(0)

(* Pkt_GetPacketFromQueue: the first used slot, whoever it is for.          *)
PollQueue ==
  /\ Idle
  /\ \E s \in Slots :
       /\ queue[s] # NoPacket
       /\ \A t \in Slots : t < s => queue[t] = NoPacket
       /\ buf' = queue[s]
       /\ queue' = [queue EXCEPT ![s] = NoPacket]
       /\ Dispatch(0, queue[s])
  /\ UNCHANGED <<nextId, calls, depth, call, registered, outcome, toDev, toHost,
                 stack, inds>>

PollMailbox ==
  /\ Idle
  /\ \A s \in Slots : queue[s] = NoPacket
  /\ ready
  /\ toHost # NoPacket
  /\ buf' = toHost
  /\ toHost' = NoPacket
  /\ Dispatch(0, toHost)
  /\ inds' = IF toHost.ans THEN inds
             ELSE [inds EXCEPT ![toHost.num] = "dispatched"]
  /\ UNCHANGED <<nextId, calls, depth, call, queue, registered, outcome, toDev,
                 stack>>

PollNothing ==
  /\ Idle
  /\ \A s \in Slots : queue[s] = NoPacket
  /\ toHost = NoPacket \/ ~ready
  /\ UNCHANGED vars

RegisterIndicationHandler ==
  /\ Idle
  /\ ~registered
  /\ registered' = TRUE
  /\ UNCHANGED <<nextId, calls, depth, call, hnd, buf, queue, outcome, toDev,
                 toHost, stack, inds>>

----------------------------------------------------------------------------
(* The protocol stack (external)                                            *)

StackTake ==
  /\ ready
  /\ toDev # NoPacket
  /\ toDev.ans \/ Cardinality(work) < MaxWork
  /\ toDev' = NoPacket
  /\ work' = IF toDev.ans THEN work ELSE work \cup {toDev}
  /\ UNCHANGED <<host, toHost, ready, confirmed, inds>>

StackConfirm ==
  /\ ready
  /\ toHost = NoPacket
  /\ \E p \in work, good \in StackResults :
       /\ work' = work \ {p}
       /\ toHost' = [p EXCEPT !.ans = TRUE, !.ok = good]
       /\ confirmed' = confirmed \cup {p.num}
  /\ UNCHANGED <<host, toDev, ready, inds>>

StackIndicate ==
  /\ ready
  /\ toHost = NoPacket
  /\ \E i \in 1 .. MaxInd, cmd \in StackInds :
       /\ inds[i] = "idle"
       /\ \A j \in 1 .. MaxInd : j < i => inds[j] # "idle"
       /\ toHost' = [cmd |-> cmd, ans |-> FALSE, id |-> 0, ok |-> TRUE,
                     num |-> i]
       /\ inds' = [inds EXCEPT ![i] = "sent"]
  /\ UNCHANGED <<host, toDev, stack>>

(* The device becomes "not ready" (DEV_IsReady), a firmware that has failed. *)
StackStops ==
  /\ MayStop
  /\ ready
  /\ ready' = FALSE
  /\ UNCHANGED <<host, toDev, toHost, work, confirmed, inds>>

----------------------------------------------------------------------------
Receive == \/ ReceiveOwn \/ ReceiveForeign \/ ReceiveOverrun
           \/ ReceiveIndication \/ ReceiveTimeout \/ ReceiveError
Handler == \/ HandlerRequest \/ HandlerRespond \/ RejectPacket \/ DispatchDone

Host  == \/ MainCall \/ PollQueue \/ PollMailbox \/ PollNothing
         \/ RegisterIndicationHandler \/ Receive \/ Handler
Stack == StackTake \/ StackConfirm \/ StackIndicate \/ StackStops

Next == Host \/ Stack

Spec == Init /\ [][Next]_vars

(* The main loop keeps executing; of the stack nothing is assumed.          *)
FairSpec == Spec /\ WF_vars(Receive \/ Handler)

----------------------------------------------------------------------------
(* Properties                                                               *)

CallRec == [cmd : MainCmds \cup HandlerCmds \cup {"none"}, id : Nat, num : Nat]
HndRec  == [pc : HndPc, ind : Packet, step : Nat]

(* The types of all variables. *)
TypeOK ==
  /\ nextId \in Nat
  /\ calls \in Nat
  /\ depth \in 0 .. MaxDepth
  /\ call \in [Levels -> CallRec]
  /\ hnd \in [0 .. MaxDepth -> HndRec]
  /\ buf \in Packet
  /\ queue \in [Slots -> Packet]
  /\ registered \in BOOLEAN
  /\ toDev \in Packet
  /\ toHost \in Packet
  /\ ready \in BOOLEAN
  /\ work \subseteq Packet
  /\ confirmed \subseteq Nat
  /\ inds \in [1 .. MaxInd -> {"idle", "sent", "dispatched", "answered", "dropped"}]
  /\ DOMAIN outcome \subseteq Nat
  /\ \A n \in DOMAIN outcome : outcome[n] \in {"ok", "failed", "refused"}

InFlight == {toDev, toHost} \cup work \cup {queue[s] : s \in Slots}

(* Level d would take p for its confirmation only if p is for that call.    *)
Own(p, d) == p.cmd = call[d].cmd /\ p.id = call[d].id => p.num = call[d].num

(* A packet on its way which a waiting Pkt_SendReceivePacket would take for *)
(* its confirmation, by command and id, does belong to that request: late   *)
(* confirmations of timed-out calls and of nested calls are told apart.     *)
(* Commands sent with a sequence bit in ulExt are excepted.                 *)
OwnConfirmation ==
  \A p \in InFlight, d \in 1 .. depth : call[d].cmd \notin SeqCmds => Own(p, d)

(* The same without exception: s_ulNextPacketId is documented to assign     *)
(* confirmations "uniquely to a previously sent request packet".            *)
CorrespondingConfirmation ==
  \A p \in InFlight, d \in 1 .. depth : Own(p, d)

(* What makes OwnConfirmation inductive: no packet the program still holds  *)
(* and no waiting call has an id beyond the counter, so that a fresh id is  *)
(* new, and the packets held in tPacket or saved by a handler, which may be *)
(* sent again, are told apart as well.  The other way round, a packet that  *)
(* belongs to a waiting call carries its command and its id.                *)
Held == InFlight \cup {buf} \cup {hnd[l].ind : l \in 0 .. MaxDepth}

IdInv ==
  /\ \A p \in Held : p.id <= nextId
  /\ \A p \in Held : p.cmd \in Cmds => p.num <= calls
  /\ \A d \in 1 .. depth : call[d].id <= nextId /\ call[d].cmd \in Cmds
  /\ \A d \in 1 .. depth : call[d].num <= calls
  /\ \A p \in Held, d \in 1 .. depth : call[d].cmd \notin SeqCmds => Own(p, d)
  /\ \A p \in Held, d \in 1 .. depth :
       p.cmd \in Cmds /\ p.num = call[d].num
         => p.cmd = call[d].cmd /\ p.id = call[d].id

(* A confirmation in the queue belongs to an outer call, which looks at the *)
(* queue again before it waits, or to a call that failed.  So no call waits *)
(* for a confirmation that is already in the queue.                         *)
QueueHoldsOthers ==
  \A s \in Slots : queue[s] # NoPacket =>
    LET n == queue[s].num
    IN \/ n \in DOMAIN outcome /\ outcome[n] = "failed"
       \/ \E d \in 1 .. depth : /\ call[d].num = n
                               /\ (d < depth \/ Running(d))

(* Every indication taken out of the mailbox is answered, its response was  *)
(* lost in a full mailbox, or a handler on the call stack still owes it,    *)
(* however resets nest and overwrite the packet buffer.                     *)
AnswerOwed ==
  \A i \in 1 .. MaxInd : inds[i] = "dispatched" =>
    \E l \in 0 .. depth :
      /\ hnd[l].ind.num = i
      /\ hnd[l].ind.cmd \in IndCmds
      /\ hnd[l].pc \in {"delete", "respond", "reject"}

(* No indication is answered twice, and none that was not dispatched.       *)
AnswersDispatched ==
  [][toDev' # toDev /\ toDev'.cmd \in IndCmds
       => toDev'.ans /\ inds[toDev'.num] = "dispatched"]_vars

(* A queued confirmation leaves the queue by the return of the call it is   *)
(* for, or, when it is late, by the main loop's Pkt_CheckReceiveMailbox.    *)
QueueDrainedByOwner ==
  [][\A s \in Slots : queue[s] # NoPacket /\ queue'[s] # queue[s] =>
       \/ Idle
       \/ /\ depth > 0
          /\ queue[s].num = call[depth].num
          /\ depth' = depth - 1
          /\ outcome'[queue[s].num] = "ok"]_vars

(* Pkt_SendReceivePacket returns, with its confirmation or with an error,   *)
(* whatever the stack does with the requests and with the mailboxes, as     *)
(* long as it stays ready: else the loop of ReceiveError has no end.        *)
CallReturns == []ready => ((depth > 0) ~> (depth = 0))

(* The calls as the application sees them: see RequestReply.                *)
Abstract == INSTANCE RequestReply WITH
  open <- {call[d].num : d \in 1 .. depth},
  count <- calls,
  executed <- confirmed,
  outcome <- outcome

ImplementsRequestReply == Abstract!Spec
============================================================================
