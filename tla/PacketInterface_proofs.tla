----------------------- MODULE PacketInterface_proofs -----------------------
(***************************************************************************)
(* Proofs about PacketInterface for every queue depth, nesting depth,      *)
(* number of calls and indications, and set of commands: the type          *)
(* invariant, that a confirmation is only ever accepted by the call it     *)
(* belongs to, and that every indication is answered; without sequence     *)
(* flags also what the queue holds and when it is emptied, and that the    *)
(* calls implement RequestReply.                                           *)
(***************************************************************************)
EXTENDS PacketInterface, TLAPS

USE PacketAssumption DEF Levels, Slots

(* What a handler goes on with after a request is a handler state again.    *)
LEMMA AfterCallType ==
  ASSUME NEW h \in HndRec, NEW good \in BOOLEAN
  PROVE  AfterCall(h, good) \in HndRec /\ AfterCall(h, good).ind = h.ind
<1>1. CASE h.pc = "delete"
  BY <1>1 DEF AfterCall, HndRec, HndPc
<1>2. CASE h.pc = "init"
  BY <1>2 DEF AfterCall, HndRec, HndPc
<1>3. CASE h.pc = "config"
  BY <1>3 DEF AfterCall, HndRec, HndPc
<1>4. CASE h.pc \notin {"delete", "init", "config"}
  BY <1>4 DEF AfterCall, HndRec, HndPc
<1>5. QED BY <1>1, <1>2, <1>3, <1>4

(* The return of a call keeps the types of what it changes.                 *)
LEMMA ReturnType ==
  ASSUME TypeOK, depth > 0, NEW ret \in {"ok", "failed"}, NEW good \in BOOLEAN,
         Return(ret, good)
  PROVE  /\ depth' \in 0 .. MaxDepth
         /\ depth' = depth - 1
         /\ call' \in [Levels -> CallRec]
         /\ \A d \in 1 .. depth' : call'[d] = call[d]
         /\ hnd' \in [0 .. MaxDepth -> HndRec]
         /\ \A l \in 0 .. MaxDepth : hnd'[l].ind \in {hnd[l].ind, NoPacket}
         /\ DOMAIN outcome' \subseteq Nat
         /\ \A n \in DOMAIN outcome' : outcome'[n] \in {"ok", "failed", "refused"}
<1>0. depth \in Levels /\ depth - 1 \in 0 .. MaxDepth /\ depth \in 0 .. MaxDepth
  BY DEF TypeOK
<1>1. NoCall \in CallRec /\ NoHnd \in HndRec /\ NoHnd.ind = NoPacket
  BY DEF NoCall, CallRec, NoHnd, HndRec, HndPc, NoPacket, Packet
<1>2. PICK g \in BOOLEAN :
        hnd' = [hnd EXCEPT ![depth] = NoHnd, ![depth - 1] = AfterCall(@, g)]
  BY DEF Return
<1>3. hnd[depth - 1] \in HndRec
  BY <1>0 DEF TypeOK
<1>4. /\ AfterCall(hnd[depth - 1], g) \in HndRec
      /\ AfterCall(hnd[depth - 1], g).ind = hnd[depth - 1].ind
  BY <1>3, AfterCallType
<1>5. hnd' = [l \in 0 .. MaxDepth |->
                IF l = depth - 1 THEN AfterCall(hnd[depth - 1], g)
                ELSE IF l = depth THEN NoHnd ELSE hnd[l]]
  BY <1>0, <1>2 DEF TypeOK
<1>6. /\ hnd' \in [0 .. MaxDepth -> HndRec]
      /\ \A l \in 0 .. MaxDepth : hnd'[l].ind \in {hnd[l].ind, NoPacket}
  BY <1>1, <1>4, <1>5 DEF TypeOK
<1>7. /\ depth' \in 0 .. MaxDepth
      /\ depth' = depth - 1
      /\ call' \in [Levels -> CallRec]
      /\ \A d \in 1 .. depth' : call'[d] = call[d]
  BY <1>0, <1>1 DEF TypeOK, Return
<1>8. call[depth].num \in Nat
  BY <1>0 DEF TypeOK, CallRec
<1>9. /\ DOMAIN outcome' \subseteq Nat
      /\ \A n \in DOMAIN outcome' : outcome'[n] \in {"ok", "failed", "refused"}
  BY <1>8 DEF TypeOK, Return
<1>10. QED BY <1>6, <1>7, <1>9

(* A request keeps the types, whether it is sent or refused.                *)
LEMMA CallType ==
  ASSUME TypeOK, NEW cmd \in Cmds, Call(cmd)
  PROVE  TypeOK'
<1> DEFINE pkt == [cmd |-> cmd, ans |-> FALSE, id |-> IdFor(cmd), ok |-> TRUE,
                   num |-> calls + 1]
<1>1. IdFor(cmd) \in Nat /\ pkt \in Packet
  BY DEF TypeOK, IdFor, Packet
<1>2. /\ nextId' = IdFor(cmd) /\ calls' = calls + 1 /\ buf' = pkt
      /\ UNCHANGED <<queue, registered, toHost, stack, inds>>
  BY DEF Call
<1>3. CASE depth < MaxDepth /\ toDev' = pkt /\ depth' = depth + 1
           /\ call' = [call EXCEPT ![depth + 1] =
                         [cmd |-> cmd, id |-> pkt.id, num |-> pkt.num]]
           /\ UNCHANGED <<hnd, outcome>>
  <2>1. [cmd |-> cmd, id |-> pkt.id, num |-> pkt.num] \in CallRec
    BY <1>1 DEF CallRec, Cmds, TypeOK
  <2>2. call' \in [Levels -> CallRec] /\ depth' \in 0 .. MaxDepth
    BY <1>3, <2>1 DEF TypeOK
  <2>3. QED BY <1>1, <1>2, <1>3, <2>2 DEF TypeOK, stack
<1>4. CASE hnd' = [hnd EXCEPT ![depth] = AfterCall(@, FALSE)]
           /\ outcome' = [n \in DOMAIN outcome \cup {pkt.num} |->
                            IF n = pkt.num THEN "refused" ELSE outcome[n]]
           /\ UNCHANGED <<depth, call, toDev>>
  <2>1. hnd[depth] \in HndRec
    BY DEF TypeOK
  <2>2. AfterCall(hnd[depth], FALSE) \in HndRec
    BY <2>1, AfterCallType
  <2>3. hnd' \in [0 .. MaxDepth -> HndRec]
    BY <1>4, <2>2 DEF TypeOK
  <2>4. /\ DOMAIN outcome' \subseteq Nat
        /\ \A n \in DOMAIN outcome' : outcome'[n] \in {"ok", "failed", "refused"}
    <3>1. DOMAIN outcome \subseteq Nat /\ pkt.num \in Nat
      BY DEF TypeOK
    <3>2. \A n \in DOMAIN outcome : outcome[n] \in {"ok", "failed", "refused"}
      BY DEF TypeOK
    <3>3. QED BY <3>1, <3>2, <1>4
  <2>5. calls' \in Nat /\ pkt \in Packet /\ buf' \in Packet /\ nextId' \in Nat
    BY <1>1, <1>2 DEF TypeOK
  <2>6. /\ depth' \in 0 .. MaxDepth
        /\ call' \in [Levels -> CallRec]
        /\ toDev' \in Packet
    BY <1>4 DEF TypeOK
  <2>7. QED BY <1>2, <2>3, <2>4, <2>5, <2>6 DEF TypeOK, stack
<1>5. QED BY <1>3, <1>4 DEF Call

(* The first state of a handler is a handler state.                         *)
LEMMA DispatchType ==
  ASSUME TypeOK, NEW l \in 0 .. MaxDepth, NEW p \in Packet, Dispatch(l, p)
  PROVE  /\ hnd' \in [0 .. MaxDepth -> HndRec]
         /\ \A k \in 0 .. MaxDepth : hnd'[k].ind \in {hnd[k].ind, p}
<1>1. FirstStep(p) \in HndPc
  BY DEF FirstStep, HndPc
<1>2. [pc |-> FirstStep(p), ind |-> p, step |-> 0] \in HndRec
  BY <1>1 DEF HndRec
<1>3. QED BY <1>2 DEF Dispatch, TypeOK

----------------------------------------------------------------------------
(* Every step of the program and of the stack keeps the types.              *)
LEMMA TypeStep == TypeOK /\ [Next]_vars => TypeOK'
<1> SUFFICES ASSUME TypeOK, [Next]_vars PROVE TypeOK'
  OBVIOUS
<1>0. NoPacket \in Packet /\ NoHnd \in HndRec
  BY DEF NoPacket, Packet, NoHnd, HndRec, HndPc
<1>1. CASE MainCall
  <2>1. PICK cmd \in MainCmds : Call(cmd)
    BY <1>1 DEF MainCall
  <2>2. QED BY <2>1, CallType DEF Cmds
<1>2. CASE HandlerRequest
  <2>1. PICK cmd \in HandlerCmds : Call(cmd)
    BY <1>2 DEF HandlerRequest, HandlerCmds
  <2>2. QED BY <2>1, CallType DEF Cmds
<1>3. CASE ReceiveOwn
  <2>1. Return("ok", toHost.ok) /\ depth > 0 /\ toHost.ok \in BOOLEAN
    BY <1>3 DEF ReceiveOwn, Waiting, TypeOK, Packet
  <2>2. QED BY <1>0, <1>3, <2>1, ReturnType DEF ReceiveOwn, TypeOK, stack
<1>4. CASE ReceiveForeign
  <2>1. PICK s \in Slots : queue' = [queue EXCEPT ![s] = toHost]
    BY <1>4 DEF ReceiveForeign, Enqueue
  <2>2. QED BY <1>0, <1>4, <2>1 DEF ReceiveForeign, TypeOK, stack
<1>5. CASE ReceiveOverrun
  <2>1. Return("failed", FALSE) /\ depth > 0
    BY <1>5 DEF ReceiveOverrun, ForeignConfirmation, Waiting
  <2>2. QED BY <1>0, <1>5, <2>1, ReturnType DEF ReceiveOverrun, TypeOK, stack
<1>6. CASE ReceiveIndication
  <2>1. Dispatch(depth, toHost) /\ depth \in 0 .. MaxDepth /\ toHost \in Packet
    BY <1>6 DEF ReceiveIndication, TypeOK
  <2>2. QED BY <1>0, <1>6, <2>1, DispatchType DEF ReceiveIndication, TypeOK, stack
<1>7. CASE ReceiveTimeout
  <2>1. Return("failed", FALSE) /\ depth > 0
    BY <1>7 DEF ReceiveTimeout, Waiting
  <2>2. QED BY <1>7, <2>1, ReturnType DEF ReceiveTimeout, TypeOK, stack
<1>8. ASSUME NEW p \in Packet, NEW i \in Packet, Answer(p, i)
      PROVE  toDev' \in Packet /\ inds' \in [1 .. MaxInd ->
               {"idle", "sent", "dispatched", "answered", "dropped"}]
  BY <1>8 DEF Answer, TypeOK
<1>9. hnd[depth] \in HndRec /\ hnd[depth].ind \in Packet
  BY DEF TypeOK, HndRec
<1>10. CASE HandlerRespond
  <2>1. Response(hnd[depth]) \in Packet
    BY <1>9 DEF Response, TypeOK, Packet
  <2>2. AfterResponse(hnd[depth]) \in HndRec
    BY <1>9 DEF AfterResponse, HndRec, HndPc
  <2>3. hnd' \in [0 .. MaxDepth -> HndRec]
    BY <1>10, <2>2 DEF HandlerRespond, TypeOK
  <2>4. QED BY <1>8, <1>9, <1>10, <2>1, <2>3 DEF HandlerRespond, TypeOK, stack
<1>11. CASE RejectPacket
  <2>1. [buf EXCEPT !.ans = TRUE, !.ok = FALSE] \in Packet
    BY DEF TypeOK, Packet
  <2>2. hnd' = [hnd EXCEPT ![depth] = [hnd[depth] EXCEPT !.pc = "end"]]
    BY <1>11 DEF RejectPacket
  <2>3. [hnd[depth] EXCEPT !.pc = "end"] \in HndRec
    BY <1>9 DEF HndRec, HndPc
  <2>4. hnd' \in [0 .. MaxDepth -> HndRec]
    BY <2>2, <2>3 DEF TypeOK
  <2>5. QED BY <1>8, <1>9, <1>11, <2>1, <2>4 DEF RejectPacket, TypeOK, stack
<1>12. CASE DispatchDone
  <2>1. CASE depth > 0 /\ \E s \in Slots : Matches(queue[s], call[depth])
    <3>1. PICK s \in Slots : /\ buf' = queue[s]
                            /\ queue' = [queue EXCEPT ![s] = NoPacket]
                            /\ Return("ok", queue[s].ok)
      BY <1>12, <2>1 DEF DispatchDone, TryDequeue
    <3>2. queue[s] \in Packet /\ queue[s].ok \in BOOLEAN
      BY DEF TypeOK, Packet
    <3>3. QED BY <1>0, <1>12, <2>1, <3>1, <3>2, ReturnType
              DEF DispatchDone, TypeOK, stack
  <2>2. CASE ~(depth > 0 /\ \E s \in Slots : Matches(queue[s], call[depth]))
    <3>1. /\ hnd' = [hnd EXCEPT ![depth] = NoHnd]
          /\ UNCHANGED <<buf, queue, depth, call, outcome>>
      <4>1. CASE depth > 0
        BY <1>12, <2>2, <4>1 DEF DispatchDone, TryDequeue
      <4>2. CASE ~(depth > 0)
        <5>1. depth = 0
          BY <4>2 DEF TypeOK
        <5>2. QED BY <1>12, <5>1 DEF DispatchDone
      <4>3. QED BY <4>1, <4>2
    <3>2. QED BY <1>0, <1>12, <3>1 DEF DispatchDone, TypeOK, stack
  <2>3. QED BY <2>1, <2>2
<1>13. CASE PollQueue
  <2>1. PICK s \in Slots : /\ buf' = queue[s]
                          /\ queue' = [queue EXCEPT ![s] = NoPacket]
                          /\ Dispatch(0, queue[s])
    BY <1>13 DEF PollQueue
  <2>2. queue[s] \in Packet /\ 0 \in 0 .. MaxDepth
    BY DEF TypeOK
  <2>3. QED BY <1>0, <1>13, <2>1, <2>2, DispatchType DEF PollQueue, TypeOK, stack
<1>14. CASE PollMailbox
  <2>1. Dispatch(0, toHost) /\ 0 \in 0 .. MaxDepth /\ toHost \in Packet
    BY <1>14 DEF PollMailbox, TypeOK
  <2>2. QED BY <1>0, <1>14, <2>1, DispatchType DEF PollMailbox, TypeOK, stack
<1>15. CASE RegisterIndicationHandler
  BY <1>15 DEF RegisterIndicationHandler, TypeOK, stack
<1>16. CASE StackTake
  BY <1>0, <1>16 DEF StackTake, TypeOK, host
<1>17. CASE StackConfirm
  <2>1. PICK p \in work, good \in StackResults :
          /\ work' = work \ {p}
          /\ toHost' = [p EXCEPT !.ans = TRUE, !.ok = good]
          /\ confirmed' = confirmed \cup {p.num}
    BY <1>17 DEF StackConfirm
  <2>2. toHost' \in Packet /\ p.num \in Nat
    BY <2>1 DEF TypeOK, Packet
  <2>3. QED BY <1>17, <2>1, <2>2 DEF StackConfirm, TypeOK, host
<1>18. CASE StackIndicate
  <2>1. PICK i \in 1 .. MaxInd, cmd \in StackInds :
          /\ toHost' = [cmd |-> cmd, ans |-> FALSE, id |-> 0, ok |-> TRUE,
                        num |-> i]
          /\ inds' = [inds EXCEPT ![i] = "sent"]
    BY <1>18 DEF StackIndicate
  <2>2. toHost' \in Packet
    BY <2>1 DEF Packet
  <2>3. QED BY <1>18, <2>1, <2>2 DEF StackIndicate, TypeOK, host, stack
<1>19. CASE StackStops
  BY <1>19 DEF StackStops, TypeOK, host
<1>20. CASE UNCHANGED vars
  BY <1>20 DEF TypeOK, vars, host, stack
<1>21. CASE ReceiveError \/ PollNothing
  BY <1>20, <1>21 DEF ReceiveError, PollNothing
<1>22. QED
  BY <1>1, <1>2, <1>3, <1>4, <1>5, <1>6, <1>7, <1>10, <1>11, <1>12, <1>13, <1>14,
     <1>15, <1>16, <1>17, <1>18, <1>19, <1>20, <1>21
     DEF Next, Host, Stack, Receive, Handler

LEMMA TypeInit == Init => TypeOK
<1>1. NoPacket \in Packet /\ NoHnd \in HndRec /\ NoCall \in CallRec
  BY DEF NoPacket, Packet, NoHnd, HndRec, HndPc, NoCall, CallRec
<1>2. DOMAIN [n \in {} |-> "none"] = {}
  OBVIOUS
<1>3. ASSUME Init
      PROVE  /\ DOMAIN outcome = {}
             /\ inds \in [1 .. MaxInd ->
                   {"idle", "sent", "dispatched", "answered", "dropped"}]
             /\ confirmed = {} /\ work = {}
  BY <1>2, <1>3 DEF Init
<1>4. ASSUME Init
      PROVE  /\ nextId \in Nat /\ calls \in Nat /\ depth \in 0 .. MaxDepth
             /\ call \in [Levels -> CallRec]
             /\ hnd \in [0 .. MaxDepth -> HndRec]
             /\ queue \in [Slots -> Packet]
  BY <1>1, <1>4 DEF Init
<1>5. QED BY <1>1, <1>3, <1>4 DEF Init, TypeOK

(* The types hold in every reachable state, whatever the sizes of queue,    *)
(* nesting and configuration.                                               *)
THEOREM Typing == Spec => []TypeOK
<1>1. QED BY TypeInit, TypeStep, PTL DEF Spec

----------------------------------------------------------------------------
(* Packets with the same header identification.                             *)
SameKey(p, q) == p.cmd = q.cmd /\ p.id = q.id /\ p.num = q.num

(* A packet that carries no request's command, or the key of a held packet. *)
Known(p) == \/ p.cmd \notin Cmds /\ p.id = 0
            \/ \E q \in Held : SameKey(p, q)

LEMMA HeldKnown == TypeOK => /\ Known(toDev) /\ Known(toHost) /\ Known(buf)
                             /\ \A p \in work : Known(p)
                             /\ \A s \in Slots : Known(queue[s])
                             /\ \A l \in 0 .. MaxDepth : Known(hnd[l].ind)
                             /\ Known(NoPacket)
BY DEF Known, Held, InFlight, SameKey, NoPacket, Cmds, HandlerCmds

LEMMA HeldIds == TypeOK => \A p \in Held : p.id \in Nat /\ p.num \in Nat
<1>1. \A p \in Packet : p.id \in Nat /\ p.num \in Nat
  BY DEF Packet
<1>2. TypeOK => \A p \in Held : p \in Packet
  BY DEF TypeOK, Held, InFlight, HndRec
<1>3. QED BY <1>1, <1>2

(* A step that starts no call and brings up no new key keeps IdInv.         *)
LEMMA KeepIds ==
  ASSUME TypeOK, IdInv, nextId' = nextId, calls' = calls,
         depth' \in 0 .. MaxDepth,
         \A d \in 1 .. depth' : d \in 1 .. depth /\ call'[d] = call[d],
         Known(toDev'), Known(toHost'), Known(buf'),
         \A p \in work' : Known(p),
         \A s \in Slots : Known(queue'[s]),
         \A l \in 0 .. MaxDepth : Known((hnd')[l].ind)
  PROVE  IdInv'
<1>1. \A p \in Held' : Known(p)
  BY DEF Held, InFlight
<1>2. \A p \in Held' : p.id <= nextId /\ (p.cmd \in Cmds => p.num <= calls)
  BY <1>1, SMTT(30) DEF Known, SameKey, IdInv, TypeOK
<1>3. \A d \in 1 .. depth' : /\ (call')[d].id <= nextId /\ (call')[d].cmd \in Cmds
                            /\ (call')[d].num <= calls
  BY DEF IdInv
<1>4. ASSUME NEW p \in Held', NEW d \in 1 .. depth', (call')[d].cmd \notin SeqCmds,
             p.cmd = (call')[d].cmd, p.id = (call')[d].id
      PROVE  p.num = (call')[d].num
  <2>1. PICK q \in Held : SameKey(p, q)
    BY <1>1, <1>3, <1>4 DEF Known
  <2>2. d \in 1 .. depth /\ call'[d] = call[d]
    OBVIOUS
  <2>3. q.cmd = call[d].cmd /\ q.id = call[d].id /\ call[d].cmd \notin SeqCmds
    BY <1>4, <2>1, <2>2 DEF SameKey
  <2>4. q.num = call[d].num
    BY <2>1, <2>2, <2>3 DEF IdInv, Own
  <2>5. QED BY <2>1, <2>2, <2>4 DEF SameKey
<1>5. ASSUME NEW p \in Held', NEW d \in 1 .. depth', p.cmd \in Cmds,
             p.num = (call')[d].num
      PROVE  p.cmd = (call')[d].cmd /\ p.id = (call')[d].id
  <2>1. PICK q \in Held : SameKey(p, q)
    BY <1>1, <1>5 DEF Known
  <2>2. d \in 1 .. depth /\ call'[d] = call[d]
    OBVIOUS
  <2>3. q.cmd \in Cmds /\ q.num = call[d].num
    BY <1>5, <2>1, <2>2 DEF SameKey
  <2>4. \A r \in Held, e \in 1 .. depth :
          r.cmd \in Cmds /\ r.num = call[e].num
            => r.cmd = call[e].cmd /\ r.id = call[e].id
    BY DEF IdInv
  <2>5. q.cmd = call[d].cmd /\ q.id = call[d].id
    BY <2>2, <2>3, <2>4
  <2>6. QED BY <2>1, <2>2, <2>5 DEF SameKey
<1>6. QED BY <1>2, <1>3, <1>4, <1>5 DEF IdInv, Own

(* A new request has an id nothing else has, or a sequence command.         *)
LEMMA CallIds ==
  ASSUME TypeOK, IdInv, NEW cmd \in Cmds, Call(cmd)
  PROVE  IdInv'
<1> DEFINE pkt == [cmd |-> cmd, ans |-> FALSE, id |-> IdFor(cmd), ok |-> TRUE,
                   num |-> calls + 1]
<1>1. /\ nextId' = pkt.id /\ buf' = pkt
      /\ UNCHANGED <<queue, toHost, work>>
      /\ pkt.id \in Nat /\ nextId <= pkt.id /\ pkt.num = calls + 1
      /\ calls' = calls + 1 /\ calls \in Nat
      /\ pkt.cmd = cmd
      /\ cmd \notin SeqCmds => pkt.id > nextId
  BY DEF Call, stack, IdFor, TypeOK
<1>2. toDev' \in {toDev, pkt}
  BY DEF Call
<1>3. \A l \in 0 .. MaxDepth : (hnd')[l].ind = hnd[l].ind
  <2>1. hnd[depth] \in HndRec /\ depth \in 0 .. MaxDepth
    BY DEF TypeOK
  <2>2. AfterCall(hnd[depth], FALSE).ind = hnd[depth].ind
    BY <2>1, AfterCallType
  <2>3. QED BY <2>2 DEF Call, TypeOK
<1>4. \A p \in Held' : p \in Held \/ p = pkt
  BY <1>1, <1>2, <1>3 DEF Held, InFlight
<1>5. \A d \in 1 .. depth' :
        \/ d \in 1 .. depth /\ call'[d] = call[d]
        \/ call'[d] = [cmd |-> cmd, id |-> pkt.id, num |-> pkt.num]
  <2>1. CASE depth < MaxDepth /\ depth' = depth + 1
             /\ call' = [call EXCEPT ![depth + 1] =
                           [cmd |-> cmd, id |-> pkt.id, num |-> pkt.num]]
    BY <2>1 DEF TypeOK
  <2>2. CASE UNCHANGED <<depth, call>>
    BY <2>2 DEF TypeOK
  <2>3. QED BY <2>1, <2>2 DEF Call
<1>6. \A p \in Held' : p.id <= nextId' /\ (p.cmd \in Cmds => p.num <= calls')
  <2>1. nextId \in Nat /\ \A p \in Held : p.id \in Nat /\ p.id <= nextId
    BY HeldIds DEF TypeOK, IdInv
  <2>2. \A p \in Held : p.num \in Nat /\ (p.cmd \in Cmds => p.num <= calls)
    BY HeldIds DEF IdInv
  <2>3. QED BY <1>1, <1>4, <2>1, <2>2
<1>7. \A d \in 1 .. depth' : /\ (call')[d].id <= nextId' /\ (call')[d].cmd \in Cmds
                            /\ (call')[d].num <= calls'
  <2>1. \A d \in 1 .. depth : call[d].id \in Nat /\ call[d].num \in Nat
    BY DEF TypeOK, CallRec
  <2>2. \A d \in 1 .. depth : /\ call[d].id <= nextId /\ call[d].num <= calls
                            /\ call[d].cmd \in Cmds
    BY DEF IdInv
  <2>3. nextId \in Nat
    BY DEF TypeOK
  <2>4. QED BY <1>1, <1>5, <2>1, <2>2, <2>3
<1>8. ASSUME NEW p \in Held', NEW d \in 1 .. depth', (call')[d].cmd \notin SeqCmds,
             p.cmd = (call')[d].cmd, p.id = (call')[d].id
      PROVE  p.num = (call')[d].num
  <2>1. CASE p = pkt
    <3>1. CASE d \in 1 .. depth /\ call'[d] = call[d]
      BY <1>1, <1>8, <2>1, <3>1 DEF IdInv, TypeOK, CallRec
    <3>2. CASE call'[d] = [cmd |-> cmd, id |-> pkt.id, num |-> pkt.num]
      BY <2>1, <3>2
    <3>3. QED BY <1>5, <3>1, <3>2
  <2>2. CASE p \in Held
    <3>1. p.id <= nextId /\ p.id \in Nat
        BY <2>2, HeldIds DEF IdInv
    <3>2. CASE d \in 1 .. depth /\ call'[d] = call[d]
      BY <1>8, <2>2, <3>2 DEF IdInv, Own
    <3>3. CASE call'[d] = [cmd |-> cmd, id |-> pkt.id, num |-> pkt.num]
      BY <1>1, <1>8, <3>1, <3>3 DEF TypeOK
    <3>4. QED BY <1>5, <3>2, <3>3
  <2>3. QED BY <1>4, <2>1, <2>2
<1>9. ASSUME NEW p \in Held', NEW d \in 1 .. depth', p.cmd \in Cmds,
             p.num = (call')[d].num
      PROVE  p.cmd = (call')[d].cmd /\ p.id = (call')[d].id
  <2>1. CASE p = pkt
    <3>1. CASE d \in 1 .. depth /\ call'[d] = call[d]
      BY <1>1, <1>9, <2>1, <3>1 DEF IdInv, TypeOK, CallRec
    <3>2. CASE call'[d] = [cmd |-> cmd, id |-> pkt.id, num |-> pkt.num]
      BY <2>1, <3>2
    <3>3. QED BY <1>5, <3>1, <3>2
  <2>2. CASE p \in Held
    <3>1. p.num <= calls /\ p.num \in Nat
      BY <1>9, <2>2, HeldIds DEF IdInv
    <3>2. CASE d \in 1 .. depth /\ call'[d] = call[d]
      BY <1>9, <2>2, <3>2 DEF IdInv
    <3>3. CASE call'[d] = [cmd |-> cmd, id |-> pkt.id, num |-> pkt.num]
      BY <1>1, <1>9, <3>1, <3>3
    <3>4. QED BY <1>5, <3>2, <3>3
  <2>3. QED BY <1>4, <2>1, <2>2
<1>10. QED BY <1>6, <1>7, <1>8, <1>9 DEF IdInv, Own

(* What a return leaves of the calls and of the saved indications.          *)
LEMMA ReturnIds ==
  ASSUME TypeOK, depth > 0, NEW ret \in {"ok", "failed"}, NEW good \in BOOLEAN,
         Return(ret, good)
  PROVE  /\ depth' \in 0 .. MaxDepth
         /\ \A d \in 1 .. depth' : d \in 1 .. depth /\ call'[d] = call[d]
         /\ \A l \in 0 .. MaxDepth : Known((hnd')[l].ind)
<1>1. /\ depth' \in 0 .. MaxDepth
      /\ depth' = depth - 1
      /\ \A d \in 1 .. depth' : call'[d] = call[d]
      /\ \A l \in 0 .. MaxDepth : (hnd')[l].ind \in {hnd[l].ind, NoPacket}
  BY ReturnType
<1>2. \A l \in 0 .. MaxDepth : Known((hnd')[l].ind)
  BY <1>1, HeldKnown
<1>3. QED BY <1>1, <1>2 DEF TypeOK

LEMMA DispatchIds ==
  ASSUME TypeOK, NEW l \in 0 .. MaxDepth, NEW p \in Packet, Dispatch(l, p), Known(p)
  PROVE  \A k \in 0 .. MaxDepth : Known((hnd')[k].ind)
BY DispatchType, HeldKnown

(* Every step keeps IdInv.                                                  *)
LEMMA IdStep == TypeOK /\ IdInv /\ [Next]_vars => IdInv'
<1> SUFFICES ASSUME TypeOK, IdInv, [Next]_vars PROVE IdInv'
  OBVIOUS
<1>0. /\ Known(toDev) /\ Known(toHost) /\ Known(buf)
      /\ \A p \in work : Known(p)
      /\ \A s \in Slots : Known(queue[s])
      /\ \A l \in 0 .. MaxDepth : Known(hnd[l].ind)
      /\ Known(NoPacket)
  BY HeldKnown
<1>a. /\ depth \in 0 .. MaxDepth /\ toHost \in Packet /\ buf \in Packet
      /\ \A s \in Slots : queue[s] \in Packet
      /\ hnd \in [0 .. MaxDepth -> HndRec]
      /\ queue \in [Slots -> Packet]
  BY DEF TypeOK
<1>b. ASSUME UNCHANGED <<depth, call>>
      PROVE  /\ depth' \in 0 .. MaxDepth
             /\ \A d \in 1 .. depth' : d \in 1 .. depth /\ call'[d] = call[d]
  BY <1>a, <1>b
<1>1. CASE MainCall
  <2>1. PICK cmd \in MainCmds : Call(cmd)
    BY <1>1 DEF MainCall
  <2>2. QED BY <2>1, CallIds DEF Cmds
<1>2. CASE HandlerRequest
  <2>1. PICK cmd \in HandlerCmds : Call(cmd)
    BY <1>2 DEF HandlerRequest, HandlerCmds
  <2>2. QED BY <2>1, CallIds DEF Cmds
<1>3. CASE ReceiveOwn
  <2>1. Return("ok", toHost.ok) /\ depth > 0 /\ toHost.ok \in BOOLEAN
    BY <1>3, <1>a DEF ReceiveOwn, Waiting, Packet
  <2>2. /\ depth' \in 0 .. MaxDepth
        /\ \A d \in 1 .. depth' : d \in 1 .. depth /\ call'[d] = call[d]
        /\ \A l \in 0 .. MaxDepth : Known((hnd')[l].ind)
    BY <2>1, ReturnIds
  <2>3. /\ UNCHANGED <<nextId, calls>> /\ buf' = toHost /\ toHost' = NoPacket
        /\ UNCHANGED <<queue, toDev, work>>
    BY <1>3 DEF ReceiveOwn, stack
  <2>4. QED BY <1>0, <2>2, <2>3, KeepIds
<1>4. CASE ReceiveForeign
  <2>1. PICK s \in Slots : queue' = [queue EXCEPT ![s] = toHost]
    BY <1>4 DEF ReceiveForeign, Enqueue
  <2>2. \A t \in Slots : Known(queue'[t])
    BY <1>0, <1>a, <2>1
  <2>3. /\ UNCHANGED <<nextId, calls>> /\ buf' = toHost /\ toHost' = NoPacket
        /\ UNCHANGED <<depth, call, hnd, toDev, work>>
    BY <1>4 DEF ReceiveForeign, stack
  <2>4. QED BY <1>0, <1>b, <2>2, <2>3, KeepIds
<1>5. CASE ReceiveOverrun
  <2>1. Return("failed", FALSE) /\ depth > 0
    BY <1>5 DEF ReceiveOverrun, ForeignConfirmation, Waiting
  <2>2. /\ depth' \in 0 .. MaxDepth
        /\ \A d \in 1 .. depth' : d \in 1 .. depth /\ call'[d] = call[d]
        /\ \A l \in 0 .. MaxDepth : Known((hnd')[l].ind)
    BY <2>1, ReturnIds
  <2>3. /\ UNCHANGED <<nextId, calls>> /\ buf' = toHost /\ toHost' = NoPacket
        /\ UNCHANGED <<queue, toDev, work>>
    BY <1>5 DEF ReceiveOverrun, stack
  <2>4. QED BY <1>0, <2>2, <2>3, KeepIds
<1>6. CASE ReceiveIndication
  <2>1. Dispatch(depth, toHost)
    BY <1>6 DEF ReceiveIndication
  <2>2. \A l \in 0 .. MaxDepth : Known((hnd')[l].ind)
    BY <1>0, <1>a, <2>1, DispatchIds
  <2>3. /\ UNCHANGED <<nextId, calls>> /\ buf' = toHost /\ toHost' = NoPacket
        /\ UNCHANGED <<depth, call, queue, toDev, work>>
    BY <1>6 DEF ReceiveIndication, stack
  <2>4. QED BY <1>0, <1>b, <2>2, <2>3, KeepIds
<1>7. CASE ReceiveTimeout
  <2>1. Return("failed", FALSE) /\ depth > 0
    BY <1>7 DEF ReceiveTimeout, Waiting
  <2>2. /\ depth' \in 0 .. MaxDepth
        /\ \A d \in 1 .. depth' : d \in 1 .. depth /\ call'[d] = call[d]
        /\ \A l \in 0 .. MaxDepth : Known((hnd')[l].ind)
    BY <2>1, ReturnIds
  <2>3. UNCHANGED <<nextId, calls>> /\ UNCHANGED <<buf, queue, toDev, toHost, work>>
    BY <1>7 DEF ReceiveTimeout, stack
  <2>4. QED BY <1>0, <2>2, <2>3, KeepIds
<1>8. CASE HandlerRespond
  <2>1. SameKey(Response(hnd[depth]), hnd[depth].ind)
          \/ SameKey(Response(hnd[depth]), buf)
    BY <1>a DEF Response, SameKey, HndRec, Packet
  <2>2. Known(Response(hnd[depth]))
    BY <1>a, <2>1 DEF Known, Held
  <2>3. /\ UNCHANGED <<nextId, calls>> /\ buf' = Response(hnd[depth])
        /\ toDev' \in {toDev, Response(hnd[depth])}
        /\ hnd' = [hnd EXCEPT ![depth] = AfterResponse(@)]
        /\ UNCHANGED <<depth, call, queue, toHost, work>>
    BY <1>8 DEF HandlerRespond, Answer, stack
  <2>4. AfterResponse(hnd[depth]).ind = hnd[depth].ind
    BY <1>a DEF AfterResponse, HndRec
  <2>5. \A l \in 0 .. MaxDepth : Known((hnd')[l].ind)
    BY <1>0, <1>a, <2>3, <2>4
  <2>6. QED BY <1>0, <1>b, <2>2, <2>3, <2>5, KeepIds
<1>9. CASE RejectPacket
  <2> DEFINE p == [buf EXCEPT !.ans = TRUE, !.ok = FALSE]
  <2>1. SameKey(p, buf)
    BY <1>a DEF SameKey, Packet
  <2>2. Known(p)
    BY <2>1 DEF Known, Held
  <2>3. /\ UNCHANGED <<nextId, calls>> /\ buf' = p
        /\ toDev' \in {toDev, p}
        /\ hnd' = [hnd EXCEPT ![depth].pc = "end"]
        /\ UNCHANGED <<depth, call, queue, toHost, work>>
    BY <1>9 DEF RejectPacket, Answer, stack
  <2>4. \A l \in 0 .. MaxDepth : (hnd')[l].ind = hnd[l].ind
    BY <1>a, <2>3 DEF HndRec
  <2>5. QED BY <1>0, <1>b, <2>2, <2>3, <2>4, KeepIds
<1>10. CASE DispatchDone
  <2>1. UNCHANGED <<nextId, calls>> /\ UNCHANGED <<toDev, toHost, work>>
    BY <1>10 DEF DispatchDone, stack
  <2>2. CASE depth > 0 /\ \E s \in Slots : Matches(queue[s], call[depth])
    <3>1. PICK s \in Slots : /\ buf' = queue[s]
                            /\ queue' = [queue EXCEPT ![s] = NoPacket]
                            /\ Return("ok", queue[s].ok)
      BY <1>10, <2>2 DEF DispatchDone, TryDequeue
    <3>2. queue[s].ok \in BOOLEAN
      BY <1>a DEF Packet
    <3>3. /\ depth' \in 0 .. MaxDepth
          /\ \A d \in 1 .. depth' : d \in 1 .. depth /\ call'[d] = call[d]
          /\ \A l \in 0 .. MaxDepth : Known((hnd')[l].ind)
      BY <2>2, <3>1, <3>2, ReturnIds
    <3>4. Known(buf') /\ \A t \in Slots : Known(queue'[t])
      BY <1>0, <1>a, <3>1
    <3>5. QED BY <1>0, <2>1, <3>3, <3>4, KeepIds
  <2>3. CASE ~(depth > 0 /\ \E s \in Slots : Matches(queue[s], call[depth]))
    <3>1. /\ hnd' = [hnd EXCEPT ![depth] = NoHnd]
          /\ UNCHANGED <<buf, queue, depth, call>>
      <4>1. CASE depth > 0
        BY <1>10, <2>3, <4>1 DEF DispatchDone, TryDequeue
      <4>2. CASE ~(depth > 0)
        <5>1. depth = 0
          BY <1>a, <4>2
        <5>2. QED BY <1>10, <5>1 DEF DispatchDone
      <4>3. QED BY <4>1, <4>2
    <3>2. \A l \in 0 .. MaxDepth : Known((hnd')[l].ind)
      BY <1>0, <1>a, <3>1 DEF NoHnd
    <3>3. QED BY <1>0, <1>b, <2>1, <3>1, <3>2, KeepIds
  <2>4. QED BY <2>2, <2>3
<1>11. CASE PollQueue
  <2>1. PICK s \in Slots : /\ buf' = queue[s]
                          /\ queue' = [queue EXCEPT ![s] = NoPacket]
                          /\ Dispatch(0, queue[s])
    BY <1>11 DEF PollQueue
  <2>2. \A l \in 0 .. MaxDepth : Known((hnd')[l].ind)
    BY <1>0, <1>a, <2>1, DispatchIds
  <2>3. Known(buf') /\ \A t \in Slots : Known(queue'[t])
    BY <1>0, <1>a, <2>1
  <2>4. UNCHANGED <<nextId, calls>> /\ UNCHANGED <<depth, call, toDev, toHost, work>>
    BY <1>11 DEF PollQueue, stack
  <2>5. QED BY <1>0, <1>b, <2>2, <2>3, <2>4, KeepIds
<1>12. CASE PollMailbox
  <2>1. Dispatch(0, toHost) /\ 0 \in 0 .. MaxDepth
    BY <1>12 DEF PollMailbox
  <2>2. \A l \in 0 .. MaxDepth : Known((hnd')[l].ind)
    BY <1>0, <1>a, <2>1, DispatchIds
  <2>3. /\ UNCHANGED <<nextId, calls>> /\ buf' = toHost /\ toHost' = NoPacket
        /\ UNCHANGED <<depth, call, queue, toDev, work>>
    BY <1>12 DEF PollMailbox, stack
  <2>4. QED BY <1>0, <1>b, <2>2, <2>3, KeepIds
<1>13. CASE RegisterIndicationHandler \/ StackStops \/ UNCHANGED vars
  <2>1. /\ UNCHANGED <<nextId, calls>>
        /\ UNCHANGED <<depth, call, hnd, buf, queue, toDev, toHost, work>>
    BY <1>13 DEF RegisterIndicationHandler, StackStops, vars, host, stack
  <2>2. QED BY <1>0, <1>b, <2>1, KeepIds
<1>14. CASE StackTake
  <2>1. /\ UNCHANGED <<nextId, calls>> /\ toDev' = NoPacket
        /\ work' \subseteq work \cup {toDev}
        /\ UNCHANGED <<depth, call, hnd, buf, queue, toHost>>
    BY <1>14 DEF StackTake, host
  <2>2. QED BY <1>0, <1>b, <2>1, KeepIds
<1>15. CASE StackConfirm
  <2>1. PICK p \in work, good \in StackResults :
          work' = work \ {p} /\ toHost' = [p EXCEPT !.ans = TRUE, !.ok = good]
    BY <1>15 DEF StackConfirm
  <2>2. SameKey(toHost', p) /\ p \in Held
    BY <2>1 DEF SameKey, TypeOK, Packet, Held, InFlight
  <2>3. UNCHANGED <<nextId, calls>> /\ UNCHANGED <<depth, call, hnd, buf, queue, toDev>>
    BY <1>15 DEF StackConfirm, host
  <2>4. QED BY <1>0, <1>b, <2>1, <2>2, <2>3, KeepIds DEF Known
<1>16. CASE StackIndicate
  <2>1. toHost'.id = 0 /\ toHost'.cmd \in StackInds
    BY <1>16 DEF StackIndicate
  <2>2. Known(toHost')
    BY <2>1 DEF Known, Cmds, IndCmds, HandlerCmds
  <2>3. UNCHANGED <<nextId, calls>> /\ UNCHANGED <<depth, call, hnd, buf, queue, toDev, work>>
    BY <1>16 DEF StackIndicate, host, stack
  <2>4. QED BY <1>0, <1>b, <2>2, <2>3, KeepIds
<1>17. CASE ReceiveError \/ PollNothing
  BY <1>13, <1>17 DEF ReceiveError, PollNothing
<1>18. QED
  BY <1>1, <1>2, <1>3, <1>4, <1>5, <1>6, <1>7, <1>8, <1>9, <1>10, <1>11, <1>12,
     <1>13, <1>14, <1>15, <1>16, <1>17
     DEF Next, Host, Stack, Receive, Handler

LEMMA IdInit == Init => IdInv
<1> SUFFICES ASSUME Init PROVE IdInv
  OBVIOUS
<1>1. \A p \in Held : p = NoPacket
  BY DEF Init, Held, InFlight, NoHnd
<1>2. QED BY <1>1 DEF Init, IdInv, NoPacket

(* A confirmation on its way that would be accepted by a waiting call of an *)
(* unsequenced command was sent for that very call, however late it is and  *)
(* however deep calls are nested: s_ulNextPacketId keeps the calls apart.   *)
THEOREM ConfirmationsAreOwn == Spec => []OwnConfirmation
<1>1. IdInv => OwnConfirmation
  BY DEF IdInv, OwnConfirmation, Held
<1>2. Init => TypeOK /\ IdInv
  BY TypeInit, IdInit
<1>3. TypeOK /\ IdInv /\ [Next]_vars => (TypeOK /\ IdInv)'
  BY TypeStep, IdStep
<1>4. QED BY <1>1, <1>2, <1>3, PTL DEF Spec

----------------------------------------------------------------------------
(* What kinds of packets can be where, and where the handlers stand.        *)

Resets == {"RESET_0", "RESET_1"}

IsInd(p)  == p.cmd \in IndCmds /\ ~p.ans /\ p.num \in 1 .. MaxInd
IsConf(p) == p.cmd \in Cmds /\ p.ans
IsReq(p)  == p.cmd \in Cmds /\ ~p.ans

(* The stack receives requests and answers; it sends confirmations and      *)
(* indications, and only confirmations are queued.                          *)
Kinds ==
  /\ toHost = NoPacket \/ IsConf(toHost) \/ IsInd(toHost)
  /\ \A s \in Slots : queue[s] = NoPacket \/ IsConf(queue[s])
  /\ \A p \in work : IsReq(p)
  /\ toDev = NoPacket \/ IsReq(toDev) \/ toDev.ans

(* A level that is not the innermost waits in one of its requests; what is  *)
(* answered from the packet buffer is still in it; and no level beyond the  *)
(* nesting depth runs a handler.                                            *)
LevelOk(l, h, dep, b) ==
  /\ l > dep => h.pc = "none"
  /\ l < dep => h.pc \in {"delete", "init", "config"} \/ (l = 0 /\ h.pc = "none")
  /\ h.pc = "delete" => IsInd(h.ind) /\ h.ind.cmd \in Resets
  /\ h.pc = "respond" => IsInd(h.ind)
  /\ h.pc = "reject" => IsInd(h.ind) \/ IsConf(h.ind)
  /\ h.pc = "reject" \/ (h.pc = "respond" /\ h.ind.cmd \notin Resets) => b = h.ind

HandlersOk == \A l \in 0 .. MaxDepth : LevelOk(l, hnd[l], depth, buf)

(* A request seen as one step: it is sent and a level deeper waits for it,  *)
(* or it is refused and the handler that issued it goes on.                 *)
LEMMA CallEffect ==
  ASSUME TypeOK, NEW cmd \in Cmds, Call(cmd)
  PROVE  \E pkt \in Packet :
           /\ pkt.cmd = cmd /\ ~pkt.ans /\ pkt.num = calls + 1
           /\ calls' = calls + 1 /\ buf' = pkt
           /\ UNCHANGED <<queue, registered, toHost, ready, work, confirmed, inds>>
           /\ \/ /\ toDev = NoPacket /\ toDev' = pkt
                 /\ depth < MaxDepth /\ depth' = depth + 1
                 /\ call' = [call EXCEPT ![depth + 1] =
                               [cmd |-> cmd, id |-> pkt.id, num |-> pkt.num]]
                 /\ UNCHANGED <<hnd, outcome>>
              \/ /\ hnd' = [hnd EXCEPT ![depth] = AfterCall(@, FALSE)]
                 /\ outcome' = [n \in DOMAIN outcome \cup {calls + 1} |->
                                  IF n = calls + 1 THEN "refused" ELSE outcome[n]]
                 /\ UNCHANGED <<depth, call, toDev>>
<1> DEFINE pkt == [cmd |-> cmd, ans |-> FALSE, id |-> IdFor(cmd), ok |-> TRUE,
                   num |-> calls + 1]
<1>1. pkt \in Packet
  BY DEF TypeOK, IdFor, Packet
<1>2. pkt.cmd = cmd /\ ~pkt.ans /\ pkt.num = calls + 1
  OBVIOUS
<1>3. /\ calls' = pkt.num /\ buf' = pkt
      /\ UNCHANGED <<queue, registered, toHost, stack, inds>>
      /\ \/ /\ CanPut
            /\ depth < MaxDepth
            /\ toDev' = pkt
            /\ depth' = depth + 1
            /\ call' = [call EXCEPT ![depth + 1] =
                          [cmd |-> cmd, id |-> pkt.id, num |-> pkt.num]]
            /\ UNCHANGED <<hnd, outcome>>
         \/ /\ hnd' = [hnd EXCEPT ![depth] = AfterCall(@, FALSE)]
            /\ outcome' = [n \in DOMAIN outcome \cup {pkt.num} |->
                             IF n = pkt.num THEN "refused" ELSE outcome[n]]
            /\ UNCHANGED <<depth, call, toDev>>
  BY DEF Call
<1> HIDE DEF pkt
<1>4. QED BY <1>1, <1>2, <1>3 DEF CanPut, stack

LEMMA KindsInit == Init => Kinds
BY DEF Init, Kinds

(* Every step keeps the kinds.                                              *)
LEMMA KindsStep == TypeOK /\ Kinds /\ [Next]_vars => Kinds'
<1> SUFFICES ASSUME TypeOK, Kinds, [Next]_vars PROVE Kinds'
  OBVIOUS
<1>0. /\ toHost = NoPacket \/ IsConf(toHost) \/ IsInd(toHost)
      /\ \A s \in Slots : queue[s] = NoPacket \/ IsConf(queue[s])
      /\ \A p \in work : IsReq(p)
      /\ toDev = NoPacket \/ IsReq(toDev) \/ toDev.ans
  BY DEF Kinds
<1>1. /\ buf \in Packet /\ \A l \in 0 .. MaxDepth : hnd[l].ind \in Packet
      /\ work \subseteq Packet /\ queue \in [Slots -> Packet]
      /\ depth \in 0 .. MaxDepth
  BY DEF TypeOK, HndRec
<1>2. ASSUME NEW cmd \in Cmds, Call(cmd) PROVE Kinds'
  <2>1. PICK pkt \in Packet : /\ pkt.cmd = cmd /\ ~pkt.ans
                             /\ toDev' \in {toDev, pkt}
                             /\ UNCHANGED <<toHost, queue, work>>
    BY <1>2, CallEffect
  <2>2. toDev' = NoPacket \/ IsReq(toDev') \/ toDev'.ans
    BY <1>0, <2>1 DEF IsReq
  <2>3. QED BY <1>0, <2>1, <2>2 DEF Kinds
<1>3. CASE MainCall
  BY <1>2, <1>3 DEF MainCall, Cmds
<1>4. CASE HandlerRequest
  BY <1>2, <1>4 DEF HandlerRequest, Cmds, HandlerCmds
<1>5. CASE ReceiveOwn \/ ReceiveOverrun \/ ReceiveIndication \/ PollMailbox
  <2>1. toHost' = NoPacket /\ UNCHANGED <<toDev, queue, work>>
    BY <1>5 DEF ReceiveOwn, ReceiveOverrun, ReceiveIndication, PollMailbox, stack
  <2>2. QED BY <1>0, <2>1 DEF Kinds
<1>6. CASE ReceiveForeign
  <2>1. PICK s \in Slots : queue' = [queue EXCEPT ![s] = toHost]
    BY <1>6 DEF ReceiveForeign, Enqueue
  <2>2. IsConf(toHost)
    BY <1>0, <1>6 DEF ReceiveForeign, ForeignConfirmation, NoPacket, IsInd
  <2>3. \A t \in Slots : queue'[t] = NoPacket \/ IsConf(queue'[t])
    BY <1>0, <1>1, <2>1, <2>2
  <2>4. toHost' = NoPacket /\ UNCHANGED <<toDev, work>>
    BY <1>6 DEF ReceiveForeign, stack
  <2>5. QED BY <1>0, <2>3, <2>4 DEF Kinds
<1>7. CASE ReceiveTimeout \/ RegisterIndicationHandler \/ StackStops
           \/ ReceiveError \/ PollNothing \/ UNCHANGED vars
  <2>1. UNCHANGED <<toHost, queue, toDev, work>>
    BY <1>7 DEF ReceiveTimeout, RegisterIndicationHandler, StackStops, ReceiveError,
       PollNothing, vars, host, stack
  <2>2. QED BY <1>0, <2>1 DEF Kinds
<1>8. CASE HandlerRespond \/ RejectPacket
  <2>1. UNCHANGED <<toHost, queue, work>>
    BY <1>8 DEF HandlerRespond, RejectPacket, stack
  <2>2. toDev' = toDev \/ toDev'.ans
    <3>1. Response(hnd[depth]).ans /\ [buf EXCEPT !.ans = TRUE, !.ok = FALSE].ans
      BY <1>1 DEF Response, Packet
    <3>2. QED BY <1>8, <3>1 DEF HandlerRespond, RejectPacket, Answer
  <2>3. QED BY <1>0, <2>1, <2>2 DEF Kinds
<1>9. CASE DispatchDone \/ PollQueue
  <2>1. UNCHANGED <<toHost, toDev, work>>
    BY <1>9 DEF DispatchDone, PollQueue, stack
  <2>2. \/ queue' = queue
        \/ \E s \in Slots : queue' = [queue EXCEPT ![s] = NoPacket]
    BY <1>9 DEF DispatchDone, TryDequeue, PollQueue
  <2>3. \A t \in Slots : queue'[t] = NoPacket \/ IsConf(queue'[t])
    BY <1>0, <1>1, <2>2
  <2>4. QED BY <1>0, <2>1, <2>3 DEF Kinds
<1>10. CASE StackTake
  <2>1. /\ toDev' = NoPacket /\ UNCHANGED <<toHost, queue>>
        /\ toDev # NoPacket
        /\ work' = IF toDev.ans THEN work ELSE work \cup {toDev}
    BY <1>10 DEF StackTake, host
  <2>2. \A p \in work' : IsReq(p)
    BY <1>0, <2>1
  <2>3. QED BY <1>0, <2>1, <2>2 DEF Kinds
<1>11. CASE StackConfirm
  <2>1. PICK p \in work, good \in StackResults :
          work' = work \ {p} /\ toHost' = [p EXCEPT !.ans = TRUE, !.ok = good]
    BY <1>11 DEF StackConfirm
  <2>2. IsConf(toHost')
    BY <1>0, <1>1, <2>1 DEF IsReq, IsConf, Packet
  <2>3. UNCHANGED <<toDev, queue>>
    BY <1>11 DEF StackConfirm, host
  <2>4. QED BY <1>0, <2>1, <2>2, <2>3 DEF Kinds
<1>12. CASE StackIndicate
  <2>1. IsInd(toHost')
    BY <1>12 DEF StackIndicate, IsInd
  <2>2. UNCHANGED <<toDev, queue, work>>
    BY <1>12 DEF StackIndicate, host, stack
  <2>3. QED BY <1>0, <2>1, <2>2 DEF Kinds
<1>13. QED
  BY <1>3, <1>4, <1>5, <1>6, <1>7, <1>8, <1>9, <1>10, <1>11, <1>12
     DEF Next, Host, Stack, Receive, Handler

(* Where a handler goes on after one of its requests.                       *)
LEMMA AfterCallPc ==
  ASSUME NEW h \in HndRec, NEW good \in BOOLEAN
  PROVE  LET k == AfterCall(h, good)
         IN /\ k.ind = h.ind
            /\ h.pc = "delete" => k.pc = "respond"
            /\ h.pc \in {"init", "config"} => k.pc \in {"config", "end"}
            /\ h.pc \notin {"delete", "init", "config"} => k = h
<1>1. CASE h.pc = "delete"
  BY <1>1 DEF AfterCall, HndRec, HndPc
<1>2. CASE h.pc = "init"
  BY <1>2 DEF AfterCall, HndRec, HndPc
<1>3. CASE h.pc = "config"
  BY <1>3 DEF AfterCall, HndRec, HndPc
<1>4. CASE h.pc \notin {"delete", "init", "config"}
  BY <1>4 DEF AfterCall, HndRec, HndPc
<1>5. QED BY <1>1, <1>2, <1>3, <1>4

(* A return as one step on the handlers, the calls and the outcomes.        *)
LEMMA ReturnEffect ==
  ASSUME TypeOK, depth > 0, NEW ret \in {"ok", "failed"}, NEW good \in BOOLEAN,
         Return(ret, good)
  PROVE  /\ depth' = depth - 1
         /\ call' = [call EXCEPT ![depth] = NoCall]
         /\ outcome' = [n \in DOMAIN outcome \cup {call[depth].num} |->
                          IF n = call[depth].num THEN ret ELSE outcome[n]]
         /\ \E g \in BOOLEAN :
              hnd' = [l \in 0 .. MaxDepth |->
                        IF l = depth - 1 THEN AfterCall(hnd[depth - 1], g)
                        ELSE IF l = depth THEN NoHnd ELSE hnd[l]]
<1>1. depth \in Levels /\ depth - 1 \in 0 .. MaxDepth /\ depth \in 0 .. MaxDepth
  BY DEF TypeOK
<1>2. PICK g \in BOOLEAN :
        hnd' = [hnd EXCEPT ![depth] = NoHnd, ![depth - 1] = AfterCall(@, g)]
  BY DEF Return
<1>3. hnd' = [l \in 0 .. MaxDepth |->
                IF l = depth - 1 THEN AfterCall(hnd[depth - 1], g)
                ELSE IF l = depth THEN NoHnd ELSE hnd[l]]
  BY <1>1, <1>2 DEF TypeOK
<1>4. QED BY <1>3 DEF Return

(* A level that is not the innermost, or runs nothing, does not look at the *)
(* packet buffer.                                                           *)
LEMMA LevelElsewhere ==
  ASSUME NEW dep \in Nat, NEW l \in Nat, NEW h \in HndRec, NEW b, NEW c,
         LevelOk(l, h, dep, b),
         l # dep \/ h.pc \notin {"respond", "reject"}
  PROVE  LevelOk(l, h, dep, c)
BY DEF LevelOk

(* The handlers after the return of the innermost call.                     *)
LEMMA ReturnLevels ==
  ASSUME TypeOK, HandlersOk, depth > 0, NEW ret \in {"ok", "failed"},
         NEW good \in BOOLEAN, Return(ret, good)
  PROVE  HandlersOk'
<1>1. depth \in Nat /\ depth - 1 \in 0 .. MaxDepth /\ depth' = depth - 1
  BY ReturnEffect DEF TypeOK
<1>2. PICK g \in BOOLEAN :
        hnd' = [l \in 0 .. MaxDepth |->
                  IF l = depth - 1 THEN AfterCall(hnd[depth - 1], g)
                  ELSE IF l = depth THEN NoHnd ELSE hnd[l]]
  BY ReturnEffect
<1>3. ASSUME NEW l \in 0 .. MaxDepth PROVE LevelOk(l, hnd'[l], depth', buf')
  <2>1. LevelOk(l, hnd[l], depth, buf) /\ hnd[l] \in HndRec
    BY DEF HandlersOk, TypeOK
  <2>2. CASE l = depth - 1
    <3>1. /\ hnd'[l] = AfterCall(hnd[l], g)
          /\ hnd[l].pc \in {"delete", "init", "config"} \/ hnd[l].pc = "none"
      BY <1>1, <1>2, <2>1, <2>2 DEF LevelOk
    <3>2. /\ hnd'[l].ind = hnd[l].ind
          /\ hnd[l].pc = "delete" => hnd'[l].pc = "respond"
          /\ hnd[l].pc \in {"init", "config"} => hnd'[l].pc \in {"config", "end"}
          /\ hnd[l].pc = "none" => hnd'[l].pc = "none"
      BY <2>1, <3>1, AfterCallPc
    <3>3. hnd[l].pc = "delete" => IsInd(hnd[l].ind) /\ hnd[l].ind.cmd \in Resets
      BY <2>1 DEF LevelOk
    <3>4. QED BY <1>1, <2>2, <3>1, <3>2, <3>3 DEF LevelOk
  <2>3. CASE l = depth
    <3>1. hnd'[l].pc = "none"
      BY <1>1, <1>2, <2>3 DEF NoHnd
    <3>2. QED BY <1>1, <2>3, <3>1 DEF LevelOk
  <2>4. CASE l < depth - 1
    <3>1. hnd'[l] = hnd[l] /\ l < depth
      BY <1>1, <1>2, <2>4
    <3>2. QED BY <1>1, <2>1, <2>4, <3>1 DEF LevelOk
  <2>5. CASE l > depth
    <3>1. hnd'[l] = hnd[l] /\ hnd[l].pc = "none"
      BY <1>1, <1>2, <2>1, <2>5 DEF LevelOk
    <3>2. QED BY <1>1, <2>5, <3>1 DEF LevelOk
  <2>6. QED BY <1>1, <2>2, <2>3, <2>4, <2>5
<1>4. QED BY <1>3 DEF HandlersOk

(* The handlers after a change of the innermost one only.                   *)
LEMMA InnermostLevel ==
  ASSUME TypeOK, HandlersOk, UNCHANGED depth, NEW h \in HndRec,
         hnd' = [hnd EXCEPT ![depth] = h], LevelOk(depth, h, depth, buf')
  PROVE  HandlersOk'
<1>1. ASSUME NEW l \in 0 .. MaxDepth PROVE LevelOk(l, hnd'[l], depth, buf')
  <2>1. /\ LevelOk(l, hnd[l], depth, buf) /\ hnd[l] \in HndRec
        /\ depth \in Nat /\ l \in Nat
    BY DEF HandlersOk, TypeOK
  <2>2. CASE l = depth
    BY <2>2 DEF TypeOK
  <2>3. CASE l # depth
    <3>1. hnd'[l] = hnd[l]
      BY <2>3 DEF TypeOK
    <3>2. LevelOk(l, hnd[l], depth, buf')
      BY <2>1, <2>3, LevelElsewhere
    <3>3. QED BY <3>1, <3>2
  <2>4. QED BY <2>2, <2>3
<1>2. QED BY <1>1 DEF HandlersOk

LEMMA HandlersInit == Init => HandlersOk
<1>1. ASSUME Init, NEW l \in 0 .. MaxDepth
      PROVE  hnd[l].pc = "none" /\ depth = 0
  BY <1>1 DEF Init, NoHnd
<1>2. ASSUME Init, NEW l \in 0 .. MaxDepth PROVE LevelOk(l, hnd[l], depth, buf)
  <2>1. hnd[l].pc = "none" /\ depth = 0
    BY <1>1, <1>2
  <2>2. QED BY <2>1 DEF LevelOk
<1>3. QED BY <1>2 DEF HandlersOk

(* The handlers after a request of the innermost handler or the main loop.  *)
LEMMA CallLevels ==
  ASSUME TypeOK, HandlersOk, NEW cmd \in Cmds, Call(cmd),
         \/ hnd[depth].pc \in {"delete", "init", "config"}
         \/ depth = 0 /\ hnd[depth].pc = "none"
  PROVE  HandlersOk'
<1>1. /\ depth \in 0 .. MaxDepth /\ depth \in Nat /\ hnd[depth] \in HndRec
      /\ LevelOk(depth, hnd[depth], depth, buf)
  BY DEF TypeOK, HandlersOk
<1>2. \/ depth' = depth + 1 /\ UNCHANGED hnd
      \/ hnd' = [hnd EXCEPT ![depth] = AfterCall(@, FALSE)] /\ UNCHANGED depth
  BY CallEffect
<1>3. CASE depth' = depth + 1 /\ UNCHANGED hnd
  <2>1. ASSUME NEW l \in 0 .. MaxDepth PROVE LevelOk(l, hnd'[l], depth', buf')
    <3>1. LevelOk(l, hnd[l], depth, buf)
      BY DEF HandlersOk
    <3>2. CASE l < depth
      BY <1>1, <1>3, <3>1, <3>2 DEF LevelOk
    <3>3. CASE l = depth
      BY <1>1, <1>3, <3>1, <3>3 DEF LevelOk
    <3>4. CASE l > depth
      BY <1>1, <1>3, <3>1, <3>4 DEF LevelOk
    <3>5. QED BY <1>1, <3>2, <3>3, <3>4
  <2>2. QED BY <2>1 DEF HandlersOk
<1>4. CASE hnd' = [hnd EXCEPT ![depth] = AfterCall(@, FALSE)] /\ UNCHANGED depth
  <2> DEFINE k == AfterCall(hnd[depth], FALSE)
  <2>1. /\ k \in HndRec
        /\ k.ind = hnd[depth].ind
        /\ hnd[depth].pc = "delete" => k.pc = "respond"
        /\ hnd[depth].pc \in {"init", "config"} => k.pc \in {"config", "end"}
        /\ hnd[depth].pc = "none" => k.pc = "none"
    BY <1>1, AfterCallPc, AfterCallType
  <2> HIDE DEF k
  <2>2. LevelOk(depth, k, depth, buf')
    BY <1>1, <2>1 DEF LevelOk
  <2>3. hnd' = [hnd EXCEPT ![depth] = k]
    BY <1>4 DEF k
  <2>4. QED BY <1>4, <2>1, <2>2, <2>3, InnermostLevel
<1>5. QED BY <1>2, <1>3, <1>4

(* The first state of a handler is a proper state of the innermost level.   *)
LEMMA DispatchLevel ==
  ASSUME TypeOK, HandlersOk, UNCHANGED depth, NEW p \in Packet,
         Dispatch(depth, p), buf' = p, IsInd(p) \/ IsConf(p)
  PROVE  HandlersOk'
<1> DEFINE h == [pc |-> FirstStep(p), ind |-> p, step |-> 0]
<1>1. FirstStep(p) \in {"reject", "delete", "respond"} /\ h \in HndRec
  BY DEF FirstStep, HndRec, HndPc
<1>2. /\ FirstStep(p) = "delete" => ~p.ans /\ p.cmd = "RESET_1"
      /\ FirstStep(p) = "respond" => ~p.ans
  BY DEF FirstStep
<1>3. p.ans \in BOOLEAN
  BY DEF Packet
<1>4. LevelOk(depth, h, depth, buf')
  <2>1. depth \in Nat
    BY DEF TypeOK
  <2>2. FirstStep(p) \in {"delete", "respond"} => IsInd(p)
    BY <1>2 DEF IsConf
  <2>3. QED BY <1>1, <1>2, <2>1, <2>2 DEF LevelOk, Resets
<1>5. hnd' = [hnd EXCEPT ![depth] = h]
  BY DEF Dispatch
<1>6. QED BY <1>1, <1>4, <1>5, InnermostLevel

(* Every step keeps the handlers in order.                                  *)
LEMMA HandlersStep == TypeOK /\ Kinds /\ HandlersOk /\ [Next]_vars => HandlersOk'
<1> SUFFICES ASSUME TypeOK, Kinds, HandlersOk, [Next]_vars PROVE HandlersOk'
  OBVIOUS
<1>0. /\ depth \in 0 .. MaxDepth /\ hnd[depth] \in HndRec
      /\ LevelOk(depth, hnd[depth], depth, buf)
      /\ toHost \in Packet /\ \A s \in Slots : queue[s] \in Packet
  BY DEF TypeOK, HandlersOk
<1>1. CASE MainCall
  <2>1. PICK cmd \in MainCmds : Call(cmd)
    BY <1>1 DEF MainCall
  <2>2. depth = 0 /\ hnd[depth].pc = "none"
    BY <1>1 DEF MainCall, Running
  <2>3. QED BY <2>1, <2>2, CallLevels DEF Cmds
<1>2. CASE HandlerRequest
  <2>1. PICK cmd \in HandlerCmds : Call(cmd)
    BY <1>2 DEF HandlerRequest, HandlerCmds
  <2>2. hnd[depth].pc \in {"delete", "init", "config"}
    BY <1>2 DEF HandlerRequest
  <2>3. QED BY <2>1, <2>2, CallLevels DEF Cmds
<1>3. CASE ReceiveOwn \/ ReceiveOverrun \/ ReceiveTimeout
  <2>1. PICK ret \in {"ok", "failed"}, good \in BOOLEAN : Return(ret, good)
    BY <1>0, <1>3 DEF ReceiveOwn, ReceiveOverrun, ReceiveTimeout, Packet
  <2>2. depth > 0
    BY <1>3 DEF ReceiveOwn, ReceiveOverrun, ReceiveTimeout, ForeignConfirmation, Waiting
  <2>3. QED BY <2>1, <2>2, ReturnLevels
<1>4. CASE ReceiveForeign
  <2>1. UNCHANGED <<depth, hnd>> /\ hnd[depth].pc = "none"
    BY <1>4 DEF ReceiveForeign, ForeignConfirmation, Waiting, Running
  <2>2. LevelOk(depth, hnd[depth], depth, buf')
    BY <1>0, <2>1, LevelElsewhere
  <2>3. hnd' = [hnd EXCEPT ![depth] = hnd[depth]]
    BY <1>0, <2>1 DEF TypeOK
  <2>4. QED BY <1>0, <2>1, <2>2, <2>3, InnermostLevel
<1>5. CASE ReceiveIndication \/ PollMailbox
  <2>1. Dispatch(depth, toHost) /\ buf' = toHost /\ UNCHANGED depth
    BY <1>5 DEF ReceiveIndication, PollMailbox, Idle
  <2>2. IsInd(toHost) \/ IsConf(toHost)
    BY <1>5 DEF ReceiveIndication, PollMailbox, Kinds
  <2>3. QED BY <1>0, <2>1, <2>2, DispatchLevel
<1>6. CASE PollQueue
  <2>1. PICK s \in Slots : /\ buf' = queue[s] /\ queue[s] # NoPacket
                          /\ Dispatch(0, queue[s])
    BY <1>6 DEF PollQueue
  <2>2. depth = 0 /\ UNCHANGED depth
    BY <1>6 DEF PollQueue, Idle
  <2>3. IsConf(queue[s])
    BY <2>1 DEF Kinds
  <2>4. QED BY <1>0, <2>1, <2>2, <2>3, DispatchLevel
<1>7. CASE HandlerRespond
  <2> DEFINE h == AfterResponse(hnd[depth])
  <2>1. h \in HndRec /\ h.pc \in {"init", "end"}
    BY <1>0 DEF AfterResponse, HndRec, HndPc
  <2>2. hnd' = [hnd EXCEPT ![depth] = h] /\ UNCHANGED depth
    BY <1>7 DEF HandlerRespond
  <2>3. LevelOk(depth, h, depth, buf')
    BY <1>0, <2>1 DEF LevelOk
  <2>4. QED BY <2>1, <2>2, <2>3, InnermostLevel
<1>8. CASE RejectPacket
  <2> DEFINE h == [hnd[depth] EXCEPT !.pc = "end"]
  <2>1. h \in HndRec /\ h.pc = "end"
    BY <1>0 DEF HndRec, HndPc
  <2>2. hnd' = [hnd EXCEPT ![depth] = h] /\ UNCHANGED depth
    BY <1>8 DEF RejectPacket
  <2>3. LevelOk(depth, h, depth, buf')
    BY <1>0, <2>1 DEF LevelOk
  <2>4. QED BY <2>1, <2>2, <2>3, InnermostLevel
<1>9. CASE DispatchDone
  <2>1. CASE hnd' = [hnd EXCEPT ![depth] = NoHnd] /\ UNCHANGED depth
    <3>1. NoHnd \in HndRec /\ NoHnd.pc = "none"
      BY DEF NoHnd, HndRec, HndPc, NoPacket, Packet
    <3>2. LevelOk(depth, NoHnd, depth, buf')
      BY <1>0, <3>1 DEF LevelOk
    <3>3. QED BY <2>1, <3>1, <3>2, InnermostLevel
  <2>2. CASE depth > 0 /\ \E s \in Slots : Return("ok", queue[s].ok)
    <3>1. PICK s \in Slots : Return("ok", queue[s].ok)
      BY <2>2
    <3>2. queue[s].ok \in BOOLEAN
      BY <1>0 DEF Packet
    <3>3. QED BY <2>2, <3>1, <3>2, ReturnLevels
  <2>3. QED BY <1>0, <1>9, <2>1, <2>2 DEF DispatchDone, TryDequeue
<1>10. CASE UNCHANGED <<depth, hnd, buf>>
  BY <1>10 DEF HandlersOk
<1>11. CASE Stack \/ RegisterIndicationHandler \/ ReceiveError \/ PollNothing
            \/ UNCHANGED vars
  BY <1>10, <1>11 DEF Stack, StackTake, StackConfirm, StackIndicate, StackStops,
     RegisterIndicationHandler, ReceiveError, PollNothing, vars, host
<1>12. QED
  BY <1>1, <1>2, <1>3, <1>4, <1>5, <1>6, <1>7, <1>8, <1>9, <1>11
     DEF Next, Host, Receive, Handler

----------------------------------------------------------------------------
(* Which indications are still owed an answer.                              *)

Owing(h) == h.ind.cmd \in IndCmds /\ h.pc \in {"delete", "respond", "reject"}

(* An indication that a handler owes an answer has been dispatched, no two  *)
(* handlers owe the same one, and one in the mailbox was not dispatched yet. *)
Owed ==
  /\ \A l \in 0 .. MaxDepth :
       Owing(hnd[l]) => /\ hnd[l].ind.num \in 1 .. MaxInd
                        /\ inds[hnd[l].ind.num] = "dispatched"
  /\ \A l, k \in 0 .. MaxDepth :
       Owing(hnd[l]) /\ Owing(hnd[k]) /\ l # k => hnd[l].ind.num # hnd[k].ind.num
  /\ IsInd(toHost) => inds[toHost.num] = "sent"
  /\ \A i \in 1 .. MaxInd : inds[i] = "dispatched" =>
       \E l \in 0 .. MaxDepth : Owing(hnd[l]) /\ hnd[l].ind.num = i

LEMMA OwedInit == Init => Owed
<1> SUFFICES ASSUME Init PROVE Owed
  OBVIOUS
<1>1. \A l \in 0 .. MaxDepth : hnd[l].pc = "none"
  BY DEF Init, NoHnd
<1>2. \A l \in 0 .. MaxDepth : ~Owing(hnd[l])
  BY <1>1 DEF Owing
<1>3. ~IsInd(toHost) /\ \A i \in 1 .. MaxInd : inds[i] = "idle"
  BY DEF Init, IsInd, NoPacket, IndCmds
<1>4. QED BY <1>2, <1>3 DEF Owed

(* What the handlers owe implies what AnswerOwed says.                      *)
LEMMA OwedAnswers == TypeOK /\ HandlersOk /\ Owed => AnswerOwed
<1> SUFFICES ASSUME TypeOK, HandlersOk, Owed,
                    NEW i \in 1 .. MaxInd, inds[i] = "dispatched"
             PROVE  \E l \in 0 .. depth :
                      /\ hnd[l].ind.num = i
                      /\ hnd[l].ind.cmd \in IndCmds
                      /\ hnd[l].pc \in {"delete", "respond", "reject"}
  BY DEF AnswerOwed
<1>1. PICK l \in 0 .. MaxDepth : Owing(hnd[l]) /\ hnd[l].ind.num = i
  BY DEF Owed
<1>2. LevelOk(l, hnd[l], depth, buf)
  BY DEF HandlersOk
<1>3. l \in 0 .. depth
  BY <1>1, <1>2 DEF LevelOk, Owing, TypeOK
<1>4. QED BY <1>1, <1>3 DEF Owing

(* A step that changes neither what is owed nor the indications keeps Owed. *)
LEMMA KeepOwed ==
  ASSUME TypeOK, Owed, UNCHANGED inds,
         IsInd(toHost') => toHost' = toHost,
         \A l \in 0 .. MaxDepth : /\ Owing(hnd'[l]) <=> Owing(hnd[l])
                                  /\ Owing(hnd[l]) => hnd'[l].ind = hnd[l].ind
  PROVE  Owed'
<1>1. \A l \in 0 .. MaxDepth :
        Owing(hnd'[l]) => /\ hnd'[l].ind.num \in 1 .. MaxInd
                          /\ inds'[hnd'[l].ind.num] = "dispatched"
  BY DEF Owed
<1>2. \A l, k \in 0 .. MaxDepth :
        Owing(hnd'[l]) /\ Owing(hnd'[k]) /\ l # k => hnd'[l].ind.num # hnd'[k].ind.num
  BY DEF Owed
<1>3. IsInd(toHost') => inds'[toHost'.num] = "sent"
  BY DEF Owed
<1>4. \A i \in 1 .. MaxInd : inds'[i] = "dispatched" =>
        \E l \in 0 .. MaxDepth : Owing(hnd'[l]) /\ hnd'[l].ind.num = i
  BY DEF Owed
<1>5. QED BY <1>1, <1>2, <1>3, <1>4 DEF Owed

(* A handler owes after a request what it owed before.                      *)
LEMMA AfterCallOwing ==
  ASSUME NEW h \in HndRec, NEW good \in BOOLEAN
  PROVE  /\ Owing(AfterCall(h, good)) <=> Owing(h)
         /\ AfterCall(h, good).ind = h.ind
<1> DEFINE k == AfterCall(h, good)
<1>1. /\ k.ind = h.ind
      /\ h.pc = "delete" => k.pc = "respond"
      /\ h.pc \in {"init", "config"} => k.pc \in {"config", "end"}
      /\ h.pc \notin {"delete", "init", "config"} => k = h
  BY AfterCallPc
<1> HIDE DEF k
<1>2. Owing(k) <=> Owing(h)
  <2>1. CASE h.pc = "delete"
    BY <1>1, <2>1 DEF Owing
  <2>2. CASE h.pc \in {"init", "config"}
    BY <1>1, <2>2 DEF Owing
  <2>3. CASE h.pc \notin {"delete", "init", "config"}
    BY <1>1, <2>3
  <2>4. QED BY <2>1, <2>2, <2>3
<1>3. QED BY <1>1, <1>2 DEF k

(* A return changes nothing about what is owed.                             *)
LEMMA ReturnOwed ==
  ASSUME TypeOK, HandlersOk, Owed, depth > 0, NEW ret \in {"ok", "failed"},
         NEW good \in BOOLEAN, Return(ret, good), UNCHANGED inds,
         toHost' = toHost \/ toHost' = NoPacket, ~Owing(hnd[depth])
  PROVE  Owed'
<1>1. depth \in 0 .. MaxDepth /\ depth - 1 \in 0 .. MaxDepth
      /\ \A l \in 0 .. MaxDepth : hnd[l] \in HndRec
  BY DEF TypeOK
<1>2. PICK g \in BOOLEAN :
        hnd' = [l \in 0 .. MaxDepth |->
                  IF l = depth - 1 THEN AfterCall(hnd[depth - 1], g)
                  ELSE IF l = depth THEN NoHnd ELSE hnd[l]]
  BY ReturnEffect
<1>3. ASSUME NEW l \in 0 .. MaxDepth
      PROVE  /\ Owing(hnd'[l]) <=> Owing(hnd[l])
             /\ Owing(hnd[l]) => hnd'[l].ind = hnd[l].ind
  <2>1. CASE l = depth - 1
    <3>1. hnd'[l] = AfterCall(hnd[l], g)
      BY <1>2, <2>1
    <3>2. QED BY <1>1, <3>1, AfterCallOwing
  <2>2. CASE l = depth
    <3>1. hnd'[l] = NoHnd
      BY <1>1, <1>2, <2>2
    <3>2. ~Owing(NoHnd)
      BY DEF Owing, NoHnd
    <3>3. QED BY <2>2, <3>1, <3>2
  <2>3. CASE l # depth /\ l # depth - 1
    <3>1. hnd'[l] = hnd[l]
      BY <1>2, <2>3
    <3>2. QED BY <3>1
  <2>4. QED BY <2>1, <2>2, <2>3
<1>4. IsInd(toHost') => toHost' = toHost
  BY DEF IsInd, NoPacket, IndCmds
<1>5. QED BY <1>3, <1>4, KeepOwed

(* A change of the innermost handler that does not change what it owes.     *)
LEMMA InnermostOwed ==
  ASSUME TypeOK, Owed, UNCHANGED inds, toHost' = toHost \/ toHost' = NoPacket,
         NEW h, hnd' = [hnd EXCEPT ![depth] = h],
         Owing(h) <=> Owing(hnd[depth]),
         Owing(h) => h.ind = hnd[depth].ind
  PROVE  Owed'
<1>1. ASSUME NEW l \in 0 .. MaxDepth
      PROVE  /\ Owing(hnd'[l]) <=> Owing(hnd[l])
             /\ Owing(hnd[l]) => hnd'[l].ind = hnd[l].ind
  <2>1. CASE l = depth
    <3>1. hnd'[l] = h
      BY <2>1 DEF TypeOK
    <3>2. QED BY <2>1, <3>1
  <2>2. CASE l # depth
    <3>1. hnd'[l] = hnd[l]
      BY <2>2 DEF TypeOK
    <3>2. QED BY <3>1
  <2>3. QED BY <2>1, <2>2
<1>2. IsInd(toHost') => toHost' = toHost
  BY DEF IsInd, NoPacket, IndCmds
<1>3. QED BY <1>1, <1>2, KeepOwed

(* An indication taken out of the mailbox is owed by the innermost level.   *)
LEMMA DispatchOwed ==
  ASSUME TypeOK, Owed, ~Owing(hnd[depth]), IsInd(toHost),
         Dispatch(depth, toHost), toHost' = NoPacket,
         inds' = [inds EXCEPT ![toHost.num] = "dispatched"]
  PROVE  Owed'
<1> DEFINE h == [pc |-> FirstStep(toHost), ind |-> toHost, step |-> 0]
<1>1. Owing(h) /\ h.ind = toHost
  BY DEF Owing, IsInd, FirstStep
<1> HIDE DEF h
<1>2. /\ hnd' = [hnd EXCEPT ![depth] = h]
      /\ depth \in 0 .. MaxDepth /\ toHost.num \in 1 .. MaxInd
      /\ inds[toHost.num] = "sent"
      /\ DOMAIN hnd = 0 .. MaxDepth /\ DOMAIN inds = 1 .. MaxInd
  BY DEF Dispatch, TypeOK, IsInd, Owed, h
<1>3. \A l \in 0 .. MaxDepth :
        \/ l = depth /\ hnd'[l] = h
        \/ l # depth /\ hnd'[l] = hnd[l]
  BY <1>2
<1>4. \A l \in 0 .. MaxDepth : Owing(hnd[l]) =>
        /\ hnd[l].ind.num # toHost.num
        /\ hnd[l].ind.num \in 1 .. MaxInd
        /\ inds[hnd[l].ind.num] = "dispatched"
        /\ hnd'[l] = hnd[l]
  BY <1>2, <1>3 DEF Owed
<1>5. \A l \in 0 .. MaxDepth :
        Owing(hnd'[l]) => /\ hnd'[l].ind.num \in 1 .. MaxInd
                          /\ inds'[hnd'[l].ind.num] = "dispatched"
  BY <1>1, <1>2, <1>3, <1>4
<1>6. \A l, k \in 0 .. MaxDepth :
        Owing(hnd'[l]) /\ Owing(hnd'[k]) /\ l # k => hnd'[l].ind.num # hnd'[k].ind.num
  BY <1>1, <1>3, <1>4 DEF Owed
<1>7. ~IsInd(toHost')
  BY DEF IsInd, NoPacket, IndCmds
<1>8. \A i \in 1 .. MaxInd : inds'[i] = "dispatched" =>
        \E l \in 0 .. MaxDepth : Owing(hnd'[l]) /\ hnd'[l].ind.num = i
  <2>1. ASSUME NEW i \in 1 .. MaxInd, inds'[i] = "dispatched"
        PROVE  \E l \in 0 .. MaxDepth : Owing(hnd'[l]) /\ hnd'[l].ind.num = i
    <3>1. CASE i = toHost.num
      BY <1>1, <1>2, <1>3, <3>1
    <3>2. CASE i # toHost.num
      <4>1. inds[i] = "dispatched"
        BY <1>2, <2>1, <3>2
      <4>2. PICK l \in 0 .. MaxDepth : Owing(hnd[l]) /\ hnd[l].ind.num = i
        BY <4>1 DEF Owed
      <4>3. QED BY <1>4, <4>2
    <3>3. QED BY <3>1, <3>2
  <2>2. QED BY <2>1
<1>9. QED BY <1>5, <1>6, <1>7, <1>8 DEF Owed

(* The innermost handler answers, or its answer is lost: it owes no longer. *)
(* Whatever is sent for an indication answers one that was dispatched.      *)
LEMMA AnswerPays ==
  ASSUME TypeOK, HandlersOk, Owed, hnd[depth].pc \in {"respond", "reject"},
         NEW p, p.cmd = hnd[depth].ind.cmd, p.num = hnd[depth].ind.num,
         Answer(p, hnd[depth].ind), UNCHANGED toHost,
         NEW h, hnd' = [hnd EXCEPT ![depth] = h], ~Owing(h)
  PROVE  /\ Owed'
         /\ toDev' # toDev /\ toDev'.cmd \in IndCmds
              => toDev' = p /\ inds[p.num] = "dispatched"
<1> DEFINE i == hnd[depth].ind.num
<1>1. /\ depth \in 0 .. MaxDepth
      /\ DOMAIN hnd = 0 .. MaxDepth /\ DOMAIN inds = 1 .. MaxInd
      /\ hnd[depth].ind.cmd \in IndCmds <=> Owing(hnd[depth])
  BY DEF TypeOK, Owing
<1>2. \A l \in 0 .. MaxDepth :
        \/ l = depth /\ hnd'[l] = h
        \/ l # depth /\ hnd'[l] = hnd[l]
  BY <1>1
<1>3. toDev' = p \/ toDev' = toDev
  BY DEF Answer
<1>4. CASE Owing(hnd[depth])
  <2>1. i \in 1 .. MaxInd /\ inds[i] = "dispatched"
    BY <1>1, <1>4 DEF Owed
  <2>2. PICK x \in {"answered", "dropped"} : inds' = [inds EXCEPT ![i] = x]
    BY <1>1, <1>4 DEF Answer
  <2>3. \A l \in 0 .. MaxDepth : l # depth /\ Owing(hnd[l]) =>
          /\ hnd[l].ind.num # i
          /\ hnd[l].ind.num \in 1 .. MaxInd
          /\ inds[hnd[l].ind.num] = "dispatched"
    BY <1>1, <1>4 DEF Owed
  <2>4. \A l \in 0 .. MaxDepth :
          Owing(hnd'[l]) => /\ hnd'[l].ind.num \in 1 .. MaxInd
                            /\ inds'[hnd'[l].ind.num] = "dispatched"
    BY <1>1, <1>2, <2>2, <2>3
  <2>5. \A l, k \in 0 .. MaxDepth :
          Owing(hnd'[l]) /\ Owing(hnd'[k]) /\ l # k
            => hnd'[l].ind.num # hnd'[k].ind.num
    BY <1>2 DEF Owed
  <2>6. IsInd(toHost') => inds'[toHost'.num] = "sent"
    BY <1>1, <2>1, <2>2 DEF Owed, IsInd
  <2>7. ASSUME NEW j \in 1 .. MaxInd, inds'[j] = "dispatched"
        PROVE  \E l \in 0 .. MaxDepth : Owing(hnd'[l]) /\ hnd'[l].ind.num = j
    <3>1. j # i /\ inds[j] = "dispatched"
      BY <1>1, <2>1, <2>2, <2>7
    <3>2. PICK l \in 0 .. MaxDepth : Owing(hnd[l]) /\ hnd[l].ind.num = j
      BY <3>1 DEF Owed
    <3>3. QED BY <1>2, <3>1, <3>2
  <2>8. QED BY <1>3, <2>1, <2>4, <2>5, <2>6, <2>7 DEF Owed
<1>5. CASE ~Owing(hnd[depth])
  <2>1. UNCHANGED inds
    BY <1>1, <1>5 DEF Answer
  <2>2. Owed'
    BY <1>5, <2>1, InnermostOwed
  <2>3. QED BY <1>1, <1>3, <1>5, <2>2
<1>6. QED BY <1>4, <1>5

(* What is put into the send mailbox for an indication, as a state relation. *)
AnswersOne ==
  toDev' # toDev /\ toDev'.cmd \in IndCmds
    => toDev'.ans /\ inds[toDev'.num] = "dispatched"

(* Every step keeps what is owed, and answers only dispatched indications.  *)
LEMMA OwedStep ==
  TypeOK /\ Kinds /\ HandlersOk /\ Owed /\ [Next]_vars => Owed' /\ AnswersOne
<1> SUFFICES ASSUME TypeOK, Kinds, HandlersOk, Owed, [Next]_vars
             PROVE  Owed' /\ AnswersOne
  OBVIOUS
<1>0. /\ depth \in 0 .. MaxDepth /\ hnd[depth] \in HndRec
      /\ LevelOk(depth, hnd[depth], depth, buf)
      /\ toHost \in Packet /\ \A s \in Slots : queue[s] \in Packet
  BY DEF TypeOK, HandlersOk
<1>a. /\ Cmds \cap IndCmds = {}
      /\ "none" \notin IndCmds
      /\ NoPacket.cmd = "none"
      /\ \A p : IsConf(p) => ~IsInd(p)
  BY DEF Cmds, HandlerCmds, IndCmds, NoPacket, IsConf, IsInd
<1>b. UNCHANGED toDev => AnswersOne
  BY DEF AnswersOne
<1>c. hnd[depth].pc \notin {"delete", "respond", "reject"} => ~Owing(hnd[depth])
  BY DEF Owing
<1>1. ASSUME NEW cmd \in Cmds, Call(cmd) PROVE Owed' /\ AnswersOne
  <2>1. PICK pkt \in Packet :
          /\ pkt.cmd = cmd
          /\ UNCHANGED <<toHost, inds>>
          /\ \/ toDev' = pkt /\ UNCHANGED hnd
             \/ hnd' = [hnd EXCEPT ![depth] = AfterCall(@, FALSE)] /\ UNCHANGED toDev
    BY <1>1, CallEffect
  <2>2. AnswersOne
    BY <1>a, <2>1 DEF AnswersOne
  <2>3. CASE UNCHANGED hnd
    <3>1. Owed'
      BY <2>1, <2>3, KeepOwed
    <3>2. QED BY <2>2, <3>1
  <2>4. CASE hnd' = [hnd EXCEPT ![depth] = AfterCall(@, FALSE)]
    <3>1. /\ Owing(AfterCall(hnd[depth], FALSE)) <=> Owing(hnd[depth])
          /\ AfterCall(hnd[depth], FALSE).ind = hnd[depth].ind
      BY <1>0, AfterCallOwing
    <3>2. Owed'
      BY <2>1, <2>4, <3>1, InnermostOwed
    <3>3. QED BY <2>2, <3>2
  <2>5. QED BY <2>1, <2>2, <2>3, <2>4
<1>2. CASE MainCall
  BY <1>1, <1>2 DEF MainCall, Cmds
<1>3. CASE HandlerRequest
  BY <1>1, <1>3 DEF HandlerRequest, Cmds, HandlerCmds
<1>4. CASE ReceiveOwn \/ ReceiveOverrun \/ ReceiveTimeout
  <2>1. PICK ret \in {"ok", "failed"}, good \in BOOLEAN : Return(ret, good)
    BY <1>0, <1>4 DEF ReceiveOwn, ReceiveOverrun, ReceiveTimeout, Packet
  <2>2. /\ depth > 0 /\ hnd[depth].pc = "none"
        /\ UNCHANGED <<toDev, inds>>
        /\ toHost' = toHost \/ toHost' = NoPacket
    BY <1>4 DEF ReceiveOwn, ReceiveOverrun, ReceiveTimeout, ForeignConfirmation,
       Waiting, Running
  <2>3. Owed'
    BY <1>c, <2>1, <2>2, ReturnOwed
  <2>4. QED BY <1>b, <2>2, <2>3
<1>5. CASE ReceiveForeign
  <2>1. toHost' = NoPacket /\ UNCHANGED <<hnd, inds, toDev>>
    BY <1>5 DEF ReceiveForeign
  <2>2. ~IsInd(toHost')
    BY <1>a, <2>1 DEF IsInd
  <2>3. Owed'
    BY <2>1, <2>2, KeepOwed
  <2>4. QED BY <1>b, <2>1, <2>3
<1>6. CASE ReceiveIndication \/ (PollMailbox /\ ~toHost.ans)
  <2>1. /\ Dispatch(depth, toHost) /\ toHost' = NoPacket /\ UNCHANGED toDev
        /\ hnd[depth].pc = "none" /\ toHost # NoPacket /\ ~toHost.ans
        /\ inds' = [inds EXCEPT ![toHost.num] = "dispatched"]
    BY <1>6 DEF ReceiveIndication, PollMailbox, Idle, Waiting, Running
  <2>2. IsInd(toHost)
    BY <2>1 DEF Kinds, IsConf
  <2>3. Owed'
    BY <1>c, <2>1, <2>2, DispatchOwed
  <2>4. QED BY <1>b, <2>1, <2>3
<1>7. ASSUME NEW p \in Packet, IsConf(p), Dispatch(depth, p), UNCHANGED inds,
             UNCHANGED toDev, toHost' = toHost \/ toHost' = NoPacket,
             hnd[depth].pc = "none"
      PROVE  Owed' /\ AnswersOne
  <2> DEFINE h == [pc |-> FirstStep(p), ind |-> p, step |-> 0]
  <2>1. ~Owing(h) /\ hnd' = [hnd EXCEPT ![depth] = h]
    BY <1>7, <1>a DEF Owing, IsConf, Dispatch
  <2> HIDE DEF h
  <2>2. Owed'
    BY <1>7, <1>c, <2>1, InnermostOwed
  <2>3. QED BY <1>7, <1>b, <2>2
<1>8. CASE PollMailbox /\ toHost.ans
  <2>1. /\ Dispatch(depth, toHost) /\ toHost' = NoPacket /\ UNCHANGED <<toDev, inds>>
        /\ hnd[depth].pc = "none" /\ toHost # NoPacket
    BY <1>8 DEF PollMailbox, Idle, Running
  <2>2. IsConf(toHost)
    BY <1>8, <2>1 DEF Kinds, IsInd
  <2>3. QED BY <1>0, <1>7, <2>1, <2>2
<1>9. CASE PollQueue
  <2>1. PICK s \in Slots : Dispatch(0, queue[s]) /\ queue[s] # NoPacket
    BY <1>9 DEF PollQueue
  <2>2. depth = 0 /\ hnd[depth].pc = "none" /\ UNCHANGED <<toDev, toHost, inds>>
    BY <1>9 DEF PollQueue, Idle, Running
  <2>3. IsConf(queue[s])
    BY <2>1 DEF Kinds
  <2>4. QED BY <1>0, <1>7, <2>1, <2>2, <2>3
<1>10. CASE HandlerRespond
  <2> DEFINE p == Response(hnd[depth])
             h == AfterResponse(hnd[depth])
  <2>1. hnd[depth].ind \in Packet /\ buf \in Packet
    BY <1>0 DEF TypeOK, HndRec
  <2>2. /\ Answer(p, hnd[depth].ind) /\ hnd' = [hnd EXCEPT ![depth] = h]
        /\ UNCHANGED toHost /\ hnd[depth].pc = "respond"
    BY <1>10 DEF HandlerRespond
  <2>3. /\ p.cmd = hnd[depth].ind.cmd /\ p.num = hnd[depth].ind.num
        /\ p.ans
    <3>1. hnd[depth].ind.cmd \notin Resets => buf = hnd[depth].ind
      BY <1>0, <2>2 DEF LevelOk
    <3>2. QED BY <2>1, <3>1 DEF Response, Packet, Resets
  <2>4. ~Owing(h)
    BY <1>0 DEF AfterResponse, HndRec, Owing
  <2> HIDE DEF p, h
  <2>5. /\ Owed'
        /\ toDev' # toDev /\ toDev'.cmd \in IndCmds
             => toDev' = p /\ inds[p.num] = "dispatched"
    BY <2>2, <2>3, <2>4, AnswerPays
  <2>6. QED BY <2>3, <2>5 DEF AnswersOne
<1>11. CASE RejectPacket
  <2> DEFINE p == [buf EXCEPT !.ans = TRUE, !.ok = FALSE]
             h == [hnd[depth] EXCEPT !.pc = "end"]
  <2>1. hnd[depth].ind \in Packet /\ buf \in Packet
    BY <1>0 DEF TypeOK, HndRec
  <2>2. /\ Answer(p, hnd[depth].ind) /\ hnd' = [hnd EXCEPT ![depth] = h]
        /\ UNCHANGED toHost /\ hnd[depth].pc = "reject"
    BY <1>11 DEF RejectPacket
  <2>3. /\ p.cmd = hnd[depth].ind.cmd /\ p.num = hnd[depth].ind.num
        /\ p.ans
    <3>1. buf = hnd[depth].ind
      BY <1>0, <2>2 DEF LevelOk
    <3>2. QED BY <2>1, <3>1 DEF Packet
  <2>4. ~Owing(h)
    BY <1>0 DEF HndRec, Owing
  <2> HIDE DEF p, h
  <2>5. /\ Owed'
        /\ toDev' # toDev /\ toDev'.cmd \in IndCmds
             => toDev' = p /\ inds[p.num] = "dispatched"
    BY <2>2, <2>3, <2>4, AnswerPays
  <2>6. QED BY <2>3, <2>5 DEF AnswersOne
<1>12. CASE DispatchDone
  <2>1. UNCHANGED <<toDev, toHost, inds>> /\ hnd[depth].pc = "end"
    BY <1>12 DEF DispatchDone
  <2>2. CASE hnd' = [hnd EXCEPT ![depth] = NoHnd]
    <3>1. ~Owing(NoHnd)
      BY DEF Owing, NoHnd
    <3>2. Owed'
      BY <1>c, <2>1, <2>2, <3>1, InnermostOwed
    <3>3. QED BY <1>b, <2>1, <3>2
  <2>3. CASE depth > 0 /\ \E s \in Slots : Return("ok", queue[s].ok)
    <3>1. PICK s \in Slots : Return("ok", queue[s].ok)
      BY <2>3
    <3>2. queue[s].ok \in BOOLEAN
      BY <1>0 DEF Packet
    <3>3. Owed'
      BY <1>c, <2>1, <2>3, <3>1, <3>2, ReturnOwed
    <3>4. QED BY <1>b, <2>1, <3>3
  <2>4. QED BY <1>0, <1>12, <2>2, <2>3 DEF DispatchDone, TryDequeue
<1>13. CASE RegisterIndicationHandler \/ StackStops \/ ReceiveError \/ PollNothing
            \/ UNCHANGED vars
  <2>1. UNCHANGED <<hnd, inds, toDev, toHost>>
    BY <1>13 DEF RegisterIndicationHandler, StackStops, ReceiveError, PollNothing,
       vars, host, stack
  <2>2. Owed'
    BY <2>1, KeepOwed
  <2>3. QED BY <1>b, <2>1, <2>2
<1>14. CASE StackTake
  <2>1. UNCHANGED <<hnd, inds, toHost>> /\ toDev' = NoPacket
    BY <1>14 DEF StackTake, host
  <2>2. Owed'
    BY <2>1, KeepOwed
  <2>3. AnswersOne
    BY <1>a, <2>1 DEF AnswersOne
  <2>4. QED BY <2>2, <2>3
<1>15. CASE StackConfirm
  <2>1. PICK p \in work, good \in StackResults :
          toHost' = [p EXCEPT !.ans = TRUE, !.ok = good]
    BY <1>15 DEF StackConfirm
  <2>2. ~IsInd(toHost')
    BY <1>a, <2>1 DEF TypeOK, Packet, Kinds, IsReq, IsInd
  <2>3. UNCHANGED <<hnd, inds, toDev>>
    BY <1>15 DEF StackConfirm, host
  <2>4. Owed'
    BY <2>2, <2>3, KeepOwed
  <2>5. QED BY <1>b, <2>3, <2>4
<1>16. CASE StackIndicate
  <2>1. PICK i \in 1 .. MaxInd, cmd \in StackInds :
          /\ inds[i] = "idle"
          /\ inds' = [inds EXCEPT ![i] = "sent"]
          /\ toHost' = [cmd |-> cmd, ans |-> FALSE, id |-> 0, ok |-> TRUE,
                        num |-> i]
    BY <1>16 DEF StackIndicate
  <2>2. UNCHANGED <<hnd, toDev>> /\ DOMAIN inds = 1 .. MaxInd
    BY <1>16 DEF StackIndicate, host, TypeOK
  <2>3. \A l \in 0 .. MaxDepth : Owing(hnd'[l]) =>
          hnd'[l].ind.num \in 1 .. MaxInd /\ inds'[hnd'[l].ind.num] = "dispatched"
    BY <2>1, <2>2 DEF Owed
  <2>4. \A l, k \in 0 .. MaxDepth :
          Owing(hnd'[l]) /\ Owing(hnd'[k]) /\ l # k
            => hnd'[l].ind.num # hnd'[k].ind.num
    BY <2>2 DEF Owed
  <2>5. IsInd(toHost') => inds'[toHost'.num] = "sent"
    BY <2>1, <2>2
  <2>6. \A j \in 1 .. MaxInd : inds'[j] = "dispatched" =>
          \E l \in 0 .. MaxDepth : Owing(hnd'[l]) /\ hnd'[l].ind.num = j
    BY <2>1, <2>2 DEF Owed
  <2>7. Owed'
    BY <2>3, <2>4, <2>5, <2>6 DEF Owed
  <2>8. QED BY <1>b, <2>2, <2>7
<1>17. QED
  BY <1>2, <1>3, <1>4, <1>5, <1>6, <1>8, <1>9, <1>10, <1>11, <1>12, <1>13, <1>14,
     <1>15, <1>16
     DEF Next, Host, Stack, Receive, Handler

(* Every indication taken from the mailbox is answered, its answer was lost *)
(* in a full mailbox, or a handler on the call stack still owes it, however *)
(* AppEIS_HandleResetInd nests and overwrites the shared packet buffer.     *)
THEOREM IndicationsAreOwed == Spec => []AnswerOwed
<1> DEFINE Inv == TypeOK /\ Kinds /\ HandlersOk /\ Owed
<1>1. Init => Inv
  BY TypeInit, KindsInit, HandlersInit, OwedInit
<1>2. Inv /\ [Next]_vars => Inv'
  BY TypeStep, KindsStep, HandlersStep, OwedStep
<1>3. Inv => AnswerOwed
  BY OwedAnswers
<1>4. QED BY <1>1, <1>2, <1>3, PTL DEF Spec

(* No step puts a packet for an indication into the send mailbox unless it  *)
(* is the answer to one that was dispatched and not answered before.        *)
THEOREM AnswersAreDispatched == Spec => AnswersDispatched
<1> DEFINE Inv == TypeOK /\ Kinds /\ HandlersOk /\ Owed
<1>1. Init => Inv
  BY TypeInit, KindsInit, HandlersInit, OwedInit
<1>2. Inv /\ [Next]_vars => Inv'
  BY TypeStep, KindsStep, HandlersStep, OwedStep
<1>3. Inv /\ [Next]_vars => [AnswersOne]_vars
  BY OwedStep
<1>4. Spec => []Inv
  BY <1>1, <1>2, PTL DEF Spec
<1>5. Spec => [][AnswersOne]_vars
  BY <1>3, <1>4, PTL DEF Spec
<1>6. QED BY <1>5 DEF AnswersDispatched, AnswersOne

----------------------------------------------------------------------------
(* The steps as the calls see them, when no command carries a sequence flag *)
(* and a matching confirmation is therefore the call's own.                 *)

(* Where confirmations are: the receive mailbox and the queue.              *)
Places   == 0 .. QueueDepth
Place(k) == IF k = 0 THEN toHost ELSE queue[k]

Outcome(n, ret) ==
  outcome' = [m \in DOMAIN outcome \cup {n} |-> IF m = n THEN ret ELSE outcome[m]]

Sent ==
  /\ calls' = calls + 1
  /\ depth < MaxDepth /\ depth' = depth + 1
  /\ IsReq(toDev') /\ toDev'.num = calls + 1
  /\ \E c \in CallRec : c.num = calls + 1 /\ call' = [call EXCEPT ![depth + 1] = c]
  /\ UNCHANGED <<outcome, confirmed, work, toHost, queue>>

Refused ==
  /\ calls' = calls + 1
  /\ Outcome(calls + 1, "refused")
  /\ UNCHANGED <<depth, call, confirmed, work, toDev, toHost, queue>>

Returned(ret) ==
  /\ depth > 0 /\ depth' = depth - 1
  /\ call' = [call EXCEPT ![depth] = NoCall]
  /\ Outcome(call[depth].num, ret)
  /\ UNCHANGED <<calls, confirmed, work, toDev>>

Succeeded ==
  /\ Returned("ok")
  /\ \E k \in Places :
       /\ IsConf(Place(k)) /\ Place(k).num = call[depth].num
       /\ Place(k)' = NoPacket
       /\ \A m \in Places \ {k} : Place(m)' = Place(m)

Failed == Returned("failed") /\ toHost' \in {toHost, NoPacket} /\ UNCHANGED queue

Queued ==
  /\ IsConf(toHost) /\ toHost' = NoPacket
  /\ \E s \in Slots : queue[s] = NoPacket /\ queue' = [queue EXCEPT ![s] = toHost]
  /\ UNCHANGED <<calls, depth, call, outcome, confirmed, work, toDev>>

Executed ==
  /\ \E p \in work : /\ work' = work \ {p}
                     /\ IsConf(toHost') /\ toHost'.num = p.num
                     /\ confirmed' = confirmed \cup {p.num}
  /\ UNCHANGED <<calls, depth, call, outcome, toDev, queue>>

Taken ==
  /\ IsReq(toDev) /\ toDev' = NoPacket
  /\ work' = work \cup {toDev}
  /\ UNCHANGED <<calls, depth, call, outcome, confirmed, toHost, queue>>

Quiet ==
  /\ UNCHANGED <<calls, depth, call, outcome, confirmed, work>>
  /\ IsReq(toDev') => toDev' = toDev
  /\ IsConf(toHost') => toHost' = toHost
  /\ \A s \in Slots : queue'[s] \in {queue[s], NoPacket}
  /\ Idle \/ UNCHANGED queue

(* A confirmation that matches a call is the call's own, and the call's own *)
(* confirmation matches.                                                    *)
LEMMA MatchIsOwn ==
  ASSUME SeqCmds = {}, TypeOK, IdInv, NEW p \in InFlight, NEW d \in 1 .. depth,
         p.ans
  PROVE  /\ Matches(p, call[d]) => IsConf(p) /\ p.num = call[d].num
         /\ IsConf(p) /\ p.num = call[d].num => Matches(p, call[d])
<1>1. p \in Held
  BY DEF Held
<1>2. p.cmd = call[d].cmd /\ p.id = call[d].id => p.num = call[d].num
  BY <1>1 DEF IdInv, Own
<1>3. p.cmd \in Cmds /\ p.num = call[d].num
        => p.cmd = call[d].cmd /\ p.id = call[d].id
  BY <1>1 DEF IdInv
<1>4. call[d].cmd \in Cmds
  BY DEF IdInv
<1>5. QED BY <1>2, <1>3, <1>4 DEF Matches, IsConf

(* Every step is one of these.                                              *)
LEMMA Effects ==
  ASSUME SeqCmds = {}, TypeOK, Kinds, IdInv, [Next]_vars
  PROVE  Sent \/ Refused \/ Succeeded \/ Failed \/ Queued \/ Executed \/ Taken
           \/ Quiet
<1>0. /\ depth \in 0 .. MaxDepth /\ toHost \in Packet
      /\ queue \in [Slots -> Packet] /\ work \subseteq Packet
      /\ buf \in Packet /\ hnd[depth].ind \in Packet
      /\ Places = {0} \cup Slots /\ 0 \notin Slots
  BY DEF TypeOK, HndRec, Places
<1>a. ~IsConf(NoPacket) /\ ~IsReq(NoPacket)
  BY DEF IsConf, IsReq, NoPacket, Cmds, HandlerCmds
<1>1. ASSUME NEW cmd \in Cmds, Call(cmd) PROVE Sent \/ Refused
  <2>1. PICK pkt \in Packet :
           /\ pkt.cmd = cmd /\ ~pkt.ans /\ pkt.num = calls + 1
           /\ calls' = calls + 1
           /\ UNCHANGED <<queue, toHost, work, confirmed>>
           /\ \/ /\ toDev' = pkt
                 /\ depth < MaxDepth /\ depth' = depth + 1
                 /\ call' = [call EXCEPT ![depth + 1] =
                               [cmd |-> cmd, id |-> pkt.id, num |-> pkt.num]]
                 /\ UNCHANGED outcome
              \/ /\ outcome' = [n \in DOMAIN outcome \cup {calls + 1} |->
                                  IF n = calls + 1 THEN "refused" ELSE outcome[n]]
                 /\ UNCHANGED <<depth, call, toDev>>
    BY <1>1, CallEffect
  <2>2. /\ [cmd |-> cmd, id |-> pkt.id, num |-> pkt.num] \in CallRec
        /\ IsReq(pkt)
    BY <2>1 DEF Packet, CallRec, IsReq, Cmds
  <2>3. CASE toDev' = pkt /\ depth < MaxDepth /\ depth' = depth + 1
             /\ call' = [call EXCEPT ![depth + 1] =
                           [cmd |-> cmd, id |-> pkt.id, num |-> pkt.num]]
             /\ UNCHANGED outcome
    <3> DEFINE c == [cmd |-> cmd, id |-> pkt.id, num |-> pkt.num]
    <3>1. c \in CallRec /\ c.num = calls + 1 /\ call' = [call EXCEPT ![depth + 1] = c]
      BY <2>1, <2>2, <2>3
    <3> HIDE DEF c
    <3>2. \E r \in CallRec :
            r.num = calls + 1 /\ call' = [call EXCEPT ![depth + 1] = r]
      BY <3>1
    <3>3. IsReq(toDev') /\ toDev'.num = calls + 1
      BY <2>1, <2>2, <2>3 DEF IsReq
    <3>4. QED BY <2>1, <2>3, <3>2, <3>3 DEF Sent
  <2>4. CASE outcome' = [n \in DOMAIN outcome \cup {calls + 1} |->
                           IF n = calls + 1 THEN "refused" ELSE outcome[n]]
             /\ UNCHANGED <<depth, call, toDev>>
    BY <2>1, <2>4 DEF Refused, Outcome
  <2>5. QED BY <2>1, <2>3, <2>4
<1>2. CASE MainCall
  BY <1>1, <1>2 DEF MainCall, Cmds
<1>3. CASE HandlerRequest
  BY <1>1, <1>3 DEF HandlerRequest, Cmds, HandlerCmds
<1>4. ASSUME depth > 0, NEW ret \in {"ok", "failed"}, NEW good \in BOOLEAN,
             Return(ret, good), UNCHANGED <<calls, toDev, stack>>
      PROVE  Returned(ret)
  BY <1>4, ReturnEffect DEF Returned, Outcome, stack
<1>5. CASE ReceiveOwn
  <2>1. /\ depth > 0 /\ Return("ok", toHost.ok) /\ toHost.ok \in BOOLEAN
        /\ UNCHANGED <<calls, toDev, stack, queue>> /\ toHost' = NoPacket
        /\ Matches(toHost, call[depth])
    BY <1>0, <1>5 DEF ReceiveOwn, Waiting, Packet
  <2>2. Returned("ok")
    BY <1>4, <2>1
  <2>3. IsConf(toHost) /\ toHost.num = call[depth].num
    BY <1>0, <2>1, MatchIsOwn DEF Matches, InFlight
  <2>4. /\ IsConf(Place(0)) /\ Place(0).num = call[depth].num
        /\ Place(0)' = NoPacket
        /\ \A m \in Places \ {0} : Place(m)' = Place(m)
    BY <2>1, <2>3 DEF Place
  <2>5. QED BY <1>0, <2>2, <2>4 DEF Succeeded
<1>6. CASE ReceiveForeign
  <2>1. toHost.ans /\ toHost # NoPacket
    BY <1>6 DEF ReceiveForeign, ForeignConfirmation, NoPacket
  <2>2. IsConf(toHost)
    BY <2>1 DEF Kinds, IsInd
  <2>3. \E s \in Slots : queue[s] = NoPacket /\ queue' = [queue EXCEPT ![s] = toHost]
    BY <1>6 DEF ReceiveForeign, Enqueue
  <2>4. /\ toHost' = NoPacket
        /\ UNCHANGED <<calls, depth, call, outcome, confirmed, work, toDev>>
    BY <1>6 DEF ReceiveForeign, stack
  <2>5. QED BY <2>2, <2>3, <2>4 DEF Queued
<1>7. CASE ReceiveOverrun \/ ReceiveTimeout
  <2>1. /\ depth > 0 /\ Return("failed", FALSE)
        /\ UNCHANGED <<calls, toDev, stack, queue>> /\ toHost' \in {toHost, NoPacket}
    BY <1>7 DEF ReceiveOverrun, ReceiveTimeout, ForeignConfirmation, Waiting
  <2>2. Returned("failed")
    BY <1>4, <2>1
  <2>3. QED BY <2>1, <2>2 DEF Failed
<1>8. CASE DispatchDone
  <2>1. CASE depth > 0 /\ \E s \in Slots : Matches(queue[s], call[depth])
    <3>1. PICK s \in Slots : /\ Matches(queue[s], call[depth])
                            /\ queue' = [queue EXCEPT ![s] = NoPacket]
                            /\ Return("ok", queue[s].ok)
      BY <1>8, <2>1 DEF DispatchDone, TryDequeue
    <3>2. queue[s].ok \in BOOLEAN /\ UNCHANGED <<calls, toDev, toHost, stack>>
      BY <1>0, <1>8 DEF Packet, DispatchDone
    <3>3. Returned("ok")
      BY <1>4, <2>1, <3>1, <3>2
    <3>4. IsConf(queue[s]) /\ queue[s].num = call[depth].num
      BY <1>0, <2>1, <3>1, MatchIsOwn DEF Matches, InFlight
    <3>5. /\ IsConf(Place(s)) /\ Place(s).num = call[depth].num
          /\ Place(s)' = NoPacket
          /\ \A m \in Places \ {s} : Place(m)' = Place(m)
      BY <1>0, <3>1, <3>2, <3>4 DEF Place
    <3>6. QED BY <1>0, <3>3, <3>5 DEF Succeeded
  <2>2. CASE ~(depth > 0 /\ \E s \in Slots : Matches(queue[s], call[depth]))
    <3>1. UNCHANGED <<queue, depth, call, outcome>>
      BY <1>0, <1>8, <2>2 DEF DispatchDone, TryDequeue
    <3>2. UNCHANGED <<calls, confirmed, work, toDev, toHost>>
      BY <1>8 DEF DispatchDone, stack
    <3>3. QED BY <1>0, <3>1, <3>2 DEF Quiet
  <2>3. QED BY <2>1, <2>2
<1>9. CASE UNCHANGED <<calls, depth, call, outcome, confirmed, work, toDev, queue>>
           /\ (toHost' = toHost \/ ~IsConf(toHost'))
  BY <1>0, <1>9 DEF Quiet
<1>10. CASE ReceiveIndication \/ PollMailbox
  BY <1>a, <1>9, <1>10 DEF ReceiveIndication, PollMailbox, stack
<1>11. CASE PollQueue
  <2>1. PICK s \in Slots : queue' = [queue EXCEPT ![s] = NoPacket]
    BY <1>11 DEF PollQueue
  <2>2. /\ UNCHANGED <<calls, depth, call, outcome, confirmed, work, toDev, toHost>>
        /\ Idle
    BY <1>11 DEF PollQueue, stack
  <2>3. QED BY <1>0, <2>1, <2>2 DEF Quiet
<1>12. CASE HandlerRespond \/ RejectPacket
  <2>1. UNCHANGED <<calls, depth, call, outcome, confirmed, work, toHost, queue>>
    BY <1>12 DEF HandlerRespond, RejectPacket, stack
  <2>2. toDev' = toDev \/ toDev'.ans
    <3>1. Response(hnd[depth]).ans /\ [buf EXCEPT !.ans = TRUE, !.ok = FALSE].ans
      BY <1>0 DEF Response, Packet
    <3>2. QED BY <1>12, <3>1 DEF HandlerRespond, RejectPacket, Answer
  <2>3. QED BY <1>0, <2>1, <2>2 DEF Quiet, IsReq
<1>13. CASE RegisterIndicationHandler \/ StackStops \/ ReceiveError \/ PollNothing
            \/ UNCHANGED vars
  BY <1>9, <1>13 DEF RegisterIndicationHandler, StackStops, ReceiveError, PollNothing,
     vars, host, stack
<1>14. CASE StackIndicate
  <2>1. ~IsConf(toHost')
    BY <1>14 DEF StackIndicate, IsConf
  <2>2. QED BY <1>9, <1>14, <2>1 DEF StackIndicate, host, stack
<1>15. CASE StackTake
  <2>1. /\ UNCHANGED <<calls, depth, call, outcome, confirmed, toHost, queue>>
        /\ toDev # NoPacket /\ toDev' = NoPacket
        /\ work' = IF toDev.ans THEN work ELSE work \cup {toDev}
    BY <1>15 DEF StackTake, host
  <2>2. CASE toDev.ans
    BY <1>0, <1>a, <2>1, <2>2 DEF Quiet
  <2>3. CASE ~toDev.ans
    BY <2>1, <2>3 DEF Taken, Kinds
  <2>4. QED BY <2>2, <2>3
<1>16. CASE StackConfirm
  <2>1. PICK p \in work, good \in StackResults :
          /\ work' = work \ {p}
          /\ toHost' = [p EXCEPT !.ans = TRUE, !.ok = good]
          /\ confirmed' = confirmed \cup {p.num}
    BY <1>16 DEF StackConfirm
  <2>2. IsConf(toHost') /\ toHost'.num = p.num
    BY <1>0, <2>1 DEF Kinds, IsReq, IsConf, Packet
  <2>3. UNCHANGED <<calls, depth, call, outcome, toDev, queue>>
    BY <1>16 DEF StackConfirm, host
  <2>4. QED BY <2>1, <2>2, <2>3 DEF Executed
<1>17. QED
  BY <1>2, <1>3, <1>5, <1>6, <1>7, <1>8, <1>10, <1>11, <1>12, <1>13, <1>14, <1>15,
     <1>16
     DEF Next, Host, Stack, Receive, Handler

----------------------------------------------------------------------------
(* The numbers of the calls, and what is on its way for them.               *)

(* Every call made so far is open or has an outcome, never both; deeper     *)
(* calls are younger.                                                       *)
Numbered ==
  /\ calls \in Nat /\ depth \in 0 .. MaxDepth /\ DOMAIN call = Levels
  /\ DOMAIN outcome \subseteq 1 .. calls
  /\ confirmed \subseteq 1 .. calls
  /\ \A d \in 1 .. depth : call[d].num \in 1 .. calls \ DOMAIN outcome
  /\ \A d, e \in 1 .. depth : d < e => call[d].num < call[e].num
  /\ \A n \in 1 .. calls :
       n \in DOMAIN outcome \/ \E d \in 1 .. depth : call[d].num = n

(* Neither refused nor answered: open, or given up.                         *)
Pending(n)  == n \in 1 .. calls /\ (n \in DOMAIN outcome => outcome[n] = "failed")
Unserved(n) == Pending(n) /\ n \notin confirmed
Served(n)   == Pending(n) /\ n \in confirmed

(* A call has at most one request or confirmation on its way.               *)
Flight ==
  /\ \A p \in work : Unserved(p.num)
  /\ \A p, q \in work : p.num = q.num => p = q
  /\ IsReq(toDev) => Unserved(toDev.num) /\ \A p \in work : p.num # toDev.num
  /\ \A k \in Places : IsConf(Place(k)) => Served(Place(k).num)
  /\ \A k, m \in Places :
       IsConf(Place(k)) /\ IsConf(Place(m)) /\ k # m => Place(k).num # Place(m).num

LEMMA NumberedInit == Init => Numbered
<1>1. DOMAIN [n \in {} |-> "none"] = {}
  OBVIOUS
<1>2. QED BY <1>1 DEF Init, Numbered

LEMMA FlightInit == Init => Flight
<1> SUFFICES ASSUME Init PROVE Flight
  OBVIOUS
<1>1. ~IsConf(NoPacket) /\ ~IsReq(NoPacket)
  BY DEF IsConf, IsReq, NoPacket, Cmds, HandlerCmds
<1>2. work = {} /\ toDev = NoPacket /\ \A k \in Places : Place(k) = NoPacket
  BY DEF Init, Places, Place
<1>3. QED BY <1>1, <1>2 DEF Flight

(* The outcome of a call after it is recorded.                              *)
LEMMA OutcomeEffect ==
  ASSUME NEW n, NEW ret, Outcome(n, ret)
  PROVE  /\ DOMAIN outcome' = DOMAIN outcome \cup {n}
         /\ outcome'[n] = ret
         /\ \A m \in DOMAIN outcome : m # n => outcome'[m] = outcome[m]
BY DEF Outcome

(* A return closes the youngest call.                                       *)
LEMMA ReturnedNumbers ==
  ASSUME Numbered, NEW ret, Returned(ret)
  PROVE  Numbered'
<1> DEFINE n == call[depth].num
<1>1. /\ depth \in 1 .. MaxDepth /\ depth' = depth - 1 /\ calls' = calls
      /\ confirmed' = confirmed /\ calls \in Nat
      /\ n \in 1 .. calls
      /\ DOMAIN call' = Levels
      /\ \A d \in 1 .. depth' : call'[d] = call[d] /\ d \in 1 .. depth /\ d < depth
  BY DEF Numbered, Returned
<1>2. DOMAIN outcome' = DOMAIN outcome \cup {n}
  BY OutcomeEffect DEF Returned
<1>3. \A d \in 1 .. depth' : call'[d].num \in 1 .. calls \ DOMAIN outcome'
  <2>1. ASSUME NEW d \in 1 .. depth' PROVE call'[d].num \in 1 .. calls \ DOMAIN outcome'
    <3>1. call'[d] = call[d] /\ d \in 1 .. depth /\ d < depth /\ depth \in 1 .. depth
      BY <1>1, <2>1
    <3>2. call[d].num \in 1 .. calls \ DOMAIN outcome /\ call[d].num < n
      BY <3>1 DEF Numbered
    <3>3. call[d].num # n
      BY <1>1, <3>2
    <3>4. QED BY <1>2, <3>1, <3>2, <3>3
  <2>2. QED BY <2>1
<1>4. \A d, e \in 1 .. depth' : d < e => call'[d].num < call'[e].num
  BY <1>1 DEF Numbered
<1>5. \A m \in 1 .. calls :
        m \in DOMAIN outcome' \/ \E d \in 1 .. depth' : call'[d].num = m
  <2>1. ASSUME NEW m \in 1 .. calls, m \notin DOMAIN outcome'
        PROVE  \E d \in 1 .. depth' : call'[d].num = m
    <3>1. m \notin DOMAIN outcome /\ m # n
      BY <1>2, <2>1
    <3>2. PICK d \in 1 .. depth : call[d].num = m
      BY <3>1 DEF Numbered
    <3>3. d \in 1 .. depth'
      BY <1>1, <3>1, <3>2
    <3>4. QED BY <1>1, <3>2, <3>3
  <2>2. QED BY <2>1
<1>6. DOMAIN outcome' \subseteq 1 .. calls /\ confirmed' \subseteq 1 .. calls'
  BY <1>1, <1>2 DEF Numbered
<1>7. QED
  <2> HIDE DEF n
  <2>1. calls' = calls /\ calls \in Nat /\ depth' \in 0 .. MaxDepth /\ DOMAIN call' = Levels
    BY <1>1 DEF Numbered
  <2> QED
    BY <2>1, <1>3, <1>4, <1>5, <1>6 DEF Numbered

LEMMA NumberedStep ==
  ASSUME SeqCmds = {}, TypeOK, Kinds, IdInv, Numbered, Flight, [Next]_vars
  PROVE  Numbered'
<1>1. CASE Sent
  <2>1. /\ calls' = calls + 1 /\ depth' = depth + 1 /\ depth' \in 1 .. MaxDepth
        /\ calls \in Nat /\ depth \in Nat
        /\ UNCHANGED <<outcome, confirmed>>
    BY <1>1 DEF Sent, Numbered
  <2>2. PICK c \in CallRec : c.num = calls + 1 /\ call' = [call EXCEPT ![depth + 1] = c]
    BY <1>1 DEF Sent
  <2>3. /\ DOMAIN call' = Levels
        /\ call'[depth + 1].num = calls + 1
        /\ \A d \in 1 .. depth : call'[d] = call[d]
    BY <2>1, <2>2 DEF Numbered
  <2>4. \A d \in 1 .. depth' : d \in 1 .. depth \/ d = depth + 1
    BY <2>1
  <2>5. \A d \in 1 .. depth' : call'[d].num \in 1 .. calls' \ DOMAIN outcome'
    BY <2>1, <2>3, <2>4 DEF Numbered
  <2>6. ASSUME NEW d \in 1 .. depth', NEW e \in 1 .. depth', d < e
        PROVE  call'[d].num < call'[e].num
    <3>1. d \in 1 .. depth /\ call'[d] = call[d] /\ call[d].num \in 1 .. calls
      BY <2>1, <2>3, <2>4, <2>6 DEF Numbered
    <3>2. CASE e \in 1 .. depth
      BY <2>3, <2>6, <3>1, <3>2 DEF Numbered
    <3>3. CASE e = depth + 1
      BY <2>1, <2>3, <3>1, <3>3
    <3>4. QED BY <2>4, <3>2, <3>3
  <2>7. \A n \in 1 .. calls' :
          n \in DOMAIN outcome' \/ \E d \in 1 .. depth' : call'[d].num = n
    <3>1. \A n \in 1 .. calls' : n \in 1 .. calls \/ n = calls + 1
      BY <2>1
    <3>2. 1 .. depth \subseteq 1 .. depth' /\ depth + 1 \in 1 .. depth'
      BY <2>1
    <3>3. QED BY <2>1, <2>3, <3>1, <3>2 DEF Numbered
  <2>8. DOMAIN outcome' \subseteq 1 .. calls' /\ confirmed' \subseteq 1 .. calls'
    BY <2>1 DEF Numbered
  <2>9. QED BY <2>1, <2>3, <2>5, <2>6, <2>7, <2>8 DEF Numbered
<1>2. CASE Refused
  <2>1. /\ calls' = calls + 1 /\ calls \in Nat
        /\ UNCHANGED <<depth, call, confirmed>>
    BY <1>2 DEF Refused, Numbered
  <2>2. DOMAIN outcome' = DOMAIN outcome \cup {calls + 1}
    BY <1>2, OutcomeEffect DEF Refused
  <2>3. \A n \in 1 .. calls' : n \in 1 .. calls \/ n = calls + 1
    BY <2>1
  <2>4. 1 .. calls \subseteq 1 .. calls' /\ calls + 1 \in 1 .. calls'
        /\ calls + 1 \notin 1 .. calls
    BY <2>1
  <2>5. QED BY <2>1, <2>2, <2>3, <2>4 DEF Numbered
<1>3. CASE Succeeded \/ Failed
  BY <1>3, ReturnedNumbers DEF Succeeded, Failed
<1>4. CASE Executed
  <2>1. PICK p \in work : confirmed' = confirmed \cup {p.num}
    BY <1>4 DEF Executed
  <2>2. p.num \in 1 .. calls
    BY DEF Flight, Unserved, Pending
  <2>3. UNCHANGED <<calls, depth, call, outcome>>
    BY <1>4 DEF Executed
  <2>4. QED BY <2>1, <2>2, <2>3 DEF Numbered
<1>5. CASE UNCHANGED <<calls, depth, call, outcome, confirmed>>
  BY <1>5 DEF Numbered
<1>6. QED BY <1>1, <1>2, <1>3, <1>4, <1>5, Effects DEF Queued, Taken, Quiet

(* A step that starts no call, brings no new request or confirmation and    *)
(* leaves every call with something on its way pending.                     *)
LEMMA KeepFlight ==
  ASSUME Flight, UNCHANGED <<confirmed, work>>,
         IsReq(toDev') => toDev' = toDev,
         \A k \in Places : IsConf(Place(k)') => Place(k)' = Place(k),
         \A p \in work : Pending(p.num)',
         IsReq(toDev') => Pending(toDev.num)',
         \A k \in Places : IsConf(Place(k)') => Pending(Place(k).num)'
  PROVE  Flight'
<1>1. \A p \in work' : Unserved(p.num)'
  BY DEF Flight, Unserved
<1>2. \A p, q \in work' : p.num = q.num => p = q
  BY DEF Flight
<1>3. IsReq(toDev') => Unserved(toDev.num)' /\ \A p \in work' : p.num # toDev'.num
  BY DEF Flight, Unserved
<1>4. \A k \in Places : IsConf(Place(k)') => Served(Place(k).num)'
  BY DEF Flight, Served
<1>5. \A k, m \in Places : IsConf(Place(k)') /\ IsConf(Place(m)') /\ k # m
                             => Place(k)'.num # Place(m)'.num
  BY DEF Flight
<1>6. QED BY <1>1, <1>2, <1>3, <1>4, <1>5 DEF Flight

(* Every step keeps what is on its way in order.                            *)
LEMMA FlightStep ==
  ASSUME SeqCmds = {}, TypeOK, Kinds, IdInv, Numbered, Flight, [Next]_vars
  PROVE  Flight'
<1>0. /\ calls \in Nat
      /\ DOMAIN outcome \subseteq 1 .. calls /\ confirmed \subseteq 1 .. calls
      /\ depth \in 0 .. MaxDepth
  BY DEF Numbered
<1>a. ~IsConf(NoPacket) /\ ~IsReq(NoPacket)
  BY DEF IsConf, IsReq, NoPacket, Cmds, HandlerCmds
<1>b. /\ \A p \in work : Pending(p.num)
      /\ IsReq(toDev) => Pending(toDev.num)
      /\ \A k \in Places : IsConf(Place(k)) => Pending(Place(k).num)
  BY DEF Flight, Served, Unserved
<1>c. Places = {0} \cup Slots /\ 0 \notin Slots /\ queue \in [Slots -> Packet]
  BY DEF Places, TypeOK
<1>1. CASE Sent
  <2>1. /\ calls' = calls + 1 /\ IsReq(toDev') /\ toDev'.num = calls + 1
        /\ UNCHANGED <<outcome, confirmed, work, toHost, queue>>
    BY <1>1 DEF Sent
  <2>2. \A n : Pending(n) => Pending(n)' /\ n # calls + 1
    BY <1>0, <2>1 DEF Pending
  <2>3. Unserved(toDev.num)'
    BY <1>0, <2>1 DEF Unserved, Pending
  <2>4. \A k \in Places : Place(k)' = Place(k)
    BY <2>1 DEF Place
  <2>5. \A p \in work' : Unserved(p.num)' /\ p.num # toDev'.num
    BY <2>1, <2>2 DEF Flight, Unserved
  <2>6. \A k \in Places : IsConf(Place(k)') => Served(Place(k).num)'
    BY <2>1, <2>2, <2>4 DEF Flight, Served
  <2>7. \A k, m \in Places : IsConf(Place(k)') /\ IsConf(Place(m)') /\ k # m
                               => Place(k)'.num # Place(m)'.num
    BY <2>4 DEF Flight
  <2>8. \A p, q \in work' : p.num = q.num => p = q
    BY <2>1 DEF Flight
  <2>9. QED BY <2>3, <2>5, <2>6, <2>7, <2>8 DEF Flight
<1>2. CASE Refused
  <2>1. /\ calls' = calls + 1
        /\ UNCHANGED <<confirmed, work, toDev, toHost, queue>>
    BY <1>2 DEF Refused
  <2>2. /\ DOMAIN outcome' = DOMAIN outcome \cup {calls + 1}
        /\ \A n \in DOMAIN outcome : n # calls + 1 => outcome'[n] = outcome[n]
    BY <1>2, OutcomeEffect DEF Refused
  <2>3. \A n : Pending(n) => Pending(n)'
    BY <1>0, <2>1, <2>2 DEF Pending
  <2>4. \A k \in Places : Place(k)' = Place(k)
    BY <2>1 DEF Place
  <2>5. \A k \in Places : IsConf(Place(k)') => Pending(Place(k).num)'
    BY <1>b, <2>3, <2>4
  <2>6. IsReq(toDev') => Pending(toDev.num)'
    BY <1>b, <2>1, <2>3
  <2>7. QED BY <1>b, <2>1, <2>3, <2>4, <2>5, <2>6, KeepFlight
<1>3. CASE Succeeded
  <2> DEFINE n == call[depth].num
  <2>1. PICK k \in Places : /\ IsConf(Place(k)) /\ Place(k).num = n
                           /\ Place(k)' = NoPacket
                           /\ \A m \in Places \ {k} : Place(m)' = Place(m)
    BY <1>3 DEF Succeeded
  <2>2. UNCHANGED <<calls, confirmed, work, toDev>>
    BY <1>3 DEF Succeeded, Returned
  <2>3. /\ DOMAIN outcome' = DOMAIN outcome \cup {n}
        /\ \A m \in DOMAIN outcome : m # n => outcome'[m] = outcome[m]
    BY <1>3, OutcomeEffect DEF Succeeded, Returned
  <2>4. \A m : Pending(m) /\ m # n => Pending(m)'
    BY <2>2, <2>3 DEF Pending
  <2>5. n \in confirmed
    BY <2>1 DEF Flight, Served
  <2>6. /\ \A p \in work : p.num # n
        /\ IsReq(toDev) => toDev.num # n
    BY <2>5 DEF Flight, Unserved
  <2>7. \A m \in Places : IsConf(Place(m)') =>
          Place(m)' = Place(m) /\ Place(m).num # n
    BY <1>a, <2>1 DEF Flight
  <2>8. \A m \in Places : IsConf(Place(m)') => Pending(Place(m).num)'
    BY <1>b, <2>4, <2>7
  <2>9. /\ \A p \in work : Pending(p.num)'
        /\ IsReq(toDev') => Pending(toDev.num)'
    BY <1>b, <2>2, <2>4, <2>6
  <2>10. QED BY <2>2, <2>7, <2>8, <2>9, KeepFlight
<1>4. CASE Failed
  <2> DEFINE n == call[depth].num
  <2>1. /\ UNCHANGED <<calls, confirmed, work, toDev, queue>>
        /\ toHost' \in {toHost, NoPacket}
    BY <1>4 DEF Failed, Returned
  <2>2. /\ DOMAIN outcome' = DOMAIN outcome \cup {n}
        /\ outcome'[n] = "failed"
        /\ \A m \in DOMAIN outcome : m # n => outcome'[m] = outcome[m]
    BY <1>4, OutcomeEffect DEF Failed, Returned
  <2>3. \A m : Pending(m) => Pending(m)'
    BY <2>1, <2>2 DEF Pending
  <2>4. \A k \in Places : IsConf(Place(k)') => Place(k)' = Place(k)
    BY <1>a, <2>1 DEF Place
  <2>5. /\ \A p \in work : Pending(p.num)'
        /\ IsReq(toDev') => Pending(toDev.num)'
        /\ \A k \in Places : IsConf(Place(k)') => Pending(Place(k).num)'
    BY <1>b, <2>1, <2>3, <2>4
  <2>6. QED BY <2>1, <2>4, <2>5, KeepFlight
<1>5. ASSUME UNCHANGED <<calls, outcome>>
      PROVE  \A n : Pending(n)' <=> Pending(n)
  BY <1>5 DEF Pending
<1>6. CASE Queued
  <2>1. /\ IsConf(toHost) /\ toHost' = NoPacket
        /\ UNCHANGED <<calls, depth, call, outcome, confirmed, work, toDev>>
    BY <1>6 DEF Queued
  <2>2. PICK s \in Slots : queue[s] = NoPacket /\ queue' = [queue EXCEPT ![s] = toHost]
    BY <1>6 DEF Queued
  <2>3. /\ Place(0)' = NoPacket /\ Place(s)' = Place(0)
        /\ \A k \in Places \ {0, s} : Place(k)' = Place(k)
        /\ ~IsConf(Place(s)) /\ 0 \in Places /\ s \in Places
    BY <1>a, <1>c, <2>1, <2>2 DEF Place
  <2>4. \A k \in Places : IsConf(Place(k)') =>
          \/ k = s /\ Place(k)' = Place(0)
          \/ k \notin {0, s} /\ Place(k)' = Place(k)
    BY <1>a, <2>3
  <2>5. /\ \A n : Served(n)' <=> Served(n)
        /\ \A n : Unserved(n)' <=> Unserved(n)
    BY <1>5, <2>1 DEF Served, Unserved
  <2>6. \A k \in Places : IsConf(Place(k)') => Served(Place(k).num)'
    BY <2>3, <2>4, <2>5 DEF Flight
  <2>7. \A k, m \in Places : IsConf(Place(k)') /\ IsConf(Place(m)') /\ k # m
                               => Place(k)'.num # Place(m)'.num
    BY <2>3, <2>4 DEF Flight
  <2>8. /\ \A p \in work' : Unserved(p.num)'
        /\ \A p, q \in work' : p.num = q.num => p = q
        /\ IsReq(toDev') => Unserved(toDev.num)' /\ \A p \in work' : p.num # toDev'.num
    BY <2>1, <2>5 DEF Flight
  <2>9. QED BY <2>6, <2>7, <2>8 DEF Flight
<1>7. CASE Executed
  <2>1. PICK p \in work : /\ work' = work \ {p}
                         /\ IsConf(toHost') /\ toHost'.num = p.num
                         /\ confirmed' = confirmed \cup {p.num}
    BY <1>7 DEF Executed
  <2>2. UNCHANGED <<calls, depth, call, outcome, toDev, queue>>
    BY <1>7 DEF Executed
  <2>3. /\ Unserved(p.num)
        /\ \A q \in work' : q.num # p.num
        /\ IsReq(toDev) => toDev.num # p.num
    BY <2>1 DEF Flight
  <2>4. \A n : Served(n) => Served(n)' /\ n # p.num
    BY <1>5, <2>1, <2>2, <2>3 DEF Served, Unserved
  <2>5. Served(p.num)'
    BY <1>5, <2>1, <2>2, <2>3 DEF Served, Unserved
  <2>6. \A n : Unserved(n) /\ n # p.num => Unserved(n)'
    BY <1>5, <2>1, <2>2 DEF Unserved
  <2>7. \A k \in Places : \/ k = 0 /\ Place(k)' = toHost'
                          \/ k # 0 /\ Place(k)' = Place(k)
    BY <2>2 DEF Place
  <2>8. \A k \in Places : IsConf(Place(k)') => Served(Place(k).num)'
    BY <2>1, <2>4, <2>5, <2>7 DEF Flight
  <2>9. \A k, m \in Places : IsConf(Place(k)') /\ IsConf(Place(m)') /\ k # m
                               => Place(k)'.num # Place(m)'.num
    BY <2>1, <2>4, <2>7 DEF Flight
  <2>10. /\ \A q \in work' : Unserved(q.num)'
         /\ \A q, r \in work' : q.num = r.num => q = r
         /\ IsReq(toDev') => Unserved(toDev.num)' /\ \A q \in work' : q.num # toDev'.num
    BY <2>1, <2>2, <2>3, <2>6 DEF Flight
  <2>11. QED BY <2>8, <2>9, <2>10 DEF Flight
<1>8. CASE Taken
  <2>1. /\ IsReq(toDev) /\ toDev' = NoPacket
        /\ work' = work \cup {toDev}
        /\ UNCHANGED <<calls, depth, call, outcome, confirmed, toHost, queue>>
    BY <1>8 DEF Taken
  <2>2. /\ \A n : Served(n)' <=> Served(n)
        /\ \A n : Unserved(n)' <=> Unserved(n)
    BY <1>5, <2>1 DEF Served, Unserved
  <2>3. \A k \in Places : Place(k)' = Place(k)
    BY <2>1 DEF Place
  <2>4. /\ \A q \in work' : Unserved(q.num)'
        /\ \A q, r \in work' : q.num = r.num => q = r
        /\ ~IsReq(toDev')
    BY <1>a, <2>1, <2>2 DEF Flight
  <2>5. /\ \A k \in Places : IsConf(Place(k)') => Served(Place(k).num)'
        /\ \A k, m \in Places : IsConf(Place(k)') /\ IsConf(Place(m)') /\ k # m
                                  => Place(k)'.num # Place(m)'.num
    BY <2>2, <2>3 DEF Flight
  <2>6. QED BY <2>4, <2>5 DEF Flight
<1>9. CASE Quiet
  <2>1. /\ UNCHANGED <<calls, depth, call, outcome, confirmed, work>>
        /\ IsReq(toDev') => toDev' = toDev
        /\ IsConf(toHost') => toHost' = toHost
        /\ \A s \in Slots : queue'[s] \in {queue[s], NoPacket}
    BY <1>9 DEF Quiet
  <2>2. \A k \in Places : IsConf(Place(k)') => Place(k)' = Place(k)
    BY <1>a, <1>c, <2>1 DEF Place
  <2>3. /\ \A p \in work : Pending(p.num)'
        /\ IsReq(toDev') => Pending(toDev.num)'
        /\ \A k \in Places : IsConf(Place(k)') => Pending(Place(k).num)'
    BY <1>5, <1>b, <2>1, <2>2
  <2>4. QED BY <2>1, <2>2, <2>3, KeepFlight
<1>10. QED BY <1>1, <1>2, <1>3, <1>4, <1>6, <1>7, <1>8, <1>9, Effects

(* A call that waits at the mailbox has no confirmation in the queue.       *)
QueueForeign ==
  depth > 0 /\ ~Running(depth) =>
    \A s \in Slots : queue[s] # NoPacket => queue[s].num # call[depth].num

(* After a return the outer handler is still running.                       *)
LEMMA OuterRuns ==
  ASSUME TypeOK, HandlersOk, depth > 0, NEW ret \in {"ok", "failed"},
         NEW good \in BOOLEAN, Return(ret, good)
  PROVE  QueueForeign'
<1>1. /\ depth \in Nat /\ depth - 1 \in 0 .. MaxDepth /\ depth' = depth - 1
      /\ hnd[depth - 1] \in HndRec
  BY ReturnEffect DEF TypeOK
<1>2. PICK g \in BOOLEAN :
        hnd' = [l \in 0 .. MaxDepth |->
                  IF l = depth - 1 THEN AfterCall(hnd[depth - 1], g)
                  ELSE IF l = depth THEN NoHnd ELSE hnd[l]]
  BY ReturnEffect
<1>3. depth' > 0 => hnd'[depth'].pc # "none"
  <2>1. ASSUME depth' > 0 PROVE hnd[depth - 1].pc \in {"delete", "init", "config"}
    <3>1. LevelOk(depth - 1, hnd[depth - 1], depth, buf)
      BY <1>1 DEF HandlersOk
    <3>2. QED BY <1>1, <2>1, <3>1 DEF LevelOk
  <2>2. hnd'[depth'] = AfterCall(hnd[depth - 1], g)
    BY <1>1, <1>2
  <2>3. QED BY <1>1, <2>1, <2>2, AfterCallPc
<1>4. QED BY <1>3 DEF QueueForeign, Running

LEMMA ForeignStep ==
  ASSUME SeqCmds = {}, TypeOK, Kinds, HandlersOk, IdInv, Numbered, Flight,
         QueueForeign, [Next]_vars
  PROVE  QueueForeign'
<1>0. /\ depth \in 0 .. MaxDepth /\ hnd[depth] \in HndRec
      /\ toHost \in Packet /\ queue \in [Slots -> Packet]
      /\ DOMAIN hnd = 0 .. MaxDepth
  BY DEF TypeOK
<1>a. \A s \in Slots : queue[s] # NoPacket => IsConf(queue[s]) /\ queue[s].ans
  BY DEF Kinds, IsConf
<1>b. ASSUME NEW k, hnd' = [hnd EXCEPT ![depth] = k], k.pc # "none", UNCHANGED depth
      PROVE  QueueForeign'
  BY <1>0, <1>b DEF QueueForeign, Running
<1>c. ASSUME UNCHANGED depth, depth = 0 PROVE QueueForeign'
  BY <1>c DEF QueueForeign
<1>1. ASSUME NEW cmd \in Cmds, Call(cmd),
             depth = 0 \/ hnd[depth].pc \in {"delete", "init", "config"}
      PROVE  QueueForeign'
  <2>1. PICK pkt \in Packet :
          /\ UNCHANGED queue
          /\ \/ /\ depth < MaxDepth /\ depth' = depth + 1
                /\ call' = [call EXCEPT ![depth + 1] =
                              [cmd |-> cmd, id |-> pkt.id, num |-> pkt.num]]
                /\ pkt.num = calls + 1
             \/ /\ hnd' = [hnd EXCEPT ![depth] = AfterCall(@, FALSE)]
                /\ UNCHANGED depth
    BY <1>1, CallEffect
  <2>2. CASE /\ depth < MaxDepth /\ depth' = depth + 1
             /\ call' = [call EXCEPT ![depth + 1] =
                           [cmd |-> cmd, id |-> pkt.id, num |-> pkt.num]]
             /\ pkt.num = calls + 1
    <3>1. call'[depth'].num = calls + 1
      BY <1>0, <2>2 DEF TypeOK
    <3>2. \A s \in Slots : queue[s] # NoPacket => queue[s].num \in 1 .. calls
      <4>1. ASSUME NEW s \in Slots, queue[s] # NoPacket PROVE queue[s].num \in 1 .. calls
        <5>1. s \in Places /\ Place(s) = queue[s]
          BY DEF Places, Place
        <5>2. QED BY <1>a, <4>1, <5>1 DEF Flight, Served, Pending
      <4>2. QED BY <4>1
    <3>3. calls + 1 \notin 1 .. calls
      BY DEF TypeOK
    <3>4. QED BY <2>1, <3>1, <3>2, <3>3 DEF QueueForeign
  <2>3. CASE hnd' = [hnd EXCEPT ![depth] = AfterCall(@, FALSE)] /\ UNCHANGED depth
    <3>1. CASE depth = 0
      BY <2>3, <3>1, <1>c
    <3>2. CASE hnd[depth].pc \in {"delete", "init", "config"}
      <4>1. AfterCall(hnd[depth], FALSE).pc # "none"
        BY <1>0, <3>2, AfterCallPc
      <4>2. QED BY <1>b, <2>3, <4>1
    <3>3. QED BY <1>1, <3>1, <3>2
  <2>4. QED BY <2>1, <2>2, <2>3
<1>2. CASE MainCall
  BY <1>1, <1>2 DEF MainCall, Cmds
<1>3. CASE HandlerRequest
  BY <1>1, <1>3 DEF HandlerRequest, Cmds, HandlerCmds
<1>4. CASE ReceiveOwn \/ ReceiveOverrun \/ ReceiveTimeout
  <2>1. PICK ret \in {"ok", "failed"}, good \in BOOLEAN : Return(ret, good)
    BY <1>0, <1>4 DEF ReceiveOwn, ReceiveOverrun, ReceiveTimeout, Packet
  <2>2. depth > 0
    BY <1>4 DEF ReceiveOwn, ReceiveOverrun, ReceiveTimeout, ForeignConfirmation, Waiting
  <2>3. QED BY <2>1, <2>2, OuterRuns
<1>5. CASE ReceiveForeign
  <2>1. PICK s \in Slots : queue' = [queue EXCEPT ![s] = toHost]
    BY <1>5 DEF ReceiveForeign, Enqueue
  <2>2. /\ depth > 0 /\ ~Running(depth) /\ toHost.ans
        /\ ~Matches(toHost, call[depth])
        /\ UNCHANGED <<depth, call, hnd>>
    BY <1>5 DEF ReceiveForeign, ForeignConfirmation, Waiting
  <2>3. IsConf(toHost)
    BY <2>2 DEF Kinds, IsInd, NoPacket
  <2>4. toHost.num # call[depth].num
    <3>1. toHost \in InFlight /\ depth \in 1 .. depth
      BY <1>0, <2>2 DEF InFlight
    <3>2. QED BY <2>2, <2>3, <3>1, MatchIsOwn
  <2>5. QED BY <1>0, <2>1, <2>2, <2>4 DEF QueueForeign, Running
<1>6. CASE ReceiveIndication
  <2>1. FirstStep(toHost) # "none"
    BY DEF FirstStep
  <2> DEFINE h == [pc |-> FirstStep(toHost), ind |-> toHost, step |-> 0]
  <2>2. UNCHANGED depth /\ hnd' = [hnd EXCEPT ![depth] = h]
    BY <1>6 DEF ReceiveIndication, Dispatch
  <2>3. h.pc # "none"
    BY <2>1
  <2> HIDE DEF h
  <2>4. QED BY <1>b, <2>2, <2>3
<1>7. CASE PollMailbox \/ PollQueue
  BY <1>c, <1>7 DEF PollMailbox, PollQueue, Idle
<1>8. CASE HandlerRespond
  <2>1. AfterResponse(hnd[depth]).pc # "none"
    BY <1>0 DEF AfterResponse, HndRec
  <2>2. QED BY <1>8, <1>b, <2>1 DEF HandlerRespond
<1>9. CASE RejectPacket
  <2>1. [hnd[depth] EXCEPT !.pc = "end"].pc # "none"
    BY <1>0 DEF HndRec
  <2>2. hnd' = [hnd EXCEPT ![depth] = [hnd[depth] EXCEPT !.pc = "end"]]
    BY <1>9 DEF RejectPacket
  <2>3. QED BY <1>9, <1>b, <2>1, <2>2 DEF RejectPacket
<1>10. CASE DispatchDone
  <2>1. CASE depth > 0 /\ \E s \in Slots : Matches(queue[s], call[depth])
    <3>1. PICK s \in Slots : Return("ok", queue[s].ok)
      BY <1>10, <2>1 DEF DispatchDone, TryDequeue
    <3>2. queue[s].ok \in BOOLEAN
      BY <1>0 DEF Packet
    <3>3. QED BY <2>1, <3>1, <3>2, OuterRuns
  <2>2. CASE depth > 0 /\ ~\E s \in Slots : Matches(queue[s], call[depth])
    <3>1. UNCHANGED <<queue, depth, call>>
      BY <1>10, <2>2 DEF DispatchDone, TryDequeue
    <3>2. ASSUME NEW s \in Slots, queue[s] # NoPacket
          PROVE  queue[s].num # call[depth].num
      <4>1. queue[s] \in InFlight /\ depth \in 1 .. depth
        BY <1>0, <2>2 DEF InFlight
      <4>2. QED BY <1>a, <2>2, <3>2, <4>1, MatchIsOwn
    <3>3. QED BY <3>1, <3>2 DEF QueueForeign
  <2>3. CASE ~(depth > 0)
    <3>1. depth = 0 /\ UNCHANGED depth
      BY <1>0, <1>10, <2>3 DEF DispatchDone
    <3>2. QED BY <1>c, <3>1
  <2>4. QED BY <2>1, <2>2, <2>3
<1>11. CASE UNCHANGED <<depth, call, hnd, queue>>
  BY <1>11 DEF QueueForeign, Running
<1>12. CASE Stack \/ RegisterIndicationHandler \/ ReceiveError \/ PollNothing
            \/ UNCHANGED vars
  BY <1>11, <1>12 DEF Stack, StackTake, StackConfirm, StackIndicate, StackStops,
     RegisterIndicationHandler, ReceiveError, PollNothing, vars, host
<1>13. QED
  BY <1>2, <1>3, <1>4, <1>5, <1>6, <1>7, <1>8, <1>9, <1>10, <1>12
     DEF Next, Host, Receive, Handler

(* A queued confirmation belongs to an outer call or to one that failed.    *)
LEMMA ForeignHolds ==
  ASSUME Kinds, Numbered, Flight, QueueForeign
  PROVE  QueueHoldsOthers
<1>1. SUFFICES ASSUME NEW s \in Slots, queue[s] # NoPacket
      PROVE  \/ queue[s].num \in DOMAIN outcome /\ outcome[queue[s].num] = "failed"
             \/ \E d \in 1 .. depth : /\ call[d].num = queue[s].num
                                     /\ (d < depth \/ Running(d))
  BY Zenon DEF QueueHoldsOthers
<1>2. s \in Places /\ Place(s) = queue[s] /\ IsConf(queue[s])
  BY <1>1 DEF Places, Place, Kinds
<1>3. Pending(queue[s].num)
  BY <1>2 DEF Flight, Served
<1>4. CASE queue[s].num \in DOMAIN outcome
  BY <1>3, <1>4 DEF Pending
<1>5. CASE queue[s].num \notin DOMAIN outcome
  <2>1. PICK d \in 1 .. depth : call[d].num = queue[s].num
    BY <1>3, <1>5 DEF Pending, Numbered
  <2>2. d < depth \/ Running(d)
    <3>1. depth \in Nat
      BY DEF Numbered
    <3>2. CASE d = depth
      BY <1>1, <2>1, <3>1, <3>2 DEF QueueForeign
    <3>3. QED BY <3>1, <3>2
  <2>3. QED BY <2>1, <2>2
<1>6. QED BY <1>4, <1>5

(* The invariant of the calls.                                              *)
CallsInv == /\ TypeOK /\ Kinds /\ HandlersOk /\ IdInv
            /\ Numbered /\ Flight /\ QueueForeign

LEMMA CallsInvInit == Init => CallsInv
<1>1. Init => QueueForeign
  BY DEF Init, QueueForeign
<1>2. QED BY <1>1, TypeInit, KindsInit, HandlersInit, IdInit, NumberedInit, FlightInit
          DEF CallsInv

LEMMA CallsInvStep ==
  ASSUME SeqCmds = {}
  PROVE  CallsInv /\ [Next]_vars => CallsInv'
<1> SUFFICES ASSUME CallsInv, [Next]_vars PROVE CallsInv'
  OBVIOUS
<1>1. TypeOK /\ Kinds /\ HandlersOk /\ IdInv /\ Numbered /\ Flight /\ QueueForeign
  BY DEF CallsInv
<1>2. TypeOK' /\ Kinds' /\ HandlersOk' /\ IdInv'
  BY <1>1, TypeStep, KindsStep, HandlersStep, IdStep
<1>3. Numbered' /\ Flight' /\ QueueForeign'
  BY <1>1, NumberedStep, FlightStep, ForeignStep
<1>4. QED BY <1>2, <1>3 DEF CallsInv

(* Without sequence flags a confirmation in the queue belongs to an outer   *)
(* call, which looks there again, or to a call that failed: no call waits   *)
(* at the mailbox for a confirmation that is already queued.                *)
THEOREM QueueIsForOthers ==
  ASSUME SeqCmds = {}
  PROVE  Spec => []QueueHoldsOthers
<1>1. CallsInv => QueueHoldsOthers
  BY ForeignHolds DEF CallsInv
<1>2. QED BY <1>1, CallsInvInit, CallsInvStep, PTL DEF Spec

(* What leaves the queue, as a relation of two states.                      *)
Drained ==
  \A s \in Slots : queue[s] # NoPacket /\ queue'[s] # queue[s] =>
    \/ Idle
    \/ /\ depth > 0
       /\ queue[s].num = call[depth].num
       /\ depth' = depth - 1
       /\ outcome'[queue[s].num] = "ok"

LEMMA DrainStep ==
  ASSUME SeqCmds = {}, CallsInv, [Next]_vars
  PROVE  Drained
<1>1. Sent \/ Refused \/ Succeeded \/ Failed \/ Queued \/ Executed \/ Taken \/ Quiet
  BY Effects DEF CallsInv
<1>2. CASE UNCHANGED queue \/ Idle
  BY <1>2 DEF Drained
<1>3. CASE Queued
  <2>1. PICK t \in Slots : queue[t] = NoPacket /\ queue' = [queue EXCEPT ![t] = toHost]
    BY <1>3 DEF Queued
  <2>2. QED BY <2>1 DEF Drained, CallsInv, TypeOK
<1>4. CASE Succeeded
  <2>1. PICK k \in Places : /\ Place(k).num = call[depth].num
                           /\ \A m \in Places \ {k} : Place(m)' = Place(m)
    BY <1>4 DEF Succeeded
  <2>2. /\ depth > 0 /\ depth' = depth - 1
        /\ outcome'[call[depth].num] = "ok"
    BY <1>4, OutcomeEffect DEF Succeeded, Returned
  <2>3. ASSUME NEW s \in Slots, queue'[s] # queue[s]
        PROVE  queue[s].num = call[depth].num
    <3>1. s \in Places /\ Place(s) = queue[s] /\ Place(s)' = queue'[s]
      BY DEF Places, Place
    <3>2. QED BY <2>1, <2>3, <3>1
  <2>4. QED BY <2>2, <2>3 DEF Drained
<1>5. QED BY <1>1, <1>2, <1>3, <1>4 DEF Sent, Refused, Failed, Executed, Taken, Quiet

(* Without sequence flags a confirmation leaves the queue by the return of  *)
(* its own call, which succeeds, or when the main loop polls for what is    *)
(* left over; nothing else takes or overwrites it.                          *)
THEOREM QueueIsDrained ==
  ASSUME SeqCmds = {}
  PROVE  Spec => QueueDrainedByOwner
<1>1. CallsInv /\ [Next]_vars => [Drained]_vars
  BY DrainStep
<1>2. Spec => []CallsInv
  BY CallsInvInit, CallsInvStep, PTL DEF Spec
<1>3. Spec => [][Drained]_vars
  BY <1>1, <1>2, PTL DEF Spec
<1>4. QED BY <1>3 DEF QueueDrainedByOwner, Drained

----------------------------------------------------------------------------
(* The calls implement RequestReply.                                        *)

OpenCalls == {call[d].num : d \in 1 .. depth}

LEMMA AbstractInit == Init => Abstract!Init
<1> SUFFICES ASSUME Init PROVE Abstract!Init
  OBVIOUS
<1>1. OpenCalls = {}
  BY DEF Init, OpenCalls
<1>2. QED BY <1>1 DEF Init, Abstract!Init, OpenCalls

(* The youngest open call is the innermost one, and a return removes it.    *)
LEMMA ReturnedOpen ==
  ASSUME Numbered, NEW ret, Returned(ret)
  PROVE  /\ Abstract!Innermost(call[depth].num)
         /\ call[depth].num \in 1 .. calls
         /\ OpenCalls' = OpenCalls \ {call[depth].num}
<1>1. /\ depth \in 1 .. depth /\ depth \in Levels /\ depth' = depth - 1
      /\ \A d \in 1 .. depth' : call'[d] = call[d]
      /\ \A d \in 1 .. depth : d \in 1 .. depth' \/ d = depth
      /\ \A d \in 1 .. depth' : d \in 1 .. depth /\ d < depth
      /\ calls \in Nat
  BY DEF Numbered, Returned
<1>2. \A d \in 1 .. depth : call[d].num \in 1 .. calls
  BY DEF Numbered
<1>3. \A d \in 1 .. depth' : call[d].num < call[depth].num
  BY <1>1 DEF Numbered
<1>4. \A d \in 1 .. depth : call[d].num <= call[depth].num
  BY <1>1, <1>2, <1>3
<1>5. Abstract!Innermost(call[depth].num)
  BY <1>1, <1>4 DEF Abstract!Innermost
<1>6. \A d \in 1 .. depth' : call[d].num # call[depth].num
  BY <1>1, <1>2, <1>3
<1>7. OpenCalls' = {call[d].num : d \in 1 .. depth'}
  BY <1>1 DEF OpenCalls
<1>8. OpenCalls' = OpenCalls \ {call[depth].num}
  BY <1>1, <1>6, <1>7 DEF OpenCalls
<1>9. QED BY <1>1, <1>2, <1>5, <1>8

(* Every step of the program is a step of RequestReply or a stutter.        *)
LEMMA AbstractStep ==
  ASSUME SeqCmds = {}, CallsInv, [Next]_vars
  PROVE  [Abstract!Next]_(Abstract!avars)
<1>0. Numbered /\ Flight /\ calls \in Nat /\ depth \in 0 .. MaxDepth
  BY DEF CallsInv, Numbered
<1>a. Sent \/ Refused \/ Succeeded \/ Failed \/ Queued \/ Executed \/ Taken \/ Quiet
  BY Effects DEF CallsInv
<1>b. ASSUME NEW n \in 1 .. calls,
             Abstract!Execute(n) \/ Abstract!Succeed(n) \/ Abstract!Fail(n)
      PROVE  Abstract!Next
  BY <1>b DEF Abstract!Next
<1>1. CASE Sent
  <2>1. /\ calls' = calls + 1 /\ depth' = depth + 1 /\ depth + 1 \in Levels
        /\ UNCHANGED <<outcome, confirmed>>
    BY <1>0, <1>1 DEF Sent
  <2>2. PICK c \in CallRec : c.num = calls + 1 /\ call' = [call EXCEPT ![depth + 1] = c]
    BY <1>1 DEF Sent
  <2>3. call'[depth + 1].num = calls + 1 /\ \A d \in 1 .. depth : call'[d] = call[d]
    BY <1>0, <2>1, <2>2 DEF Numbered
  <2>4. 1 .. depth' = (1 .. depth) \cup {depth + 1}
    BY <1>0, <2>1
  <2>5. OpenCalls' = OpenCalls \cup {calls'}
    BY <2>1, <2>3, <2>4 DEF OpenCalls
  <2>6. Abstract!Begin
    BY <2>1, <2>5 DEF Abstract!Begin, OpenCalls
  <2>7. QED BY <2>6 DEF Abstract!Next
<1>2. CASE Refused
  <2>1. /\ calls' = calls + 1 /\ Outcome(calls + 1, "refused")
        /\ UNCHANGED <<depth, call, confirmed>>
    BY <1>2 DEF Refused
  <2>2. Abstract!Refuse
    BY <2>1 DEF Abstract!Refuse, Abstract!Record, Outcome
  <2>3. QED BY <2>2 DEF Abstract!Next
<1>3. CASE Succeeded
  <2>0. PICK n : n = call[depth].num
    OBVIOUS
  <2>1. /\ Returned("ok") /\ Outcome(n, "ok") /\ UNCHANGED <<calls, confirmed>>
    BY <1>3, <2>0 DEF Succeeded, Returned
  <2>2. n \in confirmed
    BY <1>0, <1>3, <2>0 DEF Succeeded, Flight, Served
  <2>3. /\ Abstract!Innermost(n) /\ n \in 1 .. calls
        /\ OpenCalls' = OpenCalls \ {n}
    BY <1>0, <2>0, <2>1, ReturnedOpen
  <2>4. Abstract!Succeed(n)
    BY <2>1, <2>2, <2>3 DEF Abstract!Succeed, Abstract!Record, Outcome, OpenCalls
  <2>5. QED BY <1>b, <2>3, <2>4
<1>4. CASE Failed
  <2>0. PICK n : n = call[depth].num
    OBVIOUS
  <2>1. /\ Returned("failed") /\ Outcome(n, "failed") /\ UNCHANGED <<calls, confirmed>>
    BY <1>4, <2>0 DEF Failed, Returned
  <2>2. /\ Abstract!Innermost(n) /\ n \in 1 .. calls
        /\ OpenCalls' = OpenCalls \ {n}
    BY <1>0, <2>0, <2>1, ReturnedOpen
  <2>3. Abstract!Fail(n)
    BY <2>1, <2>2 DEF Abstract!Fail, Abstract!Record, Outcome, OpenCalls
  <2>4. QED BY <1>b, <2>2, <2>3
<1>5. CASE Executed
  <2>1. PICK p \in work : confirmed' = confirmed \cup {p.num}
    BY <1>5 DEF Executed
  <2>2. UNCHANGED <<calls, depth, call, outcome>>
    BY <1>5 DEF Executed
  <2>3. Unserved(p.num)
    BY <1>0 DEF Flight
  <2>4. Abstract!Execute(p.num) /\ p.num \in 1 .. calls
    BY <2>1, <2>2, <2>3 DEF Abstract!Execute, Unserved, Pending
  <2>5. QED BY <1>b, <2>4
<1>6. CASE UNCHANGED <<calls, depth, call, outcome, confirmed>>
  BY <1>6 DEF Abstract!avars
<1>7. QED BY <1>a, <1>1, <1>2, <1>3, <1>4, <1>5, <1>6 DEF Queued, Taken, Quiet

(* Without sequence flags Pkt_SendReceivePacket is the request and reply of *)
(* RequestReply: calls return innermost first, each request is executed at  *)
(* most once, a call that returns "ok" was executed, and one that was       *)
(* refused never is.                                                        *)
THEOREM CallsImplementRequestReply ==
  ASSUME SeqCmds = {}
  PROVE  Spec => ImplementsRequestReply
<1>1. Init => Abstract!Init
  BY AbstractInit
<1>2. CallsInv /\ [Next]_vars => [Abstract!Next]_(Abstract!avars)
  BY AbstractStep
<1>3. Spec => []CallsInv
  BY CallsInvInit, CallsInvStep, PTL DEF Spec
<1>4. QED BY <1>1, <1>2, <1>3, PTL DEF Spec, ImplementsRequestReply, Abstract!Spec
=============================================================================
