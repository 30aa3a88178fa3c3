------------------------- MODULE DpmHandshake_proofs -------------------------
(***************************************************************************)
(* Theorems about the mailboxes of the dual-port memory: they hold for any *)
(* number of packets, with or without the timer interrupt, wherever it     *)
(* comes, and whether or not the build reuses the register (DEV_ToggleBit).*)
(***************************************************************************)
EXTENDS DpmHandshake, TLAPS

(* What toggling one flag does to it and to the others.                     *)
LEMMA Toggling ==
  ASSUME NEW f, NEW b, NEW c
  PROVE  /\ b \in Toggled(f, b) <=> b \notin f
         /\ c # b => (c \in Toggled(f, b) <=> c \in f)
  BY DEF Toggled

LEMMA ToggledIsFlags ==
  ASSUME NEW A, NEW f \in SUBSET A, NEW b \in A
  PROVE  Toggled(f, b) \in SUBSET A
  BY DEF Toggled

(* The lock is held in these places, once; the NVIC has nothing to disable. *)
Locked == {"cos", "store_cos", "load", "store", "write"}

Typed ==
  /\ TypeOK
  /\ irqSem = IF main.pc \in Locked THEN 1 ELSE 0
  /\ irqOff = {}

(* The toggle of flag b by the main loop is on its way to the cell.         *)
Unpublished(b) ==
  /\ main.pc \in {"load", "store", "write"} /\ main.bit = b
  /\ main.pc = "write" => Differ(hostCell, hostFlags, b)

(* What the interrupt does not touch: it writes b to the cell as it is in   *)
(* usHostFlags, and the register of the main loop holds what belongs there. *)
Agree(b) ==
  /\ ~(main.pc = "write" /\ main.bit = b) => ~Differ(hostCell, hostFlags, b)
  /\ main.pc = "store" => (Differ(main.reg, hostFlags, b) <=> main.bit = b)
  /\ main.pc = "write" => ~Differ(main.reg, hostFlags, b)

(* The send mailbox: an old copy of the netX flags may say full of an empty *)
(* one, never the reverse, and it is filled between Copy and the toggle.    *)
SendInv ==
  /\ Agree("SEND")
  /\ ~Differ(hostFlags, netxCopy, "SEND") => ~Differ(hostFlags, netxCell, "SEND")
  /\ Unpublished("SEND") => /\ ~Differ(hostCell, netxCell, "SEND")
                            /\ ~Differ(netxCopy, netxCell, "SEND")
  /\ IF Differ(hostCell, netxCell, "SEND")
     THEN sendBox = IF netxPc = "idle" THEN netxGot + 1 ELSE netxGot
     ELSE /\ netxPc = "idle"
          /\ sendBox = IF Unpublished("SEND") THEN netxGot + 1 ELSE netxGot

(* The receive mailbox, with the parts exchanged.                           *)
RecvInv ==
  /\ Agree("RECV")
  /\ Differ(hostFlags, netxCopy, "RECV") => Differ(hostFlags, netxCell, "RECV")
  /\ Unpublished("RECV") => /\ Differ(hostCell, netxCell, "RECV")
                            /\ ~Differ(netxCopy, netxCell, "RECV")
  /\ recvBox = IF Differ(hostCell, netxCell, "RECV") /\ ~Unpublished("RECV")
               THEN hostGot + 1 ELSE hostGot

USE DEF boxes, locks, MainAt, MainTo, IsrStep, Locked

(* Types, and that the lock is left as often as it is entered.              *)
MainRec == [pc : MainPcs, op : {"none", "put", "get"}, bit : Flags, reg : SUBSET Flags,
            cos : Nat]

LEMMA TypedInit == Init => Typed
<1> SUFFICES ASSUME Init PROVE Typed
  OBVIOUS
<1>1. main \in MainRec
  BY DEF Init, MainRec, MainPcs, Flags
<1> QED
  BY <1>1 DEF Init, Typed, TypeOK, MainRec

LEMMA TypedStep == Typed /\ [Next]_vars => Typed'
<1> SUFFICES ASSUME Typed, [Next]_vars PROVE Typed'
  OBVIOUS
<1>0. /\ main \in MainRec /\ dpmCos \in Nat /\ hostFlags \in SUBSET Flags
      /\ netxCell \in SUBSET Flags /\ ioToggles \in SUBSET IoFlags
      /\ IoFlags \subseteq Flags /\ "COS" \in Flags /\ "SEND" \in Flags /\ "RECV" \in Flags
  BY DEF Typed, TypeOK, MainRec, Flags, IoFlags
<1>1. CASE Start
  <2>1. main' \in MainRec
    BY <1>0, <1>1 DEF Start, MainRec, MainPcs
  <2> QED
    BY <1>1, <2>1 DEF Start, Typed, TypeOK, MainRec
<1>2. CASE ReadNetxFlags
  <2>1. main' \in MainRec /\ main'.pc = "cos"
    BY <1>0, <1>2 DEF ReadNetxFlags, MainRec, MainPcs
  <2> QED
    BY <1>2, <2>1 DEF ReadNetxFlags, EnterLock, Typed, TypeOK, MainRec, DeviceIrqs
<1>3. CASE ReadCos
  <2>1. main' \in MainRec /\ main.pc = "cos"
    BY <1>0, <1>3 DEF ReadCos, MainRec, MainPcs
  <2>2. \/ main'.pc = "store_cos" /\ UNCHANGED locks
        \/ main'.pc = "check" /\ LeaveLock
    BY <1>0, <1>3 DEF ReadCos, MainRec
  <2>3. irqSem' = IF main'.pc \in Locked THEN 1 ELSE 0
    BY <2>1, <2>2 DEF LeaveLock, Typed
  <2>4. irqOff' = {}
    BY <2>2 DEF LeaveLock, Typed
  <2> QED
    BY <1>3, <2>1, <2>3, <2>4 DEF ReadCos, Typed, TypeOK, MainRec
<1>4. CASE StoreCos
  <2>1. main' \in MainRec /\ main'.pc = "load" /\ main.cos \in Nat
    BY <1>0, <1>4 DEF StoreCos, MainRec, MainPcs
  <2> QED
    BY <1>4, <2>1 DEF StoreCos, Typed, TypeOK, MainRec
<1>5. CASE Copy
  <2>1. main' \in MainRec /\ main'.pc = "load"
    BY <1>0, <1>5 DEF Copy, MainRec, MainPcs
  <2> QED
    BY <1>5, <2>1 DEF Copy, EnterLock, Typed, TypeOK, MainRec, DeviceIrqs
<1>6. CASE NotYet
  <2>1. main' \in MainRec /\ main'.pc \in {"flags", "idle"}
    BY <1>0, <1>6 DEF NotYet, Return, MainRec, MainPcs
  <2> QED
    BY <1>6, <2>1 DEF NotYet, Typed, TypeOK, MainRec
<1>7. CASE LoadFlags
  <2>1. Toggled(hostFlags, main.bit) \in SUBSET Flags
    BY <1>0, ToggledIsFlags DEF MainRec
  <2>2. main' \in MainRec /\ main'.pc = "store"
    BY <1>0, <1>7, <2>1 DEF LoadFlags, MainRec, MainPcs
  <2> QED
    BY <1>7, <2>2 DEF LoadFlags, Typed, TypeOK, MainRec
<1>8. CASE StoreFlags
  <2>1. main' \in MainRec /\ main'.pc = "write" /\ main.reg \in SUBSET Flags
    BY <1>0, <1>8 DEF StoreFlags, MainRec, MainPcs
  <2> QED
    BY <1>8, <2>1 DEF StoreFlags, Typed, TypeOK, MainRec
<1>9. CASE WriteCell
  <2>0. main.reg \in SUBSET Flags
    BY <1>0 DEF MainRec
  <2>1. main' \in MainRec /\ main'.pc \in {"check", "idle"}
    <3>1. CASE main.bit = "COS"
      <4>1. main' = [main EXCEPT !.pc = "check", !.bit = "SEND", !.reg = {}, !.cos = 0]
        BY <1>9, <3>1 DEF WriteCell
      <4>2. {} \in SUBSET Flags /\ 0 \in Nat /\ "check" \in MainPcs
        BY DEF MainPcs
      <4> QED
        BY <1>0, <4>1, <4>2 DEF MainRec
    <3>2. CASE Return
      BY <1>0, <3>2 DEF Return, MainRec, MainPcs
    <3> QED
      BY <1>9, <3>1, <3>2 DEF WriteCell
  <2>2. hostCell' \in SUBSET Flags
    BY <1>0, <1>9, <2>0 DEF WriteCell
  <2>3. irqSem' = 0 /\ irqOff' = {}
    BY <1>9 DEF WriteCell, LeaveLock, Typed
  <2> QED
    BY <1>9, <2>1, <2>2, <2>3 DEF WriteCell, Typed, TypeOK, MainRec
<1>10. CASE EnableTimer \/ IsrEnter
  BY <1>10 DEF EnableTimer, IsrEnter, Typed, TypeOK
<1>11. CASE IsrReadFlags
  <2>1. Toggled(hostFlags, "COS") \in SUBSET Flags
    BY <1>0, ToggledIsFlags
  <2> QED
    BY <1>11, <2>1 DEF IsrReadFlags, Typed, TypeOK
<1>12. CASE IsrExchange
  <2>1. \A b \in IoFlags : /\ Toggled(hostFlags, b) \in SUBSET Flags
                           /\ Toggled(ioToggles, b) \in SUBSET IoFlags
    BY <1>0, ToggledIsFlags
  <2> QED
    BY <1>12, <2>1 DEF IsrExchange, Typed, TypeOK
<1>13. CASE Netx
  <2>1. \A b \in Flags : Toggled(netxCell, b) \in SUBSET Flags
    BY <1>0, ToggledIsFlags
  <2> QED
    BY <1>0, <1>13, <2>1
    DEF Netx, NetxRead, NetxAck, NetxWrite, NetxCos, NetxIo, Typed, TypeOK
<1>14. CASE UNCHANGED vars
  BY <1>14 DEF vars, Typed, TypeOK
<1> QED
  BY <1>1, <1>2, <1>3, <1>4, <1>5, <1>6, <1>7, <1>8, <1>9, <1>10, <1>11, <1>12,
     <1>13, <1>14 DEF Next, Main, Isr

LEMMA SendInit == Init => SendInv
  BY DEF Init, SendInv, Agree, Unpublished, Differ

LEMMA SendStep == Typed /\ SendInv /\ [Next]_vars => SendInv'
<1> SUFFICES ASSUME Typed, SendInv, [Next]_vars PROVE SendInv'
  OBVIOUS
<1> USE DEF Differ
<1>0. main \in MainRec /\ sendBox \in Nat /\ recvBox \in Nat /\ hostGot \in Nat /\ netxGot \in Nat
  BY DEF Typed, TypeOK, MainRec
<1>1. CASE Start
  BY <1>0, <1>1 DEF MainRec, MainPcs, SendInv, Agree, Unpublished, Start
<1>2. CASE ReadNetxFlags
  BY <1>0, <1>2 DEF MainRec, MainPcs, SendInv, Agree, Unpublished, ReadNetxFlags
<1>3. CASE ReadCos
  BY <1>0, <1>3 DEF MainRec, MainPcs, SendInv, Agree, Unpublished, ReadCos
<1>4. CASE StoreCos
  BY <1>0, <1>4 DEF MainRec, MainPcs, SendInv, Agree, Unpublished, StoreCos
<1>5. CASE Copy
  BY <1>0, <1>5 DEF MainRec, MainPcs, SendInv, Agree, Unpublished, Copy, MayPut, MayGet
<1>6. CASE NotYet
  BY <1>0, <1>6 DEF MainRec, MainPcs, SendInv, Agree, Unpublished, NotYet, Return
<1>7. CASE LoadFlags
  BY <1>0, <1>7 DEF MainRec, MainPcs, SendInv, Agree, Unpublished, LoadFlags, Toggled
<1>8. CASE StoreFlags
  BY <1>0, <1>8 DEF MainRec, MainPcs, SendInv, Agree, Unpublished, StoreFlags
<1>9. CASE WriteCell
  <2>1. /\ main.pc = "write" /\ main'.pc \in {"check", "idle"}
        /\ UNCHANGED <<hostFlags, netxCopy, netxCell, sendBox, recvBox, hostGot, netxGot, netxPc>>
    <3>1. CASE main.bit = "COS"
      BY <1>0, <1>9, <3>1 DEF WriteCell, MainRec
    <3>2. CASE Return
      BY <1>9, <3>2 DEF WriteCell, Return
    <3> QED
      BY <1>9, <3>1, <3>2 DEF WriteCell
  <2>2. hostCell' = hostFlags \/ hostCell' = main.reg
    BY <1>9 DEF WriteCell
  <2>3. ~Differ(hostCell', hostFlags', "SEND")
    BY <2>1, <2>2 DEF SendInv, Agree
  <2> QED
    BY <2>1, <2>3 DEF SendInv, Agree, Unpublished
<1>10. CASE EnableTimer \/ IsrEnter
  BY <1>0, <1>10 DEF MainRec, MainPcs, SendInv, Agree, Unpublished, EnableTimer, IsrEnter
<1>11. CASE IsrReadFlags
  BY <1>0, <1>11 DEF MainRec, MainPcs, SendInv, Agree, Unpublished, IsrReadFlags, Toggled
<1>12. CASE IsrExchange
  BY <1>0, <1>12 DEF MainRec, MainPcs, SendInv, Agree, Unpublished, IsrExchange, IoFlags, Toggled
<1>13. CASE NetxRead
  BY <1>0, <1>13 DEF MainRec, MainPcs, SendInv, Agree, Unpublished, NetxRead
<1>14. CASE NetxAck
  BY <1>0, <1>14 DEF MainRec, MainPcs, SendInv, Agree, Unpublished, NetxAck, Toggled
<1>15. CASE NetxWrite
  BY <1>0, <1>15 DEF MainRec, MainPcs, SendInv, Agree, Unpublished, NetxWrite, Toggled
<1>16. CASE NetxCos \/ NetxIo
  BY <1>0, <1>16 DEF MainRec, MainPcs, SendInv, Agree, Unpublished, NetxCos, NetxIo, IoFlags, Toggled
<1>17. CASE UNCHANGED vars
  BY <1>0, <1>17 DEF MainRec, MainPcs, SendInv, Agree, Unpublished, vars
<1> QED
  BY <1>1, <1>2, <1>3, <1>4, <1>5, <1>6, <1>7, <1>8, <1>9, <1>10, <1>11, <1>12, <1>13, <1>14, <1>15, <1>16, <1>17 DEF Next, Main, Isr, Netx

LEMMA RecvInit == Init => RecvInv
  BY DEF Init, RecvInv, Agree, Unpublished, Differ

LEMMA RecvStep == Typed /\ RecvInv /\ [Next]_vars => RecvInv'
<1> SUFFICES ASSUME Typed, RecvInv, [Next]_vars PROVE RecvInv'
  OBVIOUS
<1> USE DEF Differ
<1>0. main \in MainRec /\ sendBox \in Nat /\ recvBox \in Nat /\ hostGot \in Nat /\ netxGot \in Nat
  BY DEF Typed, TypeOK, MainRec
<1>1. CASE Start
  BY <1>0, <1>1 DEF MainRec, MainPcs, RecvInv, Agree, Unpublished, Start
<1>2. CASE ReadNetxFlags
  BY <1>0, <1>2 DEF MainRec, MainPcs, RecvInv, Agree, Unpublished, ReadNetxFlags
<1>3. CASE ReadCos
  BY <1>0, <1>3 DEF MainRec, MainPcs, RecvInv, Agree, Unpublished, ReadCos
<1>4. CASE StoreCos
  BY <1>0, <1>4 DEF MainRec, MainPcs, RecvInv, Agree, Unpublished, StoreCos
<1>5. CASE Copy
  <2>1. /\ main.pc = "check" /\ main'.pc = "load"
        /\ UNCHANGED <<hostFlags, netxCopy, hostCell, netxCell, recvBox>>
    BY <1>0, <1>5 DEF Copy, MainRec
  <2>2. CASE main.op = "get"
    <3>1. main'.bit = "RECV" /\ hostGot' = recvBox /\ MayGet
      BY <1>0, <1>5, <2>2 DEF Copy, MainRec
    <3> QED
      BY <2>1, <3>1 DEF RecvInv, Agree, Unpublished, MayGet
  <2>3. CASE main.op # "get"
    <3>1. main'.bit = "SEND" /\ UNCHANGED hostGot
      BY <1>0, <1>5, <2>3 DEF Copy, MainRec
    <3> QED
      BY <2>1, <3>1 DEF RecvInv, Agree, Unpublished
  <2> QED
    BY <2>2, <2>3
<1>6. CASE NotYet
  BY <1>0, <1>6 DEF MainRec, MainPcs, RecvInv, Agree, Unpublished, NotYet, Return
<1>7. CASE LoadFlags
  BY <1>0, <1>7 DEF MainRec, MainPcs, RecvInv, Agree, Unpublished, LoadFlags, Toggled
<1>8. CASE StoreFlags
  BY <1>0, <1>8 DEF MainRec, MainPcs, RecvInv, Agree, Unpublished, StoreFlags
<1>9. CASE WriteCell
  <2>1. /\ main.pc = "write" /\ main'.pc \in {"check", "idle"}
        /\ UNCHANGED <<hostFlags, netxCopy, netxCell, sendBox, recvBox, hostGot, netxGot, netxPc>>
    <3>1. CASE main.bit = "COS"
      BY <1>0, <1>9, <3>1 DEF WriteCell, MainRec
    <3>2. CASE Return
      BY <1>9, <3>2 DEF WriteCell, Return
    <3> QED
      BY <1>9, <3>1, <3>2 DEF WriteCell
  <2>2. hostCell' = hostFlags \/ hostCell' = main.reg
    BY <1>9 DEF WriteCell
  <2>3. ~Differ(hostCell', hostFlags', "RECV")
    BY <2>1, <2>2 DEF RecvInv, Agree
  <2> QED
    BY <2>1, <2>3 DEF RecvInv, Agree, Unpublished
<1>10. CASE EnableTimer \/ IsrEnter
  BY <1>0, <1>10 DEF MainRec, MainPcs, RecvInv, Agree, Unpublished, EnableTimer, IsrEnter
<1>11. CASE IsrReadFlags
  BY <1>0, <1>11 DEF MainRec, MainPcs, RecvInv, Agree, Unpublished, IsrReadFlags, Toggled
<1>12. CASE IsrExchange
  BY <1>0, <1>12 DEF MainRec, MainPcs, RecvInv, Agree, Unpublished, IsrExchange, IoFlags, Toggled
<1>13. CASE NetxRead
  BY <1>0, <1>13 DEF MainRec, MainPcs, RecvInv, Agree, Unpublished, NetxRead
<1>14. CASE NetxAck
  BY <1>0, <1>14 DEF MainRec, MainPcs, RecvInv, Agree, Unpublished, NetxAck, Toggled
<1>15. CASE NetxWrite
  BY <1>0, <1>15 DEF MainRec, MainPcs, RecvInv, Agree, Unpublished, NetxWrite, Toggled
<1>16. CASE NetxCos \/ NetxIo
  BY <1>0, <1>16 DEF MainRec, MainPcs, RecvInv, Agree, Unpublished, NetxCos, NetxIo, IoFlags, Toggled
<1>17. CASE UNCHANGED vars
  BY <1>0, <1>17 DEF MainRec, MainPcs, RecvInv, Agree, Unpublished, vars
<1> QED
  BY <1>1, <1>2, <1>3, <1>4, <1>5, <1>6, <1>7, <1>8, <1>9, <1>10, <1>11, <1>12, <1>13, <1>14, <1>15, <1>16, <1>17 DEF Next, Main, Isr, Netx

(* The types of all variables (cifXHWFunctions.c).                          *)
THEOREM Typing == Spec => []TypeOK
<1>1. Typed => TypeOK
  BY DEF Typed
<1> QED
  BY <1>1, TypedInit, TypedStep, PTL DEF Spec

(* Every step of the handshake is one step of the channel, or none of them: *)
(* Copy writes, the cell written by DEV_ToggleBit or before it by the       *)
(* interrupt hands over, the netX reads and frees.                          *)
LEMMA SendMaps ==
  Typed /\ SendInv /\ [Next]_vars => [SendMailbox!Next]_(SendMailbox!cvars)
<1> SUFFICES ASSUME Typed, SendInv, [Next]_vars
             PROVE  [SendMailbox!Next]_(SendMailbox!cvars)
  OBVIOUS
<1> USE DEF Differ, SendInv, Agree, Unpublished
<1> DEFINE Full == Differ(hostCell, netxCell, "SEND")
           Same == UNCHANGED <<Full, sendBox, netxGot>>
<1>0. main \in MainRec /\ sendBox \in Nat /\ netxGot \in Nat
  BY DEF Typed, TypeOK, MainRec
<1>1. Same => UNCHANGED SendMailbox!cvars
  BY DEF SendMailbox!cvars
<1>2. ~Full /\ sendBox = netxGot + 1 /\ Full' /\ UNCHANGED <<sendBox, netxGot>>
      => SendMailbox!Hand
  BY DEF SendMailbox!Hand
<1>3. CASE Start \/ ReadNetxFlags \/ ReadCos \/ StoreCos \/ NotYet \/ LoadFlags \/ StoreFlags
  <2>1. Same
    BY <1>3 DEF Start, ReadNetxFlags, ReadCos, StoreCos, NotYet, LoadFlags, StoreFlags
  <2> QED
    BY <1>1, <2>1
<1>4. CASE Copy
  <2>1. main.pc = "check" /\ UNCHANGED <<hostCell, netxCell, netxGot>>
    BY <1>4 DEF Copy
  <2>2. CASE main.op = "put"
    <3>1. sendBox' = sendBox + 1 /\ MayPut
      BY <1>4, <2>2 DEF Copy
    <3>2. ~Full /\ sendBox = netxGot
      BY <2>1, <3>1 DEF MayPut
    <3>3. SendMailbox!Write
      BY <2>1, <3>1, <3>2 DEF SendMailbox!Write
    <3> QED
      BY <3>3 DEF SendMailbox!Next
  <2>3. CASE main.op # "put"
    <3>1. Same
      BY <1>4, <2>1, <2>3 DEF Copy
    <3> QED
      BY <1>1, <3>1
  <2> QED
    BY <2>2, <2>3
<1>5. CASE WriteCell
  <2>1. /\ main.pc = "write" /\ UNCHANGED <<hostFlags, netxCell, sendBox, netxGot>>
        /\ hostCell' = hostFlags \/ hostCell' = main.reg
    BY <1>5 DEF WriteCell
  <2>2. Same \/ (~Full /\ sendBox = netxGot + 1 /\ Full')
    BY <2>1
  <2> QED
    BY <1>1, <1>2, <2>1, <2>2 DEF SendMailbox!Next
<1>6. CASE EnableTimer \/ IsrEnter \/ UNCHANGED vars
  <2>1. Same
    BY <1>6 DEF EnableTimer, IsrEnter, vars
  <2> QED
    BY <1>1, <2>1
<1>7. CASE IsrReadFlags \/ IsrExchange
  <2>1. UNCHANGED <<netxCell, sendBox, netxGot>>
    BY <1>7 DEF IsrReadFlags, IsrExchange
  <2>2. \/ UNCHANGED hostCell
        \/ hostCell' = hostFlags' /\ ~Differ(hostFlags', hostFlags, "SEND")
    BY <1>7 DEF IsrReadFlags, IsrExchange, IoFlags, Toggled
  <2>3. Same \/ (~Full /\ sendBox = netxGot + 1 /\ Full')
    BY <2>1, <2>2
  <2> QED
    BY <1>1, <1>2, <2>1, <2>3 DEF SendMailbox!Next
<1>8. CASE NetxRead
  <2>1. SendMailbox!Read
    BY <1>0, <1>8 DEF NetxRead, SendMailbox!Read
  <2> QED
    BY <2>1 DEF SendMailbox!Next
<1>9. CASE NetxAck
  <2>1. SendMailbox!Free
    BY <1>0, <1>9, Toggling DEF NetxAck, SendMailbox!Free
  <2> QED
    BY <2>1 DEF SendMailbox!Next
<1>10. CASE NetxWrite \/ NetxCos \/ NetxIo
  <2>1. Same
    BY <1>10 DEF NetxWrite, NetxCos, NetxIo, IoFlags, Toggled
  <2> QED
    BY <1>1, <2>1
<1> QED
  BY <1>3, <1>4, <1>5, <1>6, <1>7, <1>8, <1>9, <1>10 DEF Next, Main, Isr, Netx

(* The send mailbox is a one-slot channel: DEV_PutPacket writes it only     *)
(* when the netX has freed it, and the netX reads every packet once, in     *)
(* order, however the interrupt's writes of the flag word fall.             *)
THEOREM SendOrder == Spec => SendInOrder
<1>1. Init => SendMailbox!Init
  BY DEF Init, SendMailbox!Init, Differ
<1> QED
  BY <1>1, TypedInit, TypedStep, SendInit, SendStep, SendMaps, PTL
  DEF Spec, SendInOrder, SendMailbox!Spec

(* DEV_GetPacket reads each packet of the receive mailbox once, in order,   *)
(* and gives the mailbox back only after it has read the packet.            *)
THEOREM ReceiveOrder == Spec => ReceivesInOrder
<1> DEFINE InOrder == hostGot' # hostGot => hostGot' = hostGot + 1
           ReadOnce == /\ hostGot \in {recvBox, recvBox - 1}
                       /\ ~Differ(hostCell, netxCell, "RECV") => hostGot = recvBox
<1>1. Typed /\ RecvInv => ReadOnce
  BY DEF Typed, TypeOK, RecvInv
<1>2. Typed /\ RecvInv /\ [Next]_vars => [InOrder]_vars
  <2> SUFFICES ASSUME Typed, RecvInv, Next, hostGot' # hostGot PROVE hostGot' = hostGot + 1
    OBVIOUS
  <2>1. Copy
    BY DEF Next, Main, Isr, Netx, Start, ReadNetxFlags, ReadCos, StoreCos, NotYet, LoadFlags,
           StoreFlags, WriteCell, EnableTimer, IsrEnter, IsrReadFlags, IsrExchange, NetxRead,
           NetxAck, NetxWrite, NetxCos, NetxIo
  <2>2. main.pc = "check" /\ MayGet /\ hostGot' = recvBox
    BY <2>1 DEF Copy
  <2>3. Differ(hostCell, netxCell, "RECV") /\ ~Unpublished("RECV")
    BY <2>2 DEF RecvInv, Agree, Unpublished, MayGet, Differ
  <2> QED
    BY <2>2, <2>3 DEF RecvInv
<1> QED
  BY <1>1, <1>2, TypedInit, TypedStep, RecvInit, RecvStep, PTL DEF Spec, ReceivesInOrder

(* While the timer interrupt is not enabled: what main.reg, usHostFlags and *)
(* the cell hold at each place of DEV_ToggleBit.                            *)
FlagsQuiet ==
  timer = FALSE =>
    /\ isr = "off" /\ ioToggles = {}
    /\ \A b \in IoFlags : b \notin hostFlags
    /\ main.pc \in {"load", "store", "write"} => main.bit \notin IoFlags
    /\ main.pc = "store" => main.reg = Toggled(hostFlags, main.bit)
    /\ main.pc = "write" => /\ main.reg = hostFlags
                            /\ hostFlags = Toggled(hostCell, main.bit)
    /\ main.pc # "write" => hostCell = hostFlags

(* A reported change of state stays until it is acknowledged, and it is     *)
(* acknowledged after ulCommunicationCOS has been kept.                     *)
CosQuiet ==
  timer = FALSE =>
    /\ main.pc = "cos" /\ Differ(netxCopy, hostFlags, "COS")
         => Differ(hostCell, netxCell, "COS")
    /\ main.pc = "store_cos" => /\ Differ(hostCell, netxCell, "COS")
                                /\ main.cos = dpmCos
    /\ main.pc \in {"load", "store", "write"} /\ main.bit = "COS"
         => Differ(hostCell, netxCell, "COS") /\ devCos = dpmCos
    /\ ~Differ(hostCell, netxCell, "COS") => devCos = dpmCos

LEMMA QuietInit == Init => FlagsQuiet /\ CosQuiet
  BY DEF Init, FlagsQuiet, CosQuiet, Differ

LEMMA CopyGoesOn == main \in MainRec /\ Copy
                      => /\ main.pc = "check" /\ main'.pc = "load"
                         /\ main'.bit \in {"SEND", "RECV"}
<1> SUFFICES ASSUME main \in MainRec, Copy
             PROVE  main.pc = "check" /\ main'.pc = "load" /\ main'.bit \in {"SEND", "RECV"}
  OBVIOUS
<1>1. CASE main' = [main EXCEPT !.pc = "load", !.bit = "SEND"]
  BY <1>1 DEF Copy, MainAt, MainRec
<1>2. CASE main' = [main EXCEPT !.pc = "load", !.bit = "RECV"]
  BY <1>2 DEF Copy, MainAt, MainRec
<1> QED
  BY <1>1, <1>2 DEF Copy

LEMMA StartOrNotYet == main \in MainRec /\ (Start \/ NotYet) => main'.pc \in {"idle", "flags"}
<1>1. ASSUME main \in MainRec, Start PROVE main'.pc = "flags"
  <2>1. PICK op \in {"put", "get"} : main' = [main EXCEPT !.pc = "flags", !.op = op]
    BY <1>1 DEF Start
  <2> QED
    BY <1>1, <2>1 DEF MainRec
<1>2. ASSUME main \in MainRec, NotYet PROVE main'.pc \in {"idle", "flags"}
  <2>1. CASE Return
    BY <2>1 DEF Return
  <2>2. CASE main' = [main EXCEPT !.pc = "flags"]
    BY <1>2, <2>2 DEF MainRec
  <2> QED
    BY <1>2, <2>1, <2>2 DEF NotYet
<1> QED
  BY <1>1, <1>2

LEMMA FlagsQuietStep == Typed /\ FlagsQuiet /\ [Next]_vars => FlagsQuiet'
<1> SUFFICES ASSUME Typed, FlagsQuiet, [Next]_vars, timer' = FALSE PROVE FlagsQuiet'
  BY DEF FlagsQuiet
<1>0. main \in MainRec /\ timer \in BOOLEAN
  BY DEF Typed, TypeOK, MainRec
<1>1. timer = FALSE
  BY <1>0 DEF Next, Main, Isr, Netx, Start, ReadNetxFlags, ReadCos, StoreCos, Copy, NotYet,
     LoadFlags, StoreFlags, WriteCell, EnableTimer, IsrEnter, IsrReadFlags, IsrExchange,
     NetxRead, NetxAck, NetxWrite, NetxCos, NetxIo, vars
<1>2. /\ isr = "off" /\ ioToggles = {}
      /\ \A b \in IoFlags : b \notin hostFlags
      /\ main.pc \in {"load", "store", "write"} => main.bit \notin IoFlags
      /\ main.pc = "store" => main.reg = Toggled(hostFlags, main.bit)
      /\ main.pc = "write" => /\ main.reg = hostFlags
                              /\ hostFlags = Toggled(hostCell, main.bit)
      /\ main.pc # "write" => hostCell = hostFlags
  BY <1>1 DEF FlagsQuiet
<1>3. CASE Start \/ ReadNetxFlags \/ ReadCos \/ NotYet
  <2>1. main'.pc \in {"idle", "flags", "cos", "store_cos", "check"}
    <3>1. CASE Start \/ NotYet
      BY <1>0, <3>1, StartOrNotYet
    <3>2. CASE ReadNetxFlags \/ ReadCos
      BY <1>0, <3>2 DEF ReadNetxFlags, ReadCos, MainRec
    <3> QED
      BY <1>3, <3>1, <3>2
  <2>2. /\ main.pc \in {"idle", "flags", "cos", "check"}
        /\ UNCHANGED <<hostFlags, hostCell, isr, ioToggles>>
    BY <1>3 DEF Start, ReadNetxFlags, ReadCos, NotYet
  <2> QED
    BY <1>2, <2>1, <2>2 DEF FlagsQuiet
<1>4. CASE StoreCos \/ Copy
  <2>1. /\ main.pc \in {"store_cos", "check"} /\ main'.pc = "load"
        /\ main'.bit \in {"COS", "SEND", "RECV"}
    <3>1. CASE StoreCos
      BY <1>0, <3>1 DEF StoreCos, MainRec
    <3>2. CASE Copy
      BY <1>0, <3>2, CopyGoesOn
    <3> QED
      BY <1>4, <3>1, <3>2
  <2>2. UNCHANGED <<hostFlags, hostCell, isr, ioToggles>>
    BY <1>4 DEF StoreCos, Copy
  <2> QED
    BY <1>2, <2>1, <2>2 DEF FlagsQuiet, IoFlags
<1>5. CASE LoadFlags
  <2>1. /\ main.pc = "load" /\ main'.pc = "store" /\ main'.bit = main.bit
        /\ main'.reg = Toggled(hostFlags, main.bit)
        /\ UNCHANGED <<hostFlags, hostCell, isr, ioToggles>>
    BY <1>0, <1>5 DEF LoadFlags, MainRec
  <2> QED
    BY <1>2, <2>1 DEF FlagsQuiet
<1>6. CASE StoreFlags
  <2>1. /\ main.pc = "store" /\ main'.pc = "write" /\ main'.bit = main.bit
        /\ main'.reg = main.reg /\ hostFlags' = main.reg
        /\ UNCHANGED <<hostCell, isr, ioToggles>>
    BY <1>0, <1>6 DEF StoreFlags, MainRec
  <2>2. hostFlags' = Toggled(hostCell, main.bit) /\ main.bit \notin IoFlags
    BY <1>2, <2>1
  <2>3. \A b \in IoFlags : b \notin hostFlags'
    BY <1>2, <2>1, <2>2, Toggling
  <2> QED
    BY <1>2, <2>1, <2>2, <2>3 DEF FlagsQuiet
<1>7. CASE WriteCell
  <2>1. /\ main.pc = "write" /\ main'.pc \in {"check", "idle"}
        /\ UNCHANGED <<hostFlags, isr, ioToggles>>
    <3>1. CASE main.bit = "COS"
      BY <1>0, <1>7, <3>1 DEF WriteCell, MainRec
    <3>2. CASE Return
      BY <1>7, <3>2 DEF WriteCell, Return
    <3> QED
      BY <1>7, <3>1, <3>2 DEF WriteCell
  <2>2. hostCell' = hostFlags
    BY <1>2, <1>7, <2>1 DEF WriteCell
  <2> QED
    BY <1>2, <2>1, <2>2 DEF FlagsQuiet
<1>8. CASE Isr
  BY <1>1, <1>2, <1>8 DEF Isr, EnableTimer, IsrEnter, IsrReadFlags, IsrExchange
<1>9. CASE Netx \/ UNCHANGED vars
  <2>1. UNCHANGED <<hostFlags, hostCell, isr, ioToggles, main>>
    BY <1>9 DEF Netx, NetxRead, NetxAck, NetxWrite, NetxCos, NetxIo, vars
  <2> QED
    BY <1>2, <2>1 DEF FlagsQuiet
<1> QED
  BY <1>3, <1>4, <1>5, <1>6, <1>7, <1>8, <1>9 DEF Next, Main

LEMMA CosQuietStep == Typed /\ FlagsQuiet /\ CosQuiet /\ [Next]_vars => CosQuiet'
<1> SUFFICES ASSUME Typed, FlagsQuiet, CosQuiet, [Next]_vars, timer' = FALSE
             PROVE  CosQuiet'
  BY DEF CosQuiet
<1> USE DEF Differ
<1>0. main \in MainRec /\ timer \in BOOLEAN
  BY DEF Typed, TypeOK, MainRec
<1>1. timer = FALSE
  BY <1>0 DEF Next, Main, Isr, Netx, Start, ReadNetxFlags, ReadCos, StoreCos, Copy, NotYet,
     LoadFlags, StoreFlags, WriteCell, EnableTimer, IsrEnter, IsrReadFlags, IsrExchange,
     NetxRead, NetxAck, NetxWrite, NetxCos, NetxIo, vars
<1>2. /\ isr = "off"
      /\ main.pc = "store" => main.reg = Toggled(hostFlags, main.bit)
      /\ main.pc = "write" => /\ main.reg = hostFlags
                              /\ hostFlags = Toggled(hostCell, main.bit)
      /\ main.pc # "write" => hostCell = hostFlags
  BY <1>1 DEF FlagsQuiet
<1>3. /\ main.pc = "cos" /\ Differ(netxCopy, hostFlags, "COS")
           => Differ(hostCell, netxCell, "COS")
      /\ main.pc = "store_cos" => /\ Differ(hostCell, netxCell, "COS")
                                  /\ main.cos = dpmCos
      /\ main.pc \in {"load", "store", "write"} /\ main.bit = "COS"
           => Differ(hostCell, netxCell, "COS") /\ devCos = dpmCos
      /\ ~Differ(hostCell, netxCell, "COS") => devCos = dpmCos
  BY <1>1 DEF CosQuiet
<1>4. CASE Start \/ NotYet
  <2>1. main'.pc \in {"idle", "flags"}
    BY <1>0, <1>4, StartOrNotYet
  <2>2. UNCHANGED <<hostCell, netxCell, devCos, dpmCos>>
    BY <1>4 DEF Start, NotYet
  <2> QED
    BY <1>3, <2>1, <2>2 DEF CosQuiet
<1>5. CASE ReadNetxFlags
  <2>1. /\ main.pc = "flags" /\ main'.pc = "cos" /\ netxCopy' = netxCell
        /\ UNCHANGED <<hostFlags, hostCell, netxCell, devCos, dpmCos>>
    BY <1>0, <1>5 DEF ReadNetxFlags, MainRec
  <2> QED
    BY <1>2, <1>3, <2>1 DEF CosQuiet
<1>6. CASE ReadCos
  <2>1. /\ main.pc = "cos"
        /\ UNCHANGED <<netxCopy, hostFlags, hostCell, netxCell, devCos, dpmCos>>
    BY <1>6 DEF ReadCos
  <2>2. CASE Differ(netxCopy, hostFlags, "COS")
    <3>1. main'.pc = "store_cos" /\ main'.cos = dpmCos
      BY <1>0, <1>6, <2>2 DEF ReadCos, MainRec
    <3> QED
      BY <1>3, <2>1, <2>2, <3>1 DEF CosQuiet
  <2>3. CASE ~Differ(netxCopy, hostFlags, "COS")
    <3>1. main'.pc = "check"
      BY <1>0, <1>6, <2>3 DEF ReadCos, MainRec
    <3> QED
      BY <1>3, <2>1, <3>1 DEF CosQuiet
  <2> QED
    BY <2>2, <2>3
<1>7. CASE StoreCos
  <2>1. /\ main.pc = "store_cos" /\ main'.pc = "load" /\ devCos' = main.cos
        /\ UNCHANGED <<hostCell, netxCell, dpmCos>>
    BY <1>0, <1>7 DEF StoreCos, MainRec
  <2> QED
    BY <1>3, <2>1 DEF CosQuiet
<1>8. CASE Copy
  <2>1. main'.pc = "load" /\ main'.bit \in {"SEND", "RECV"}
    BY <1>0, <1>8, CopyGoesOn
  <2>2. main.pc = "check" /\ UNCHANGED <<hostCell, netxCell, devCos, dpmCos>>
    BY <1>8 DEF Copy
  <2> QED
    BY <1>3, <2>1, <2>2 DEF CosQuiet
<1>9. CASE LoadFlags \/ StoreFlags
  <2>1. /\ main.pc \in {"load", "store"} /\ main'.pc \in {"store", "write"}
        /\ main'.bit = main.bit
        /\ UNCHANGED <<hostCell, netxCell, devCos, dpmCos>>
    BY <1>0, <1>9 DEF LoadFlags, StoreFlags, MainRec
  <2> QED
    BY <1>3, <2>1 DEF CosQuiet
<1>10. CASE WriteCell
  <2>1. /\ main.pc = "write" /\ main'.pc \in {"check", "idle"}
        /\ UNCHANGED <<netxCell, devCos, dpmCos>>
    <3>1. CASE main.bit = "COS"
      BY <1>0, <1>10, <3>1 DEF WriteCell, MainRec
    <3>2. CASE Return
      BY <1>10, <3>2 DEF WriteCell, Return
    <3> QED
      BY <1>10, <3>1, <3>2 DEF WriteCell
  <2>2. hostCell' = Toggled(hostCell, main.bit)
    BY <1>2, <1>10, <2>1 DEF WriteCell
  <2>3. ~Differ(hostCell', netxCell, "COS") => devCos = dpmCos
    BY <1>3, <2>1, <2>2, Toggling
  <2> QED
    BY <2>1, <2>3 DEF CosQuiet
<1>11. CASE Isr
  BY <1>1, <1>2, <1>11 DEF Isr, EnableTimer, IsrEnter, IsrReadFlags, IsrExchange
<1>12. CASE NetxCos
  <2>1. /\ ~Differ(hostCell, netxCell, "COS") /\ netxCell' = Toggled(netxCell, "COS")
        /\ UNCHANGED <<main, hostFlags, netxCopy, hostCell, devCos>>
    BY <1>12 DEF NetxCos
  <2>2. Differ(hostCell', netxCell', "COS")
    BY <2>1, Toggling
  <2> QED
    BY <1>3, <2>1, <2>2 DEF CosQuiet
<1>13. CASE NetxRead \/ NetxAck \/ NetxWrite \/ NetxIo \/ UNCHANGED vars
  <2>1. /\ UNCHANGED <<main, hostFlags, netxCopy, hostCell, devCos, dpmCos>>
        /\ "COS" \in netxCell' <=> "COS" \in netxCell
    BY <1>13 DEF NetxRead, NetxAck, NetxWrite, NetxIo, vars, IoFlags, Toggled
  <2> QED
    BY <1>3, <2>1 DEF CosQuiet
<1> QED
  BY <1>4, <1>5, <1>6, <1>7, <1>8, <1>9, <1>10, <1>11, <1>12, <1>13 DEF Next, Main, Netx

(* As long as the timer interrupt is not enabled, the cell holds what       *)
(* usHostFlags holds whenever the main loop is not inside DEV_ToggleBit, no *)
(* process data flag changes, and a change of state that counts as          *)
(* acknowledged has been read into ulDeviceCOSFlags.                        *)
THEOREM MailboxOnlyConsistency == Spec => []MailboxOnlyIsConsistent
<1>1. FlagsQuiet /\ CosQuiet => MailboxOnlyIsConsistent
  BY DEF FlagsQuiet, CosQuiet, MailboxOnlyIsConsistent, FlagsPublished, Settled
<1> QED
  BY <1>1, TypedInit, TypedStep, QuietInit, FlagsQuietStep, CosQuietStep, PTL DEF Spec
=============================================================================
