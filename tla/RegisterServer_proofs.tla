------------------------ MODULE RegisterServer_proofs ------------------------
(***************************************************************************)
(* Theorems about the register server, for every size of the table, every  *)
(* number of configurations and every 32 bit address.                      *)
(*                                                                         *)
(* The argument: the table only ever grows at its end, and what it grows   *)
(* by are registers that it has already unless it is full.  The first      *)
(* entry that covers an address is therefore found again.                  *)
(***************************************************************************)
EXTENDS RegisterServer, SearchLemmas, TLAPS, SequenceTheorems, FiniteSetTheorems

Tables == {t \in Seq(EntryType) : Len(t) <= MaxHandlers}

(* A table t that was continued as u.                                       *)
Extends(u, t) ==
  /\ Len(t) <= Len(u)
  /\ \A i \in 1 .. Len(t) : u[i] = t[i]

(* Everything after the end of t is in t already.                           *)
OnlyRepeats(u, t) ==
  \A i \in 1 .. Len(u) : \E j \in 1 .. Len(t) : u[i] = t[j]

(* acyclic_handler_find depends on the first covering entry only.           *)
LEMMA FindFirst ==
  ASSUME NEW t \in Seq(EntryType), NEW a \in Nat, NEW m \in Covering(t, a),
         \A n \in Covering(t, a) : m <= n
  PROVE  Find(t, a) = t[m]
<1>1. Covering(t, a) \subseteq Nat
  BY LenProperties DEF Covering
<1>2. \A i \in Covering(t, a) : (\A j \in Covering(t, a) : i <= j) => i = m
  BY <1>1
<1>3. (CHOOSE i \in Covering(t, a) : \A j \in Covering(t, a) : i <= j) = m
  BY <1>2
<1> QED
  BY <1>3 DEF Find

(* A table continued by repetitions finds what it found before.             *)
LEMMA FindStable ==
  ASSUME NEW t \in Seq(EntryType), NEW u \in Seq(EntryType), NEW a \in Nat,
         Extends(u, t), OnlyRepeats(u, t)
  PROVE  Find(u, a) = Find(t, a)
<1>1. /\ Len(t) \in Nat /\ DOMAIN t = 1 .. Len(t)
      /\ Len(u) \in Nat /\ DOMAIN u = 1 .. Len(u)
  BY LenProperties
<1>2. Covering(t, a) \subseteq Covering(u, a)
  BY <1>1 DEF Covering, Extends
<1>3. CASE Covering(t, a) = {}
  <2>1. Covering(u, a) = {}
    BY <1>1, <1>3 DEF Covering, OnlyRepeats
  <2> QED
    BY <1>3, <2>1 DEF Find
<1>4. CASE Covering(t, a) # {}
  <2>1. Covering(t, a) \subseteq Nat
    BY <1>1 DEF Covering
  <2>2. PICK m \in Covering(t, a) : \A n \in Covering(t, a) : m <= n
    BY <1>4, <2>1, LeastElement
  <2>3. m \in 1 .. Len(t) /\ u[m] = t[m] /\ m \in Covering(u, a)
    BY <1>1, <1>2 DEF Covering, Extends
  <2>4. \A n \in Covering(u, a) : m <= n
    <3> SUFFICES ASSUME NEW n \in Covering(u, a), n < m PROVE FALSE
      BY <1>1, <2>3 DEF Covering
    <3>1. n \in 1 .. Len(t) /\ u[n] = t[n]
      BY <1>1, <2>3 DEF Covering, Extends
    <3>2. n \in Covering(t, a)
      BY <1>1, <3>1 DEF Covering
    <3> QED
      BY <1>1, <2>2, <2>3, <3>1, <3>2
  <2>5. Find(t, a) = t[m]
    BY <2>2, FindFirst
  <2>6. Find(u, a) = u[m]
    BY <2>3, <2>4, FindFirst
  <2> QED
    BY <2>3, <2>5, <2>6
<1> QED
  BY <1>3, <1>4

(* What acyclic_reg_handler writes into a slot is an entry.                 *)
LEMMA EntryIsEntry ==
  ASSUME NEW type \in {"IN", "OUT"}, NEW addr \in Nat, NEW qty \in Nat \ {0},
         NEW handler \in HandlerNames
  PROVE  Entry(type, addr, qty, handler) \in EntryType
  BY DEF Entry, EntryType

(* RegisterHandlers registers a fixed sequence of entries.                  *)
LEMMA RegistersType == Registers \in Seq(EntryType) /\ Len(Registers) = 6
<1> DEFINE a == Entry("IN", 65000, 4, "time")
           b == Entry("IN", 65100, 1, "temperature")
           c == Entry("IN", 10000, 23, "device_info")
           d == Entry("OUT", 60000, 1, "key")
           e == Entry("OUT", 65100, 1, "watchdog_interval")
           f == Entry("OUT", 65101, 1, "watchdog_count")
<1>1. a \in EntryType /\ b \in EntryType /\ c \in EntryType
  BY EntryIsEntry DEF HandlerNames
<1>2. d \in EntryType /\ e \in EntryType /\ f \in EntryType
  BY EntryIsEntry DEF HandlerNames
<1>3. Registers = (<<a, b, c, d>> \o << >>) \o <<e, f>>
  BY DEF Registers, mfg_enabled
<1> HIDE DEF a, b, c, d, e, f
<1> DEFINE A == <<a, b, c, d>>
           B == <<e, f>>
<1>4. A \in Seq(EntryType) /\ Len(A) = 4
  BY <1>1, <1>2
<1>5. B \in Seq(EntryType) /\ Len(B) = 2
  BY <1>2
<1>6. Registers = (A \o << >>) \o B
  BY <1>3
<1> HIDE DEF A, B
<1>7. A \o << >> = A
  BY <1>4, ConcatEmptySeq
<1>8. A \o B \in Seq(EntryType) /\ Len(A \o B) = Len(A) + Len(B)
  BY <1>4, <1>5, ConcatProperties
<1> QED
  BY <1>4, <1>5, <1>6, <1>7, <1>8

(* What acyclic_reg_handler makes of a table: another one, longer at most   *)
(* by the registers, and complete unless it is full.                        *)
LEMMA FilledTable ==
  ASSUME NEW t \in Tables, NEW regs \in Seq(EntryType)
  PROVE  /\ Filled(t, regs) \in Tables
         /\ Extends(Filled(t, regs), t)
         /\ Len(Filled(t, regs)) = IF Len(t) + Len(regs) <= MaxHandlers
                                   THEN Len(t) + Len(regs) ELSE MaxHandlers
         /\ \A i \in Len(t) + 1 .. Len(Filled(t, regs)) :
              i - Len(t) \in 1 .. Len(regs) /\ Filled(t, regs)[i] = regs[i - Len(t)]
<1> DEFINE n == IF Len(t) + Len(regs) <= MaxHandlers
                THEN Len(t) + Len(regs) ELSE MaxHandlers
           u == Filled(t, regs)
<1>1. /\ Len(t) \in Nat /\ t \in [1 .. Len(t) -> EntryType] /\ Len(t) <= MaxHandlers
      /\ Len(regs) \in Nat /\ regs \in [1 .. Len(regs) -> EntryType]
      /\ MaxHandlers \in Nat
  BY LenProperties, ServerAssumption DEF Tables
<1>2. n \in Nat /\ Len(t) <= n /\ n <= MaxHandlers /\ n <= Len(t) + Len(regs)
  BY <1>1
<1>3. u = [i \in 1 .. n |-> IF i <= Len(t) THEN t[i] ELSE regs[i - Len(t)]]
  BY DEF Filled
<1> HIDE DEF n, u
<1>4. \A i \in 1 .. n : i > Len(t) => i - Len(t) \in 1 .. Len(regs)
  BY <1>1, <1>2
<1>5. u \in [1 .. n -> EntryType]
  BY <1>1, <1>2, <1>3, <1>4
<1>6. u \in Seq(EntryType)
  BY <1>2, <1>5, SeqDef
<1>7. Len(u) = n
  BY <1>2, <1>5, <1>6, LenProperties
<1>8. Extends(u, t)
  BY <1>1, <1>2, <1>3, <1>7 DEF Extends
<1>9. \A i \in Len(t) + 1 .. Len(u) :
        i - Len(t) \in 1 .. Len(regs) /\ u[i] = regs[i - Len(t)]
  BY <1>1, <1>2, <1>3, <1>4, <1>7
<1> QED
  BY <1>2, <1>6, <1>7, <1>8, <1>9 DEF Tables, u, n

----------------------------------------------------------------------------
(* The inductive invariant                                                  *)

(* Every entry is one of the registers; the first configuration brings all  *)
(* of them, as far as the table has room.                                   *)
TableComplete ==
  /\ OnlyRepeats(handlers, Registers)
  /\ configs > 0 => \/ Len(handlers) = MaxHandlers
                    \/ OnlyRepeats(Registers, handlers)

IInv == TypeOK /\ handlers \in Tables /\ TableComplete

(* The registration of all registers after a configuration.                 *)
LEMMA RegisterStep ==
  ASSUME IInv, RegisterHandlers
  PROVE  /\ handlers' \in Tables
         /\ TableComplete'
         /\ Extends(handlers', handlers)
         /\ configs > 0 => OnlyRepeats(handlers', handlers)
<1> DEFINE u == Filled(handlers, Registers)
<1>1. /\ handlers \in Tables /\ Registers \in Seq(EntryType) /\ Len(Registers) = 6
      /\ Len(handlers) \in Nat /\ MaxHandlers \in Nat /\ Len(handlers) <= MaxHandlers
  BY RegistersType, LenProperties, ServerAssumption DEF IInv, Tables
<1>2. handlers' = u /\ configs' = configs + 1 /\ configs \in Nat
  BY DEF RegisterHandlers, IInv, TypeOK
<1>3. /\ u \in Tables /\ Extends(u, handlers)
      /\ Len(u) = IF Len(handlers) + 6 <= MaxHandlers THEN Len(handlers) + 6
                                                      ELSE MaxHandlers
      /\ \A i \in Len(handlers) + 1 .. Len(u) :
           i - Len(handlers) \in 1 .. 6 /\ u[i] = Registers[i - Len(handlers)]
  BY <1>1, FilledTable
<1> HIDE DEF u
<1>4. OnlyRepeats(u, Registers)
  <2> SUFFICES ASSUME NEW i \in 1 .. Len(u)
               PROVE  \E j \in 1 .. Len(Registers) : u[i] = Registers[j]
    BY DEF OnlyRepeats
  <2>1. CASE i <= Len(handlers)
    <3>1. i \in 1 .. Len(handlers) /\ u[i] = handlers[i]
      BY <1>1, <1>3, <2>1 DEF Extends
    <3> QED
      BY <3>1 DEF IInv, TableComplete, OnlyRepeats
  <2>2. CASE i > Len(handlers)
    <3>1. Len(u) \in Nat /\ i \in Len(handlers) + 1 .. Len(u)
      BY <1>1, <1>3, <2>2
    <3> QED
      BY <1>1, <1>3, <3>1
  <2> QED
    BY <1>1, <2>1, <2>2
<1>5. configs' > 0 => Len(u) = MaxHandlers \/ OnlyRepeats(Registers, u)
  <2> SUFFICES ASSUME Len(u) # MaxHandlers PROVE OnlyRepeats(Registers, u)
    OBVIOUS
  <2>1. Len(u) = Len(handlers) + 6
    BY <1>3
  <2>2. ASSUME NEW j \in 1 .. 6
        PROVE  \E i \in 1 .. Len(u) : Registers[j] = u[i]
    <3>1. /\ Len(handlers) + j \in 1 .. Len(u)
          /\ Len(handlers) + j \in Len(handlers) + 1 .. Len(u)
          /\ (Len(handlers) + j) - Len(handlers) = j
      BY <1>1, <2>1
    <3> QED
      BY <1>3, <3>1
  <2> QED
    BY <1>1, <2>2 DEF OnlyRepeats
<1>6. configs > 0 => OnlyRepeats(u, handlers)
  <2> SUFFICES ASSUME configs > 0, NEW i \in 1 .. Len(u)
               PROVE  \E j \in 1 .. Len(handlers) : u[i] = handlers[j]
    BY DEF OnlyRepeats
  <2>1. CASE i <= Len(handlers)
    <3>1. i \in 1 .. Len(handlers) /\ u[i] = handlers[i]
      BY <1>1, <1>3, <2>1 DEF Extends
    <3> QED
      BY <3>1
  <2>2. CASE i > Len(handlers)
    <3>1. Len(u) \in Nat /\ i \in Len(handlers) + 1 .. Len(u)
      BY <1>1, <1>3, <2>2
    <3>2. Len(handlers) # MaxHandlers
      BY <1>1, <1>3, <3>1
    <3>3. OnlyRepeats(Registers, handlers)
      BY <3>2 DEF IInv, TableComplete
    <3>4. i - Len(handlers) \in 1 .. Len(Registers) /\ u[i] = Registers[i - Len(handlers)]
      BY <1>1, <1>3, <3>1
    <3> QED
      BY <3>3, <3>4 DEF OnlyRepeats
  <2> QED
    BY <1>1, <2>1, <2>2
<1> QED
  BY <1>2, <1>3, <1>4, <1>5, <1>6 DEF TableComplete

(* Before anything is registered the table is empty.                        *)
LEMMA Initially == Init => IInv
<1> SUFFICES ASSUME Init PROVE IInv
  OBVIOUS
<1>1. handlers \in Seq(EntryType) /\ Len(handlers) = 0
  BY DEF Init
<1>2. handlers \in Tables /\ DOMAIN handlers = {}
  BY <1>1, LenProperties, ServerAssumption DEF Tables
<1>3. TypeOK
  BY <1>1, <1>2, ServerAssumption DEF Init, TypeOK
<1>4. TableComplete
  BY <1>1 DEF Init, TableComplete, OnlyRepeats
<1> QED
  BY <1>2, <1>3, <1>4 DEF IInv

(* Only RegisterHandlers changes the table.                                 *)
LEMMA Inductive == IInv /\ [Next]_vars => IInv'
<1> SUFFICES ASSUME IInv, [Next]_vars PROVE IInv'
  OBVIOUS
<1>1. ASSUME UNCHANGED <<handlers, configs>>
      PROVE  handlers' \in Tables /\ TableComplete'
  BY <1>1 DEF IInv, TableComplete, OnlyRepeats
<1>2. CASE Receive
  BY <1>1, <1>2 DEF Receive, IInv, TypeOK
<1>3. CASE AssemblyService
  <2>1. request \in Requests
    BY <1>3 DEF AssemblyService, IInv, TypeOK, NoRequest
  <2>2. request.first \in Words
    BY <2>1 DEF Requests
  <2>3. TypeOK'
    BY <1>3, <2>2 DEF AssemblyService, AnswerWith, IInv, TypeOK
  <2> QED
    BY <1>1, <1>3, <2>3 DEF AssemblyService, AnswerWith, IInv
<1>4. CASE WrongInstance
  BY <1>1, <1>4 DEF WrongInstance, AnswerWith, IInv, TypeOK
<1>5. CASE RegisterService
  BY <1>1, <1>5 DEF RegisterService, AnswerWith, SetKey, IInv, TypeOK
<1>6. CASE UnknownClass
  BY <1>1, <1>6 DEF UnknownClass, AnswerWith, IInv, TypeOK
<1>7. CASE RegisterHandlers
  <2>1. handlers' \in Tables /\ TableComplete'
    BY <1>7, RegisterStep
  <2>2. /\ Len(handlers') <= MaxHandlers
        /\ \A i \in DOMAIN handlers' : handlers'[i] \in EntryType
    BY <2>1, LenProperties DEF Tables
  <2>3. TypeOK'
    BY <1>7, <2>2 DEF RegisterHandlers, IInv, TypeOK
  <2> QED
    BY <2>1, <2>3 DEF IInv
<1>8. CASE UNCHANGED vars
  BY <1>1, <1>8 DEF vars, IInv, TypeOK
<1> QED
  BY <1>2, <1>3, <1>4, <1>5, <1>6, <1>7, <1>8 DEF Next

(* The table holds registers only, all of them unless it is full.           *)
THEOREM Invariance == Spec => []IInv
  BY Initially, Inductive, PTL DEF Spec

(* The types of the register server hold in every reachable state.          *)
THEOREM Typing == Spec => []TypeOK
<1>1. IInv => TypeOK
  BY DEF IInv
<1> QED
  BY <1>1, Invariance, PTL

(* However often the stack is configured, and however small the table, an   *)
(* address keeps the handler that the first configuration gave it.          *)
THEOREM AddressStability == Spec => AddressesKeepHandlers
<1>1. ASSUME IInv, [Next]_vars
      PROVE  [configs > 0 => \A a \in Attributes : Find(handlers', a) = Find(handlers, a)]_vars
  <2> SUFFICES ASSUME configs > 0, NEW a \in Attributes
               PROVE  Find(handlers', a) = Find(handlers, a)
    OBVIOUS
  <2>1. a \in Nat /\ handlers \in Seq(EntryType)
    BY <1>1, ServerAssumption DEF IInv, Tables
  <2>2. CASE RegisterHandlers
    <3>1. /\ handlers' \in Seq(EntryType) /\ Extends(handlers', handlers)
          /\ OnlyRepeats(handlers', handlers)
      BY <1>1, <2>2, RegisterStep DEF Tables
    <3> QED
      BY <2>1, <3>1, FindStable
  <2>3. CASE UNCHANGED handlers
    BY <2>3
  <2> QED
    BY <1>1, <2>2, <2>3
    DEF Next, vars, Receive, AssemblyService, WrongInstance, RegisterService,
        UnknownClass, AnswerWith
<1> QED
  BY <1>1, Invariance, PTL DEF Spec, AddressesKeepHandlers

(* Services answered with an error leave the key and the configuration data *)
(* as they were: the handlers check everything before they write.           *)
THEOREM RefusalSafety == Spec => RefusedChangesNothing
<1>1. ASSUME [Next]_vars, IInv
      PROVE  [answer' = "error" => UNCHANGED <<key, assembly>>]_vars
  BY <1>1
  DEF Next, vars, Receive, AssemblyService, WrongInstance, RegisterService,
      UnknownClass, RegisterHandlers, AnswerWith
<1> QED
  BY <1>1, Invariance, PTL DEF Spec, RefusedChangesNothing

(* Whatever a request says, a register that is listed as an input is never  *)
(* written (fi_register_server.c).                                          *)
THEOREM InputSafety == Spec => InputsAreReadOnly
<1> DEFINE e == Find(handlers, request.attribute % 65536)
           ToInput == /\ request.class = "register" /\ request.instance = 1
                      /\ request.service = "set"
                      /\ e.type = "IN"
<1>1. Next /\ ToInput => answer' = "error" /\ key' = key
  <2> SUFFICES ASSUME Next, ToInput PROVE answer' = "error" /\ key' = key
    OBVIOUS
  <2>1. RegisterService
    BY DEF Next, Receive, AssemblyService, WrongInstance, UnknownClass, RegisterHandlers,
           NoRequest
  <2>2. PICK opcode \in Opcodes("set") :
          IF Accepts(e, opcode, request.member, request.third)
          THEN /\ AnswerWith("success")
               /\ IF e.handler = "key" /\ opcode = "IO_SET"
                  THEN SetKey(request.third) ELSE UNCHANGED key
          ELSE AnswerWith("error") /\ UNCHANGED key
    BY <2>1 DEF RegisterService
  <2>3. ~Accepts(e, opcode, request.member, request.third)
    BY <2>2 DEF Opcodes, Accepts
  <2> QED
    BY <2>2, <2>3 DEF AnswerWith
<1>2. Next => [ToInput => answer' = "error" /\ key' = key]_vars
  BY <1>1
<1> QED
  BY <1>2, PTL DEF Spec, InputsAreReadOnly

(* Of the registers, only number 60000 is the key.                          *)
LEMMA KeyRegister ==
  ASSUME NEW j \in 1 .. 6, Registers[j].handler = "key"
  PROVE  Registers[j].first = 60000 /\ Registers[j].last = 60000
<1> DEFINE A == <<Entry("IN", 65000, 4, "time"), Entry("IN", 65100, 1, "temperature"),
                  Entry("IN", 10000, 23, "device_info"), Entry("OUT", 60000, 1, "key")>>
           B == <<Entry("OUT", 65100, 1, "watchdog_interval"),
                  Entry("OUT", 65101, 1, "watchdog_count")>>
<1>1. A \in Seq(EntryType) /\ Len(A) = 4 /\ B \in Seq(EntryType) /\ Len(B) = 2
  BY EntryIsEntry DEF HandlerNames
<1>2. Registers = (A \o << >>) \o B
  BY DEF Registers, mfg_enabled
<1>3. /\ A[1].handler # "key" /\ A[2].handler # "key" /\ A[3].handler # "key"
      /\ A[4].first = 60000 /\ A[4].last = 60000
      /\ B[1].handler # "key" /\ B[2].handler # "key"
  BY DEF Entry
<1> HIDE DEF A, B
<1>4. A \o << >> = A
  BY <1>1, ConcatEmptySeq
<1>5. Registers = A \o B
  BY <1>2, <1>4
<1>6. /\ Len(A) + Len(B) = 6
      /\ \A i \in 1 .. Len(A) + Len(B) :
           (A \o B)[i] = IF i <= Len(A) THEN A[i] ELSE B[i - Len(A)]
  <2>1. Len(A) + Len(B) = 6
    BY <1>1
  <2>2. \A i \in 1 .. Len(A) + Len(B) :
          (A \o B)[i] = IF i <= Len(A) THEN A[i] ELSE B[i - Len(A)]
    BY <1>1, ConcatProperties
  <2> QED
    BY <2>1, <2>2
<1>7. Registers[j] = IF j <= 4 THEN A[j] ELSE B[j - 4]
  BY <1>1, <1>5, <1>6
<1>8. Registers[j] \in {A[1], A[2], A[3], A[4], B[1], B[2]}
  BY <1>7
<1> QED
  BY <1>3, <1>8

(* What the server finds under "key" is the key register.                   *)
LEMMA FindKey ==
  ASSUME IInv, NEW a \in Nat, Find(handlers, a).handler = "key"
  PROVE  a = 60000
<1>1. handlers \in Seq(EntryType) /\ Len(handlers) \in Nat
      /\ DOMAIN handlers = 1 .. Len(handlers)
  BY LenProperties DEF IInv, Tables
<1>2. Covering(handlers, a) # {}
  BY DEF Find, Entry
<1>3. Covering(handlers, a) \subseteq Nat
  BY <1>1 DEF Covering
<1>4. PICK m \in Covering(handlers, a) : \A n \in Covering(handlers, a) : m <= n
  BY <1>2, <1>3, LeastElement
<1>5. handlers[m].handler = "key"
  BY <1>1, <1>4, FindFirst
<1>6. m \in 1 .. Len(handlers) /\ handlers[m].first <= a /\ a <= handlers[m].last
  BY <1>1 DEF Covering
<1>7. PICK j \in 1 .. 6 : handlers[m] = Registers[j]
  BY <1>6, RegistersType DEF IInv, TableComplete, OnlyRepeats
<1> QED
  BY <1>5, <1>6, <1>7, KeyRegister

(* Only a service for instance 1, attribute 60000 (of the 32 bit attribute  *)
(* the lower half counts) of a register class changes the key.              *)
THEOREM KeySafety == Spec => KeyOnlyByItsRegister
<1>1. ASSUME IInv, [Next]_vars, key' # key
      PROVE  /\ request.class = "register" /\ request.instance = 1
             /\ request.attribute % 65536 = 60000
  <2>1. RegisterService
    BY <1>1
    DEF Next, vars, Receive, AssemblyService, WrongInstance, UnknownClass,
        RegisterHandlers
  <2>2. request.class = "register" /\ request.instance = 1
        /\ Find(handlers, request.attribute % 65536).handler = "key"
    BY <1>1, <2>1 DEF RegisterService
  <2>3. request \in Requests
    BY <1>1, <2>2 DEF IInv, TypeOK, NoRequest
  <2>4. request.attribute % 65536 \in Nat
    <3>1. request.attribute \in Attributes
      BY <2>3 DEF Requests
    <3>2. request.attribute \in Nat
      BY <3>1, ServerAssumption
    <3> QED
      BY <3>2
  <2> QED
    BY <1>1, <2>2, <2>4, FindKey
<1> QED
  BY <1>1, Invariance, PTL DEF Spec, KeyOnlyByItsRegister
=============================================================================
