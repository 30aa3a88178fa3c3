---------------------------- MODULE RequestReply ----------------------------
(***************************************************************************)
(* What Pkt_SendReceivePacket promises its callers.  Calls are numbered in *)
(* the order they are made and nest: the latest open call returns first.   *)
(* The stack executes a request at most once, possibly after its call gave *)
(* up; a call that returns "ok" was executed before.  A call whose request *)
(* could not be sent is refused and never executed.                        *)
(***************************************************************************)
EXTENDS Naturals

VARIABLES
  count,     \* calls made so far
  open,      \* calls in progress
  executed,  \* calls the stack has executed
  outcome    \* how the calls that are not open returned

avars == <<count, open, executed, outcome>>

Init == count = 0 /\ open = {} /\ executed = {} /\ outcome = [n \in {} |-> "none"]

Record(n, ret) ==
  outcome' = [m \in DOMAIN outcome \cup {n} |-> IF m = n THEN ret ELSE outcome[m]]

Begin ==
  /\ count' = count + 1
  /\ open' = open \cup {count'}
  /\ UNCHANGED <<executed, outcome>>

Refuse ==
  /\ count' = count + 1
  /\ Record(count', "refused")
  /\ UNCHANGED <<open, executed>>

Execute(n) ==
  /\ n \notin executed
  /\ n \in DOMAIN outcome => outcome[n] # "refused"
  /\ executed' = executed \cup {n}
  /\ UNCHANGED <<count, open, outcome>>

Innermost(n) == n \in open /\ \A m \in open : m <= n

Succeed(n) ==
  /\ Innermost(n)
  /\ n \in executed
  /\ open' = open \ {n}
  /\ Record(n, "ok")
  /\ UNCHANGED <<count, executed>>

Fail(n) ==
  /\ Innermost(n)
  /\ open' = open \ {n}
  /\ Record(n, "failed")
  /\ UNCHANGED <<count, executed>>

Next == \/ Begin \/ Refuse
        \/ \E n \in 1 .. count : Execute(n) \/ Succeed(n) \/ Fail(n)

Spec == Init /\ [][Next]_avars
=============================================================================
