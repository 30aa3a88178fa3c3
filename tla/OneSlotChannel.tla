--------------------------- MODULE OneSlotChannel ---------------------------
(***************************************************************************)
(* What a mailbox of the dual-port memory promises: packets, numbered in   *)
(* the order they are put, are read in that order, each once, and the      *)
(* mailbox is written only when it is empty and emptied only after the     *)
(* packet was read.                                                        *)
(***************************************************************************)
EXTENDS Naturals

VARIABLES
  full,  \* the mailbox holds a packet for the receiver
  box,   \* number of the packet in the mailbox
  got    \* number of the last packet the receiver has read

cvars == <<full, box, got>>

Init == ~full /\ box = 0 /\ got = 0

Write == ~full /\ got = box /\ box' = box + 1 /\ UNCHANGED <<full, got>>
Hand  == ~full /\ box = got + 1 /\ full' = TRUE /\ UNCHANGED <<box, got>>
Read  == full /\ box = got + 1 /\ got' = box /\ UNCHANGED <<full, box>>
Free  == full /\ got = box /\ full' = FALSE /\ UNCHANGED <<box, got>>

Next == Write \/ Hand \/ Read \/ Free

Spec == Init /\ [][Next]_cvars
=============================================================================
