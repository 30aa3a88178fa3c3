----------------------------- MODULE NvramLayout -----------------------------
(***************************************************************************)
(* The layout of the parameters in RAMCOPY, which is read from and saved   *)
(* to the file of MfgStorage: entries of an index (two bytes), a size and  *)
(* a value, one after the other (nvram.c), byte by byte, with the items    *)
(* and sizes that mfg.c reads and saves.                                   *)
(***************************************************************************)
EXTENDS Naturals, Sequences

CONSTANTS
  Values,     \* the bytes of which values are made
  MaxChanges  \* bound: items changed

NVRAM_MAX_SIZE == 61 + 36

VARIABLES
  image,    \* RAMCOPY
  nvsize,   \* what has been written since NvWriteStart
  params,   \* the variables: the byte that fills each
  file,     \* the file, or <<>>
  next,     \* the item MfgSaveParams writes next; 0: no save in progress
  changes   \* bound

vars == <<image, nvsize, params, file, next, changes>>

(* The items in the order of MfgSaveParams: low byte of the index and size. *)
(* The high byte is 240.                                                    *)
Items == <<[lo |-> 6, size |-> 12], [lo |-> 1, size |-> 4], [lo |-> 3, size |-> 6],
           [lo |-> 9, size |-> 12], [lo |-> 4, size |-> 4], [lo |-> 7, size |-> 4],
           [lo |-> 8, size |-> 4], [lo |-> 12, size |-> 4], [lo |-> 13, size |-> 2],
           [lo |-> 14, size |-> 4], [lo |-> 15, size |-> 4], [lo |-> 16, size |-> 1]>>
Item == DOMAIN Items

Init ==
  /\ image = [loc \in 0 .. NVRAM_MAX_SIZE - 1 |-> 0]
  /\ nvsize = 0
  /\ params \in {[i \in Item |-> v] : v \in Values}
  /\ file = <<>>
  /\ next = 0
  /\ changes = 0

----------------------------------------------------------------------------
(* A byte of RAMCOPY; behind it lies whatever the linker has put there.     *)
Byte(loc, behind) ==
  IF loc < NVRAM_MAX_SIZE THEN image[loc] ELSE behind[(loc - NVRAM_MAX_SIZE) % 2]
Zero == [k \in 0 .. 1 |-> 0]

(* Mutant: the place behind the table still belongs to it.                  *)
AtEnd_OneMore(loc, end) == loc > end

(* The search has come to the end of the table.                             *)
AtEnd(loc, end) == loc >= end

(* Mutant: the size byte is not counted.                                    *)
Entry_TwoByteHeader(i, end, behind) ==
  LET find[loc \in Nat] ==
        IF AtEnd(loc, end) \/ (Byte(loc, behind) = Items[i].lo /\ Byte(loc + 1, behind) = 240)
        THEN loc ELSE find[loc + Byte(loc + 2, behind) + 2]
  IN find[0]

(* Where the table has the index of an item, or a place at or after its end.*)
Entry(i, end, behind) ==
  LET find[loc \in Nat] ==
        IF AtEnd(loc, end) \/ (Byte(loc, behind) = Items[i].lo /\ Byte(loc + 1, behind) = 240)
        THEN loc ELSE find[loc + Byte(loc + 2, behind) + 3]
  IN find[0]

(* The bytes that are read; none when the item or its size is not found.    *)
NvReadRam(i, behind) ==
  LET loc == Entry(i, NVRAM_MAX_SIZE, behind)
  IN IF AtEnd(loc, NVRAM_MAX_SIZE) \/ Byte(loc + 2, behind) # Items[i].size
     THEN <<>>
     ELSE [k \in 1 .. Items[i].size |-> Byte(loc + 2 + k, behind)]

(* Mutant: the last byte is not used.                                       *)
Fits_OneLess(loc, size) == loc + size + 3 < NVRAM_MAX_SIZE

(* There is room for a new entry.                                           *)
Fits(loc, size) == loc + size + 3 <= NVRAM_MAX_SIZE

(* An item that is in the table already, or for which there is no room, is  *)
(* refused, and MfgSaveParams goes on.                                      *)
NvWriteRam(i) ==
  LET loc == Entry(i, nvsize, Zero)
      size == Items[i].size
      new(at) == CASE at = loc -> Items[i].lo
                   [] at = loc + 1 -> 240
                   [] at = loc + 2 -> size
                   [] at \in loc + 3 .. loc + 2 + size -> params[i]
                   [] OTHER -> image[at]
  IN IF AtEnd(loc, nvsize) /\ Fits(loc, size)
     THEN /\ image' = [at \in DOMAIN image |-> new(at)]
          /\ nvsize' = nvsize + size + 3
     ELSE UNCHANGED <<image, nvsize>>

----------------------------------------------------------------------------
(* A parameter is set.                                                      *)
Change(i, v) ==
  /\ next = 0 /\ changes < MaxChanges
  /\ changes' = changes + 1
  /\ params' = [params EXCEPT ![i] = v]
  /\ UNCHANGED <<image, nvsize, file, next>>

NvWriteStart ==
  /\ next = 0
  /\ nvsize' = 0
  /\ next' = 1
  /\ UNCHANGED <<image, params, file, changes>>

(* The items one by one, then the file.                                     *)
MfgSaveParams ==
  \/ /\ next \in Item
     /\ NvWriteRam(next)
     /\ next' = next + 1
     /\ UNCHANGED <<params, file, changes>>
  \/ /\ next = Len(Items) + 1
     /\ next' = 0
     /\ file' \in {image, file}   \* the write may fail
     /\ UNCHANGED <<image, nvsize, params, changes>>

(* A restart, and MfgInitParams: an item that is not found stays as it is   *)
(* initialised.                                                             *)
MfgInitParams ==
  /\ next = 0
  /\ image' = IF file = <<>> THEN [loc \in DOMAIN image |-> 0] ELSE file
  /\ nvsize' = 0
  /\ \E initial \in Values :
       params' = [i \in Item |-> LET v == NvReadRam(i, Zero)'
                                 IN IF v = <<>> THEN initial ELSE v[1]]
  /\ UNCHANGED <<file, next, changes>>

Next ==
  \/ \E i \in Item, v \in Values : Change(i, v)
  \/ NvWriteStart \/ MfgSaveParams \/ MfgInitParams

Spec == Init /\ [][Next]_vars

----------------------------------------------------------------------------
(* Properties                                                               *)

(* The types of all variables.                                              *)
TypeOK ==
  /\ DOMAIN image = 0 .. NVRAM_MAX_SIZE - 1
  /\ nvsize \in 0 .. NVRAM_MAX_SIZE
  /\ params \in [Item -> Values]
  /\ file = <<>> \/ DOMAIN file = DOMAIN image
  /\ next \in 0 .. Len(Items) + 1
  /\ changes \in 0 .. MaxChanges

(* What a save has written is what is read, for each item and size, however *)
(* full the table is ("60 (total data) + 12 * 3").                          *)
SavedIsRead ==
  next = Len(Items) + 1 =>
    \A i \in Item : NvReadRam(i, Zero) = [k \in 1 .. Items[i].size |-> params[i]]

(* In the middle of a save every item has its old or its new value, or none *)
(* if it never had one; never a part of another item.                       *)
NoItemTorn ==
  \A i \in Item : LET v == NvReadRam(i, Zero)
                  IN v # <<>> => \A k \in DOMAIN v : v[k] = v[1] /\ v[1] \in Values

(* An empty or shorter table is searched up to two bytes behind RAMCOPY;    *)
(* what lies there decides nothing.                                         *)
BehindIsHarmless ==
  \A i \in Item : \A behind \in [0 .. 1 -> {1, Items[i].lo, 240}] :
    NvReadRam(i, behind) = NvReadRam(i, Zero)
=============================================================================
