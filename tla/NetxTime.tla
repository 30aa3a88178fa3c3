----------------------------- MODULE NetxTime -----------------------------
(***************************************************************************)
(* The time of the application (RTC.c): seconds and milliseconds advanced  *)
(* by the main loop from a system counter that wraps around, and set from  *)
(* the real time clock at startup and whenever a wrap is seen.  The real   *)
(* time clock is the reference: ahead is the difference between the two    *)
(* seconds, and frac how much of its current second has passed.            *)
(***************************************************************************)
EXTENDS Integers

CONSTANTS
  Second,     \* milliseconds of a second
  Wrap,       \* milliseconds after which the system counter starts over
  MaxGap,     \* the most between two updates: 20000 rounds of the main loop
  Leftover,   \* what the uninitialised milliseconds of RTC_SetTime may hold
  MaxEvents   \* bound: times set from the shell, and failures of the bus

VARIABLES
  count,    \* GetSysCounter in milliseconds
  last,     \* s_ulSysLastMilliSec
  ahead,    \* s_ulTimeSec minus the seconds of the real time clock
  ms,       \* s_ulTimeMilliSec
  frac,     \* external: the milliseconds of the real time clock
  runs,     \* external: the real time clock is running
  gap,      \* milliseconds since the last update
  upset,    \* history: set from the shell, or a failure, not yet made good
  events    \* bound

vars == <<count, last, ahead, ms, frac, runs, gap, upset, events>>

(* What the time is set to when the clock cannot be read, or stands still.  *)
Far == -3

Init ==
  /\ count \in 0 .. Wrap - 1
  /\ frac \in 0 .. Second - 1
  /\ last = count
  /\ ahead = 0
  /\ ms = 0
  /\ runs = TRUE
  /\ gap = 0
  /\ upset = FALSE
  /\ events = 0

----------------------------------------------------------------------------
(* A millisecond passes; the main loop gets round to the next update.       *)
Tick ==
  /\ gap < MaxGap
  /\ gap' = gap + 1
  /\ count' = (count + 1) % Wrap
  /\ frac' = (frac + 1) % Second
  /\ ahead' = IF frac + 1 = Second THEN ahead - 1 ELSE ahead
  /\ UNCHANGED <<last, ms, runs, upset, events>>

(* HOSTAL_RTC_GetTime may fail; its result is not looked at, and what has   *)
(* not been read is a time long ago.                                        *)
HOSTAL_RTC_SyncTime ==
  \/ /\ ahead' = IF runs THEN 0 ELSE Far
     /\ upset' = (upset /\ (~runs \/ ms >= Second))
     /\ UNCHANGED events
  \/ /\ events < MaxEvents
     /\ events' = events + 1
     /\ ahead' = Far
     /\ upset' = TRUE

Elapsed(e) ==
  /\ ms' = (ms + e) % Second
  /\ ahead' = ahead + ((ms + e) \div Second)

(* Mutant: after a wrap only the counter is taken over.                     *)
Wrapped_NoSync == UNCHANGED <<ahead, ms, upset, events>>

(* Mutant: the time is counted through a wrap.                              *)
Wrapped_Counted ==
  Elapsed(count + Wrap - last) /\ UNCHANGED <<upset, events>>

Wrapped == HOSTAL_RTC_SyncTime /\ UNCHANGED ms

(* The update of the main loop, or of the shell's time command.             *)
TimeGet ==
  /\ gap' = 0
  /\ last' = count
  /\ IF count < last
     THEN Wrapped
     ELSE Elapsed(count - last) /\ UNCHANGED <<upset, events>>
  /\ UNCHANGED <<count, frac, runs>>

(* The time command of the shell sets both times; the clock is stopped and  *)
(* set with one transfer, and started with the next, each of which may      *)
(* fail.  The milliseconds of the new time are never initialised.           *)
RTC_SetTime ==
  /\ events < MaxEvents
  /\ events' = events + 1
  /\ upset' = TRUE
  /\ ms' \in Leftover
  /\ \/ frac' = 0 /\ ahead' = 0 /\ runs' = TRUE
     \/ frac' = 0 /\ ahead' = 0 /\ runs' = FALSE
     \/ ahead' = Far /\ UNCHANGED <<frac, runs>>
  /\ UNCHANGED <<count, last, gap>>

Next == Tick \/ TimeGet \/ RTC_SetTime

Spec == Init /\ [][Next]_vars

(* Time passes, and the main loop goes round.                               *)
FairSpec == Spec /\ WF_vars(Tick) /\ WF_vars(TimeGet)

----------------------------------------------------------------------------
(* Properties                                                               *)

Difference == ahead * Second + ms + gap - frac

(* The types of all variables.                                              *)
TypeOK ==
  /\ count \in 0 .. Wrap - 1
  /\ last \in 0 .. Wrap - 1
  /\ ahead \in Int
  /\ ms \in Nat
  /\ frac \in 0 .. Second - 1
  /\ runs \in BOOLEAN
  /\ gap \in 0 .. MaxGap
  /\ upset \in BOOLEAN
  /\ events \in 0 .. MaxEvents

(* As long as the main loop updates the time at least once in a round of    *)
(* the system counter, the time is never a second or more off the real time *)
(* clock, however wraps, seconds and updates fall.                          *)
TimeIsClose == upset = FALSE => Difference \in 1 - Second .. Second - 1

(* What a set time or a failed read has upset is made good by a later wrap, *)
(* unless the clock was left stopped.                                       *)
TimeIsMadeGood == <>[](runs = TRUE) => <>[](Difference \in 1 - Second .. Second - 1)
=============================================================================
