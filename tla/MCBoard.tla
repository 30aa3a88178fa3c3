------------------------------- MODULE MCBoard -------------------------------
(***************************************************************************)
(* The parts of the board support package, which do not share state, for   *)
(* TLC, in one run: a behaviour chooses one unit at the start and runs     *)
(* that alone; the others stay in an initial state.                        *)
(***************************************************************************)
EXTENDS SwitchMode

CONSTANTS
  ShellChips,     \* of SpiExchange
  MaxCommands,    \* of SpiExchange
  ConsoleStates,  \* of Led
  Second, Wrap, MaxGap, Leftover, MaxEvents  \* of NetxTime

VARIABLES
  unit,
  spiFss, spiFifo, spiBytesOf, spiError, spiLocked, spiBuffers, spiApp, spiPc, spiChip,
  spiConnected, spiFresh, spiCommands,
  ledSource, ledTest, ledLeds, ledAlternate,
  rtcCount, rtcLast, rtcAhead, rtcMs, rtcFrac, rtcRuns, rtcGap, rtcUpset, rtcEvents

spiVars == <<spiFss, spiFifo, spiBytesOf, spiError, spiLocked, spiBuffers, spiApp,
             spiPc, spiChip, spiConnected, spiFresh, spiCommands>>
ledVars == <<ledSource, ledTest, ledLeds, ledAlternate>>
rtcVars == <<rtcCount, rtcLast, rtcAhead, rtcMs, rtcFrac, rtcRuns, rtcGap, rtcUpset, rtcEvents>>

Spi == INSTANCE SpiExchange WITH
  fss <- spiFss, fifo <- spiFifo, bytesOf <- spiBytesOf, error <- spiError, locked <- spiLocked,
  buffers <- spiBuffers, app <- spiApp, pc <- spiPc, chip <- spiChip,
  connected <- spiConnected, fresh <- spiFresh, commands <- spiCommands

Leds == INSTANCE Led WITH
  source <- ledSource, test <- ledTest, leds <- ledLeds, alternate <- ledAlternate

Time == INSTANCE NetxTime WITH
  count <- rtcCount, last <- rtcLast, ahead <- rtcAhead, ms <- rtcMs, frac <- rtcFrac,
  runs <- rtcRuns, gap <- rtcGap, upset <- rtcUpset, events <- rtcEvents

ASSUME BoardAssumption ==
  /\ ShellChips \subseteq {"di", "do"} /\ MaxCommands \in Nat
  /\ ConsoleStates \subseteq Leds!States
  /\ Second \in Nat \ {0} /\ Wrap \in Nat /\ MaxGap \in Nat /\ MaxGap < Wrap
  /\ Leftover \subseteq Nat /\ MaxEvents \in Nat

Units == {"switch", "spi", "led", "time"}

(* An unit that does not run stays in one of its initial states.            *)
MCInit ==
  /\ unit \in Units
  /\ Init        /\ (unit # "switch" => host = 100 /\ expander)
  /\ Spi!Init
  /\ Leds!Init   /\ (unit # "led" => ledSource.noLease /\ ledSource.wdEnabled)
  /\ Time!Init   /\ (unit # "time" => rtcCount = 0 /\ rtcFrac = 0)

MCNext ==
  \/ /\ unit = "switch" /\ Next
     /\ UNCHANGED <<unit, spiVars, ledVars, rtcVars>>
  \/ /\ unit = "spi" /\ Spi!Next
     /\ UNCHANGED <<unit, vars, ledVars, rtcVars>>
  \/ /\ unit = "led" /\ Leds!Next
     /\ UNCHANGED <<unit, vars, spiVars, rtcVars>>
  \/ /\ unit = "time" /\ Time!Next
     /\ UNCHANGED <<unit, vars, spiVars, ledVars>>

mcVars == <<unit, vars, spiVars, ledVars, rtcVars>>

MCSpec == MCInit /\ [][MCNext]_mcVars

(* The fairness of the unit that runs, as its own specification states it.  *)
MCFairSpec ==
  /\ MCSpec
  /\ WF_spiVars(unit = "spi" /\ Spi!HOSTAL_DataExchange)
  /\ WF_spiVars(unit = "spi" /\ Spi!Shift)
  /\ WF_spiVars(unit = "spi" /\ Spi!Driver)
  /\ WF_ledVars(unit = "led" /\ Leds!HOST_EvnetHandler(TRUE))
  /\ WF_rtcVars(unit = "time" /\ Time!Tick)
  /\ WF_rtcVars(unit = "time" /\ Time!TimeGet)

----------------------------------------------------------------------------
(* Properties: those of SwitchMode, and of the instances                    *)

(* The types of all variables.                                              *)
TypesOK == TypeOK /\ Spi!TypeOK /\ Leds!TypeOK /\ Time!TypeOK

(* SpiExchange: after a command nothing stays selected, locked or set, and  *)
(* nobody disturbs a transfer that is being shifted.                        *)
SpiStaysClean == [](unit = "spi" => Spi!IdleIsClean) /\ Spi!ShiftUndisturbed

(* SpiExchange: a command of the shell ends, and the inputs are read again  *)
(* and again.                                                               *)
SpiIsServed == unit = "spi" => Spi!ShellReturns /\ Spi!InputsServed

(* Led: a LED shows no colour but that of its state, and a status that      *)
(* stays is shown, that of a hot device by alternating.                     *)
LedsShowStatus ==
  /\ [](unit = "led" => Leds!NoOtherColour)
  /\ unit = "led" => Leds!StatusIsShown /\ Leds!HotAlternates

(* NetxTime: the time stays within a second of the clock, and what was      *)
(* upset is made good.                                                      *)
TimeIsKept ==
  /\ [](unit = "time" => Time!TimeIsClose)
  /\ unit = "time" => Time!TimeIsMadeGood
=============================================================================
