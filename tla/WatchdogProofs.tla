--------------------------- MODULE WatchdogProofs ---------------------------
(* Proofs about module Watchdog, for any period, timeout and delay, and any *)
(* number of clients.                                                       *)
EXTENDS Watchdog, TLAPS

\* While the daemon runs, idle_since was short of the timeout at the last tick,
\* and the time since then is `wait` at most.
IdleIsShort == stage = "running" => idle <= IdleTimeout - 1 + wait

\* While last_connected is unset, nobody has been attached for longer than since
\* the last tick, and idle_since is no older than the last long stay.
UnsetMeansGone ==
  /\ connected = 0 => present = 0
  /\ ~last_connected => present <= wait /\ idle <= missing

\* idle_since lags behind the last departure by one interval at most.
ClockLagsLittle ==
  connected = 0 =>
    IF last_connected THEN quiet <= wait ELSE quiet <= idle + Gap

\* A stopped daemon has been idle for the whole timeout.
StoppedMeansIdle == stage = "stopped" => idle >= IdleTimeout /\ ~last_connected

WatchInv ==
  /\ TypeOK
  /\ IdleIsShort
  /\ UnsetMeansGone
  /\ ClockLagsLittle
  /\ connected > 0 => quiet = 0
  /\ StoppedMeansIdle

USE TimeAssumption, ClientAssumption DEF Gap, Horizon

\* The invariant holds initially.
LEMMA WatchInit == Init => WatchInv
<1> SUFFICES ASSUME Init PROVE WatchInv
  OBVIOUS
<1>1. TypeOK
  <2>1. last_connected \in BOOLEAN
    BY Zenon DEF Init
  <2>2. QED
    BY <2>1 DEF Init, TypeOK
<1>2. IdleIsShort /\ UnsetMeansGone /\ ClockLagsLittle
  BY DEF Init, IdleIsShort, UnsetMeansGone, ClockLagsLittle
<1>3. (connected > 0 => quiet = 0) /\ StoppedMeansIdle
  BY DEF Init, StoppedMeansIdle
<1>4. QED
  BY <1>1, <1>2, <1>3 DEF WatchInv

\* Clients come and go: the watchdog's own variables do not move.
LEMMA WatchClients == WatchInv /\ (Attach \/ Detach) => WatchInv'
<1>1. WatchInv /\ Attach => WatchInv'
  BY DEF Attach, watchVars, WatchInv, TypeOK, IdleIsShort, UnsetMeansGone, ClockLagsLittle,
         StoppedMeansIdle
<1>2. WatchInv /\ Detach => WatchInv'
  BY DEF Detach, watchVars, WatchInv, TypeOK, IdleIsShort, UnsetMeansGone, ClockLagsLittle,
         StoppedMeansIdle
<1>3. QED
  BY <1>1, <1>2

\* Time passes for the clock and the counters of history alike.
LEMMA WatchElapse == WatchInv /\ Elapse => WatchInv'
<1> SUFFICES ASSUME WatchInv, Elapse PROVE WatchInv'
  OBVIOUS
<1>1. TypeOK'
  BY DEF Elapse, Upto, WatchInv, TypeOK, IdleIsShort
<1>2. IdleIsShort'
  BY DEF Elapse, WatchInv, TypeOK, IdleIsShort
<1>3. UnsetMeansGone'
  BY DEF Elapse, Upto, WatchInv, TypeOK, IdleIsShort, UnsetMeansGone
<1>4. ClockLagsLittle' /\ (connected' > 0 => quiet' = 0)
  BY DEF Elapse, Upto, WatchInv, TypeOK, ClockLagsLittle
<1>5. StoppedMeansIdle'
  BY DEF Elapse, StoppedMeansIdle
<1>6. QED
  BY <1>1, <1>2, <1>3, <1>4, <1>5 DEF WatchInv

\* A tick restarts the clock, finds it short of the timeout, or ends the daemon.
LEMMA WatchTick ==
  WatchInv /\ (TickAttached \/ TickLeft \/ TickIdle \/ TickStops) => WatchInv'
<1>1. WatchInv /\ TickAttached => WatchInv'
  BY DEF TickAttached, Tick, pastVars, WatchInv, TypeOK, IdleIsShort, UnsetMeansGone,
         ClockLagsLittle, StoppedMeansIdle
<1>2. ASSUME WatchInv, TickLeft PROVE WatchInv'
  <2>1. last_connected' \in BOOLEAN
    BY <1>2, Zenon DEF TickLeft
  <2>2. TypeOK' /\ IdleIsShort'
    BY <1>2, <2>1 DEF TickLeft, Tick, pastVars, WatchInv, TypeOK, IdleIsShort
  <2>3. UnsetMeansGone'
    BY <1>2 DEF TickLeft, Tick, pastVars, WatchInv, TypeOK, UnsetMeansGone
  <2>4. ClockLagsLittle' /\ (connected' > 0 => quiet' = 0)
    BY <1>2 DEF TickLeft, Tick, pastVars, WatchInv, TypeOK, ClockLagsLittle
  <2>5. StoppedMeansIdle'
    BY <1>2 DEF TickLeft, Tick, StoppedMeansIdle
  <2>6. QED
    BY <2>2, <2>3, <2>4, <2>5 DEF WatchInv
<1>3. WatchInv /\ TickIdle => WatchInv'
  BY DEF TickIdle, Tick, TimedOut, pastVars, watchVars, WatchInv, TypeOK, IdleIsShort,
         UnsetMeansGone, ClockLagsLittle, StoppedMeansIdle
<1>4. ASSUME WatchInv, TickStops PROVE WatchInv'
  <2>1. TypeOK' /\ StoppedMeansIdle'
    BY <1>4 DEF TickStops, Tick, TimedOut, pastVars, watchVars, WatchInv, TypeOK,
                StoppedMeansIdle
  <2>2. UnsetMeansGone' /\ ClockLagsLittle' /\ (connected' > 0 => quiet' = 0)
    BY <1>4 DEF TickStops, Tick, pastVars, watchVars, WatchInv, TypeOK, UnsetMeansGone,
                ClockLagsLittle
  <2>3. IdleIsShort'
    BY <1>4 DEF TickStops, IdleIsShort
  <2>4. QED
    BY <2>1, <2>2, <2>3 DEF WatchInv
<1>5. QED
  BY <1>1, <1>2, <1>3, <1>4

\* The invariant is inductive.
LEMMA WatchNext == WatchInv /\ [Next]_vars => WatchInv'
<1>1. WatchInv /\ UNCHANGED vars => WatchInv'
  BY DEF vars, watchVars, pastVars, WatchInv, TypeOK, IdleIsShort, UnsetMeansGone,
         ClockLagsLittle, StoppedMeansIdle
<1>2. QED
  BY <1>1, WatchClients, WatchElapse, WatchTick DEF Next

\* A daemon that had a client for longer than one interval within the last
\* IdleTimeout units is not stopped (mod.rs:144-153).
THEOREM NoStopSoonAfterAStay == Spec => []StopsOnlyWhenIdle
<1>1. WatchInv => StopsOnlyWhenIdle
  BY DEF WatchInv, TypeOK, UnsetMeansGone, StoppedMeansIdle, StopsOnlyWhenIdle
<1>2. QED
  BY WatchInit, WatchNext, <1>1, PTL DEF Spec

\* An unattended daemon stops within the timeout and two intervals.
THEOREM NoLingering == Spec => []StopsInTime
<1>1. WatchInv => StopsInTime
  BY DEF WatchInv, TypeOK, IdleIsShort, ClockLagsLittle, StopsInTime
<1>2. QED
  BY WatchInit, WatchNext, <1>1, PTL DEF Spec

\* The clock stays below the timeout and one interval, and so does every counter.
THEOREM WatchdogTypeCorrect == Spec => []TypeOK
<1>1. WatchInv => TypeOK
  BY DEF WatchInv
<1>2. QED
  BY WatchInit, WatchNext, <1>1, PTL DEF Spec
=============================================================================
