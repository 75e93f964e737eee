------------------------------ MODULE Watchdog ------------------------------
(***************************************************************************)
(* The idle watchdog of one `zcc daemon` (idle_watchdog in daemon/mod.rs): *)
(* a task that wakes up once per period, looks at the number of attached   *)
(* Claude clients and ends the daemon after too long without one.  It sees *)
(* the number at its ticks only.                                           *)
(*                                                                         *)
(* Time is counted in units.  A tick is handled at most Late units after   *)
(* it was due, and the next one is due Period after the due time of the    *)
(* last (the interval's default, Burst).  `connected` is the counter of    *)
(* module Hub, which shows it exact; clients come and go as they like.     *)
(*                                                                         *)
(* A definition whose comment starts with "Slip" is not the code's: it is  *)
(* the one that follows it with a mistake, put in its place to see that a  *)
(* property notices.                                                       *)
(***************************************************************************)
EXTENDS Integers

CONSTANTS
  Period,       \* the watchdog's interval: 30 s
  IdleTimeout,  \* IDLE_TIMEOUT: 30 min
  Late,         \* the scheduler's delay at most
  MaxClients    \* bound on the clients attached at once

ASSUME TimeAssumption ==
  /\ Period \in Nat \ {0}
  /\ IdleTimeout \in Nat \ {0}
  /\ Late \in Nat
  /\ Late < Period

ASSUME ClientAssumption == MaxClients \in Nat

VARIABLES
  stage,          \* "running" until the watchdog returns, then "stopped"
  connected,      \* DaemonState.connected
  wait,           \* units since the last tick was due
  idle,           \* idle_since.elapsed()
  last_connected  \* the variable of that name

\* History, each capped where the properties stop telling values apart.
VARIABLES
  present,  \* for how long somebody has been attached without a break
  quiet,    \* for how long nobody has been attached, or since the start
  missing   \* the same, not counting stays of Gap or less

watchVars == <<idle, last_connected>>
pastVars == <<present, quiet, missing>>
vars == <<stage, connected, wait, watchVars, pastVars>>

-----------------------------------------------------------------------------
\* Two ticks are never further apart: a stay that is longer meets one.
Gap == Period + Late

\* Where the counters of history stop.
Horizon == IdleTimeout + 2 * Gap + 1

Upto(n, cap) == IF n > cap THEN cap ELSE n

Init ==
  /\ stage = "running"
  /\ connected = 0
  /\ wait = Period
  /\ idle = 0
  /\ last_connected = FALSE
  /\ present = 0
  /\ quiet = 0
  /\ missing = 0

\* A websocket handler adds one (WsCount of module Hub).
Attach ==
  /\ stage = "running"
  /\ connected < MaxClients
  /\ connected' = connected + 1
  /\ quiet' = 0
  /\ UNCHANGED <<stage, wait, watchVars, present, missing>>

\* A websocket handler takes one off (WsUncount of module Hub).
Detach ==
  /\ stage = "running"
  /\ connected > 0
  /\ connected' = connected - 1
  /\ present' = IF connected = 1 THEN 0 ELSE present
  /\ UNCHANGED <<stage, wait, watchVars, quiet, missing>>

\* A unit of time passes.
Elapse ==
  /\ stage = "running"
  /\ wait < Gap
  /\ wait' = wait + 1
  /\ idle' = idle + 1
  /\ present' = IF connected > 0 THEN Upto(present + 1, Gap + 1) ELSE 0
  /\ quiet' = IF connected > 0 THEN 0 ELSE Upto(quiet + 1, Horizon)
  /\ missing' = IF present' > Gap THEN 0 ELSE Upto(missing + 1, Horizon)
  /\ UNCHANGED <<stage, connected, last_connected>>

Tick ==
  /\ stage = "running"
  /\ wait >= Period
  /\ wait' = wait - Period
  /\ UNCHANGED <<connected, pastVars>>

\* Somebody is attached.
TickAttached ==
  /\ Tick
  /\ connected > 0
  /\ idle' = 0
  /\ last_connected' = TRUE
  /\ UNCHANGED stage

\* Slip: the clock restarts only while somebody is attached.
TickLeftKeepsClock ==
  /\ Tick
  /\ connected = 0
  /\ last_connected
  /\ last_connected' = FALSE
  /\ UNCHANGED <<stage, idle>>

\* Slip: last_connected stays set.
TickLeftKeepsFlag ==
  /\ Tick
  /\ connected = 0
  /\ last_connected
  /\ idle' = 0
  /\ UNCHANGED <<stage, last_connected>>

\* Nobody is attached, and at the last tick somebody was.
TickLeft ==
  /\ Tick
  /\ connected = 0
  /\ last_connected
  /\ idle' = 0
  /\ last_connected' = FALSE
  /\ UNCHANGED stage

\* Slip: elapsed() > IDLE_TIMEOUT.
TimedOutStrictly == idle > IdleTimeout

TimedOut == idle >= IdleTimeout

\* Nobody is attached for the second tick or more: the daemon goes on ...
TickIdle ==
  /\ Tick
  /\ connected = 0
  /\ ~last_connected
  /\ ~TimedOut
  /\ UNCHANGED <<stage, watchVars>>

\* ... or it has been idle for long enough.
TickStops ==
  /\ Tick
  /\ connected = 0
  /\ ~last_connected
  /\ TimedOut
  /\ stage' = "stopped"
  /\ UNCHANGED watchVars

Next ==
  \/ Attach
  \/ Detach
  \/ Elapse
  \/ TickAttached
  \/ TickLeft
  \/ TickIdle
  \/ TickStops

Spec == Init /\ [][Next]_vars

-----------------------------------------------------------------------------
(* Properties.                                                             *)

TypeOK ==
  /\ stage \in {"running", "stopped"}
  /\ connected \in 0 .. MaxClients
  /\ wait \in 0 .. Gap
  /\ idle \in 0 .. IdleTimeout + Gap - 1
  /\ last_connected \in BOOLEAN
  /\ present \in 0 .. Gap + 1
  /\ quiet \in 0 .. Horizon
  /\ missing \in 0 .. Horizon

\* The watchdog never ends a daemon that has had a client for longer than
\* one interval within the last IdleTimeout units (mod.rs:144-153): the clock restarts at the tick
\* that finds the client gone, not at the one that last saw it.
StopsOnlyWhenIdle == stage = "stopped" => missing >= IdleTimeout

\* Nor does it let an unattended daemon run for longer than the timeout, the
\* interval in which the departure is noticed and the one in which the timeout
\* is (mod.rs:148-153).
StopsInTime == stage = "running" => quiet < IdleTimeout + 2 * Gap
=============================================================================
