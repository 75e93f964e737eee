----------------------------- MODULE MCWatchdog -----------------------------
(* Module Watchdog on a small instance: the constants' values are in the    *)
(* cfg files.                                                               *)
EXTENDS Watchdog
=============================================================================
