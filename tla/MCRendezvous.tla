---------------------------- MODULE MCRendezvous ----------------------------
(* Module Rendezvous on small instances: the constants' values are in the   *)
(* cfg files.                                                               *)
EXTENDS Rendezvous, TLC

\* Sends are interchangeable in a run without liveness properties.
Symmetry == Permutations(Procs)
=============================================================================
