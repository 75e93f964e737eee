------------------------------- MODULE MCHub -------------------------------
(* Module Hub on a small instance: the constants' values are in the cfg.    *)
EXTENDS Hub, TLC

\* Connections are interchangeable in a run without liveness properties.
Symmetry == Permutations(Clients) \cup Permutations(Handlers)
=============================================================================
