----------------------------- MODULE MCLogging ------------------------------
(* Module Logging with a process of two threads, as a daemon is, and one of  *)
(* a single thread, as a send is.                                            *)
EXTENDS Logging, TLC

CONSTANTS w1, w2, w3

MCProcesses == {{w1, w2}, {w3}}

\* The threads of a process are alike.
MCSymmetry == Permutations({w1, w2})
=============================================================================
