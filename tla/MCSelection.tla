---------------------------- MODULE MCSelection -----------------------------
(* Module Selection on every short text: the constants' values are in the   *)
(* cfg files.                                                               *)
EXTENDS Selection
=============================================================================
