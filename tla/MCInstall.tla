----------------------------- MODULE MCInstall ------------------------------
(* Module Install on every pair of short files: the bounds are in the cfg.  *)
EXTENDS Install
=============================================================================
