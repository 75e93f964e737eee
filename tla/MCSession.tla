----------------------------- MODULE MCSession ------------------------------
(* Module Session with ports that must be used again.                        *)
EXTENDS Session

MCMethods == {"initialize", "prompts/list"}
=============================================================================
