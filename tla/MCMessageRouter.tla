--------------------------- MODULE MCMessageRouter ---------------------------
(***************************************************************************)
(* MessageRouter for TLC.  Liveness is checked with safety, so the packs    *)
(* are not declared symmetric.                                             *)
(***************************************************************************)
EXTENDS MessageRouter
==============================================================================
