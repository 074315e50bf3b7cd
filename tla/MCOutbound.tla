----------------------------- MODULE MCOutbound -----------------------------
(***************************************************************************)
(* Small instances of Outbound.  The bounds are the constants of the       *)
(* configurations; every behaviour of an instance is finite because each   *)
(* message arrives once and each entry is retried at most MaxRetry times   *)
(* per stage.                                                              *)
(***************************************************************************)
EXTENDS Outbound
=============================================================================
