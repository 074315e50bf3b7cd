------------------------------ MODULE MCInbound ------------------------------
(***************************************************************************)
(* Small instances of Inbound.  Every message is published once, so every  *)
(* behaviour is finite up to the bounds the configurations give.           *)
(***************************************************************************)
EXTENDS Inbound
=============================================================================
