-------------------------- MODULE MCBrokerDelivery --------------------------
(***************************************************************************)
(* BrokerDelivery for TLC: one Agent that keeps reading, one that may not. *)
(***************************************************************************)
EXTENDS BrokerDelivery, TLC

CONSTANTS s1, reader, idler
=============================================================================
