--------------------------- MODULE MCBrokerCaLink ---------------------------
(***************************************************************************)
(* BrokerCaLink for TLC: two opaque sessions as model values; the bounds   *)
(* of each question are in the .cfg files.                                 *)
(***************************************************************************)
EXTENDS BrokerCaLink, TLC

CONSTANTS s1, s2
=============================================================================
