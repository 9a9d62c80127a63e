--------------------------- MODULE MCBrokerRouter ---------------------------
(***************************************************************************)
(* BrokerRouter for TLC: Agents as interchangeable model values.           *)
(***************************************************************************)
EXTENDS BrokerRouter, TLC

CONSTANTS a1, a2

AgentSymmetry == Permutations(Agents)
=============================================================================
