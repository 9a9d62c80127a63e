---------------------------- MODULE MCCaEngine ----------------------------
(***************************************************************************)
(* CaEngine for TLC: a publisher and two subscribers, two environments,    *)
(* and the requests that take a publication through its loop.              *)
(***************************************************************************)
EXTENDS CaEngine

CONSTANTS k1, k2, here, there, env1, env2, env3, sub2, sub3, perm2, pub1, bad

R(sender, operation, handler, environment, predicate) ==
    [sender |-> sender, key |-> k1, operation |-> operation, handler |-> handler, type |-> 1,
     environment |-> environment, predicate |-> predicate]

MCRequest ==
    [s \in Sessions |->
        CASE s = env1  -> R(1, "SetEnvironment", NoHandler, here, {})
          [] s = env2  -> R(2, "SetEnvironment", NoHandler, here, {})
          [] s = env3  -> R(3, "SetEnvironment", NoHandler, there, {})
          [] s = sub2  -> R(2, "Subscribe", 1, here, {here})
          [] s = sub3  -> R(3, "Subscribe", 1, there, {here, there})
          [] s = perm2 -> R(2, "SubscribePermanent", 2, here, {here})
          [] s = pub1  -> R(1, "Publish", NoHandler, here, {here, there})
          [] OTHER     -> R(2, "Malformed", NoHandler, here, {})]

AllPairs == {here, there} \X {here, there}
Open   == [valid |-> Agents \X {here, there}, delivers |-> AllPairs]
Strict == [valid |-> (Agents \X {here, there}) \ {<<2, here>>, <<3, there>>}, delivers |-> AllPairs]

All     == [keys |-> [a \in Agents |-> k1], policy |-> Open]
Tight   == [keys |-> [a \in Agents |-> k1], policy |-> Strict]
Removed == [keys |-> [a \in Agents |-> IF a = 2 THEN NoKey ELSE k1], policy |-> Open]
Rotated == [keys |-> [a \in Agents |-> IF a = 2 THEN k2 ELSE k1], policy |-> Open]

Steady == {All}
Changing == {All, Tight, Removed, Rotated}
=============================================================================
