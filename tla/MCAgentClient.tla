--------------------------- MODULE MCAgentClient ----------------------------
(***************************************************************************)
(* AgentClient for TLC.  Each program gets the requests and deliveries     *)
(* that make its own cases happen: two lines of a publisher, a task of the *)
(* coordinator, a second wait of the responder, and two deliveries for the *)
(* one subscriber, so that the replay array fills and a requeue overflows. *)
(***************************************************************************)
EXTENDS AgentClient, TLC

CONSTANTS c1, c2

RequestsOf ==
    [p \in Programs |-> CASE p = "publisher" -> 4
                          [] p \in {"coordinator", "one-shot"} -> 3
                          [] OTHER -> 2]

DeliveriesOf ==
    [p \in Programs |-> CASE p = "publisher" -> 0 [] p = "permanent" -> 2 [] OTHER -> 1]
=============================================================================
