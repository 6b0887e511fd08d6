-------------------------- MODULE MCSessionGuards --------------------------
(* SessionGuards with a client that answers pings and a guarded one that   *)
(* may stop reading; one type of packet for each kind of rule, windows of  *)
(* different lengths and limits a few packets reach.                       *)
EXTENDS SessionGuards

MCTypes == {"move", "login"}
MCRules == [t \in MCTypes |-> IF t = "move"
                              THEN [max |-> 1, window |-> 1, disconnect |-> FALSE]
                              ELSE [max |-> 2, window |-> 2, disconnect |-> TRUE]]
=============================================================================
