----------------------------- MODULE MCEndpoint -----------------------------
(* Small instances of the endpoint: one slot and everything that goes wrong, *)
(* one slot and passes before a flush, and two slots.                        *)
EXTENDS Endpoint, TLC

CONSTANTS c1, c2
MCConnections == {c1, c2}
MCSetups == {[sessions |-> 1, events |-> 0, faults |-> {"die", "raise"}],
             [sessions |-> 1, events |-> 1, faults |-> {}],
             [sessions |-> 2, events |-> 0, faults |-> {}]}
=============================================================================
