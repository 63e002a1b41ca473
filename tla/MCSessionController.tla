-------------------------- MODULE MCSessionController --------------------------
(* Small instances of the controller: two sessions over connections that may  *)
(* break, one session in a world where everything goes wrong.                 *)
EXTENDS ControllerProperties

World(faults, sessions) == [faults |-> faults, sessions |-> sessions]

AllFaults == {"drop", "stall", "timeout", "focus", "quit"}

Ordinary == {World({"drop"}, 2), World(AllFaults, 1)}
================================================================================
