---------------------------- MODULE MCApplication ----------------------------
(* A small instance of the application, with a chord and a bare key: two     *)
(* saves about a session that begins, a session that ends while its          *)
(* goroutines report errors, and a dial that says much and a break.          *)
EXTENDS Application

MCSetups == {[saves |-> 2, presses |-> 1, faults |-> {"update", "taken", "stuck"}],
             [saves |-> 0, presses |-> 2, faults |-> {"event"}],
             [saves |-> 0, presses |-> 1, faults |-> {"lines", "drop"}]}
=============================================================================
