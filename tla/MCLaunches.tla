------------------------------ MODULE MCLaunches ------------------------------
(***************************************************************************)
(* Three launches, in the worlds of MCWorlds.                               *)
(***************************************************************************)
EXTENDS Launches

\* The settings; the settings on a disk that fails; the model; the model on a disk that
\* fails, with a copy that may run without the lock; both.
MCWorlds == {
    [savers |-> {1, 2, 3}, installers |-> {}, faults |-> {"crash", "lock"}],
    [savers |-> {1, 2}, installers |-> {}, faults |-> {"disk", "lock"}],
    [savers |-> {}, installers |-> {1, 2, 3}, faults |-> {"crash"}],
    [savers |-> {}, installers |-> {1, 2}, faults |-> {"crash", "lock", "disk"}],
    [savers |-> {1}, installers |-> {1, 2}, faults |-> {"crash", "disk"}] }
===============================================================================
