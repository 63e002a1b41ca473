--------------------------- MODULE MCLocalServers ---------------------------
(* Small instances of the local servers: settings that differ in what they  *)
(* restart, one model that is not on disk.                                   *)
EXTENDS ServerProperties

CONSTANTS ko, en

Plain == [remote |-> FALSE, runtime |-> "cpu", model |-> "large", port |-> 0]
Accelerated == [Plain EXCEPT !.runtime = "gpu"]
Remote == [Plain EXCEPT !.remote = TRUE]

MCSettings == {Plain, [Accelerated EXCEPT !.model = "missing"], Remote}
Saved == {Plain}
MCOnDisk == {"large", "turbo"}
=============================================================================
