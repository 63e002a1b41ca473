----------------------------- MODULE MCUpdating -----------------------------
(* Small instances of an update: a version and a newer one.                  *)
EXTENDS Updating

MCFirst == <<1, 2>>
MCNewer == <<1, 10, Junk>>
MCReleases == {MCFirst, MCNewer}
MCReplaceable == {MCNewer}

Mac == [platform |-> "darwin", source |-> "github", checkOnStart |-> TRUE,
        faults |-> {"network", "damage", "installer", "watcher", "crash"}]
Windows == [platform |-> "windows", source |-> "manifest", checkOnStart |-> FALSE,
            faults |-> {"network", "damage", "installer", "patience"}]
Both == {Mac, Windows}
=============================================================================
