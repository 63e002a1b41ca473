------------------------------ MODULE Updating ------------------------------
(***************************************************************************)
(* An update, from the button to the reopened application: the flow of     *)
(* settings_tab.go, the two sources of update.go and github.go, Download,  *)
(* and the two processes of install.go that outlive the client, the        *)
(* platform's installer and the watcher that reopens the application.      *)
(* The people who publish releases, and the user, act whenever they like.  *)
(*                                                                         *)
(* A package is a version and a build: publishing a version again replaces *)
(* its package first and its entry in SHA256SUMS later.  A hash is the     *)
(* package it is of; all packages are of one size.                         *)
(***************************************************************************)
EXTENDS Versions, FiniteSets

CONSTANTS
    Releases,      \* the versions that may be published or running
    FirstVersion,  \* the version of the first copy
    Replaceable,   \* those whose package may be replaced
    MaxBuilds,     \* bound on the builds of such a version
    MaxInstalls,   \* bound on the installers started
    Worlds         \* records: platform "darwin" or "windows"; source "github" or
                   \* "manifest"; checkOnStart; faults, which of these happen: "network"
                   \* a request fails, "damage" a download is cut or corrupt, "installer"
                   \* or "watcher" does not start, "crash" of the client, "patience" the
                   \* watcher stops waiting

ASSUME ReleasesAssumption ==
    /\ Releases \subseteq Seq(Nat \cup {Junk}) 
    /\ FirstVersion \in Releases /\ Replaceable \subseteq Releases
ASSUME BoundsAssumption == MaxBuilds \in Nat \ {0} /\ MaxInstalls \in Nat

Builds == 1 .. MaxBuilds
Installs == 1 .. MaxInstalls
NotListed == 0
Package == [version : Releases, build : Builds, damage : {"none", "cut", "corrupt"}]
Whole(version, build) == [version |-> version, build |-> build, damage |-> "none"]
NoFile == [version |-> FirstVersion, build |-> NotListed, damage |-> "none"]

VARIABLES
    world,      \* one of Worlds; it does not change
    site,       \* what is published: the latest version, whether it has an installer,
                \* and the build of each version and of its line in SHA256SUMS
    app,        \* the running copy and its version
    flow,       \* lookForUpdate and downloadAndInstall, and the button
    downloads,  \* the file in the Downloads folder, by version
    installed,  \* the version on disk
    installer, watcher,
    presses     \* history: how often the button was pressed

vars == <<world, site, app, flow, downloads, installed, installer, watcher, presses>>
osVars == <<downloads, installed, installer, watcher>>

Idle == [at |-> "idle", button |-> TRUE, install |-> FALSE, offered |-> FirstVersion,
         kind |-> "installer", digest |-> NotListed, sized |-> TRUE, received |-> NoFile]
Asking(install) == [Idle EXCEPT !.at = "asking", !.button = FALSE, !.install = install]
\* checkForUpdatesOnStart runs before the window is shown.
AtStart == IF world.checkOnStart THEN Asking(FALSE) ELSE Idle

Init ==
    /\ world \in Worlds
    /\ site = [latest |-> FirstVersion, carries |-> "installer",
               build |-> [v \in Releases |-> 1], listed |-> [v \in Releases |-> 1]]
    /\ app = [at |-> "running", version |-> FirstVersion]
    /\ flow = AtStart
    /\ downloads = [v \in Releases |-> NoFile]
    /\ installed = FirstVersion
    /\ installer = [n \in Installs |-> [at |-> "none", version |-> FirstVersion, from |-> FirstVersion]]
    /\ watcher = [n \in Installs |-> "none"]
    /\ presses = 0

-----------------------------------------------------------------------------
(* The distribution server.                                                 *)

\* "other" is a file the platform does not install from.
Release(version, carries) ==
    /\ site.latest # version
    /\ site' = [site EXCEPT !.latest = version, !.carries = carries]
    /\ UNCHANGED <<app, flow, osVars, presses>>

ReplacePackage ==
    /\ site.latest \in Replaceable
    /\ site.build[site.latest] < MaxBuilds
    /\ site' = [site EXCEPT !.build[site.latest] = @ + 1]
    /\ UNCHANGED <<app, flow, osVars, presses>>

ReplaceSums ==
    /\ site.listed[site.latest] # site.build[site.latest]
    /\ site' = [site EXCEPT !.listed[site.latest] = site.build[site.latest]]
    /\ UNCHANGED <<app, flow, osVars, presses>>

-----------------------------------------------------------------------------
(* lookForUpdate.                                                           *)

Running == app.at = "running"
At(here) == Running /\ flow.at = here

\* Mutant: the error is shown, and the button stays as it is.
FailsQuietly == flow' = [Idle EXCEPT !.button = FALSE]
\* An error or nothing newer: say so and enable the button.
EndsFlow == flow' = Idle

Press ==
    /\ Running
    /\ flow.button
    /\ presses < MaxInstalls
    /\ presses' = presses + 1
    /\ flow' = Asking(TRUE)
    /\ UNCHANGED <<site, app, osVars>>

\* The release document or the signed manifest; a request has a timeout of its own.
RequestFails ==
    /\ Running
    /\ flow.at \in {"asking", "summing", "fetching"}
    /\ "network" \in world.faults
    /\ EndsFlow
    /\ UNCHANGED <<site, app, osVars, presses>>

NothingNewer ==
    /\ At("asking")
    /\ ~IsNewer(site.latest, app.version)
    /\ world.source = "manifest" => site.carries # "nothing"
    /\ EndsFlow
    /\ UNCHANGED <<site, app, osVars, presses>>

\* GitHub: neither a .pkg nor an .msi.  A manifest: no build for the platform.
NoInstaller ==
    /\ At("asking")
    /\ \/ world.source = "manifest" /\ site.carries = "nothing"
       \/ /\ world.source = "github" /\ site.carries # "installer"
          /\ IsNewer(site.latest, app.version)
    /\ EndsFlow
    /\ UNCHANGED <<site, app, osVars, presses>>

ReadRelease ==
    /\ At("asking")
    /\ world.source = "github"
    /\ IsNewer(site.latest, app.version)
    /\ site.carries = "installer"
    /\ flow' = [flow EXCEPT !.at = "summing", !.offered = site.latest]
    /\ UNCHANGED <<site, app, osVars, presses>>

\* The checksums of the release that was read, whatever is the latest by now.
ReadSums ==
    /\ At("summing")
    /\ flow' = [flow EXCEPT !.at = "checked", !.digest = site.listed[flow.offered]]
    /\ UNCHANGED <<site, app, osVars, presses>>

\* Verify accepted the signature, which covers version and hash together.
ReadManifest(sized) ==
    /\ At("asking")
    /\ world.source = "manifest"
    /\ IsNewer(site.latest, app.version)
    /\ site.carries # "nothing"
    /\ flow' = [flow EXCEPT !.at = "checked", !.offered = site.latest, !.sized = sized,
                            !.kind = site.carries, !.digest = site.listed[site.latest]]
    /\ UNCHANGED <<site, app, osVars, presses>>

\* Mutant: the check at the start installs too.
AnyCheckInstalls == TRUE
MayInstall == flow.install

Offer ==
    /\ At("checked")
    /\ IF MayInstall THEN flow' = [flow EXCEPT !.at = "fetching"] ELSE EndsFlow
    /\ UNCHANGED <<site, app, osVars, presses>>

-----------------------------------------------------------------------------
(* Download.                                                                *)

\* What arrives in the temporary file.
Fetch(damage) ==
    /\ At("fetching")
    /\ damage # "none" => "damage" \in world.faults
    /\ flow' = [flow EXCEPT !.at = "received",
                            !.received = [Whole(flow.offered, site.build[flow.offered])
                                              EXCEPT !.damage = damage]]
    /\ UNCHANGED <<site, app, osVars, presses>>

\* Mutant: the size is enough.
SizeMatches == flow.sized => flow.received.damage # "cut"
HashMatches == /\ flow.sized => flow.received.damage # "cut"
               /\ flow.received = Whole(flow.offered, flow.digest)

\* The temporary file is removed.
Discard ==
    /\ At("received")
    /\ ~HashMatches
    /\ EndsFlow
    /\ UNCHANGED <<site, app, osVars, presses>>

Keep ==
    /\ At("received")
    /\ HashMatches
    /\ downloads' = [downloads EXCEPT ![flow.offered] = flow.received]
    /\ flow' = [flow EXCEPT !.at = "kept"]
    /\ UNCHANGED <<site, app, installed, installer, watcher, presses>>

-----------------------------------------------------------------------------
(* installDownloaded and Install.                                           *)

Used(n) == installer[n].at # "none" \/ watcher[n] # "none"
Unused(n) == ~Used(n) /\ \A k \in Installs : k < n => Used(k)

\* Only the platform's own kind of package is handed over; or msiexec or open fails,
\* and the watcher, started first, stays.
InstallerWouldNotStart(n) ==
    /\ At("kept")
    /\ Unused(n)
    /\ \/ flow.kind = "other" /\ UNCHANGED watcher
       \/ /\ flow.kind = "installer"
          /\ "installer" \in world.faults
          /\ watcher' = [watcher EXCEPT ![n] = "appearing"]
    /\ EndsFlow
    /\ UNCHANGED <<site, app, downloads, installed, installer, presses>>

HandOver(n) ==
    /\ At("kept")
    /\ Unused(n)
    /\ flow.kind = "installer"
    /\ installer' = [installer EXCEPT ![n] =
                        [at |-> "starting", version |-> flow.offered, from |-> app.version]]
    /\ \/ watcher' = [watcher EXCEPT ![n] = "appearing"]
       \/ "watcher" \in world.faults /\ UNCHANGED watcher
    /\ flow' = [flow EXCEPT !.at = "leaving"]
    /\ UNCHANGED <<site, app, downloads, installed, presses>>

\* Two seconds later.
Quit ==
    /\ At("leaving")
    /\ app' = [app EXCEPT !.at = "quitting"]
    /\ UNCHANGED <<site, flow, osVars, presses>>

\* The local servers have stopped.
Exit ==
    /\ app.at = "quitting"
    /\ app' = [app EXCEPT !.at = "gone"]
    /\ UNCHANGED <<site, flow, osVars, presses>>

Crash ==
    /\ "crash" \in world.faults
    /\ Running
    /\ app' = [app EXCEPT !.at = "gone"]
    /\ UNCHANGED <<site, flow, osVars, presses>>

-----------------------------------------------------------------------------
(* What outlives the client.                                                *)

Visible == \E n \in Installs : installer[n].at = "running"

InstallerAppears(n) ==
    /\ installer[n].at = "starting"
    /\ installer' = [installer EXCEPT ![n].at = "running"]
    /\ UNCHANGED <<site, app, flow, downloads, installed, watcher, presses>>

\* It replaces what is on disk, or the user dismisses it.
InstallerEnds(n) ==
    /\ installer[n].at = "running"
    /\ installer' = [installer EXCEPT ![n].at = "ended"]
    /\ installed' \in {installed, installer[n].version}
    /\ UNCHANGED <<site, app, flow, downloads, watcher, presses>>

\* RestartCommand.  The first loop looks for the installer for a minute; on Windows
\* there is none.
InstallerSeen(n) ==
    /\ watcher[n] = "appearing"
    /\ Visible \/ world.platform = "windows" \/ "patience" \in world.faults
          \/ installer[n].at \in {"none", "ended"}
    /\ watcher' = [watcher EXCEPT ![n] = "waiting"]
    /\ UNCHANGED <<site, app, flow, downloads, installed, installer, presses>>

\* Mutant: while there is none.
StillNone == Visible
WaitIsOver == ~Visible

WaitEnds(n) ==
    /\ watcher[n] = "waiting"
    /\ WaitIsOver
    /\ watcher' = [watcher EXCEPT ![n] = "reopening"]
    /\ UNCHANGED <<site, app, flow, downloads, installed, installer, presses>>

\* start and open -a bring a copy that is still there to the front, and run one if
\* there is none.
Reopen(n) ==
    /\ watcher[n] = "reopening"
    /\ watcher' = [watcher EXCEPT ![n] = "done"]
    /\ IF app.at = "gone"
       THEN app' = [at |-> "running", version |-> installed] /\ flow' = AtStart
       ELSE UNCHANGED <<app, flow>>
    /\ UNCHANGED <<site, downloads, installed, installer, presses>>

\* The Windows loop looks six hundred times.
WatcherGivesUp(n) ==
    /\ world.platform = "windows"
    /\ "patience" \in world.faults
    /\ watcher[n] = "waiting"
    /\ Visible
    /\ watcher' = [watcher EXCEPT ![n] = "done"]
    /\ UNCHANGED <<site, app, flow, downloads, installed, installer, presses>>

\* By the user.
Launch ==
    /\ app.at = "gone"
    /\ app' = [at |-> "running", version |-> installed]
    /\ flow' = AtStart
    /\ UNCHANGED <<site, osVars, presses>>

-----------------------------------------------------------------------------
FlowStep ==
    \/ RequestFails \/ NothingNewer \/ NoInstaller \/ ReadRelease \/ ReadSums
    \/ \E sized \in BOOLEAN : ReadManifest(sized)
    \/ Offer \/ Discard \/ Keep \/ Quit
    \/ \E damage \in {"none", "cut", "corrupt"} : Fetch(damage)
    \/ \E n \in Installs : InstallerWouldNotStart(n) \/ HandOver(n)

InstallerStep(n) == InstallerAppears(n) \/ InstallerEnds(n)
WatcherStep(n) == InstallerSeen(n) \/ WaitEnds(n) \/ Reopen(n) \/ WatcherGivesUp(n)

Publishers ==
    \/ \E v \in Releases, carries \in {"installer", "other", "nothing"} : Release(v, carries)
    \/ ReplacePackage \/ ReplaceSums

Next ==
    /\ \/ Press \/ Launch \/ Crash \/ Exit \/ FlowStep \/ Publishers
       \/ \E n \in Installs : InstallerStep(n) \/ WatcherStep(n)
    /\ UNCHANGED world

Spec == Init /\ [][Next]_vars

(* Requests and processes time out, a user answers the installer sooner or   *)
(* later; nobody has to publish, press or launch.                            *)
FairSpec ==
    /\ Spec
    /\ WF_vars(FlowStep /\ UNCHANGED world)
    /\ WF_vars(Exit /\ UNCHANGED world)
    /\ \A n \in Installs : /\ WF_vars(InstallerStep(n) /\ UNCHANGED world)
                           /\ WF_vars(WatcherStep(n) /\ UNCHANGED world)

-----------------------------------------------------------------------------
(***************************************************************************)
(* What an installer was given, and works from while the user decides, is  *)
(* the complete package of a version newer than the copy that downloaded   *)
(* it, though releases are replaced between the three requests, transfers  *)
(* break, and the client crashes or is started again meanwhile.            *)
(* github.go: Check; update.go: Download.                                  *)
(***************************************************************************)
OnlyVerifiedPackagesAreInstalled ==
    \A n \in Installs : installer[n].at \in {"starting", "running"} =>
        LET package == downloads[installer[n].version]
        IN  /\ package.version = installer[n].version
            /\ package.build # NotListed
            /\ package.damage = "none"
            /\ IsNewer(package.version, installer[n].from)

(***************************************************************************)
(* "Installing a new version and restarting because someone opened the app *)
(* would be a different setting": however checks at the start, crashes and *)
(* reopened copies mix, no more installers run than the button was pressed. *)
(* settings_tab.go: checkOnStart, lookForUpdate.                           *)
(***************************************************************************)
EachPressInstallsOnce ==
    Cardinality({n \in Installs : installer[n].at # "none"}) <= presses

(***************************************************************************)
(* The button does not stay disabled: whatever a check or a download runs  *)
(* into, it comes back or the client goes.  settings_tab.go: lookForUpdate, *)
(* downloadAndInstall, installDownloaded.                                  *)
(***************************************************************************)
ButtonComesBack == Running /\ ~flow.button ~> flow.button \/ ~Running

(***************************************************************************)
(* The copy that an installer ended without is reopened, unless the watcher *)
(* ran out of patience.  install.go: RestartCommand.                       *)
(***************************************************************************)
LeftToReopen(n) ==
    /\ installer[n].at = "ended"
    /\ app.at = "gone"
    /\ watcher[n] \in {"appearing", "waiting", "reopening"}
    /\ "patience" \notin world.faults
ReopensAfterQuit == \A n \in Installs : LeftToReopen(n) ~> app.at = "running"
=============================================================================
