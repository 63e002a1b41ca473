--------------------------- MODULE UpdatingProofs ---------------------------
(***************************************************************************)
(* IsNewer orders the versions strictly: an update is never offered for    *)
(* the version that runs, never back and forth between two releases, and   *)
(* what is newer than a newer release is newer.  And what an update        *)
(* installs, for any releases, builds, presses and faults.                 *)
(***************************************************************************)
EXTENDS Updating, FiniteSetTheorems, WellFoundedInduction, TLAPS

\* What stands for a version in a comparison.
Parts == Seq(Nat)

\* A field is a number, written or not.
LEMMA PartType == ASSUME NEW a \in Parts, NEW i \in Nat \ {0} PROVE Part(a, i) \in Nat
  BY DEF Part, Parts

\* Equal up to a field, and greater in it.
FirstAbove(a, b, i) == /\ Part(a, i) > Part(b, i)
               /\ \A j \in 1 .. i - 1 : Part(a, j) = Part(b, j)

\* Nothing exceeds itself.
LEMMA Irreflexive == ASSUME NEW a \in Parts PROVE ~Exceeds(a, a)
<1>1. \A i \in 1 .. Len(a) : Part(a, i) \in Nat
  BY PartType DEF Parts
<1>2. QED
  BY <1>1 DEF Exceeds

\* A greater version exceeds in a field it has, so the field bounds may be dropped.
LEMMA ExceedsSomewhere ==
  ASSUME NEW a \in Parts, NEW b \in Parts
  PROVE  Exceeds(a, b) <=> \E i \in Nat \ {0} : FirstAbove(a, b, i)
<1>1. Len(a) \in Nat
  BY DEF Parts
<1>2. ASSUME NEW i \in Nat \ {0}, FirstAbove(a, b, i) PROVE i \in 1 .. Len(a)
  <2>1. Part(b, i) \in Nat
    BY PartType
  <2>2. CASE i > Len(a)
    <3>1. Part(a, i) = 0
      BY <1>1, <2>2 DEF Part
    <3>2. QED
      BY <1>2, <2>1, <3>1 DEF FirstAbove
  <2>3. QED
    BY <1>1, <2>2
<1>3. Exceeds(a, b) => \E i \in Nat \ {0} : FirstAbove(a, b, i)
  BY <1>1 DEF Exceeds, FirstAbove
<1>4. ASSUME NEW i \in Nat \ {0}, FirstAbove(a, b, i) PROVE Exceeds(a, b)
  BY <1>2, <1>4 DEF Exceeds, FirstAbove
<1>5. QED
  BY <1>3, <1>4

\* What exceeds a greater version exceeds the lesser: in the first of the two fields.
LEMMA Transitive ==
  ASSUME NEW a \in Parts, NEW b \in Parts, NEW c \in Parts, Exceeds(a, b), Exceeds(b, c)
  PROVE  Exceeds(a, c)
<1>1. PICK i \in Nat \ {0} : FirstAbove(a, b, i)
  BY ExceedsSomewhere
<1>2. PICK k \in Nat \ {0} : FirstAbove(b, c, k)
  BY ExceedsSomewhere
<1>3. \A j \in Nat \ {0} : Part(a, j) \in Nat /\ Part(b, j) \in Nat /\ Part(c, j) \in Nat
  BY PartType
<1>4. CASE i < k
  <2>1. Part(b, i) = Part(c, i) /\ \A j \in 1 .. i - 1 : Part(b, j) = Part(c, j)
    BY <1>2, <1>4 DEF FirstAbove
  <2>2. FirstAbove(a, c, i)
    BY <1>1, <2>1 DEF FirstAbove
  <2>3. QED
    BY <2>2, ExceedsSomewhere
<1>5. CASE i = k
  <2>1. FirstAbove(a, c, i)
    BY <1>1, <1>2, <1>3, <1>5 DEF FirstAbove
  <2>2. QED
    BY <2>1, ExceedsSomewhere
<1>6. CASE k < i
  <2>1. Part(a, k) = Part(b, k) /\ \A j \in 1 .. k - 1 : Part(a, j) = Part(b, j)
    BY <1>1, <1>6 DEF FirstAbove
  <2>2. FirstAbove(a, c, k)
    BY <1>2, <2>1 DEF FirstAbove
  <2>3. QED
    BY <2>2, ExceedsSomewhere
<1>7. QED
  BY <1>4, <1>5, <1>6

-----------------------------------------------------------------------------
\* A set of numbers with a bound has a greatest: the least of its bounds.
LEMMA Greatest ==
  ASSUME NEW S \in SUBSET Nat, NEW bound \in Nat, \A n \in S : n <= bound, 0 \in S
  PROVE  \E n \in S : \A k \in S : k <= n
<1> DEFINE Bounds == {m \in Nat : \A n \in S : n <= m}
<1>1. PICK m \in Bounds : \A k \in Bounds : ~(<<k, m>> \in OpToRel(<, Nat))
  <2>1. bound \in Bounds
    OBVIOUS
  <2>2. QED
    BY <2>1, NatLessThanWellFounded, WFMin
<1>2. \A k \in Bounds : ~(k < m)
  BY <1>1 DEF OpToRel
<1>3. m \in S
  <2>1. CASE m = 0
    BY <2>1
  <2>2. CASE m # 0
    <3>1. m - 1 \in Nat /\ m - 1 < m
      BY <2>2
    <3>2. PICK n \in S : ~(n <= m - 1)
      BY <1>2, <3>1
    <3>3. n = m
      BY <3>2
    <3>4. QED
      BY <3>3
  <2>3. QED
    BY <2>1, <2>2
<1>4. QED
  BY <1>3

\* The fields before the first that is no number are numbers.
LEMMA VersionPartsType ==
  ASSUME NEW version \in Seq(Nat \cup {Junk})
  PROVE  VersionParts(version) \in Parts
<1> DEFINE numeric == {n \in 0 .. Len(version) : \A i \in 1 .. n : version[i] # Junk}
           longest == CHOOSE n \in numeric : \A k \in numeric : k <= n
<1>1. Len(version) \in Nat
  OBVIOUS
<1>2. 0 \in numeric /\ numeric \in SUBSET Nat /\ \A n \in numeric : n <= Len(version)
  BY <1>1
<1>3. \E n \in numeric : \A k \in numeric : k <= n
  BY <1>1, <1>2, Greatest
<1>4. longest \in numeric
  BY <1>3
<1>5. longest \in 0 .. Len(version) /\ \A i \in 1 .. longest : version[i] # Junk
  BY <1>4
<1>6. VersionParts(version) = SubSeq(version, 1, longest)
  BY DEF VersionParts
<1> HIDE DEF longest, numeric
<1>7. \A i \in 1 .. longest : version[i] \in Nat
  <2>1. \A i \in 1 .. Len(version) : version[i] \in Nat \cup {Junk}
    OBVIOUS
  <2>2. QED
    BY <1>1, <1>5, <2>1
<1>8. SubSeq(version, 1, longest) \in Seq(Nat)
  <2>1. SubSeq(version, 1, longest) = [i \in 1 .. longest |-> version[i]]
    BY <1>1, <1>5
  <2>2. [i \in 1 .. longest |-> version[i]] \in [1 .. longest -> Nat]
    BY <1>7
  <2>3. QED
    BY <1>1, <1>5, <2>1, <2>2
<1>9. QED
  BY <1>6, <1>8 DEF Parts

(***************************************************************************)
(* IsNewer of update.go:295 is a strict order of all version strings: no   *)
(* version is newer than itself, of two at most one is newer, and newness  *)
(* carries over a release in between, suffixes and missing fields          *)
(* included.                                                               *)
(***************************************************************************)
THEOREM NewerIsAStrictOrder ==
  ASSUME NEW a \in Seq(Nat \cup {Junk}), NEW b \in Seq(Nat \cup {Junk}),
         NEW c \in Seq(Nat \cup {Junk})
  PROVE  /\ ~IsNewer(a, a)
         /\ IsNewer(a, b) => ~IsNewer(b, a)
         /\ IsNewer(a, b) /\ IsNewer(b, c) => IsNewer(a, c)
<1>1. {VersionParts(a), VersionParts(b), VersionParts(c)} \subseteq Parts
  BY VersionPartsType
<1>2. ~IsNewer(a, a)
  BY <1>1, Irreflexive DEF IsNewer
<1>3. IsNewer(a, b) /\ IsNewer(b, c) => IsNewer(a, c)
  BY <1>1, Transitive DEF IsNewer
<1>4. ASSUME IsNewer(a, b), IsNewer(b, a) PROVE FALSE
  <2>1. Exceeds(VersionParts(a), VersionParts(a))
    BY <1>1, <1>4, Transitive DEF IsNewer
  <2>2. QED
    BY <1>1, <2>1, Irreflexive
<1>5. QED
  BY <1>2, <1>3, <1>4

-----------------------------------------------------------------------------
(* The flow of an update.                                                   *)

File == [version : Releases, build : 0 .. MaxBuilds, damage : {"none", "cut", "corrupt"}]
Site == [latest : Releases, carries : {"installer", "other", "nothing"},
         build : [Releases -> Builds], listed : [Releases -> Builds]]
Offered == {"summing", "checked", "fetching", "received", "kept", "leaving"}
Flow == [at : {"idle", "asking"} \cup Offered, button : BOOLEAN, install : BOOLEAN,
         offered : Releases, kind : {"installer", "other", "nothing"}, digest : 0 .. MaxBuilds,
         sized : BOOLEAN, received : File]
Installer == [at : {"none", "starting", "running", "ended"}, version : Releases, from : Releases]

(* Types of the state: settings_tab.go, update.go, github.go, install.go.   *)
TypeOK ==
    /\ site \in Site
    /\ app \in [at : {"running", "quitting", "gone"}, version : Releases]
    /\ flow \in Flow
    /\ downloads \in [Releases -> File]
    /\ installed \in Releases
    /\ installer \in [Installs -> Installer]
    /\ watcher \in [Installs -> {"none", "appearing", "waiting", "reopening", "done"}]
    /\ presses \in Nat

\* What is in the Downloads folder was checked there.
Verified(v) == downloads[v].version = v /\ downloads[v].build # NotListed /\ downloads[v].damage = "none"
FilesAreChecked == \A v \in Releases : downloads[v].build # NotListed => Verified(v)

\* What the flow offers is newer than the copy it runs in, and there once it is kept.
FlowInv ==
    /\ flow.at \in Offered => IsNewer(flow.offered, app.version)
    /\ flow.at = "received" => flow.received.build # NotListed
    /\ flow.at \in {"kept", "leaving"} => Verified(flow.offered)

\* What was handed over is newer than the copy that did it, and there.
HandedOver == \A n \in Installs : installer[n].at # "none" =>
    IsNewer(installer[n].version, installer[n].from) /\ Verified(installer[n].version)

\* A press that has not led to an installer yet is one the flow still works for; the
\* button is back when it does not.
Started == {n \in Installs : installer[n].at # "none"}
Pending == IF flow.install /\ flow.at # "leaving" THEN 1 ELSE 0
PressesInv ==
    /\ Cardinality(Started) + Pending <= presses
    /\ flow.button => ~flow.install
    /\ flow.at \in {"fetching", "received", "kept"} => flow.install

IInv == TypeOK /\ FilesAreChecked /\ FlowInv /\ HandedOver /\ PressesInv

-----------------------------------------------------------------------------
LEMMA FlowFields == ASSUME NEW f \in Flow
  PROVE  /\ \A at \in {"idle", "asking"} \cup Offered : [f EXCEPT !.at = at] \in Flow
         /\ \A version \in Releases : [f EXCEPT !.offered = version] \in Flow
         /\ \A kind \in {"installer", "other", "nothing"} : [f EXCEPT !.kind = kind] \in Flow
         /\ \A digest \in 0 .. MaxBuilds : [f EXCEPT !.digest = digest] \in Flow
         /\ \A sized \in BOOLEAN : [f EXCEPT !.sized = sized] \in Flow
         /\ \A file \in File : [f EXCEPT !.received = file] \in Flow
         /\ \A answer \in BOOLEAN : /\ [f EXCEPT !.button = answer] \in Flow
                                    /\ [f EXCEPT !.install = answer] \in Flow
BY DEF Flow

LEMMA IdleIsTyped == Idle \in Flow /\ Asking(TRUE) \in Flow /\ AtStart \in Flow
<1>1. NoFile \in File
  BY ReleasesAssumption, BoundsAssumption DEF NoFile, NotListed, File
<1>2. Idle \in Flow
  BY <1>1, ReleasesAssumption, BoundsAssumption DEF Idle, NotListed, Flow
<1>3. ASSUME NEW install \in BOOLEAN PROVE Asking(install) \in Flow
  <2> DEFINE asking == [Idle EXCEPT !.at = "asking"]
  <2>1. asking \in Flow
    BY <1>2, FlowFields
  <2> DEFINE disabled == [asking EXCEPT !.button = FALSE]
  <2>2. disabled \in Flow
    BY <2>1, FlowFields
  <2>3. [disabled EXCEPT !.install = install] \in Flow
    BY <2>2, FlowFields
  <2>4. QED
    BY <2>3 DEF Asking
<1>4. QED
  BY <1>2, <1>3 DEF AtStart

LEMMA InitHolds == ASSUME Init PROVE IInv
<1>1. NoFile \in File /\ NoFile.build = NotListed
  BY ReleasesAssumption, BoundsAssumption DEF NoFile, NotListed, File
<1>2. site \in Site
  BY ReleasesAssumption, BoundsAssumption DEF Init, Site, Builds
<1>3. TypeOK
  BY <1>1, <1>2, IdleIsTyped, ReleasesAssumption DEF Init, TypeOK, Installer
<1>4. flow.at \notin Offered /\ ~flow.install
  BY DEF Init, AtStart, Asking, Idle, Offered
<1>5. Started = {}
  BY DEF Init, Started
<1>6. PressesInv
  BY <1>4, <1>5, FS_EmptySet DEF Init, PressesInv, Pending, Offered
<1>7. FilesAreChecked /\ FlowInv /\ HandedOver
  BY <1>1, <1>4 DEF Init, FilesAreChecked, FlowInv, HandedOver, Offered
<1>8. QED
  BY <1>3, <1>6, <1>7 DEF IInv

LEMMA TypesStay == ASSUME TypeOK, [Next]_vars PROVE TypeOK'
<1> USE DEF TypeOK, osVars
<1>1. CASE Press
  <2>1. flow' \in Flow
    BY <1>1, IdleIsTyped DEF Press
  <2>2. presses' \in Nat
    BY <1>1 DEF Press
  <2>3. QED
    BY <1>1, <2>1, <2>2 DEF Press
<1>2. CASE Launch
  BY <1>2, IdleIsTyped DEF Launch
<1>3. CASE Crash
  BY <1>3 DEF Crash
<1>4. CASE Exit
  BY <1>4 DEF Exit
<1>5. CASE RequestFails
  BY <1>5, IdleIsTyped DEF RequestFails, EndsFlow
<1>6. CASE NothingNewer
  BY <1>6, IdleIsTyped DEF NothingNewer, EndsFlow
<1>7. CASE NoInstaller
  BY <1>7, IdleIsTyped DEF NoInstaller, EndsFlow
<1>8. CASE ReadRelease
  <2> DEFINE summing == [flow EXCEPT !.at = "summing"]
  <2>1. summing \in Flow
    BY FlowFields DEF Offered
  <2> DEFINE offering == [summing EXCEPT !.offered = site.latest]
  <2>2. offering \in Flow
    BY <2>1, FlowFields DEF Offered, Site
  <2>3. flow' = offering
    BY <1>8 DEF ReadRelease
  <2> HIDE DEF summing, offering
  <2>4. QED
    BY <1>8, <2>2, <2>3 DEF ReadRelease
<1>9. CASE ReadSums
  <2>1. site.listed[flow.offered] \in 0 .. MaxBuilds
    BY BoundsAssumption DEF Site, Flow, Builds
  <2> DEFINE checked == [flow EXCEPT !.at = "checked"]
  <2>2. checked \in Flow
    BY FlowFields DEF Offered
  <2> DEFINE summed == [checked EXCEPT !.digest = site.listed[flow.offered]]
  <2>3. summed \in Flow
    BY <2>1, <2>2, FlowFields DEF Offered, Site
  <2>4. flow' = summed
    BY <1>9 DEF ReadSums
  <2> HIDE DEF checked, summed
  <2>5. QED
    BY <1>9, <2>3, <2>4 DEF ReadSums
<1>10. ASSUME NEW sized \in BOOLEAN, ReadManifest(sized) PROVE TypeOK'
  <2>1. site.listed[site.latest] \in 0 .. MaxBuilds /\ site.latest \in Releases
        /\ site.carries \in {"installer", "other", "nothing"}
    BY BoundsAssumption DEF Site, Builds
  <2> DEFINE checked == [flow EXCEPT !.at = "checked"]
  <2>2. checked \in Flow
    BY FlowFields DEF Offered
  <2> DEFINE offering == [checked EXCEPT !.offered = site.latest]
  <2>3. offering \in Flow
    BY <2>1, <2>2, FlowFields DEF Offered, Site
  <2> DEFINE measured == [offering EXCEPT !.sized = sized]
  <2>4. measured \in Flow
    BY <2>1, <2>3, FlowFields DEF Offered
  <2> DEFINE known == [measured EXCEPT !.kind = site.carries]
  <2>5. known \in Flow
    BY <2>1, <2>4, FlowFields DEF Offered, Site
  <2> DEFINE summed == [known EXCEPT !.digest = site.listed[site.latest]]
  <2>6. summed \in Flow
    BY <2>1, <2>5, FlowFields DEF Offered, Site
  <2>7. flow' = summed
    BY <1>10 DEF ReadManifest
  <2> HIDE DEF checked, offering, measured, known, summed
  <2>8. QED
    BY <1>10, <2>6, <2>7 DEF ReadManifest
<1>11. CASE Offer
  <2>1. [flow EXCEPT !.at = "fetching"] \in Flow
    BY FlowFields DEF Offered
  <2>2. flow' \in Flow
    BY <1>11, <2>1, IdleIsTyped DEF Offer, EndsFlow
  <2>3. QED
    BY <1>11, <2>2 DEF Offer
<1>12. CASE Discard
  BY <1>12, IdleIsTyped DEF Discard, EndsFlow
<1>13. CASE Keep
  <2>1. flow.received \in File /\ flow.offered \in Releases
    BY DEF Flow
  <2>2. flow' \in Flow
    BY <1>13, FlowFields DEF Keep, Offered
  <2>3. QED
    BY <1>13, <2>1, <2>2 DEF Keep
<1>14. CASE Quit
  BY <1>14, FlowFields DEF Quit
<1>15. ASSUME NEW damage \in {"none", "cut", "corrupt"}, Fetch(damage) PROVE TypeOK'
  <2> DEFINE file == [Whole(flow.offered, site.build[flow.offered]) EXCEPT !.damage = damage]
  <2>1. file \in File
    <3>1. site.build[flow.offered] \in 0 .. MaxBuilds /\ flow.offered \in Releases
      BY BoundsAssumption DEF Site, Flow, Builds
    <3>2. QED
      BY <3>1 DEF Whole, File
  <2> DEFINE receiving == [flow EXCEPT !.at = "received"]
  <2>2. receiving \in Flow
    BY FlowFields DEF Offered
  <2> DEFINE received == [receiving EXCEPT !.received = file]
  <2>3. received \in Flow
    BY <2>1, <2>2, FlowFields DEF Offered
  <2>4. flow' = received
    BY <1>15 DEF Fetch
  <2> HIDE DEF file, receiving, received
  <2>5. QED
    BY <1>15, <2>3, <2>4 DEF Fetch
<1>16. ASSUME NEW n \in Installs, InstallerWouldNotStart(n) PROVE TypeOK'
  BY <1>16, IdleIsTyped DEF InstallerWouldNotStart, EndsFlow
<1>17. ASSUME NEW n \in Installs, HandOver(n) PROVE TypeOK'
  <2>1. installer' \in [Installs -> Installer]
    BY <1>17 DEF HandOver, Installer, Flow
  <2>2. flow' \in Flow
    BY <1>17, FlowFields DEF HandOver, Offered
  <2>3. QED
    BY <1>17, <2>1, <2>2 DEF HandOver
<1>18. ASSUME NEW v \in Releases, NEW carries \in {"installer", "other", "nothing"}, Release(v, carries) PROVE TypeOK'
  <2> DEFINE latest == [site EXCEPT !.latest = v]
  <2>1. latest \in Site
    BY DEF Site
  <2>2. site' = [latest EXCEPT !.carries = carries]
    BY <1>18 DEF Release
  <2> HIDE DEF latest
  <2>3. site' \in Site
    BY <2>1, <2>2 DEF Site
  <2>4. QED
    BY <1>18, <2>3 DEF Release
<1>19. CASE ReplacePackage
  <2>1. site.build[site.latest] + 1 \in Builds
    BY <1>19, BoundsAssumption DEF ReplacePackage, Site, Builds
  <2>2. site' \in Site
    BY <1>19, <2>1 DEF ReplacePackage, Site
  <2>3. QED
    BY <1>19, <2>2 DEF ReplacePackage
<1>20. CASE ReplaceSums
  <2>1. site' \in Site
    BY <1>20 DEF ReplaceSums, Site
  <2>2. QED
    BY <1>20, <2>1 DEF ReplaceSums
<1>21. ASSUME NEW n \in Installs, InstallerAppears(n) PROVE TypeOK'
  BY <1>21 DEF InstallerAppears, Installer
<1>22. ASSUME NEW n \in Installs, InstallerEnds(n) PROVE TypeOK'
  BY <1>22 DEF InstallerEnds, Installer
<1>23. ASSUME NEW n \in Installs, InstallerSeen(n) PROVE TypeOK'
  BY <1>23 DEF InstallerSeen
<1>24. ASSUME NEW n \in Installs, WaitEnds(n) PROVE TypeOK'
  BY <1>24 DEF WaitEnds
<1>25. ASSUME NEW n \in Installs, Reopen(n) PROVE TypeOK'
  BY <1>25, IdleIsTyped DEF Reopen
<1>26. ASSUME NEW n \in Installs, WatcherGivesUp(n) PROVE TypeOK'
  BY <1>26 DEF WatcherGivesUp
<1>27. CASE UNCHANGED vars
  BY <1>27 DEF vars
<1>28. QED
  BY <1>1, <1>2, <1>3, <1>4, <1>5, <1>6, <1>7, <1>8, <1>9, <1>10, <1>11, <1>12, <1>13,
     <1>14, <1>15, <1>16, <1>17, <1>18, <1>19, <1>20, <1>21, <1>22, <1>23, <1>24, <1>25,
     <1>26, <1>27 DEF Next, FlowStep, Publishers, InstallerStep, WatcherStep

\* Packages, and the versions the flow and the installers are for.
LEMMA PackagesStay == ASSUME TypeOK, FilesAreChecked, FlowInv, HandedOver, [Next]_vars
                      PROVE FilesAreChecked' /\ FlowInv' /\ HandedOver'
<1> USE DEF FilesAreChecked, FlowInv, HandedOver, Verified, Offered
<1>1. CASE Press
  BY <1>1 DEF Press, osVars, Asking, AtStart, Idle
<1>2. CASE Launch
  BY <1>2 DEF Launch, osVars, Asking, AtStart, Idle
<1>3. CASE Crash
  BY <1>3 DEF Crash, osVars, TypeOK, Flow
<1>4. CASE Exit
  BY <1>4 DEF Exit, osVars, TypeOK, Flow
<1>5. CASE RequestFails
  BY <1>5 DEF RequestFails, osVars, EndsFlow, Idle, TypeOK, Flow
<1>6. CASE NothingNewer
  BY <1>6 DEF NothingNewer, osVars, EndsFlow, Idle, TypeOK, Flow
<1>7. CASE NoInstaller
  BY <1>7 DEF NoInstaller, osVars, EndsFlow, Idle, TypeOK, Flow
<1>8. CASE ReadRelease
  BY <1>8 DEF ReadRelease, osVars, TypeOK, Flow
<1>9. CASE ReadSums
  <2>1. flow'.at = "checked" /\ flow'.offered = flow.offered /\ flow.at = "summing"
    BY <1>9 DEF ReadSums, At, TypeOK, Flow
  <2>2. QED
    BY <1>9, <2>1 DEF ReadSums, osVars
<1>10. ASSUME NEW sized \in BOOLEAN, ReadManifest(sized) PROVE FilesAreChecked' /\ FlowInv' /\ HandedOver'
  BY <1>10 DEF ReadManifest, osVars, TypeOK, Flow
<1>11. CASE Offer
  <2>1. CASE MayInstall
    <3>1. flow'.at = "fetching" /\ flow'.offered = flow.offered /\ flow.at = "checked"
      BY <1>11, <2>1 DEF Offer, At, TypeOK, Flow
    <3>2. QED
      BY <1>11, <3>1 DEF Offer, osVars
  <2>2. CASE ~MayInstall
    BY <1>11, <2>2 DEF Offer, EndsFlow, Idle, osVars
  <2>3. QED
    BY <2>1, <2>2
<1>12. CASE Discard
  BY <1>12 DEF Discard, osVars, EndsFlow, Idle, TypeOK, Flow
<1>13. CASE Keep
  <2>1. /\ flow.received.version = flow.offered /\ flow.received.damage = "none"
        /\ flow.received.build # NotListed /\ flow.offered \in Releases
    BY <1>13 DEF Keep, At, HashMatches, Whole, TypeOK, Flow
  <2>2. flow'.at = "kept" /\ flow'.offered = flow.offered /\ flow.at = "received"
    BY <1>13 DEF Keep, At, TypeOK, Flow
  <2>3. downloads' = [downloads EXCEPT ![flow.offered] = flow.received]
    BY <1>13 DEF Keep
  <2>4. \A v \in Releases : Verified(v) => Verified(v)'
    BY <2>1, <2>3 DEF TypeOK
  <2>5. Verified(flow.offered)'
    BY <2>1, <2>2, <2>3 DEF TypeOK
  <2>6. FilesAreChecked'
    BY <2>1, <2>3 DEF TypeOK
  <2>7. FlowInv'
    BY <1>13, <2>2, <2>5 DEF Keep
  <2>8. HandedOver'
    BY <1>13, <2>4 DEF Keep, TypeOK, Installer
  <2>9. QED
    BY <2>6, <2>7, <2>8
<1>14. CASE Quit
  BY <1>14 DEF Quit, osVars, TypeOK, Flow
<1>15. ASSUME NEW damage \in {"none", "cut", "corrupt"}, Fetch(damage) PROVE FilesAreChecked' /\ FlowInv' /\ HandedOver'
  <2>1. site.build[flow.offered] # NotListed
    BY BoundsAssumption DEF TypeOK, Site, Builds, NotListed, Flow
  <2>2. flow'.at = "received" /\ flow'.offered = flow.offered /\ flow.at = "fetching"
    BY <1>15 DEF Fetch, At, TypeOK, Flow
  <2>3. flow'.received.build = site.build[flow.offered]
    BY <1>15 DEF Fetch, Whole, TypeOK, Flow
  <2>4. QED
    BY <1>15, <2>1, <2>2, <2>3 DEF Fetch, osVars
<1>16. ASSUME NEW n \in Installs, InstallerWouldNotStart(n) PROVE FilesAreChecked' /\ FlowInv' /\ HandedOver'
  BY <1>16 DEF InstallerWouldNotStart, osVars, EndsFlow, Idle, TypeOK, Flow
<1>17. ASSUME NEW n \in Installs, HandOver(n) PROVE FilesAreChecked' /\ FlowInv' /\ HandedOver'
  <2>1. flow'.at = "leaving" /\ flow'.offered = flow.offered /\ flow.at = "kept"
    BY <1>17 DEF HandOver, At, TypeOK, Flow
  <2>2. installer' = [installer EXCEPT ![n] =
                        [at |-> "starting", version |-> flow.offered, from |-> app.version]]
    BY <1>17 DEF HandOver
  <2>3. UNCHANGED <<app, downloads>>
    BY <1>17 DEF HandOver
  <2>4. HandedOver'
    BY <2>1, <2>2, <2>3 DEF TypeOK
  <2>5. QED
    BY <2>1, <2>3, <2>4
<1>18. ASSUME NEW v \in Releases, NEW carries \in {"installer", "other", "nothing"}, Release(v, carries) PROVE FilesAreChecked' /\ FlowInv' /\ HandedOver'
  BY <1>18 DEF Release, osVars, TypeOK, Flow
<1>19. CASE ReplacePackage
  BY <1>19 DEF ReplacePackage, osVars, TypeOK, Flow
<1>20. CASE ReplaceSums
  BY <1>20 DEF ReplaceSums, osVars, TypeOK, Flow
<1>21. ASSUME NEW n \in Installs, InstallerAppears(n) PROVE FilesAreChecked' /\ FlowInv' /\ HandedOver'
  BY <1>21 DEF InstallerAppears, osVars, TypeOK, Flow
<1>22. ASSUME NEW n \in Installs, InstallerEnds(n) PROVE FilesAreChecked' /\ FlowInv' /\ HandedOver'
  BY <1>22 DEF InstallerEnds, osVars, TypeOK, Flow
<1>23. ASSUME NEW n \in Installs, InstallerSeen(n) PROVE FilesAreChecked' /\ FlowInv' /\ HandedOver'
  BY <1>23 DEF InstallerSeen, osVars, TypeOK, Flow
<1>24. ASSUME NEW n \in Installs, WaitEnds(n) PROVE FilesAreChecked' /\ FlowInv' /\ HandedOver'
  BY <1>24 DEF WaitEnds, osVars, TypeOK, Flow
<1>25. ASSUME NEW n \in Installs, Reopen(n) PROVE FilesAreChecked' /\ FlowInv' /\ HandedOver'
  <2>1. UNCHANGED <<downloads, installer>>
    BY <1>25 DEF Reopen
  <2>2. UNCHANGED <<app, flow>> \/ flow' = AtStart
    BY <1>25 DEF Reopen
  <2>3. AtStart.at \notin Offered
    BY DEF AtStart, Asking, Idle
  <2>4. QED
    BY <2>1, <2>2, <2>3
<1>26. ASSUME NEW n \in Installs, WatcherGivesUp(n) PROVE FilesAreChecked' /\ FlowInv' /\ HandedOver'
  BY <1>26 DEF WatcherGivesUp, osVars, TypeOK, Flow
<1>27. CASE UNCHANGED vars
  BY <1>27 DEF vars, osVars
<1>28. QED
  BY <1>1, <1>2, <1>3, <1>4, <1>5, <1>6, <1>7, <1>8, <1>9, <1>10, <1>11, <1>12, <1>13,
     <1>14, <1>15, <1>16, <1>17, <1>18, <1>19, <1>20, <1>21, <1>22, <1>23, <1>24, <1>25,
     <1>26, <1>27 DEF Next, FlowStep, Publishers, InstallerStep, WatcherStep

LEMMA PressesStay == ASSUME TypeOK, PressesInv, [Next]_vars PROVE PressesInv'
<1> USE DEF PressesInv
<1>size. /\ IsFiniteSet(Started) /\ Cardinality(Started) \in Nat
  <2>1. IsFiniteSet(Installs)
    BY FS_Interval, BoundsAssumption DEF Installs
  <2>2. QED
    BY <2>1, FS_Subset, FS_CardinalityType DEF Started
<1>kept. ASSUME installer' = installer, flow' = flow, presses' = presses PROVE PressesInv'
  BY <1>kept DEF Started, Pending
<1>idle. ASSUME installer' = installer, flow' = Idle \/ flow' = AtStart, presses' = presses
         PROVE  PressesInv'
  <2>1. ~flow'.install /\ flow'.at \in {"idle", "asking"}
    <3>1. ~Idle.install /\ Idle.at = "idle"
      BY DEF Idle
    <3>2. ~Asking(FALSE).install /\ Asking(FALSE).at = "asking"
      BY DEF Asking, Idle
    <3>3. ~AtStart.install /\ AtStart.at \in {"idle", "asking"}
      BY <3>1, <3>2 DEF AtStart
    <3>4. QED
      BY <1>idle, <3>1, <3>3
  <2>2. Pending' = 0 /\ Pending \in {0, 1}
    BY <2>1 DEF Pending
  <2>3. Cardinality(Started') = Cardinality(Started)
    BY <1>idle DEF Started
  <2>4. Cardinality(Started) <= presses
    BY <1>size, <2>2 DEF TypeOK
  <2>5. QED
    BY <1>idle, <1>size, <2>1, <2>2, <2>3, <2>4 DEF TypeOK
\* A step of the flow that goes on with the press.
<1>on. ASSUME installer' = installer, presses' = presses, flow'.install = flow.install,
              flow'.button = flow.button, flow.at # "leaving", flow'.at # "leaving",
              flow'.at \in {"fetching", "received", "kept"} => flow.install
       PROVE  PressesInv'
  BY <1>on DEF Started, Pending
<1>1. CASE Press
  <2>1. presses' = presses + 1 /\ Started' = Started /\ flow' = Asking(TRUE)
    BY <1>1 DEF Press, Started, osVars
  <2>2. Pending = 0 /\ Pending' = 1
    BY <1>1, <2>1 DEF Press, Pending, Asking, Idle
  <2>3. flow'.at = "asking" /\ ~flow'.button
    BY <2>1 DEF Asking, Idle
  <2>4. Cardinality(Started') + Pending' <= presses'
    <3>1. Cardinality(Started') = Cardinality(Started)
      BY <2>1
    <3>2. QED
      BY <1>size, <2>1, <2>2, <3>1 DEF TypeOK
  <2>5. QED
    BY <2>3, <2>4
<1>2. CASE Launch
  BY <1>2, <1>idle DEF Launch, osVars
<1>3. CASE Crash
  BY <1>3, <1>kept DEF Crash, osVars
<1>4. CASE Exit
  BY <1>4, <1>kept DEF Exit, osVars
<1>5. CASE RequestFails
  BY <1>5, <1>idle DEF RequestFails, EndsFlow, osVars
<1>6. CASE NothingNewer
  BY <1>6, <1>idle DEF NothingNewer, EndsFlow, osVars
<1>7. CASE NoInstaller
  BY <1>7, <1>idle DEF NoInstaller, EndsFlow, osVars
<1>8. CASE ReadRelease
  <2>1. /\ flow'.install = flow.install /\ flow'.button = flow.button
        /\ flow.at # "leaving" /\ flow'.at # "leaving"
        /\ flow'.at \in {"fetching", "received", "kept"} => flow.install
    BY <1>8 DEF ReadRelease, At, TypeOK, Flow
  <2>2. QED
    BY <1>8, <1>on, <2>1 DEF ReadRelease, osVars
<1>9. CASE ReadSums
  <2>1. /\ flow'.install = flow.install /\ flow'.button = flow.button
        /\ flow.at # "leaving" /\ flow'.at # "leaving"
        /\ flow'.at \in {"fetching", "received", "kept"} => flow.install
    BY <1>9 DEF ReadSums, At, TypeOK, Flow
  <2>2. QED
    BY <1>9, <1>on, <2>1 DEF ReadSums, osVars
<1>10. ASSUME NEW sized \in BOOLEAN, ReadManifest(sized) PROVE PressesInv'
  <2>1. /\ flow'.install = flow.install /\ flow'.button = flow.button
        /\ flow.at # "leaving" /\ flow'.at # "leaving"
        /\ flow'.at \in {"fetching", "received", "kept"} => flow.install
    BY <1>10 DEF ReadManifest, At, TypeOK, Flow
  <2>2. QED
    BY <1>10, <1>on, <2>1 DEF ReadManifest, osVars
<1>11. CASE Offer
  <2>1. CASE MayInstall
    <3>1. /\ flow'.install = flow.install /\ flow'.button = flow.button /\ flow.install
          /\ flow.at # "leaving" /\ flow'.at # "leaving"
      BY <1>11, <2>1 DEF Offer, MayInstall, At, TypeOK, Flow
    <3>2. QED
      BY <1>11, <1>on, <3>1 DEF Offer, osVars
  <2>2. CASE ~MayInstall
    BY <1>11, <2>2, <1>idle DEF Offer, EndsFlow, osVars
  <2>3. QED
    BY <2>1, <2>2
<1>12. CASE Discard
  BY <1>12, <1>idle DEF Discard, EndsFlow, osVars
<1>13. CASE Keep
  <2>1. /\ flow'.install = flow.install /\ flow'.button = flow.button
        /\ flow.at # "leaving" /\ flow'.at # "leaving"
        /\ flow'.at \in {"fetching", "received", "kept"} => flow.install
    BY <1>13 DEF Keep, At, TypeOK, Flow
  <2>2. QED
    BY <1>13, <1>on, <2>1 DEF Keep, osVars
<1>14. CASE Quit
  BY <1>14, <1>kept DEF Quit, osVars
<1>15. ASSUME NEW damage \in {"none", "cut", "corrupt"}, Fetch(damage) PROVE PressesInv'
  <2>1. /\ flow'.install = flow.install /\ flow'.button = flow.button
        /\ flow.at # "leaving" /\ flow'.at # "leaving"
        /\ flow'.at \in {"fetching", "received", "kept"} => flow.install
    BY <1>15 DEF Fetch, At, TypeOK, Flow
  <2>2. QED
    BY <1>15, <1>on, <2>1 DEF Fetch, osVars
<1>16. ASSUME NEW n \in Installs, InstallerWouldNotStart(n) PROVE PressesInv'
  BY <1>16, <1>idle DEF InstallerWouldNotStart, EndsFlow
<1>17. ASSUME NEW n \in Installs, HandOver(n) PROVE PressesInv'
  <2>1. flow'.at = "leaving" /\ flow'.button = flow.button /\ flow'.install = flow.install
        /\ flow.install /\ presses' = presses /\ flow.at = "kept"
    BY <1>17 DEF HandOver, At, TypeOK, Flow
  <2>2. Pending = 1 /\ Pending' = 0
    BY <2>1 DEF Pending
  <2>3. n \notin Started
    BY <1>17 DEF HandOver, Unused, Used, Started
  <2>4. Started' = Started \cup {n}
    BY <1>17 DEF HandOver, Started, TypeOK
  <2>5. Cardinality(Started') = Cardinality(Started) + 1
    BY <1>size, <2>3, <2>4, FS_AddElement
  <2>6. QED
    BY <1>size, <2>1, <2>2, <2>5 DEF TypeOK
<1>18. ASSUME NEW v \in Releases, NEW carries \in {"installer", "other", "nothing"}, Release(v, carries) PROVE PressesInv'
  BY <1>18, <1>kept DEF Release, osVars
<1>19. CASE ReplacePackage
  BY <1>19, <1>kept DEF ReplacePackage, osVars
<1>20. CASE ReplaceSums
  BY <1>20, <1>kept DEF ReplaceSums, osVars
<1>21. ASSUME NEW n \in Installs, InstallerAppears(n) PROVE PressesInv'
  <2>1. \A k \in Installs : installer'[k].at # "none" <=> installer[k].at # "none"
    BY <1>21 DEF InstallerAppears, TypeOK, Installer
  <2>2. Started' = Started
    BY <2>1 DEF Started
  <2>3. QED
    BY <1>21, <2>2 DEF InstallerAppears, Pending
<1>22. ASSUME NEW n \in Installs, InstallerEnds(n) PROVE PressesInv'
  <2>1. \A k \in Installs : installer'[k].at # "none" <=> installer[k].at # "none"
    BY <1>22 DEF InstallerEnds, TypeOK, Installer
  <2>2. Started' = Started
    BY <2>1 DEF Started
  <2>3. QED
    BY <1>22, <2>2 DEF InstallerEnds, Pending
<1>23. ASSUME NEW n \in Installs, InstallerSeen(n) PROVE PressesInv'
  BY <1>23, <1>kept DEF InstallerSeen, osVars
<1>24. ASSUME NEW n \in Installs, WaitEnds(n) PROVE PressesInv'
  BY <1>24, <1>kept DEF WaitEnds, osVars
<1>25. ASSUME NEW n \in Installs, Reopen(n) PROVE PressesInv'
  BY <1>25, <1>idle, <1>kept DEF Reopen
<1>26. ASSUME NEW n \in Installs, WatcherGivesUp(n) PROVE PressesInv'
  BY <1>26, <1>kept DEF WatcherGivesUp, osVars
<1>27. CASE UNCHANGED vars
  BY <1>27, <1>kept DEF vars, osVars
<1>28. QED
  BY <1>1, <1>2, <1>3, <1>4, <1>5, <1>6, <1>7, <1>8, <1>9, <1>10, <1>11, <1>12, <1>13,
     <1>14, <1>15, <1>16, <1>17, <1>18, <1>19, <1>20, <1>21, <1>22, <1>23, <1>24, <1>25,
     <1>26, <1>27 DEF Next, FlowStep, Publishers, InstallerStep, WatcherStep

-----------------------------------------------------------------------------
(***************************************************************************)
(* The types, the checked downloads and the presses, whoever publishes,    *)
(* crashes or waits meanwhile: settings_tab.go, update.go, install.go.      *)
(***************************************************************************)
THEOREM Invariance == Spec => []IInv
<1>1. IInv /\ [Next]_vars => IInv'
  BY TypesStay, PackagesStay, PressesStay DEF IInv
<1>2. QED
  BY InitHolds, <1>1, PTL DEF Spec

(***************************************************************************)
(* What an installer works from is the complete package of a version newer *)
(* than the copy that downloaded it: the digest is of the release that was *)
(* offered, and what replaces a file in the Downloads folder was checked   *)
(* against one too.  github.go: Check; update.go: Download.                 *)
(***************************************************************************)
THEOREM PackagesAreVerified == Spec => []OnlyVerifiedPackagesAreInstalled
<1>1. ASSUME IInv PROVE OnlyVerifiedPackagesAreInstalled
  <2> SUFFICES ASSUME NEW n \in Installs, installer[n].at \in {"starting", "running"}
               PROVE  /\ Verified(installer[n].version)
                      /\ IsNewer(installer[n].version, installer[n].from)
    BY DEF OnlyVerifiedPackagesAreInstalled, Verified
  <2>1. QED
    BY <1>1 DEF IInv, HandedOver
<1>2. QED
  BY <1>1, Invariance, PTL

(***************************************************************************)
(* No more installers are started than the button was pressed, for a press *)
(* is used up by the installer it leads to, and only a press makes a check *)
(* install: lookForUpdate, installDownloaded.                               *)
(***************************************************************************)
THEOREM APressInstallsOnce == Spec => []EachPressInstallsOnce
<1>1. ASSUME IInv PROVE EachPressInstallsOnce
  <2>1. IsFiniteSet(Installs)
    BY FS_Interval, BoundsAssumption DEF Installs
  <2>2. Cardinality(Started) \in Nat
    BY <2>1, FS_Subset, FS_CardinalityType DEF Started
  <2>3. Pending \in {0, 1}
    BY DEF Pending
  <2>4. QED
    BY <1>1, <2>2, <2>3 DEF IInv, TypeOK, PressesInv, Started, EachPressInstallsOnce
<1>2. QED
  BY <1>1, Invariance, PTL
=============================================================================
