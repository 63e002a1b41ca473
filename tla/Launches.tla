------------------------------ MODULE Launches ------------------------------
(***************************************************************************)
(* The copies of the client and what they leave on disk: main.go, the lock  *)
(* of singleton_unix.go, the settings file of config.go and the model       *)
(* directory of models/install.go.  Each launch is one copy, which may      *)
(* crash between any two system calls; the kernel then drops its flock.     *)
(* A file is named by the copy that created it.                             *)
(***************************************************************************)
EXTENDS Naturals, FiniteSets

CONSTANTS
    Copies,   \* the launches
    Worlds    \* the worlds they may find themselves in:
              \*   savers      the launches in which the user changes a setting
              \*   installers  those in which the user downloads the model
              \*   faults      which happen: "crash", "lock" the lock file cannot be
              \*               opened or locked, "disk" a call on a file fails

ASSUME CopiesAssumption == Copies \subseteq Nat \ {0}

Nothing == 0

VARIABLES
    world,     \* the world this is; it never changes
    copy,      \* the copies: where they are, the lock file they opened, the saves they
               \* know of, and whether another copy was there while they started, or
               \* while one of the two ran without the lock
    path,      \* the file under the lock's name
    holder,    \* who holds the flock of each file
    temp,      \* the temporary file of each copy's SaveTo: "none", "part" or "whole"
    settings,  \* the same for the settings file, and whose saves it has
    install,   \* how far each copy's download of the model is
    staging,   \* what is in its staging directory
    model,     \* what is under the model's name
    replaced,  \* what is under its name with .replaced
    inherited, \* history: a lock was taken on a file that was being unlinked
    crowded    \* history: a copy that works without the lock had another beside it

lockVars == <<path, holder, inherited, crowded>>
fileVars == <<temp, settings>>
modelVars == <<install, staging, model, replaced>>
vars == <<copy, lockVars, fileVars, modelVars>>

Init ==
    /\ world \in Worlds
    /\ copy = [c \in Copies |-> [at |-> "none", file |-> Nothing, knows |-> {},
                                 overlapped |-> FALSE]]
    /\ path = Nothing
    /\ holder = [f \in Copies |-> Nothing]
    /\ temp = [c \in Copies |-> "none"]
    /\ settings = [is |-> "none", has |-> {}]
    /\ install = [c \in Copies |-> "no"]
    /\ staging = [c \in Copies |-> "none"]
    /\ model = "none"
    /\ replaced = "none"
    /\ inherited = FALSE
    /\ crowded = FALSE

At(c, here) == copy[c].at = here
Goto(c, there) == copy' = [copy EXCEPT ![c].at = there]
Starting(c) == copy[c].at \in {"read", "first", "loaded", "opened"}
HasLock(c) == \E f \in Copies : holder[f] = c

\* The application is there, or the process has not ended yet.
Works(c) == copy[c].at \in {"running", "saving", "quitting", "unlocked"}
Lockless(c) == Works(c) /\ copy[c].file = Nothing

-----------------------------------------------------------------------------
(* main: the settings are read before the lock is tried.                    *)

Load(c) ==
    /\ At(c, "none")
    /\ \A d \in Copies : d < c => ~At(d, "none")
    /\ copy' = [d \in Copies |->
          IF d = c THEN [at |-> IF settings.is = "part" THEN "gone" ELSE "read",
                         file |-> Nothing, knows |-> settings.has,
                         overlapped |-> \E e \in Copies : copy[e].at \notin {"none", "gone"}]
          ELSE [copy[d] EXCEPT !.overlapped = @ \/ Starting(d) \/ Lockless(d)]]
    /\ UNCHANGED <<lockVars, fileVars, modelVars>>

FirstRun(c) ==
    /\ At(c, "read")
    /\ Goto(c, IF settings.is = "none" THEN "first" ELSE "loaded")
    /\ UNCHANGED <<lockVars, fileVars, modelVars>>

-----------------------------------------------------------------------------
(* SaveTo: the defaults of a first run, or a copy's settings with a change  *)
(* of its own.                                                              *)

Save(c) ==
    /\ At(c, "running")
    /\ c \in world.savers \ copy[c].knows
    /\ Goto(c, "saving")
    /\ UNCHANGED <<lockVars, fileVars, modelVars>>

Saving(c) == At(c, "first") \/ At(c, "saving")
Contents(c) == copy[c].knows \cup (IF At(c, "saving") THEN {c} ELSE {})
Holds(c, file) == temp' = [temp EXCEPT ![c] = file]

CreateTemp(c) ==
    /\ Saving(c)
    /\ temp[c] = "none"
    /\ Holds(c, "part")
    /\ UNCHANGED <<copy, settings, lockVars, modelVars>>

WriteTemp(c) ==
    /\ Saving(c)
    /\ temp[c] = "part"
    /\ Holds(c, "whole")
    /\ UNCHANGED <<copy, settings, lockVars, modelVars>>

\* Mutant: the file is put in place before it is written.
Created(c) == temp[c] # "none"
Written(c) == temp[c] = "whole"

Saved(c) ==
    /\ Saving(c)
    /\ Written(c)
    /\ settings' = [is |-> temp[c], has |-> Contents(c)]
    /\ Holds(c, "none")
    /\ copy' = [copy EXCEPT ![c] =
                  [@ EXCEPT !.at = IF At(c, "first") THEN "loaded" ELSE "running",
                            !.knows = Contents(c)]]
    /\ UNCHANGED <<lockVars, modelVars>>

\* A first run whose defaults cannot be written ends there.
NotSaved(c) ==
    /\ Saving(c)
    /\ "disk" \in world.faults
    /\ Holds(c, "none")
    /\ Goto(c, IF At(c, "first") THEN "gone" ELSE "running")
    /\ UNCHANGED <<settings, lockVars, modelVars>>

-----------------------------------------------------------------------------
(* Acquire and Release.                                                     *)

\* Mutant: a lock file that is there is taken for a stale one.
OpenAfresh(c) == path' = c
OpenFile(c) == path' = IF path = Nothing THEN c ELSE path

Open(c) ==
    /\ At(c, "loaded")
    /\ OpenFile(c)
    /\ copy' = [copy EXCEPT ![c] = [@ EXCEPT !.at = "opened", !.file = path']]
    /\ UNCHANGED <<holder, inherited, crowded, fileVars, modelVars>>

\* main goes on without the lock.
OpenFails(c) ==
    /\ At(c, "loaded")
    /\ "lock" \in world.faults
    /\ copy' = [d \in Copies |->
          IF d = c THEN [copy[d] EXCEPT !.at = "running"]
          ELSE [copy[d] EXCEPT !.overlapped = @ \/ copy[d].at \notin {"none", "gone"}]]
    /\ crowded' = (crowded \/ \E d \in Copies \ {c} : Works(d))
    /\ UNCHANGED <<path, holder, inherited, fileVars, modelVars>>

\* Mutant: what flock answers is not looked at.
NotLooked(f) == FALSE
Taken(f) == holder[f] # Nothing

BeingUnlinked(f) == path # f \/ \E d \in Copies : At(d, "unlocked")

Flock(c) ==
    /\ At(c, "opened")
    /\ LET f == copy[c].file IN
       /\ ~Taken(f)
       /\ holder' = [holder EXCEPT ![f] = c]
       /\ inherited' = (inherited \/ BeingUnlinked(f))
    /\ crowded' = (crowded \/ \E d \in Copies : Lockless(d))
    /\ Goto(c, "running")
    /\ UNCHANGED <<path, fileVars, modelVars>>

\* The copy that has the lock is asked to show itself, and this one exits, which it
\* does on any other error of flock as well.
AlreadyRunning(c) ==
    /\ At(c, "opened")
    /\ Taken(copy[c].file) \/ "lock" \in world.faults
    /\ Goto(c, "gone")
    /\ UNCHANGED <<lockVars, fileVars, modelVars>>

\* Application.Quit, which takes as long as its servers do; an installation ends
\* with the process.
Quit(c) ==
    /\ At(c, "running")
    /\ Goto(c, "quitting")
    /\ UNCHANGED <<lockVars, fileVars, modelVars>>

Drop(c) == holder' = [f \in Copies |-> IF holder[f] = c THEN Nothing ELSE holder[f]]

Unlock(c) ==
    /\ At(c, "quitting")
    /\ ~Lockless(c)
    /\ Drop(c)
    /\ Goto(c, "unlocked")
    /\ UNCHANGED <<path, inherited, crowded, fileVars, modelVars>>

\* Release of a nil Lock
Leave(c) ==
    /\ At(c, "quitting")
    /\ Lockless(c)
    /\ Goto(c, "gone")
    /\ install' = [install EXCEPT ![c] = "no"]
    /\ UNCHANGED <<lockVars, fileVars, staging, model, replaced>>

\* Whatever file has the name by now.
Remove(c) ==
    /\ At(c, "unlocked")
    /\ path' = Nothing
    /\ Goto(c, "gone")
    /\ install' = [install EXCEPT ![c] = "no"]
    /\ UNCHANGED <<holder, inherited, crowded, fileVars, staging, model, replaced>>

\* What is in a temporary file or a staging directory stays there, and is read no more.
Crash(c) ==
    /\ "crash" \in world.faults
    /\ copy[c].at \notin {"none", "gone"}
    /\ Drop(c)
    /\ Goto(c, "gone")
    /\ install' = [install EXCEPT ![c] = "no"]
    /\ UNCHANGED <<path, inherited, crowded, fileVars, staging, model, replaced>>

-----------------------------------------------------------------------------
(* models.Install, on a goroutine of its own.  A copy has one at a time.    *)

Installing(c, step) == Works(c) /\ install[c] = step
Proceed(c, step) == install' = [install EXCEPT ![c] = step]
Stage(c, files) == staging' = [staging EXCEPT ![c] = files]
notModel == <<copy, lockVars, fileVars>>

Fetch(c) ==
    /\ Installing(c, "no")
    /\ At(c, "running")
    /\ c \in world.installers
    /\ Proceed(c, "fetching")
    /\ Stage(c, "part")
    /\ UNCHANGED <<model, replaced, notModel>>

\* A failed download, or a window that is closed: what is staged is removed.
FetchFails(c) ==
    /\ Installing(c, "fetching")
    /\ Proceed(c, "no")
    /\ Stage(c, "none")
    /\ UNCHANGED <<model, replaced, notModel>>

Fetched(c) ==
    /\ Installing(c, "fetching")
    /\ Proceed(c, IF model = "none" THEN "empty" ELSE "standing")
    /\ Stage(c, "whole")
    /\ UNCHANGED <<model, replaced, notModel>>

\* RemoveAll of .replaced, file by file; whether it fails is not looked at.
Removing(c) == Installing(c, "standing") \/ Installing(c, "placed")

RemoveSome(c) ==
    /\ Removing(c)
    /\ replaced = "whole"
    /\ replaced' = "part"
    /\ UNCHANGED <<install, staging, model, notModel>>

RemoveRest(c) ==
    /\ Removing(c)
    /\ \/ replaced # "whole" /\ replaced' = "none"
       \/ "disk" \in world.faults /\ UNCHANGED replaced
    /\ Proceed(c, IF Installing(c, "standing") THEN "cleared" ELSE "no")
    /\ UNCHANGED <<staging, model, notModel>>

\* Mutant: remove, then rename.
RemoveOld == model' = "none" /\ UNCHANGED replaced
MoveOld == model' = "none" /\ replaced' = model

MoveAside(c) ==
    /\ Installing(c, "cleared")
    /\ model # "none" /\ replaced = "none"
    /\ MoveOld
    /\ Proceed(c, "aside")
    /\ UNCHANGED <<staging, notModel>>

NotMoved(c) ==
    /\ Installing(c, "cleared")
    /\ model = "none" \/ replaced # "none" \/ "disk" \in world.faults
    /\ Proceed(c, "no")
    /\ Stage(c, "none")
    /\ UNCHANGED <<model, replaced, notModel>>

Place(c) ==
    /\ Installing(c, "aside") \/ Installing(c, "empty")
    /\ model = "none"
    /\ model' = staging[c]
    /\ Stage(c, "none")
    /\ Proceed(c, IF install[c] = "aside" THEN "placed" ELSE "no")
    /\ UNCHANGED <<replaced, notModel>>

\* The old one is given its name back, unless something has it or this fails too.
NotPlaced(c) ==
    /\ Installing(c, "aside") \/ Installing(c, "empty")
    /\ model # "none" \/ "disk" \in world.faults
    /\ \/ /\ Installing(c, "aside") /\ model = "none"
          /\ model' = replaced /\ replaced' = "none"
       \/ UNCHANGED <<model, replaced>>
    /\ Proceed(c, "no")
    /\ Stage(c, "none")
    /\ UNCHANGED notModel

-----------------------------------------------------------------------------
Launching(c) == Load(c) \/ FirstRun(c) \/ Open(c) \/ OpenFails(c) \/ Flock(c) \/ AlreadyRunning(c)
Ending(c) == Quit(c) \/ Unlock(c) \/ Leave(c) \/ Remove(c) \/ Crash(c)
Storing(c) == Save(c) \/ CreateTemp(c) \/ WriteTemp(c) \/ Saved(c) \/ NotSaved(c)
Downloading(c) == Fetch(c) \/ FetchFails(c) \/ Fetched(c) \/ RemoveSome(c) \/ RemoveRest(c)
                  \/ MoveAside(c) \/ NotMoved(c) \/ Place(c) \/ NotPlaced(c)

Act == \E c \in Copies : Launching(c) \/ Ending(c) \/ Storing(c) \/ Downloading(c)
Next == Act /\ UNCHANGED world

Spec == Init /\ [][Next]_<<world, vars>>

-----------------------------------------------------------------------------
(***************************************************************************)
(* One copy at a time has the lock, through crashes, refused launches and   *)
(* restarts, until a launch takes the lock of a file that the copy before   *)
(* it is about to unlink, or has: main.go:56, "One copy per user".  A copy  *)
(* that cannot open the lock file runs without (main.go:70-74).             *)
(* singleton_unix.go: Acquire, Release.                                     *)
(***************************************************************************)
OneCopy == ~inherited => \A c, d \in Copies : HasLock(c) /\ HasLock(d) => c = d

(***************************************************************************)
(* A save is lost only to a copy that had another beside it between its     *)
(* reading of the settings and its lock, or beside which one of the two     *)
(* ran without the lock.  main.go: loadSettings, which comes before         *)
(* Acquire; config.go: SaveTo.                                              *)
(***************************************************************************)
NoSaveIsLost ==
    [][ \/ settings.has \subseteq settings'.has
        \/ \E c \in Copies : Saving(c) /\ copy[c].overlapped ]_settings

\* Whoever worked so far had the lock, or had no other beside it.
Exclusive == ~inherited /\ ~crowded

(***************************************************************************)
(* Whichever call fails and wherever a crash comes, the settings can be     *)
(* read, what is under the model's name is all of it, and when there is     *)
(* nothing what is under .replaced is all of the old one; the last two as   *)
(* long as one copy at a time installs.  config.go:298, "a crash mid-write  *)
(* must not leave a truncated file"; models/install.go:95, "an interrupted  *)
(* download never leaves behind a directory that looks installed".          *)
(***************************************************************************)
FilesAreWhole ==
    /\ settings.is # "part"
    /\ Exclusive => model # "part" /\ (model = "none" => replaced # "part")

\* All of a model is there, under its name or, after a crash between the renames or
\* failures of both, under .replaced.
Kept == "whole" \in {model, replaced}

(***************************************************************************)
(* A model once installed stays on the disk, while only one copy at a time  *)
(* installs.  models/install.go:165, "A remove-then-rename would leave      *)
(* nothing at all if the rename failed".                                    *)
(***************************************************************************)
ModelIsKept == [][ Exclusive /\ Kept => Kept' ]_<<model, replaced>>
=============================================================================
