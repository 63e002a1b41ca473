---------------------------- MODULE LaunchesProofs ----------------------------
(***************************************************************************)
(* One copy has the lock, and what follows from it for the files on disk,  *)
(* for any set of launches and in every world.                             *)
(***************************************************************************)
EXTENDS Launches, TLAPS

Files == Copies \cup {Nothing}
Unopened == {"read", "first", "loaded"}
Starts == Unopened \cup {"opened"}
Working == {"running", "saving", "quitting"}
Places == {"none", "gone", "unlocked"} \cup Starts \cup Working
Copy == [at : Places, file : Files, knows : SUBSET Copies, overlapped : BOOLEAN]
Content == {"none", "part", "whole"}
Steps == {"no", "fetching", "empty", "standing", "cleared", "aside", "placed"}

(* Types of the state: main.go, config.go and models/install.go.            *)
TypeOK ==
    /\ world \in Worlds
    /\ copy \in [Copies -> Copy]
    /\ path \in Files
    /\ holder \in [Copies -> Files]
    /\ temp \in [Copies -> Content]
    /\ settings \in [is : Content, has : SUBSET Copies]
    /\ install \in [Copies -> Steps]
    /\ staging \in [Copies -> Content]
    /\ model \in Content
    /\ replaced \in Content
    /\ inherited \in BOOLEAN
    /\ crowded \in BOOLEAN

\* A copy at work has the flock of the file it opened, if it opened one, and nobody else
\* has any.
OpenedFiles == \A c \in Copies :
    /\ copy[c].at \in {"opened", "unlocked"} => copy[c].file \in Copies
    /\ copy[c].at \in Unopened => copy[c].file = Nothing
WorkersHold == \A c \in Copies :
    copy[c].at \in Working /\ copy[c].file # Nothing => holder[copy[c].file] = c
HoldersWork == \A f \in Copies : holder[f] # Nothing =>
                    copy[holder[f]].at \in Working /\ copy[holder[f]].file = f

\* The file that is locked has the lock's name, unless it was inherited; the copy that
\* unlinks it has dropped its flock, and nobody took it since.
NamedFile == ~inherited => \A f \in Copies : holder[f] # Nothing => path = f
NoneIsUnlinked == ~inherited => \A c \in Copies : copy[c].at = "unlocked" =>
    /\ \A f \in Copies : holder[f] = Nothing
    /\ \A d \in Copies : copy[d].at = "unlocked" => d = c

\* Whoever works without the lock is the only one at work, unless it was crowded.
LocklessAreAlone == ~crowded => \A c, d \in Copies : Lockless(c) /\ Works(d) => d = c

LockInv == /\ OpenedFiles /\ WorkersHold /\ HoldersWork /\ NamedFile /\ NoneIsUnlinked
           /\ LocklessAreAlone

\* What a copy that installs relies on.
InstallersWork == \A c \in Copies : install[c] # "no" => Works(c)
StagedIsWhole == \A c \in Copies :
    install[c] \in {"empty", "standing", "cleared", "aside"} => staging[c] = "whole"
OldModelStands == Exclusive => \A c \in Copies : Works(c) =>
    /\ install[c] \in {"standing", "cleared", "placed"} => model = "whole"
    /\ install[c] = "aside" => replaced = "whole"
ModelInv == InstallersWork /\ StagedIsWhole /\ OldModelStands /\ FilesAreWhole

\* What a copy that found no other beside it relies on, until it unlocks: it alone starts,
\* or works without the lock; it knows every save; and whoever comes after it finds its
\* file locked.
KnowsEverySave(c) ==
    LET k == copy[c]
        others == Copies \ {c}
    IN  ~k.overlapped =>
          /\ k.at \in Starts \/ (k.at \in Working /\ k.file = Nothing) =>
                \A d \in others : copy[d].at \in {"none", "gone"}
          /\ k.at \in Starts \cup Working => settings.has \subseteq k.knows
          /\ k.at \in {"loaded", "opened"} \cup Working => settings.is # "none"
          /\ k.at = "opened" \/ (k.at \in Working /\ k.file # Nothing) => k.file = path
          /\ k.at \in Working =>
                \A d \in others : /\ copy[d].at \notin Working \cup {"first", "unlocked"}
                                  /\ copy[d].at = "opened" => copy[d].file = path
SavesInv == \A c \in Copies : KnowsEverySave(c)

IInv == TypeOK /\ LockInv /\ ModelInv /\ SavesInv

-----------------------------------------------------------------------------
(* What the steps do to the copies.                                         *)

\* A copy goes elsewhere with its file and all it knows, and the others stay.
Moves(c, there) ==
    /\ copy'[c].at = there /\ copy'[c].file = copy[c].file
    /\ copy'[c].knows = copy[c].knows /\ copy'[c].overlapped = copy[c].overlapped
    /\ \A d \in Copies \ {c} : copy'[d] = copy[d]

LEMMA Going == ASSUME TypeOK, NEW c \in Copies, NEW there \in Places, Goto(c, there)
               PROVE  copy' \in [Copies -> Copy] /\ Moves(c, there)
<1> DEFINE new == [copy[c] EXCEPT !.at = there]
<1>1. copy[c] \in Copy
  BY DEF TypeOK
<1>2. /\ new \in Copy /\ new.at = there /\ new.file = copy[c].file
      /\ new.knows = copy[c].knows /\ new.overlapped = copy[c].overlapped
  BY <1>1 DEF Copy
<1>3. copy' = [copy EXCEPT ![c] = new]
  BY DEF Goto
<1> HIDE DEF new
<1>4. QED
  BY <1>2, <1>3 DEF Moves, TypeOK

LEMMA Loading == ASSUME TypeOK, NEW c \in Copies, Load(c)
  PROVE  /\ copy' \in [Copies -> Copy]
         /\ copy[c].at = "none"
         /\ copy'[c].at = IF settings.is = "part" THEN "gone" ELSE "read"
         /\ copy'[c].file = Nothing /\ copy'[c].knows = settings.has
         /\ copy'[c].overlapped = \E e \in Copies : copy[e].at \notin {"none", "gone"}
         /\ \A d \in Copies \ {c} :
              /\ copy'[d].at = copy[d].at /\ copy'[d].file = copy[d].file
              /\ copy'[d].knows = copy[d].knows
              /\ copy'[d].overlapped = (copy[d].overlapped \/ Starting(d) \/ Lockless(d))
<1> DEFINE at == IF settings.is = "part" THEN "gone" ELSE "read"
           beside == \E e \in Copies : copy[e].at \notin {"none", "gone"}
           new == [at |-> at, file |-> Nothing, knows |-> settings.has, overlapped |-> beside]
           starting(d) == copy[d].overlapped \/ Starting(d) \/ Lockless(d)
           learnt(d) == [copy[d] EXCEPT !.overlapped = starting(d)]
<1>1. /\ new \in Copy /\ new.at = at /\ new.file = Nothing /\ new.knows = settings.has
      /\ new.overlapped = beside
  <2>1. beside \in BOOLEAN
    OBVIOUS
  <2>2. settings.has \in SUBSET Copies
    BY DEF TypeOK
  <2> HIDE DEF beside
  <2>3. QED
    BY <2>1, <2>2 DEF Copy, Places, Starts, Unopened, Files
<1>2. ASSUME NEW d \in Copies
      PROVE  /\ learnt(d) \in Copy /\ learnt(d).at = copy[d].at /\ learnt(d).file = copy[d].file
             /\ learnt(d).knows = copy[d].knows /\ learnt(d).overlapped = starting(d)
  <2>1. starting(d) \in BOOLEAN
    BY Zenon
  <2>2. copy[d] \in Copy
    BY DEF TypeOK
  <2> HIDE DEF starting
  <2>3. QED
    BY <2>1, <2>2 DEF Copy
<1>3. copy' = [d \in Copies |-> IF d = c THEN new ELSE learnt(d)]
  BY DEF Load
<1>4. copy[c].at = "none"
  BY DEF Load, At
<1> HIDE DEF new, learnt, starting, at, beside
<1>5. copy' \in [Copies -> Copy] /\ copy'[c] = new /\ \A d \in Copies \ {c} : copy'[d] = learnt(d)
  BY <1>1, <1>2, <1>3
<1>6. copy'[c].at = at /\ copy'[c].file = Nothing /\ copy'[c].knows = settings.has
      /\ copy'[c].overlapped = beside
  BY <1>1, <1>5
<1>7. \A d \in Copies \ {c} :
        /\ copy'[d].at = copy[d].at /\ copy'[d].file = copy[d].file
        /\ copy'[d].knows = copy[d].knows /\ copy'[d].overlapped = starting(d)
  BY <1>2, <1>5
<1>8. QED
  BY <1>4, <1>5, <1>6, <1>7 DEF at, beside, starting

LEMMA Failing == ASSUME TypeOK, NEW c \in Copies, OpenFails(c)
  PROVE  /\ copy' \in [Copies -> Copy]
         /\ copy[c].at = "loaded" /\ copy'[c].at = "running" /\ copy'[c].file = copy[c].file
         /\ copy'[c].knows = copy[c].knows /\ copy'[c].overlapped = copy[c].overlapped
         /\ \A d \in Copies \ {c} :
              /\ copy'[d].at = copy[d].at /\ copy'[d].file = copy[d].file
              /\ copy'[d].knows = copy[d].knows
              /\ copy'[d].overlapped = (copy[d].overlapped \/ copy[d].at \notin {"none", "gone"})
<1> DEFINE new == [copy[c] EXCEPT !.at = "running"]
           there(d) == copy[d].overlapped \/ copy[d].at \notin {"none", "gone"}
           learnt(d) == [copy[d] EXCEPT !.overlapped = there(d)]
<1>1. copy[c] \in Copy
  BY DEF TypeOK
<1>2. /\ new \in Copy /\ new.at = "running" /\ new.file = copy[c].file
      /\ new.knows = copy[c].knows /\ new.overlapped = copy[c].overlapped
  BY <1>1 DEF Copy, Places, Working
<1>3. ASSUME NEW d \in Copies
      PROVE  /\ learnt(d) \in Copy /\ learnt(d).at = copy[d].at /\ learnt(d).file = copy[d].file
             /\ learnt(d).knows = copy[d].knows /\ learnt(d).overlapped = there(d)
  <2>1. there(d) \in BOOLEAN
    BY Zenon
  <2>2. copy[d] \in Copy
    BY DEF TypeOK
  <2> HIDE DEF there
  <2>3. QED
    BY <2>1, <2>2 DEF Copy
<1>4. copy' = [d \in Copies |-> IF d = c THEN new ELSE learnt(d)]
  BY DEF OpenFails
<1>5. copy[c].at = "loaded"
  BY DEF OpenFails, At
<1> HIDE DEF new, learnt, there
<1>6. copy' \in [Copies -> Copy] /\ copy'[c] = new /\ \A d \in Copies \ {c} : copy'[d] = learnt(d)
  BY <1>2, <1>3, <1>4
<1>7. \A d \in Copies \ {c} :
        /\ copy'[d].at = copy[d].at /\ copy'[d].file = copy[d].file
        /\ copy'[d].knows = copy[d].knows /\ copy'[d].overlapped = there(d)
  BY <1>3, <1>6
<1>8. QED
  BY <1>2, <1>5, <1>6, <1>7 DEF there

LEMMA Opening == ASSUME TypeOK, NEW c \in Copies, Open(c)
  PROVE  /\ copy' \in [Copies -> Copy] /\ path' \in Files \ {Nothing}
         /\ path' = (IF path = Nothing THEN c ELSE path)
         /\ copy[c].at = "loaded" /\ copy'[c].at = "opened" /\ copy'[c].file = path'
         /\ copy'[c].knows = copy[c].knows /\ copy'[c].overlapped = copy[c].overlapped
         /\ \A d \in Copies \ {c} : copy'[d] = copy[d]
<1> DEFINE placed == [copy[c] EXCEPT !.at = "opened"]
           moved == [placed EXCEPT !.file = path']
<1>1. copy[c] \in Copy /\ path' = (IF path = Nothing THEN c ELSE path) /\ path' \in Files \ {Nothing}
  BY CopiesAssumption DEF TypeOK, Open, OpenFile, Files, Nothing
<1>2. /\ placed \in Copy /\ placed.at = "opened"
      /\ placed.knows = copy[c].knows /\ placed.overlapped = copy[c].overlapped
  BY <1>1 DEF Copy, Places, Starts
<1>3. copy' = [copy EXCEPT ![c] = moved] /\ copy[c].at = "loaded"
  BY DEF Open, At
<1> HIDE DEF placed
<1>4. /\ moved \in Copy /\ moved.at = "opened" /\ moved.file = path'
      /\ moved.knows = copy[c].knows /\ moved.overlapped = copy[c].overlapped
  BY <1>1, <1>2 DEF Copy
<1> HIDE DEF moved
<1>5. QED
  BY <1>1, <1>3, <1>4 DEF TypeOK

LEMMA Storage == ASSUME TypeOK, NEW c \in Copies, Saved(c)
  PROVE  /\ copy' \in [Copies -> Copy]
         /\ copy[c].at \in {"first", "saving"}
         /\ copy'[c].at = IF copy[c].at = "first" THEN "loaded" ELSE "running"
         /\ copy'[c].file = copy[c].file /\ copy'[c].knows = Contents(c)
         /\ copy'[c].overlapped = copy[c].overlapped
         /\ \A d \in Copies \ {c} : copy'[d] = copy[d]
         /\ settings' \in [is : Content, has : SUBSET Copies]
         /\ settings'.is = "whole" /\ settings'.has = Contents(c)
         /\ copy[c].knows \subseteq Contents(c)
<1> DEFINE at == IF copy[c].at = "first" THEN "loaded" ELSE "running"
           placed == [copy[c] EXCEPT !.at = at]
           moved == [placed EXCEPT !.knows = Contents(c)]
<1>1. copy[c] \in Copy /\ copy[c].at \in {"first", "saving"}
  BY DEF TypeOK, Saved, Saving, At
<1>2. copy[c].knows \in SUBSET Copies
  BY <1>1 DEF Copy
<1>3. Contents(c) \in SUBSET Copies /\ copy[c].knows \subseteq Contents(c)
  BY <1>2 DEF Contents
<1>4. /\ placed \in Copy /\ placed.at = at /\ placed.file = copy[c].file
      /\ placed.overlapped = copy[c].overlapped
  BY <1>1 DEF Copy, Places, Starts, Unopened, Working
<1>5. copy' = [copy EXCEPT ![c] = moved]
  BY DEF Saved, At
<1>6. settings' = [is |-> "whole", has |-> Contents(c)]
  BY DEF Saved, Written
<1> HIDE DEF placed
<1>7. /\ moved \in Copy /\ moved.at = at /\ moved.file = copy[c].file
      /\ moved.knows = Contents(c) /\ moved.overlapped = copy[c].overlapped
  BY <1>3, <1>4 DEF Copy
<1> HIDE DEF moved
<1>8. copy' \in [Copies -> Copy] /\ copy'[c] = moved /\ \A d \in Copies \ {c} : copy'[d] = copy[d]
  BY <1>5, <1>7 DEF TypeOK
<1>9. settings' \in [is : Content, has : SUBSET Copies]
      /\ settings'.is = "whole" /\ settings'.has = Contents(c)
  BY <1>3, <1>6 DEF Content
<1>10. QED
  BY <1>1, <1>3, <1>7, <1>8, <1>9

\* The steps that are a Goto: where each comes from and where it goes.
Goes(c) ==
    \/ FirstRun(c) \/ Flock(c) \/ AlreadyRunning(c) \/ Quit(c) \/ Unlock(c) \/ Leave(c)
    \/ Remove(c) \/ Crash(c) \/ Save(c) \/ NotSaved(c)

LEMMA GoingOn == ASSUME TypeOK, NEW c \in Copies
  PROVE  /\ FirstRun(c) => /\ copy[c].at = "read"
                           /\ Moves(c, IF settings.is = "none" THEN "first" ELSE "loaded")
         /\ Flock(c) => copy[c].at = "opened" /\ Moves(c, "running")
         /\ AlreadyRunning(c) => copy[c].at = "opened" /\ Moves(c, "gone")
         /\ Quit(c) => copy[c].at = "running" /\ Moves(c, "quitting")
         /\ Unlock(c) => copy[c].at = "quitting" /\ Moves(c, "unlocked")
         /\ Leave(c) => copy[c].at = "quitting" /\ Moves(c, "gone")
         /\ Remove(c) => copy[c].at = "unlocked" /\ Moves(c, "gone")
         /\ Crash(c) => copy[c].at \notin {"none", "gone"} /\ Moves(c, "gone")
         /\ Save(c) => copy[c].at = "running" /\ Moves(c, "saving")
         /\ NotSaved(c) => \/ copy[c].at = "first" /\ Moves(c, "gone")
                           \/ copy[c].at = "saving" /\ Moves(c, "running")
         /\ Goes(c) => copy' \in [Copies -> Copy]
<1> USE DEF At
<1>1. \A there \in Places : Goto(c, there) => copy' \in [Copies -> Copy] /\ Moves(c, there)
  BY Going
<1>2. {"first", "loaded", "running", "gone", "quitting", "unlocked", "saving"} \subseteq Places
  BY DEF Places, Starts, Unopened, Working
<1>3. FirstRun(c) => /\ copy[c].at = "read" /\ copy' \in [Copies -> Copy]
                     /\ Moves(c, IF settings.is = "none" THEN "first" ELSE "loaded")
  BY <1>1, <1>2 DEF FirstRun
<1>4. Flock(c) => copy[c].at = "opened" /\ copy' \in [Copies -> Copy] /\ Moves(c, "running")
  BY <1>1, <1>2 DEF Flock
<1>5. AlreadyRunning(c) => copy[c].at = "opened" /\ copy' \in [Copies -> Copy] /\ Moves(c, "gone")
  BY <1>1, <1>2 DEF AlreadyRunning
<1>6. Quit(c) => copy[c].at = "running" /\ copy' \in [Copies -> Copy] /\ Moves(c, "quitting")
  BY <1>1, <1>2 DEF Quit
<1>7. Unlock(c) => copy[c].at = "quitting" /\ copy' \in [Copies -> Copy] /\ Moves(c, "unlocked")
  BY <1>1, <1>2 DEF Unlock
<1>8. Leave(c) => copy[c].at = "quitting" /\ copy' \in [Copies -> Copy] /\ Moves(c, "gone")
  BY <1>1, <1>2 DEF Leave
<1>9. Remove(c) => copy[c].at = "unlocked" /\ copy' \in [Copies -> Copy] /\ Moves(c, "gone")
  BY <1>1, <1>2 DEF Remove
<1>10. Crash(c) => copy[c].at \notin {"none", "gone"} /\ copy' \in [Copies -> Copy] /\ Moves(c, "gone")
  BY <1>1, <1>2 DEF Crash
<1>11. Save(c) => copy[c].at = "running" /\ copy' \in [Copies -> Copy] /\ Moves(c, "saving")
  BY <1>1, <1>2 DEF Save
<1>12. NotSaved(c) => /\ copy' \in [Copies -> Copy]
                      /\ \/ copy[c].at = "first" /\ Moves(c, "gone")
                         \/ copy[c].at = "saving" /\ Moves(c, "running")
  BY <1>1, <1>2 DEF NotSaved, Saving
<1>13. QED
  BY <1>3, <1>4, <1>5, <1>6, <1>7, <1>8, <1>9, <1>10, <1>11, <1>12 DEF Goes

-----------------------------------------------------------------------------
(* Types.                                                                   *)

LEMMA InitTypes == ASSUME Init PROVE TypeOK
<1>1. copy \in [Copies -> Copy]
  <2> DEFINE new == [at |-> "none", file |-> Nothing, knows |-> {}, overlapped |-> FALSE]
  <2>1. new \in Copy
    BY DEF Copy, Files, Places
  <2>2. QED
    BY <2>1 DEF Init
<1>2. settings \in [is : Content, has : SUBSET Copies]
  BY DEF Init, Content
<1>3. holder \in [Copies -> Files] /\ install \in [Copies -> Steps]
  BY DEF Init, Files, Steps
<1>4. temp \in [Copies -> Content] /\ staging \in [Copies -> Content]
  BY DEF Init, Content
<1>5. path \in Files /\ model \in Content /\ replaced \in Content /\ world \in Worlds
      /\ inherited \in BOOLEAN /\ crowded \in BOOLEAN
  BY DEF Init, Files, Content
<1>6. QED
  BY <1>1, <1>2, <1>3, <1>4, <1>5 DEF TypeOK

\* What the steps that are a Goto leave alone.
LEMMA GoersLeave == ASSUME NEW c \in Copies, Goes(c)
  PROVE  /\ UNCHANGED <<settings, staging, model, replaced>>
         /\ ~Remove(c) => path' = path
         /\ ~Flock(c) => UNCHANGED <<inherited, crowded>>
         /\ ~(Flock(c) \/ Unlock(c) \/ Crash(c)) => holder' = holder
         /\ temp' = temp \/ Holds(c, "none")
         /\ install' = install \/ install' = [install EXCEPT ![c] = "no"]
         /\ ~(Leave(c) \/ Remove(c) \/ Crash(c)) => install' = install
<1> USE DEF lockVars, fileVars, modelVars
<1>1. CASE Flock(c)
  BY <1>1 DEF Flock
<1>2. CASE Remove(c)
  BY <1>2 DEF Remove
<1>3. CASE Unlock(c)
  BY <1>3 DEF Unlock
<1>4. CASE Crash(c)
  BY <1>4 DEF Crash
<1>5. CASE FirstRun(c) \/ AlreadyRunning(c) \/ Quit(c) \/ Save(c)
  BY <1>5 DEF FirstRun, AlreadyRunning, Quit, Save
<1>6. CASE Leave(c)
  BY <1>6 DEF Leave
<1>7. CASE NotSaved(c)
  BY <1>7 DEF NotSaved
<1>8. QED
  BY <1>1, <1>2, <1>3, <1>4, <1>5, <1>6, <1>7 DEF Goes

LEMMA GoersKeepTypes == ASSUME TypeOK, NEW c \in Copies, Goes(c), world' = world PROVE TypeOK'
<1>1. copy' \in [Copies -> Copy]
  BY GoingOn
<1>2. UNCHANGED <<settings, staging, model, replaced, world>>
  BY GoersLeave
<1>3. path' \in Files
  BY GoersLeave DEF Remove, TypeOK, Files
<1>4. holder' \in [Copies -> Files]
  <2>1. CASE Flock(c)
    <3>1. copy[c].file \in Files /\ holder' = [holder EXCEPT ![copy[c].file] = c]
      BY <2>1 DEF TypeOK, Flock, Copy
    <3>2. QED
      BY <3>1 DEF TypeOK, Files
  <2>2. CASE Unlock(c) \/ Crash(c)
    BY <2>2 DEF TypeOK, Unlock, Crash, Drop, Files
  <2>3. QED
    BY <2>1, <2>2, GoersLeave DEF TypeOK
<1>5. inherited' \in BOOLEAN /\ crowded' \in BOOLEAN
  <2>1. CASE Flock(c)
    BY <2>1, Zenon DEF Flock
  <2>2. QED
    BY <2>1, GoersLeave DEF TypeOK
<1>6. temp' \in [Copies -> Content] /\ install' \in [Copies -> Steps]
  BY GoersLeave DEF TypeOK, Holds, Content, Steps
<1>7. QED
  BY <1>1, <1>2, <1>3, <1>4, <1>5, <1>6 DEF TypeOK

\* What the steps of an installation leave alone.
LEMMA DownloadsLeave == ASSUME TypeOK, NEW c \in Copies, Downloading(c)
  PROVE  /\ UNCHANGED <<copy, lockVars, fileVars>>
         /\ Works(c)
         /\ \A d \in Copies \ {c} : install'[d] = install[d] /\ staging'[d] = staging[d]
<1>1. UNCHANGED notModel /\ Works(c)
  BY DEF Downloading, Fetch, FetchFails, Fetched, RemoveSome, RemoveRest, Removing, MoveAside,
         NotMoved, Place, NotPlaced, Installing
<1>2. /\ install' = install \/ \E step \in Steps : Proceed(c, step)
      /\ staging' = staging \/ \E files \in Content : Stage(c, files)
  BY DEF Downloading, Fetch, FetchFails, Fetched, RemoveSome, RemoveRest, MoveAside,
         NotMoved, Place, NotPlaced, Steps, Content
<1>3. QED
  BY <1>1, <1>2 DEF notModel, Proceed, Stage, TypeOK

LEMMA TypesStay == ASSUME TypeOK, [Next]_<<world, vars>> PROVE TypeOK'
<1> USE DEF lockVars, fileVars, modelVars
<1>0. world' = world /\ world \in Worlds
  BY DEF Next, TypeOK
<1>1. CASE UNCHANGED vars
  BY <1>0, <1>1 DEF vars, TypeOK
<1>2. ASSUME NEW c \in Copies, Goes(c) PROVE TypeOK'
  BY <1>0, <1>2, GoersKeepTypes
<1>3. ASSUME NEW c \in Copies, Load(c) PROVE TypeOK'
  BY <1>0, <1>3, Loading DEF Load, TypeOK
<1>4. ASSUME NEW c \in Copies, Open(c) PROVE TypeOK'
  BY <1>0, <1>4, Opening DEF Open, TypeOK
<1>5. ASSUME NEW c \in Copies, OpenFails(c) PROVE TypeOK'
  <2>1. crowded' \in BOOLEAN
    BY <1>5, Zenon DEF OpenFails
  <2>2. QED
    BY <1>0, <1>5, <2>1, Failing DEF OpenFails, TypeOK
<1>6. ASSUME NEW c \in Copies, CreateTemp(c) \/ WriteTemp(c) PROVE TypeOK'
  BY <1>0, <1>6 DEF CreateTemp, WriteTemp, Holds, TypeOK, Content
<1>7. ASSUME NEW c \in Copies, Saved(c) PROVE TypeOK'
  <2>1. temp' \in [Copies -> Content]
    BY <1>7 DEF Saved, Holds, TypeOK, Content
  <2>2. QED
    BY <1>0, <1>7, <2>1, Storage DEF Saved, TypeOK
<1>8. ASSUME NEW c \in Copies, Downloading(c) PROVE TypeOK'
  <2>1. UNCHANGED <<copy, lockVars, fileVars>>
    BY <1>8, DownloadsLeave
  <2>2. install' \in [Copies -> Steps]
    BY <1>8 DEF Downloading, Fetch, FetchFails, Fetched, RemoveSome, RemoveRest, MoveAside,
                NotMoved, Place, NotPlaced, Proceed, Steps, TypeOK
  <2>3. staging' \in [Copies -> Content]
    BY <1>8 DEF Downloading, Fetch, FetchFails, Fetched, RemoveSome, RemoveRest, MoveAside,
                NotMoved, Place, NotPlaced, Stage, Content, TypeOK
  <2>4. model' \in Content /\ replaced' \in Content
    BY <1>8 DEF Downloading, Fetch, FetchFails, Fetched, RemoveSome, RemoveRest, MoveAside,
                MoveOld, NotMoved, Place, NotPlaced, Content, TypeOK
  <2>5. QED
    BY <1>0, <2>1, <2>2, <2>3, <2>4 DEF TypeOK
<1>9. QED
  BY <1>1, <1>2, <1>3, <1>4, <1>5, <1>6, <1>7, <1>8
  DEF Next, Act, Launching, Ending, Storing, Goes

-----------------------------------------------------------------------------
(* The lock.                                                                *)

\* Who works, has opened a file or is about to unlink one stays so.
Quiet == \A d \in Copies :
    /\ copy'[d].at \in Working <=> copy[d].at \in Working
    /\ copy'[d].at = "unlocked" <=> copy[d].at = "unlocked"
    /\ copy'[d].at = "opened" => copy[d].at = "opened"
    /\ copy'[d].at \in Working \cup {"opened", "unlocked"} => copy'[d].file = copy[d].file
    /\ copy'[d].at \in Unopened => copy'[d].file = Nothing

LEMMA QuietSteps == ASSUME TypeOK, LockInv, UNCHANGED lockVars, Quiet PROVE LockInv'
<1>1. OpenedFiles'
  BY DEF LockInv, OpenedFiles, Quiet
<1>2. WorkersHold'
  BY DEF LockInv, WorkersHold, Quiet, lockVars
<1>3. HoldersWork'
  <2>1. \A f \in Copies : holder[f] \in Files
    BY DEF TypeOK
  <2>2. QED
    BY <2>1 DEF LockInv, HoldersWork, Quiet, lockVars, Files
<1>4. NamedFile'
  BY DEF LockInv, NamedFile, lockVars
<1>5. NoneIsUnlinked'
  BY DEF LockInv, NoneIsUnlinked, Quiet, lockVars
<1>6. LocklessAreAlone'
  <2>1. \A d \in Copies : Works(d)' => Works(d) /\ copy'[d].file = copy[d].file
    BY DEF Works, Quiet, Working
  <2>2. QED
    BY <2>1 DEF LockInv, LocklessAreAlone, Lockless, lockVars
<1>7. QED
  BY <1>1, <1>2, <1>3, <1>4, <1>5, <1>6 DEF LockInv

\* The steps that leave the lock alone.
LEMMA MostAreQuiet ==
  ASSUME TypeOK, LockInv, NEW c \in Copies,
         \/ Load(c) \/ FirstRun(c) \/ AlreadyRunning(c) \/ Quit(c) \/ Storing(c)
  PROVE  Quiet /\ UNCHANGED lockVars
<1> USE DEF Working, Unopened
<1>1. CASE Load(c)
  <2>1. UNCHANGED lockVars
    BY <1>1 DEF Load
  <2>2. /\ copy[c].at = "none" /\ copy'[c].at \in {"gone", "read"} /\ copy'[c].file = Nothing
        /\ \A d \in Copies \ {c} : copy'[d].at = copy[d].at /\ copy'[d].file = copy[d].file
    BY <1>1, Loading
  <2>3. QED
    BY <2>1, <2>2 DEF Quiet, LockInv, OpenedFiles
<1>2. CASE FirstRun(c)
  <2>1. UNCHANGED lockVars
    BY <1>2 DEF FirstRun
  <2>2. copy[c].at = "read" /\ copy'[c].at \in {"first", "loaded"} /\ copy'[c].file = copy[c].file
        /\ \A d \in Copies \ {c} : copy'[d] = copy[d]
    BY <1>2, GoingOn DEF Moves
  <2>3. QED
    BY <2>1, <2>2 DEF Quiet, LockInv, OpenedFiles
<1>3. CASE AlreadyRunning(c)
  <2>1. UNCHANGED lockVars
    BY <1>3 DEF AlreadyRunning
  <2>2. copy[c].at = "opened" /\ copy'[c].at = "gone"
        /\ \A d \in Copies \ {c} : copy'[d] = copy[d]
    BY <1>3, GoingOn DEF Moves
  <2>3. QED
    BY <2>1, <2>2 DEF Quiet, LockInv, OpenedFiles
<1>4. CASE Quit(c) \/ Save(c)
  <2>1. UNCHANGED lockVars
    BY <1>4 DEF Quit, Save
  <2>2. copy[c].at = "running" /\ copy'[c].at \in {"quitting", "saving"}
        /\ copy'[c].file = copy[c].file /\ \A d \in Copies \ {c} : copy'[d] = copy[d]
    BY <1>4, GoingOn DEF Moves
  <2>3. QED
    BY <2>1, <2>2 DEF Quiet, LockInv, OpenedFiles
<1>5. CASE CreateTemp(c) \/ WriteTemp(c)
  BY <1>5 DEF CreateTemp, WriteTemp, Quiet, LockInv, OpenedFiles
<1>6. CASE Saved(c)
  <2>1. UNCHANGED lockVars
    BY <1>6 DEF Saved
  <2>2. QED
    BY <1>6, <2>1, Storage DEF Quiet, LockInv, OpenedFiles
<1>7. CASE NotSaved(c)
  <2>1. UNCHANGED lockVars
    BY <1>7 DEF NotSaved
  <2>2. /\ \/ copy[c].at = "first" /\ copy'[c].at = "gone"
           \/ copy[c].at = "saving" /\ copy'[c].at = "running"
        /\ copy'[c].file = copy[c].file /\ \A d \in Copies \ {c} : copy'[d] = copy[d]
    BY <1>7, GoingOn DEF Moves
  <2>3. QED
    BY <2>1, <2>2 DEF Quiet, LockInv, OpenedFiles
<1>8. QED
  BY <1>1, <1>2, <1>3, <1>4, <1>5, <1>6, <1>7 DEF Storing

LEMMA OpenKeepsLock == ASSUME TypeOK, LockInv, NEW c \in Copies, Open(c) PROVE LockInv'
<1>1. /\ copy[c].at = "loaded" /\ copy'[c].at = "opened" /\ copy'[c].file = path'
      /\ \A d \in Copies \ {c} : copy'[d] = copy[d]
  BY Opening
<1>2. /\ path' = IF path = Nothing THEN c ELSE path
      /\ path' \in Copies /\ holder' = holder /\ UNCHANGED <<inherited, crowded>>
  BY Opening DEF Open, Files
<1>3. \A f \in Copies : holder[f] # Nothing => holder[f] \in Copies \ {c}
  BY <1>1 DEF TypeOK, LockInv, HoldersWork, Files, Working
<1>4. OpenedFiles'
  BY <1>1, <1>2 DEF LockInv, OpenedFiles, Unopened
<1>5. WorkersHold'
  BY <1>1, <1>2 DEF LockInv, WorkersHold, Working
<1>6. HoldersWork'
  BY <1>1, <1>2, <1>3 DEF LockInv, HoldersWork
<1>7. NamedFile'
  BY <1>2, CopiesAssumption DEF LockInv, NamedFile, Nothing
<1>8. NoneIsUnlinked'
  BY <1>1, <1>2 DEF LockInv, NoneIsUnlinked
<1>9. LocklessAreAlone'
  BY <1>1, <1>2 DEF LockInv, LocklessAreAlone, Lockless, Works
<1>10. QED
  BY <1>4, <1>5, <1>6, <1>7, <1>8, <1>9 DEF LockInv

\* A copy that goes on without the lock holds none, and has another beside it only in a
\* crowd.
LEMMA OpenFailsKeepsLock ==
  ASSUME TypeOK, LockInv, NEW c \in Copies, OpenFails(c) PROVE LockInv'
<1>1. /\ copy[c].at = "loaded" /\ copy'[c].at = "running" /\ copy'[c].file = copy[c].file
      /\ \A d \in Copies \ {c} : copy'[d].at = copy[d].at /\ copy'[d].file = copy[d].file
  BY Failing
<1>2. /\ UNCHANGED <<path, holder, inherited>>
      /\ crowded' = (crowded \/ \E d \in Copies \ {c} : Works(d))
  BY DEF OpenFails
<1>3. copy[c].file = Nothing
  BY <1>1 DEF LockInv, OpenedFiles, Unopened
<1>4. \A f \in Copies : holder[f] # Nothing => holder[f] \in Copies \ {c}
  BY <1>1 DEF TypeOK, LockInv, HoldersWork, Files, Working
<1>5. OpenedFiles'
  BY <1>1 DEF LockInv, OpenedFiles, Unopened
<1>6. WorkersHold'
  BY <1>1, <1>2, <1>3 DEF LockInv, WorkersHold, Working
<1>7. HoldersWork'
  BY <1>1, <1>2, <1>4 DEF LockInv, HoldersWork
<1>8. NamedFile'
  BY <1>2 DEF LockInv, NamedFile
<1>9. NoneIsUnlinked'
  BY <1>1, <1>2 DEF LockInv, NoneIsUnlinked
<1>10. LocklessAreAlone'
  <2>1. \A d \in Copies \ {c} : Works(d)' = Works(d)
    BY <1>1 DEF Works
  <2>2. QED
    BY <1>2, <2>1 DEF LocklessAreAlone, Lockless
<1>11. QED
  BY <1>5, <1>6, <1>7, <1>8, <1>9, <1>10 DEF LockInv

LEMMA FlockKeepsLock == ASSUME TypeOK, LockInv, NEW c \in Copies, Flock(c) PROVE LockInv'
<1> DEFINE f == copy[c].file
<1>1. /\ holder[f] = Nothing /\ holder' = [holder EXCEPT ![f] = c] /\ path' = path
      /\ inherited' = (inherited \/ BeingUnlinked(f))
      /\ crowded' = (crowded \/ \E d \in Copies : Lockless(d))
  BY DEF Flock, Taken
<1>2. copy[c].at = "opened" /\ Moves(c, "running")
  BY GoingOn
<1>3. f \in Copies
  BY <1>2 DEF LockInv, OpenedFiles
<1>4. holder'[f] = c /\ \A g \in Copies \ {f} : holder'[g] = holder[g]
  BY <1>1, <1>3 DEF TypeOK
<1>5. c # Nothing /\ f # Nothing
  BY <1>3, CopiesAssumption DEF Nothing
<1> HIDE DEF f
<1>6. copy'[c].at = "running" /\ copy'[c].file = f /\ \A d \in Copies \ {c} : copy'[d] = copy[d]
  BY <1>2 DEF Moves, f
<1>7. OpenedFiles'
  BY <1>6 DEF LockInv, OpenedFiles, Unopened
<1>8. WorkersHold'
  <2>1. ASSUME NEW d \in Copies \ {c}, copy[d].at \in Working, copy[d].file # Nothing
        PROVE  copy[d].file # f /\ copy[d].file \in Copies
    <3>1. holder[copy[d].file] = d /\ d # Nothing
      BY <2>1, CopiesAssumption DEF LockInv, WorkersHold, Nothing
    <3>2. copy[d].file \in Files
      BY DEF TypeOK, Copy
    <3>3. QED
      BY <1>1, <2>1, <3>1, <3>2 DEF f, Files
  <2>2. QED
    BY <1>4, <1>6, <2>1 DEF LockInv, WorkersHold
<1>9. HoldersWork'
  <2>1. \A g \in Copies \ {f} : holder[g] # Nothing => holder[g] \in Copies \ {c}
    BY <1>2 DEF TypeOK, LockInv, HoldersWork, Files, Working
  <2>2. QED
    BY <1>4, <1>6, <2>1 DEF LockInv, HoldersWork, Working
<1>10. ~inherited' => ~inherited /\ path = f /\ \A d \in Copies : copy[d].at # "unlocked"
  BY <1>1 DEF BeingUnlinked, At
<1>11. NamedFile'
  BY <1>1, <1>4, <1>10 DEF LockInv, NamedFile
<1>12. NoneIsUnlinked'
  BY <1>6, <1>10 DEF NoneIsUnlinked
<1>13. LocklessAreAlone'
  <2>1. \A d \in Copies : Lockless(d)' => Lockless(d)
    BY <1>5, <1>6 DEF Lockless, Works
  <2>2. QED
    BY <1>1, <2>1 DEF LocklessAreAlone
<1>14. QED
  BY <1>7, <1>8, <1>9, <1>11, <1>12, <1>13 DEF LockInv

\* A copy that ends, or lets its flock go to unlink the file.
LEMMA DropKeepsLock ==
  ASSUME TypeOK, LockInv, NEW c \in Copies, Drop(c), NEW there \in {"unlocked", "gone"},
         Moves(c, there), UNCHANGED <<path, inherited, crowded>>,
         there = "unlocked" => copy[c].at = "quitting" /\ ~Lockless(c)
  PROVE  LockInv'
<1>1. \A f \in Copies : holder'[f] = IF holder[f] = c THEN Nothing ELSE holder[f]
  BY DEF Drop
<1>2. c # Nothing /\ there \notin Working /\ there # "opened"
  BY CopiesAssumption DEF Nothing, Working
<1>3. /\ copy'[c].at = there /\ copy'[c].file = copy[c].file
      /\ \A d \in Copies \ {c} : copy'[d] = copy[d]
  BY DEF Moves
<1>4. there = "unlocked" => /\ copy[c].at \in Working /\ copy[c].file \in Copies
                            /\ holder[copy[c].file] = c
  <2>1. copy[c].file \in Files
    BY DEF TypeOK, Copy
  <2>2. QED
    BY <2>1 DEF LockInv, WorkersHold, Working, Lockless, Works, Files
<1>5. OpenedFiles'
  BY <1>2, <1>3, <1>4 DEF LockInv, OpenedFiles, Unopened
<1>6. WorkersHold'
  <2>1. ASSUME NEW d \in Copies \ {c}, copy[d].at \in Working, copy[d].file # Nothing
        PROVE  holder'[copy[d].file] = d
    <3>1. holder[copy[d].file] = d /\ copy[d].file \in Copies
      BY <2>1 DEF LockInv, WorkersHold, TypeOK, Copy, Files
    <3>2. QED
      BY <1>1, <3>1
  <2>2. QED
    BY <1>2, <1>3, <2>1 DEF WorkersHold
<1>7. HoldersWork'
  <2>1. \A f \in Copies : holder[f] \in Files
    BY DEF TypeOK
  <2>2. QED
    BY <1>1, <1>2, <1>3, <2>1 DEF LockInv, HoldersWork, Files
<1>8. NamedFile'
  BY <1>1 DEF LockInv, NamedFile
<1>9. NoneIsUnlinked'
  <2>1. ASSUME ~inherited, there = "unlocked"
        PROVE  /\ \A f \in Copies : holder'[f] = Nothing
               /\ \A d \in Copies : copy[d].at # "unlocked"
    <3>1. path = copy[c].file
      BY <1>2, <1>4, <2>1 DEF LockInv, NamedFile
    <3>2. \A f \in Copies : holder[f] \in {Nothing, c}
      BY <1>4, <2>1, <3>1 DEF LockInv, NamedFile
    <3>3. \A d \in Copies : copy[d].at # "unlocked"
      BY <1>2, <1>4, <2>1 DEF LockInv, NoneIsUnlinked
    <3>4. QED
      BY <1>1, <3>2, <3>3
  <2>2. QED
    BY <1>1, <1>2, <1>3, <2>1 DEF LockInv, NoneIsUnlinked
<1>10. LocklessAreAlone'
  <2>1. \A d \in Copies : Works(d)' => Works(d) /\ copy'[d].file = copy[d].file
    BY <1>3, <1>4 DEF Works, Working
  <2>2. QED
    BY <2>1 DEF LockInv, LocklessAreAlone, Lockless
<1>11. QED
  BY <1>5, <1>6, <1>7, <1>8, <1>9, <1>10 DEF LockInv

\* A copy that is gone without having held a flock.
LEMMA GoneKeepsLock ==
  ASSUME TypeOK, LockInv, NEW c \in Copies, Moves(c, "gone"), UNCHANGED <<holder, inherited, crowded>>,
         \A f \in Copies : holder[f] # c,
         path' = path \/ copy[c].at = "unlocked"
  PROVE  LockInv'
<1>1. copy'[c].at = "gone" /\ \A d \in Copies \ {c} : copy'[d] = copy[d]
  BY DEF Moves
<1>2. OpenedFiles' /\ WorkersHold'
  BY <1>1 DEF LockInv, OpenedFiles, WorkersHold, Working, Unopened
<1>3. HoldersWork'
  <2>1. \A f \in Copies : holder[f] \in Files
    BY DEF TypeOK
  <2>2. QED
    BY <1>1, <2>1 DEF LockInv, HoldersWork, Files
<1>4. NamedFile'
  BY DEF LockInv, NamedFile, NoneIsUnlinked
<1>5. NoneIsUnlinked'
  BY <1>1 DEF LockInv, NoneIsUnlinked
<1>6. LocklessAreAlone'
  BY <1>1 DEF LockInv, LocklessAreAlone, Lockless, Works
<1>7. QED
  BY <1>2, <1>3, <1>4, <1>5, <1>6 DEF LockInv

LEMMA LockStays == ASSUME TypeOK, LockInv, [Next]_<<world, vars>> PROVE LockInv'
<1>1. CASE UNCHANGED vars
  <2>1. Quiet /\ UNCHANGED lockVars
    BY <1>1 DEF vars, Quiet, LockInv, OpenedFiles, Unopened
  <2>2. QED
    BY <2>1, QuietSteps
<1>2. ASSUME NEW c \in Copies, Load(c) \/ FirstRun(c) \/ AlreadyRunning(c) \/ Quit(c) \/ Storing(c)
      PROVE  LockInv'
  BY <1>2, MostAreQuiet, QuietSteps
<1>3. ASSUME NEW c \in Copies, Downloading(c) PROVE LockInv'
  <2>1. UNCHANGED <<copy, lockVars>>
    BY <1>3, DownloadsLeave
  <2>2. Quiet
    BY <2>1 DEF Quiet, LockInv, OpenedFiles, Unopened
  <2>3. QED
    BY <2>1, <2>2, QuietSteps
<1>4. ASSUME NEW c \in Copies, Open(c) PROVE LockInv'
  BY <1>4, OpenKeepsLock
<1>5. ASSUME NEW c \in Copies, OpenFails(c) PROVE LockInv'
  BY <1>5, OpenFailsKeepsLock
<1>6. ASSUME NEW c \in Copies, Flock(c) PROVE LockInv'
  BY <1>6, FlockKeepsLock
<1>7. ASSUME NEW c \in Copies, Unlock(c) PROVE LockInv'
  BY <1>7, GoingOn, DropKeepsLock DEF Unlock
<1>8. ASSUME NEW c \in Copies, Crash(c) PROVE LockInv'
  <2>1. Moves(c, "gone") /\ Drop(c) /\ UNCHANGED <<path, inherited, crowded>>
    BY <1>8, GoingOn DEF Crash
  <2>2. QED
    BY <2>1, DropKeepsLock
<1>9. ASSUME NEW c \in Copies, Leave(c) PROVE LockInv'
  <2>1. Moves(c, "gone") /\ copy[c].file = Nothing /\ UNCHANGED lockVars
    BY <1>9, GoingOn DEF Leave, Lockless
  <2>2. \A f \in Copies : holder[f] # c
    BY <2>1, CopiesAssumption DEF LockInv, HoldersWork, Nothing
  <2>3. QED
    BY <2>1, <2>2, GoneKeepsLock DEF lockVars
<1>10. ASSUME NEW c \in Copies, Remove(c) PROVE LockInv'
  <2>1. Moves(c, "gone") /\ copy[c].at = "unlocked" /\ UNCHANGED <<holder, inherited, crowded>>
    BY <1>10, GoingOn DEF Remove
  <2>2. \A f \in Copies : holder[f] # c
    BY <2>1, CopiesAssumption DEF LockInv, HoldersWork, Nothing, Working
  <2>3. QED
    BY <2>1, <2>2, GoneKeepsLock
<1>11. QED
  BY <1>1, <1>2, <1>3, <1>4, <1>5, <1>6, <1>7, <1>8, <1>9, <1>10
  DEF Next, Act, Launching, Ending

\* Whoever works is the only one who does, as long as the lock is exclusive.
LEMMA OneWorker ==
  ASSUME TypeOK, LockInv, Exclusive, NEW c \in Copies, NEW d \in Copies, Works(c), Works(d)
  PROVE  c = d
<1>1. ~inherited /\ ~crowded
  BY DEF Exclusive
<1>2. Lockless(c) \/ Lockless(d) => c = d
  BY <1>1 DEF LockInv, LocklessAreAlone
<1>3. SUFFICES ASSUME ~Lockless(c), ~Lockless(d) PROVE c = d
  BY <1>2
<1>4. ASSUME NEW e \in Copies, Works(e), ~Lockless(e), copy[e].at # "unlocked"
      PROVE  path = copy[e].file /\ path \in Copies /\ holder[path] = e
  <2>1. copy[e].at \in Working /\ copy[e].file # Nothing /\ copy[e].file \in Files
    BY <1>4 DEF Works, Lockless, Working, TypeOK, Copy
  <2>2. holder[copy[e].file] = e /\ copy[e].file \in Copies
    BY <2>1 DEF LockInv, WorkersHold, Files
  <2>3. e # Nothing
    BY CopiesAssumption DEF Nothing
  <2>4. QED
    BY <1>1, <2>2, <2>3 DEF LockInv, NamedFile
<1>5. CASE copy[c].at = "unlocked" \/ copy[d].at = "unlocked"
  BY <1>1, <1>3, <1>4, <1>5, CopiesAssumption DEF LockInv, NoneIsUnlinked, Nothing
<1>6. CASE copy[c].at # "unlocked" /\ copy[d].at # "unlocked"
  BY <1>3, <1>4, <1>6
<1>7. QED
  BY <1>5, <1>6

-----------------------------------------------------------------------------
(* The model.                                                               *)

\* The steps of the client itself.
LEMMA ClientSteps ==
  ASSUME TypeOK, LockInv, NEW c \in Copies, Launching(c) \/ Ending(c) \/ Storing(c)
  PROVE  /\ UNCHANGED <<staging, model, replaced>>
         /\ Exclusive' => Exclusive
         /\ install' = install \/ install' = [install EXCEPT ![c] = "no"]
         /\ Works(c) /\ ~Works(c)' => install' = [install EXCEPT ![c] = "no"]
         /\ \A d \in Copies \ {c} : Works(d)' = Works(d)
<1> USE DEF modelVars, lockVars
<1>1. CASE Goes(c)
  <2>1. /\ UNCHANGED <<staging, model, replaced>>
        /\ install' = install \/ install' = [install EXCEPT ![c] = "no"]
    BY <1>1, GoersLeave
  <2>2. Exclusive' => Exclusive
    <3>1. CASE Flock(c)
      BY <3>1 DEF Flock, Exclusive
    <3>2. CASE ~Flock(c)
      BY <1>1, <3>2, GoersLeave DEF Exclusive
    <3>3. QED
      BY <3>1, <3>2
  <2>3. \A d \in Copies \ {c} : copy'[d] = copy[d]
    BY <1>1, GoingOn DEF Goes, Moves
  <2>4. Works(c) /\ ~Works(c)' => Leave(c) \/ Remove(c) \/ Crash(c)
    BY <1>1, GoingOn DEF Goes, Moves, Works
  <2>5. Leave(c) \/ Remove(c) \/ Crash(c) => install' = [install EXCEPT ![c] = "no"]
    BY DEF Leave, Remove, Crash
  <2>6. QED
    BY <2>1, <2>2, <2>3, <2>4, <2>5 DEF Works
<1>2. CASE Load(c)
  <2>1. UNCHANGED <<modelVars, lockVars>>
    BY <1>2 DEF Load
  <2>2. copy[c].at = "none" /\ \A d \in Copies \ {c} : copy'[d].at = copy[d].at
    BY <1>2, Loading
  <2>3. QED
    BY <2>1, <2>2 DEF Works, Exclusive
<1>3. CASE Open(c)
  <2>1. UNCHANGED <<modelVars, inherited, crowded>>
    BY <1>3 DEF Open
  <2>2. copy[c].at = "loaded" /\ \A d \in Copies \ {c} : copy'[d] = copy[d]
    BY <1>3, Opening
  <2>3. QED
    BY <2>1, <2>2 DEF Works, Exclusive
<1>4. CASE OpenFails(c)
  <2>1. UNCHANGED <<modelVars, inherited>> /\ (crowded => crowded')
    BY <1>4 DEF OpenFails
  <2>2. copy[c].at = "loaded" /\ \A d \in Copies \ {c} : copy'[d].at = copy[d].at
    BY <1>4, Failing
  <2>3. QED
    BY <2>1, <2>2 DEF Works, Exclusive
<1>5. CASE CreateTemp(c) \/ WriteTemp(c)
  BY <1>5 DEF CreateTemp, WriteTemp, Works, Exclusive
<1>6. CASE Saved(c)
  <2>1. UNCHANGED <<modelVars, lockVars>>
    BY <1>6 DEF Saved
  <2>2. /\ copy[c].at = "first" \/ copy'[c].at = "running"
        /\ \A d \in Copies \ {c} : copy'[d] = copy[d]
    BY <1>6, Storage
  <2>3. QED
    BY <2>1, <2>2 DEF Works, Exclusive
<1>7. QED
  BY <1>1, <1>2, <1>3, <1>4, <1>5, <1>6 DEF Launching, Ending, Storing, Goes

LEMMA InstallersStay ==
  ASSUME TypeOK, LockInv, InstallersWork, [Next]_<<world, vars>> PROVE InstallersWork'
<1>1. CASE UNCHANGED vars
  BY <1>1 DEF vars, modelVars, InstallersWork, Works
<1>2. ASSUME NEW c \in Copies, Downloading(c) PROVE InstallersWork'
  BY <1>2, DownloadsLeave DEF InstallersWork, Works
<1>3. ASSUME NEW c \in Copies, Launching(c) \/ Ending(c) \/ Storing(c) PROVE InstallersWork'
  BY <1>3, ClientSteps DEF InstallersWork, TypeOK
<1>4. QED
  BY <1>1, <1>2, <1>3 DEF Next, Act

LEMMA StagedStays ==
  ASSUME TypeOK, LockInv, StagedIsWhole, [Next]_<<world, vars>> PROVE StagedIsWhole'
<1>1. CASE UNCHANGED vars
  BY <1>1 DEF vars, modelVars, StagedIsWhole
<1>2. ASSUME NEW c \in Copies, Downloading(c) PROVE StagedIsWhole'
  <2>1. \A step : Proceed(c, step) => install'[c] = step
    BY DEF TypeOK, Proceed
  <2>2. \A files : Stage(c, files) => staging'[c] = files
    BY DEF TypeOK, Stage
  <2>3. install'[c] \in {"empty", "standing", "cleared", "aside"} => staging'[c] = "whole"
    BY <1>2, <2>1, <2>2 DEF StagedIsWhole, Downloading, Fetch, FetchFails, Fetched, RemoveSome,
       RemoveRest, Removing, MoveAside, NotMoved, Place, NotPlaced, Installing
  <2>4. QED
    BY <1>2, <2>3, DownloadsLeave DEF StagedIsWhole
<1>3. ASSUME NEW c \in Copies, Launching(c) \/ Ending(c) \/ Storing(c) PROVE StagedIsWhole'
  BY <1>3, ClientSteps DEF StagedIsWhole, TypeOK
<1>4. QED
  BY <1>1, <1>2, <1>3 DEF Next, Act

\* What an installation finds and leaves, as long as no other one is under way.
LEMMA Installation ==
  ASSUME TypeOK, ModelInv, NEW c \in Copies, Downloading(c), Exclusive
  PROVE  /\ install'[c] \in {"standing", "cleared", "placed"} => model' = "whole"
         /\ install'[c] = "aside" => replaced' = "whole"
         /\ model' # "part" /\ (model' = "none" => replaced' # "part")
         /\ Kept => Kept'
<1>1. \A step : Proceed(c, step) => install'[c] = step
  BY DEF TypeOK, Proceed
<1>2. Works(c) /\ (install[c] \in {"empty", "aside"} => staging[c] = "whole")
  BY DownloadsLeave DEF ModelInv, StagedIsWhole
<1>3. /\ install[c] \in {"standing", "cleared", "placed"} => model = "whole"
      /\ install[c] = "aside" => replaced = "whole"
  BY <1>2 DEF ModelInv, OldModelStands
<1>4. model # "part" /\ (model = "none" => replaced # "part") /\ model \in Content /\ replaced \in Content
  BY DEF ModelInv, FilesAreWhole, TypeOK
<1>5. CASE Fetch(c) \/ FetchFails(c) \/ Fetched(c)
  BY <1>1, <1>4, <1>5 DEF Fetch, FetchFails, Fetched, Kept, Content
<1>6. CASE RemoveSome(c)
  <2>1. model = "whole" /\ install' = install /\ model' = model
    BY <1>3, <1>6 DEF RemoveSome, Removing, Installing
  <2>2. install[c] # "aside"
    BY <1>6 DEF RemoveSome, Removing, Installing
  <2>3. QED
    BY <2>1, <2>2 DEF Kept
<1>7. CASE RemoveRest(c)
  <2>1. model = "whole" /\ model' = model /\ install'[c] \in {"cleared", "no"}
    BY <1>1, <1>3, <1>7 DEF RemoveRest, Removing, Installing
  <2>2. QED
    BY <2>1 DEF Kept
<1>8. CASE MoveAside(c)
  <2>1. model = "whole" /\ model' = "none" /\ replaced' = "whole" /\ install'[c] = "aside"
    BY <1>1, <1>3, <1>8 DEF MoveAside, MoveOld, Installing
  <2>2. QED
    BY <2>1 DEF Kept
<1>9. CASE NotMoved(c)
  BY <1>1, <1>4, <1>9 DEF NotMoved, Kept
<1>10. CASE Place(c)
  <2>1. model' = "whole" /\ install'[c] # "aside"
    BY <1>1, <1>2, <1>10 DEF Place, Installing
  <2>2. QED
    BY <2>1 DEF Kept
<1>11. CASE NotPlaced(c)
  <2>1. install'[c] = "no"
    BY <1>1, <1>11 DEF NotPlaced
  <2>2. \/ model' = "whole"
        \/ UNCHANGED <<model, replaced>>
    BY <1>3, <1>11 DEF NotPlaced, Installing
  <2>3. QED
    BY <1>4, <2>1, <2>2 DEF Kept
<1>12. QED
  BY <1>5, <1>6, <1>7, <1>8, <1>9, <1>10, <1>11 DEF Downloading

LEMMA OldModelStays ==
  ASSUME TypeOK, LockInv, ModelInv, [Next]_<<world, vars>> PROVE OldModelStands'
<1>1. CASE UNCHANGED vars
  BY <1>1 DEF vars, lockVars, modelVars, ModelInv, OldModelStands, Exclusive, Works
<1>2. ASSUME NEW c \in Copies, Downloading(c) PROVE OldModelStands'
  <2>1. UNCHANGED <<copy, lockVars>> /\ Works(c)
    BY <1>2, DownloadsLeave
  <2>2. SUFFICES ASSUME Exclusive', NEW d \in Copies, Works(d)'
                 PROVE  /\ install'[d] \in {"standing", "cleared", "placed"} => model' = "whole"
                        /\ install'[d] = "aside" => replaced' = "whole"
    BY DEF OldModelStands
  <2>3. Exclusive /\ Works(d)
    BY <2>1, <2>2 DEF Exclusive, Works, lockVars
  <2>4. d = c
    BY <2>1, <2>3, OneWorker
  <2>5. QED
    BY <1>2, <2>3, <2>4, Installation
<1>3. ASSUME NEW c \in Copies, Launching(c) \/ Ending(c) \/ Storing(c) PROVE OldModelStands'
  <2>1. SUFFICES ASSUME Exclusive', NEW d \in Copies, Works(d)'
                 PROVE  /\ install'[d] \in {"standing", "cleared", "placed"} => model' = "whole"
                        /\ install'[d] = "aside" => replaced' = "whole"
    BY DEF OldModelStands
  <2>2. Exclusive /\ UNCHANGED <<model, replaced>>
    BY <1>3, <2>1, ClientSteps
  <2>3. install'[d] = install[d] \/ install'[d] = "no"
    BY <1>3, ClientSteps DEF TypeOK
  <2>4. install[d] # "no" => Works(d)
    BY DEF ModelInv, InstallersWork
  <2>5. QED
    BY <2>2, <2>3, <2>4 DEF ModelInv, OldModelStands
<1>4. QED
  BY <1>1, <1>2, <1>3 DEF Next, Act

LEMMA FilesStay ==
  ASSUME TypeOK, LockInv, ModelInv, [Next]_<<world, vars>> PROVE FilesAreWhole'
<1>1. CASE UNCHANGED vars
  BY <1>1 DEF vars, lockVars, fileVars, modelVars, ModelInv, FilesAreWhole, Exclusive
<1>2. ASSUME NEW c \in Copies, Downloading(c) PROVE FilesAreWhole'
  <2>1. UNCHANGED <<lockVars, fileVars>>
    BY <1>2, DownloadsLeave
  <2>2. settings'.is # "part" /\ (Exclusive' => Exclusive)
    BY <2>1 DEF lockVars, fileVars, ModelInv, FilesAreWhole, Exclusive
  <2>3. QED
    BY <1>2, <2>2, Installation DEF FilesAreWhole
<1>3. ASSUME NEW c \in Copies, Launching(c) \/ Ending(c) \/ Storing(c) PROVE FilesAreWhole'
  <2>1. UNCHANGED <<model, replaced>> /\ (Exclusive' => Exclusive)
    BY <1>3, ClientSteps
  <2>2. settings' = settings \/ settings'.is = "whole"
    <3>1. CASE Saved(c)
      BY <3>1, Storage
    <3>2. CASE ~Saved(c)
      BY <1>3, <3>2 DEF Launching, Ending, Storing, Load, FirstRun, Open, OpenFails, Flock,
         AlreadyRunning, Quit, Unlock, Leave, Remove, Crash, Save, CreateTemp, WriteTemp, NotSaved,
         fileVars
    <3>3. QED
      BY <3>1, <3>2
  <2>3. QED
    BY <2>1, <2>2 DEF ModelInv, FilesAreWhole
<1>4. QED
  BY <1>1, <1>2, <1>3 DEF Next, Act

LEMMA ModelStays ==
  ASSUME TypeOK, LockInv, ModelInv, [Next]_<<world, vars>> PROVE ModelInv'
<1>1. InstallersWork' /\ StagedIsWhole'
  BY InstallersStay, StagedStays DEF ModelInv
<1>2. OldModelStands' /\ FilesAreWhole'
  BY OldModelStays, FilesStay
<1>3. QED
  BY <1>1, <1>2 DEF ModelInv

-----------------------------------------------------------------------------
(* The settings.                                                            *)

\* While a copy is there, no other one starts that thinks itself alone; while it works,
\* starts anew or unlinks, no other one works that thinks so.
LEMMA NotAlone ==
  ASSUME SavesInv, NEW c \in Copies, copy[c].at \notin {"none", "gone"},
         NEW d \in Copies \ {c}, ~copy[d].overlapped
  PROVE  /\ copy[d].at \notin Starts
         /\ copy[d].at \in Working => copy[d].file # Nothing
         /\ copy[c].at \in Working \cup {"first", "unlocked"} => copy[d].at \notin Working
  BY DEF SavesInv, KnowsEverySave

LEMMA LoadKeepsSaves == ASSUME TypeOK, SavesInv, NEW c \in Copies, Load(c) PROVE SavesInv'
<1>1. UNCHANGED <<settings, path>>
  BY DEF Load, lockVars, fileVars
<1>2. /\ copy[c].at = "none" /\ copy'[c].at \in {"gone", "read"} /\ copy'[c].knows = settings.has
      /\ copy'[c].overlapped = \E e \in Copies : copy[e].at \notin {"none", "gone"}
  BY Loading
<1>same. ASSUME NEW d \in Copies \ {c}
         PROVE  /\ copy'[d].at = copy[d].at /\ copy'[d].file = copy[d].file
                /\ copy'[d].knows = copy[d].knows
                /\ copy'[d].overlapped = (copy[d].overlapped \/ Starting(d) \/ Lockless(d))
  BY Loading
<1>3. KnowsEverySave(c)'
  <2>1. SUFFICES ASSUME ~copy'[c].overlapped PROVE KnowsEverySave(c)'
    BY DEF KnowsEverySave
  <2>2. \A d \in Copies \ {c} : copy'[d].at \in {"none", "gone"}
    BY <1>2, <1>same, <2>1
  <2>3. QED
    BY <1>1, <1>2, <2>2 DEF KnowsEverySave, Working, Starts, Unopened
<1>4. ASSUME NEW d \in Copies \ {c} PROVE KnowsEverySave(d)'
  <2>1. SUFFICES ASSUME ~copy'[d].overlapped PROVE KnowsEverySave(d)'
    BY DEF KnowsEverySave
  <2>2. /\ copy'[d].at = copy[d].at /\ copy'[d].file = copy[d].file
        /\ copy'[d].knows = copy[d].knows /\ ~copy[d].overlapped
    BY <1>same, <2>1
  <2>3. copy[d].at \notin Starts /\ (copy[d].at \in Working => copy[d].file # Nothing)
    BY <1>same, <2>1 DEF Starting, Starts, Unopened, Lockless, Works, Working
  <2>4. CASE copy[d].at \in Working
    <3>1. /\ settings.has \subseteq copy[d].knows /\ settings.is # "none" /\ copy[d].file = path
          /\ \A e \in Copies \ {d} : /\ copy[e].at \notin Working \cup {"first", "unlocked"}
                                     /\ copy[e].at = "opened" => copy[e].file = path
      BY <2>2, <2>3, <2>4 DEF SavesInv, KnowsEverySave
    <3>2. ASSUME NEW e \in Copies \ {d}
          PROVE  /\ copy'[e].at \notin Working \cup {"first", "unlocked"}
                 /\ copy'[e].at = "opened" => copy'[e].file = path
      BY <1>2, <1>same, <3>1 DEF Working
    <3>3. QED
      BY <1>1, <2>2, <2>3, <3>1, <3>2 DEF KnowsEverySave, Working
  <2>5. CASE copy[d].at \notin Working
    BY <2>2, <2>3, <2>5 DEF KnowsEverySave, Working, Starts, Unopened
  <2>6. QED
    BY <2>4, <2>5
<1>5. QED
  BY <1>3, <1>4 DEF SavesInv

\* A first launch finds no settings, which nobody else at work can have left.
LEMMA FirstRunKeepsSaves ==
  ASSUME TypeOK, SavesInv, NEW c \in Copies, FirstRun(c) PROVE SavesInv'
<1>1. UNCHANGED <<settings, path>>
  BY DEF FirstRun, lockVars, fileVars
<1>2. /\ copy[c].at = "read" /\ copy'[c].at = IF settings.is = "none" THEN "first" ELSE "loaded"
      /\ copy'[c].knows = copy[c].knows /\ copy'[c].overlapped = copy[c].overlapped
      /\ copy'[c].file = copy[c].file /\ \A d \in Copies \ {c} : copy'[d] = copy[d]
  BY GoingOn DEF Moves
<1>3. KnowsEverySave(c)'
  BY <1>1, <1>2 DEF SavesInv, KnowsEverySave, Working, Starts, Unopened
<1>4. ASSUME NEW d \in Copies \ {c} PROVE KnowsEverySave(d)'
  <2>1. SUFFICES ASSUME ~copy[d].overlapped PROVE KnowsEverySave(d)'
    BY <1>2 DEF KnowsEverySave
  <2>2. copy[d].at \notin Starts /\ (copy[d].at \in Working => copy[d].file # Nothing)
    BY <1>2, <2>1, NotAlone
  <2>3. copy[d].at \in Working => settings.is # "none"
    BY <2>1 DEF SavesInv, KnowsEverySave
  <2>4. QED
    BY <1>1, <1>2, <2>1, <2>2, <2>3 DEF SavesInv, KnowsEverySave, Working, Starts, Unopened
<1>5. QED
  BY <1>3, <1>4 DEF SavesInv

\* A copy that wrote the settings, as a first launch or with a save.
LEMMA SavedKeepsSaves == ASSUME TypeOK, SavesInv, NEW c \in Copies, Saved(c) PROVE SavesInv'
<1>1. path' = path
  BY DEF Saved, lockVars
<1>2. /\ copy[c].at \in {"first", "saving"}
      /\ copy'[c].at = IF copy[c].at = "first" THEN "loaded" ELSE "running"
      /\ copy'[c].file = copy[c].file /\ copy'[c].overlapped = copy[c].overlapped
      /\ settings'.is = "whole" /\ settings'.has = copy'[c].knows
      /\ \A d \in Copies \ {c} : copy'[d] = copy[d]
  BY Storage
<1>3. ASSUME NEW d \in Copies \ {c} PROVE KnowsEverySave(d)'
  <2>1. ~copy[d].overlapped => copy[d].at \notin Starts \cup Working
    BY <1>2, NotAlone DEF Working
  <2>2. QED
    BY <1>2, <2>1 DEF KnowsEverySave, Working, Starts, Unopened
<1>4. KnowsEverySave(c)'
  <2>1. SUFFICES ASSUME ~copy[c].overlapped PROVE KnowsEverySave(c)'
    BY <1>2 DEF KnowsEverySave
  <2>2. CASE copy[c].at = "first"
    BY <1>1, <1>2, <2>1, <2>2 DEF SavesInv, KnowsEverySave, Working, Starts, Unopened
  <2>3. CASE copy[c].at = "saving"
    BY <1>1, <1>2, <2>1, <2>3 DEF SavesInv, KnowsEverySave, Working, Starts, Unopened
  <2>4. QED
    BY <1>2, <2>2, <2>3
<1>5. QED
  BY <1>3, <1>4 DEF SavesInv

LEMMA OpenKeepsSaves == ASSUME TypeOK, LockInv, SavesInv, NEW c \in Copies, Open(c) PROVE SavesInv'
<1>1. /\ copy[c].at = "loaded" /\ copy'[c].at = "opened" /\ copy'[c].file = path'
      /\ copy'[c].knows = copy[c].knows /\ copy'[c].overlapped = copy[c].overlapped
      /\ \A d \in Copies \ {c} : copy'[d] = copy[d]
  BY Opening
<1>2. path' = (IF path = Nothing THEN c ELSE path) /\ settings' = settings
  BY Opening DEF Open, fileVars
<1>3. KnowsEverySave(c)'
  BY <1>1, <1>2 DEF SavesInv, KnowsEverySave, Working, Starts, Unopened
<1>4. ASSUME NEW d \in Copies \ {c} PROVE KnowsEverySave(d)'
  <2>1. SUFFICES ASSUME ~copy[d].overlapped PROVE KnowsEverySave(d)'
    BY <1>1 DEF KnowsEverySave
  <2>2. copy[d].at \notin Starts /\ (copy[d].at \in Working => copy[d].file # Nothing)
    BY <1>1, <2>1, NotAlone
  <2>3. CASE copy[d].at \in Working
    <3>1. path = copy[d].file /\ path # Nothing
      BY <2>1, <2>2, <2>3 DEF SavesInv, KnowsEverySave
    <3>2. path' = path
      BY <1>2, <3>1
    <3>3. QED
      BY <1>1, <1>2, <2>1, <2>2, <2>3, <3>2 DEF SavesInv, KnowsEverySave, Working, Starts, Unopened
  <2>4. CASE copy[d].at \notin Working
    BY <1>1, <2>2, <2>4 DEF KnowsEverySave, Working, Starts, Unopened
  <2>5. QED
    BY <2>3, <2>4
<1>5. QED
  BY <1>3, <1>4 DEF SavesInv

\* Whoever is there beside a copy that goes on without the lock learns of it.
LEMMA OpenFailsKeepsSaves ==
  ASSUME TypeOK, LockInv, SavesInv, NEW c \in Copies, OpenFails(c) PROVE SavesInv'
<1>1. /\ copy[c].at = "loaded" /\ copy'[c].at = "running" /\ copy'[c].file = copy[c].file
      /\ copy'[c].knows = copy[c].knows /\ copy'[c].overlapped = copy[c].overlapped
      /\ \A d \in Copies \ {c} :
           /\ copy'[d].at = copy[d].at /\ copy'[d].file = copy[d].file
           /\ copy'[d].overlapped = (copy[d].overlapped \/ copy[d].at \notin {"none", "gone"})
  BY Failing
<1>2. UNCHANGED <<path, settings>>
  BY DEF OpenFails, fileVars
<1>3. copy[c].file = Nothing
  BY <1>1 DEF LockInv, OpenedFiles, Unopened
<1>4. KnowsEverySave(c)'
  <2>1. SUFFICES ASSUME ~copy[c].overlapped PROVE KnowsEverySave(c)'
    BY <1>1 DEF KnowsEverySave
  <2>2. \A d \in Copies \ {c} : copy'[d].at \in {"none", "gone"}
    BY <1>1, <2>1 DEF SavesInv, KnowsEverySave, Starts, Unopened
  <2>3. settings.has \subseteq copy[c].knows /\ settings.is # "none"
    BY <1>1, <2>1 DEF SavesInv, KnowsEverySave, Starts, Unopened
  <2>4. QED
    BY <1>1, <1>2, <1>3, <2>2, <2>3 DEF KnowsEverySave, Working, Starts, Unopened
<1>5. ASSUME NEW d \in Copies \ {c} PROVE KnowsEverySave(d)'
  BY <1>1 DEF KnowsEverySave, Working, Starts, Unopened
<1>6. QED
  BY <1>4, <1>5 DEF SavesInv

LEMMA FlockKeepsSaves ==
  ASSUME TypeOK, LockInv, SavesInv, NEW c \in Copies, Flock(c) PROVE SavesInv'
<1>1. holder[copy[c].file] = Nothing /\ UNCHANGED <<path, settings>>
  BY DEF Flock, Taken, fileVars
<1>2. /\ copy[c].at = "opened" /\ copy'[c].at = "running" /\ copy'[c].file = copy[c].file
      /\ copy'[c].knows = copy[c].knows /\ copy'[c].overlapped = copy[c].overlapped
      /\ \A d \in Copies \ {c} : copy'[d] = copy[d]
  BY GoingOn DEF Moves
<1>3. copy[c].file # Nothing
  BY <1>2, CopiesAssumption DEF LockInv, OpenedFiles, Nothing
<1>4. KnowsEverySave(c)'
  <2>1. SUFFICES ASSUME ~copy[c].overlapped PROVE KnowsEverySave(c)'
    BY <1>2 DEF KnowsEverySave
  <2>2. \A d \in Copies \ {c} : copy[d].at \in {"none", "gone"}
    BY <1>2, <2>1 DEF SavesInv, KnowsEverySave, Starts
  <2>3. QED
    BY <1>1, <1>2, <1>3, <2>1, <2>2 DEF SavesInv, KnowsEverySave, Working, Starts, Unopened
<1>5. ASSUME NEW d \in Copies \ {c} PROVE KnowsEverySave(d)'
  <2>1. SUFFICES ASSUME ~copy[d].overlapped PROVE KnowsEverySave(d)'
    BY <1>2 DEF KnowsEverySave
  <2>2. copy[d].at \notin Starts /\ (copy[d].at \in Working => copy[d].file # Nothing)
    BY <1>2, <2>1, NotAlone
  <2>3. copy[d].at \notin Working
    <3>1. SUFFICES ASSUME copy[d].at \in Working PROVE FALSE
      OBVIOUS
    <3>2. copy[d].file = path /\ copy[c].file = path
      BY <1>2, <2>1, <2>2, <3>1 DEF SavesInv, KnowsEverySave
    <3>3. holder[copy[d].file] = d
      BY <2>2, <3>1 DEF LockInv, WorkersHold
    <3>4. QED
      BY <1>1, <3>2, <3>3, CopiesAssumption DEF Nothing
  <2>4. QED
    BY <1>2, <2>2, <2>3 DEF KnowsEverySave, Working, Starts, Unopened
<1>6. QED
  BY <1>4, <1>5 DEF SavesInv

\* A copy that works goes on to another place, or to unlink its file.
LEMMA WorkerKeepsSaves ==
  ASSUME TypeOK, SavesInv, NEW c \in Copies, copy[c].at \in Working,
         NEW there \in Working \cup {"unlocked"}, Moves(c, there), UNCHANGED <<path, settings>>
  PROVE  SavesInv'
<1>1. /\ copy'[c].at = there /\ copy'[c].file = copy[c].file /\ copy'[c].knows = copy[c].knows
      /\ copy'[c].overlapped = copy[c].overlapped
      /\ \A d \in Copies \ {c} : copy'[d] = copy[d]
  BY DEF Moves
<1>2. KnowsEverySave(c)'
  BY <1>1 DEF SavesInv, KnowsEverySave, Working, Starts, Unopened
<1>3. ASSUME NEW d \in Copies \ {c} PROVE KnowsEverySave(d)'
  <2>1. ~copy[d].overlapped => copy[d].at \notin Starts \cup Working
    BY NotAlone DEF Working
  <2>2. QED
    BY <1>1, <2>1 DEF KnowsEverySave, Working, Starts, Unopened
<1>4. QED
  BY <1>2, <1>3 DEF SavesInv

\* A copy that is gone is in nobody's way.
LEMMA GoneKeepsSaves ==
  ASSUME TypeOK, SavesInv, NEW c \in Copies, Moves(c, "gone"), UNCHANGED <<path, settings>>
  PROVE  SavesInv'
<1>1. copy'[c].at = "gone" /\ \A d \in Copies \ {c} : copy'[d] = copy[d]
  BY DEF Moves
<1>2. KnowsEverySave(c)'
  BY <1>1 DEF KnowsEverySave, Working, Starts, Unopened
<1>3. ASSUME NEW d \in Copies \ {c} PROVE KnowsEverySave(d)'
  BY <1>1 DEF SavesInv, KnowsEverySave, Working, Starts, Unopened
<1>4. QED
  BY <1>2, <1>3 DEF SavesInv

LEMMA RemoveKeepsSaves == ASSUME TypeOK, SavesInv, NEW c \in Copies, Remove(c) PROVE SavesInv'
<1>1. /\ copy[c].at = "unlocked" /\ copy'[c].at = "gone"
      /\ \A d \in Copies \ {c} : copy'[d] = copy[d]
  BY GoingOn DEF Moves
<1>2. KnowsEverySave(c)'
  BY <1>1 DEF KnowsEverySave, Working, Starts, Unopened
<1>3. ASSUME NEW d \in Copies \ {c} PROVE KnowsEverySave(d)'
  <2>1. ~copy[d].overlapped => copy[d].at \notin Starts \cup Working
    BY <1>1, NotAlone
  <2>2. QED
    BY <1>1, <2>1 DEF KnowsEverySave, Working, Starts, Unopened
<1>4. QED
  BY <1>2, <1>3 DEF SavesInv

LEMMA SavesStay == ASSUME TypeOK, LockInv, SavesInv, [Next]_<<world, vars>> PROVE SavesInv'
<1> USE DEF lockVars, fileVars
<1>same. ASSUME UNCHANGED <<copy, path, settings>> PROVE SavesInv'
  BY <1>same DEF SavesInv, KnowsEverySave
<1>1. CASE UNCHANGED vars
  BY <1>1, <1>same DEF vars
<1>2. ASSUME NEW c \in Copies, Downloading(c) PROVE SavesInv'
  BY <1>2, <1>same, DownloadsLeave
<1>3. ASSUME NEW c \in Copies, CreateTemp(c) \/ WriteTemp(c) PROVE SavesInv'
  BY <1>3, <1>same DEF CreateTemp, WriteTemp
<1>4. ASSUME NEW c \in Copies, Load(c) \/ FirstRun(c) \/ Saved(c) PROVE SavesInv'
  BY <1>4, LoadKeepsSaves, FirstRunKeepsSaves, SavedKeepsSaves
<1>5. ASSUME NEW c \in Copies, Open(c) \/ OpenFails(c) \/ Flock(c) PROVE SavesInv'
  BY <1>5, OpenKeepsSaves, OpenFailsKeepsSaves, FlockKeepsSaves
<1>6. ASSUME NEW c \in Copies, AlreadyRunning(c) \/ Crash(c) \/ Leave(c) PROVE SavesInv'
  <2>1. Moves(c, "gone")
    BY <1>6, GoingOn
  <2>2. UNCHANGED <<path, settings>>
    BY <1>6 DEF AlreadyRunning, Crash, Leave
  <2>3. QED
    BY <2>1, <2>2, GoneKeepsSaves
<1>7. ASSUME NEW c \in Copies, Quit(c) \/ Unlock(c) \/ Save(c) PROVE SavesInv'
  <2>1. PICK there \in Working \cup {"unlocked"} : copy[c].at \in Working /\ Moves(c, there)
    BY <1>7, GoingOn DEF Working
  <2>2. UNCHANGED <<path, settings>>
    BY <1>7 DEF Quit, Unlock, Save
  <2>3. QED
    BY <2>1, <2>2, WorkerKeepsSaves
<1>8. ASSUME NEW c \in Copies, NotSaved(c) PROVE SavesInv'
  <2>1. UNCHANGED <<path, settings>>
    BY <1>8 DEF NotSaved
  <2>2. Moves(c, "gone") \/ (copy[c].at = "saving" /\ Moves(c, "running"))
    BY <1>8, GoingOn
  <2>3. QED
    BY <2>1, <2>2, GoneKeepsSaves, WorkerKeepsSaves DEF Working
<1>9. ASSUME NEW c \in Copies, Remove(c) PROVE SavesInv'
  BY <1>9, RemoveKeepsSaves
<1>10. QED
  BY <1>1, <1>2, <1>3, <1>4, <1>5, <1>6, <1>7, <1>8, <1>9
  DEF Next, Act, Launching, Ending, Storing

-----------------------------------------------------------------------------
(* The theorems.                                                            *)

LEMMA InitIInv == ASSUME Init PROVE IInv
<1>1. TypeOK
  BY InitTypes
<1>2. \A c \in Copies : copy[c].at = "none" /\ holder[c] = Nothing /\ install[c] = "no"
  BY DEF Init
<1>3. LockInv
  BY <1>2 DEF LockInv, OpenedFiles, WorkersHold, HoldersWork, NamedFile, NoneIsUnlinked,
              LocklessAreAlone, Lockless, Works, Working, Unopened
<1>4. FilesAreWhole
  BY DEF Init, FilesAreWhole
<1>5. ModelInv
  BY <1>2, <1>4 DEF ModelInv, InstallersWork, StagedIsWhole, OldModelStands, Works
<1>6. SavesInv
  BY <1>2 DEF SavesInv, KnowsEverySave, Starts, Unopened, Working
<1>7. QED
  BY <1>1, <1>3, <1>5, <1>6 DEF IInv

(***************************************************************************)
(* The inductive invariant holds throughout.                               *)
(***************************************************************************)
THEOREM Invariance == Spec => []IInv
<1>1. Init => IInv
  BY InitIInv
<1>2. IInv /\ [Next]_<<world, vars>> => IInv'
  BY TypesStay, LockStays, ModelStays, SavesStay DEF IInv
<1>3. QED
  BY <1>1, <1>2, PTL DEF Spec

(***************************************************************************)
(* One copy has the lock, in any number of launches, crashes and quits, as *)
(* long as no lock was taken on a file that was being unlinked; a copy that *)
(* goes on without the lock has none.  singleton_unix.go: Acquire, Release; *)
(* main.go: main.                                                          *)
(***************************************************************************)
THEOREM OneCopyHasTheLock == Spec => []OneCopy
<1>1. IInv => OneCopy
  <2>1. SUFFICES ASSUME IInv, ~inherited, NEW c \in Copies, NEW d \in Copies,
                        HasLock(c), HasLock(d)
                 PROVE  c = d
    BY DEF OneCopy
  <2>2. PICK f \in Copies, g \in Copies : holder[f] = c /\ holder[g] = d
    BY <2>1 DEF HasLock
  <2>3. path = f /\ path = g
    BY <2>1, <2>2, CopiesAssumption DEF IInv, LockInv, NamedFile, Nothing
  <2>4. QED
    BY <2>2, <2>3
<1>2. QED
  BY <1>1, Invariance, PTL

(***************************************************************************)
(* The settings can be read, and of a model that is under its name, or     *)
(* alone under .replaced, nothing is missing: in any order of saves,       *)
(* downloads, failures and crashes between and within their calls.         *)
(* config.go: SaveTo; models/install.go: Install.                          *)
(***************************************************************************)
THEOREM NothingIsTorn == Spec => []FilesAreWhole
<1>1. IInv => FilesAreWhole
  BY DEF IInv, ModelInv
<1>2. QED
  BY <1>1, Invariance, PTL

(***************************************************************************)
(* A model once installed stays on the disk, until two copies worked at    *)
(* once: with an inherited lock, or one of them without the lock.          *)
(* models/install.go: Install; main.go: main.                              *)
(***************************************************************************)
THEOREM InstalledModelStays == Spec => ModelIsKept
<1> DEFINE Stays == Exclusive /\ Kept => Kept'
<1>1. ASSUME IInv, [Next]_<<world, vars>>, Exclusive, Kept PROVE Kept'
  <2>1. CASE UNCHANGED <<model, replaced>>
    BY <1>1, <2>1 DEF Kept
  <2>2. ASSUME NEW c \in Copies, Downloading(c) PROVE Kept'
    BY <1>1, <2>2, Installation DEF IInv
  <2>3. ASSUME NEW c \in Copies, Launching(c) \/ Ending(c) \/ Storing(c)
        PROVE  UNCHANGED <<model, replaced>>
    BY <1>1, <2>3, ClientSteps DEF IInv
  <2>4. QED
    BY <1>1, <2>1, <2>2, <2>3 DEF Next, Act, vars, modelVars
<1>2. IInv /\ [Next]_<<world, vars>> => Stays
  BY <1>1
<1>3. QED
  BY <1>2, Invariance, PTL DEF Spec, ModelIsKept

(***************************************************************************)
(* A save is lost only to a copy that had another beside it while it       *)
(* started, or beside which one of the two ran without the lock.           *)
(* main.go: loadSettings before Acquire, main; config.go: SaveTo.          *)
(***************************************************************************)
THEOREM SavesAreKept == Spec => NoSaveIsLost
<1> DEFINE Stays == \/ settings.has \subseteq settings'.has
                    \/ \E c \in Copies : Saving(c) /\ copy[c].overlapped
<1>1. ASSUME IInv, [Next]_<<world, vars>> PROVE Stays
  <2>1. CASE settings' = settings
    BY <2>1
  <2>2. ASSUME NEW c \in Copies, Saved(c) PROVE Stays
    <3>1. Saving(c) /\ copy[c].at \in {"first", "saving"}
      BY <2>2 DEF Saved, Saving, At
    <3>2. copy[c].overlapped \/ settings.has \subseteq copy[c].knows
      BY <1>1, <3>1 DEF IInv, SavesInv, KnowsEverySave, Working, Starts, Unopened
    <3>3. copy[c].knows \subseteq settings'.has
      BY <1>1, <2>2, Storage DEF IInv
    <3>4. QED
      BY <3>1, <3>2, <3>3
  <2>3. settings' # settings => \E c \in Copies : Saved(c)
    <3>1. ASSUME NEW c \in Copies, Launching(c) \/ Ending(c) \/ Storing(c), ~Saved(c)
          PROVE  settings' = settings
      BY <3>1 DEF Launching, Ending, Storing, Load, FirstRun, Open, OpenFails, Flock,
         AlreadyRunning, Quit, Unlock, Leave, Remove, Crash, Save, CreateTemp, WriteTemp, NotSaved,
         fileVars
    <3>2. ASSUME NEW c \in Copies, Downloading(c) PROVE settings' = settings
      BY <1>1, <3>2, DownloadsLeave DEF IInv, fileVars
    <3>3. QED
      BY <1>1, <3>1, <3>2 DEF Next, Act, vars, fileVars
  <2>4. QED
    BY <2>1, <2>2, <2>3
<1>2. QED
  BY <1>1, Invariance, PTL DEF Spec, NoSaveIsLost
===============================================================================
