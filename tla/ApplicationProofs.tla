-------------------------- MODULE ApplicationProofs --------------------------
(***************************************************************************)
(* That the shortcut is the saved one and the microphone test keeps its    *)
(* microphone, for any bindings, servers, faults and number of saves.      *)
(***************************************************************************)
EXTENDS Application, TLAPS

States == {"Idle", "Connecting", "Listening", "Finalizing", "Error"}
Shown == [show : States]
Note == [problem : BOOLEAN]
Job == [binding : Hotkeys, at : {"register", "tell"}, worked : BOOLEAN]
Window == [at : {"idle", "updating", "unregistering", "closing", "gone"},
           previous : Config, failed : BOOLEAN]

(* Types of the state: app.go, controller.go, hotkey.go.                    *)
TypeOK ==
    /\ setup \in Setups
    /\ settings \in Config
    /\ window \in Window
    /\ jobs \in Seq(Job)
    /\ shortcut \in Hotkeys \cup {None}
    /\ problem \in BOOLEAN
    /\ state \in States
    /\ unpublished \subseteq States
    /\ misled \in BOOLEAN
    /\ channel \in Seq(States) /\ Len(channel) <= ChannelSize
    /\ queue \in Seq(Shown \cup Note)
    /\ shown \in States
    /\ microphone \in {None, "session", "test"}
    /\ testing \in BOOLEAN
    /\ linked \in BOOLEAN
    /\ saves \in Nat
    /\ presses \in Nat

\* The window has not begun to quit.
Working == window.at \in {"idle", "updating"}
\* A save of another shortcut is under way and has not registered it yet.
Owed == window.at = "updating" /\ HotkeyChanged

\* One registration at a time, for the shortcut in the settings.
JobsInv ==
    /\ Free => window.previous = settings
    /\ Len(jobs) <= 1
    /\ Owed => jobs = <<>>
    /\ Working => \A i \in DOMAIN jobs :
        /\ jobs[i].binding = settings.hotkey
        /\ jobs[i].at = "tell" /\ jobs[i].worked => shortcut = settings.hotkey

IsNote(r) == "show" \notin DOMAIN r
NoNote(q) == \A i \in DOMAIN q : ~IsNote(q[i])
\* The last note in q is of a problem.
EndsInProblem(q) == \E i \in DOMAIN q :
    /\ IsNote(q[i]) /\ q[i].problem
    /\ \A k \in DOMAIN q : k > i => ~IsNote(q[k])
\* What the main tab will say of the shortcut once the queue has run.
WillSay(p, q) == EndsInProblem(q) \/ (p /\ NoNote(q))

ShortcutInv ==
    Working /\ jobs = <<>> /\ ~Owed =>
        shortcut = settings.hotkey \/ WillSay(problem, queue) \/ window.failed

\* The session and the test never hold the microphone together.
MicrophoneInv ==
    Working => /\ testing => microphone = "test"
               /\ state \in {"Listening", "Finalizing"} => microphone = "session"

IInv == TypeOK /\ JobsInv /\ ShortcutInv /\ MicrophoneInv

-----------------------------------------------------------------------------
(* The operators.                                                           *)

LEMMA Publishing == ASSUME TypeOK, NEW s \in States, Publish(s)
                    PROVE  channel' \in Seq(States) /\ Len(channel') <= ChannelSize
BY SizesAssumption DEF Publish, TypeOK

\* What a step of the session does to what it has to tell.
LEMMA Becoming == ASSUME TypeOK, NEW s \in States, Become(s)
                  PROVE  /\ state' \in States /\ unpublished' \subseteq States
                         /\ misled' \in BOOLEAN
                         /\ channel' \in Seq(States) /\ Len(channel') <= ChannelSize
BY DEF Become, TypeOK

LEMMA WindowFields == ASSUME NEW w \in Window
  PROVE  \A at \in {"idle", "updating", "unregistering", "closing", "gone"} :
            /\ [w EXCEPT !.at = at] \in Window
            /\ [w EXCEPT !.at = at].at = at
            /\ [w EXCEPT !.at = at].previous = w.previous
            /\ [w EXCEPT !.at = at].failed = w.failed
BY DEF Window

\* registerHotkey's goroutine ends, and it was the only one.
LEMMA TheOnlyJob == ASSUME NEW q \in Seq(Job), Len(q) <= 1, NEW i \in DOMAIN q
                    PROVE  i = 1 /\ Len(q) = 1 /\ RemoveAt(q, i) = <<>>
<1>1. i = 1 /\ Len(q) = 1
  <2>1. Len(q) \in Nat /\ i \in 1 .. Len(q)
    OBVIOUS
  <2>2. \A n \in Nat : n <= 1 => \A j \in 1 .. n : j = 1 /\ n = 1
    OBVIOUS
  <2>3. QED
    BY <2>1, <2>2
<1>2. SubSeq(q, 1, 0) = <<>> /\ SubSeq(q, 2, 1) = <<>>
  OBVIOUS
<1>3. RemoveAt(q, 1) = SubSeq(q, 1, 0) \o SubSeq(q, 2, 1)
  BY <1>1 DEF RemoveAt
<1>4. QED
  BY <1>1, <1>2, <1>3

LEMMA NotesAreNoted ==
  /\ \A r \in Shown : ~IsNote(r) /\ r.show \in States
  /\ \A r \in Note : IsNote(r) /\ r.problem \in BOOLEAN
BY DEF Shown, Note, IsNote

\* A state that is queued hides no note, and a note of a problem hides every other.
LEMMA WhatIsAdded == ASSUME NEW q \in Seq(Shown \cup Note), NEW p \in BOOLEAN
  PROVE  /\ \A r \in Shown : WillSay(p, q) => WillSay(p, Append(q, r))
         /\ \A r \in Note : r.problem => WillSay(p, Append(q, r))
<1>1. ASSUME NEW r \in Shown, WillSay(p, q) PROVE WillSay(p, Append(q, r))
  <2> DEFINE longer == Append(q, r)
  <2>1. DOMAIN longer = 1 .. Len(q) + 1 /\ \A i \in DOMAIN q : longer[i] = q[i]
    OBVIOUS
  <2>2. ~IsNote(longer[Len(q) + 1])
    BY NotesAreNoted
  <2>3. DOMAIN q = 1 .. Len(q) /\ Len(q) \in Nat
    OBVIOUS
  <2> HIDE DEF longer
  <2>4. NoNote(q) => NoNote(longer)
    BY <2>1, <2>2, <2>3 DEF NoNote
  <2>5. EndsInProblem(q) => EndsInProblem(longer)
    BY <2>1, <2>2, <2>3 DEF EndsInProblem
  <2>6. WillSay(p, longer)
    BY <1>1, <2>4, <2>5, Zenon DEF WillSay
  <2>7. QED
    BY <2>6 DEF longer
<1>2. ASSUME NEW r \in Note, r.problem PROVE WillSay(p, Append(q, r))
  <2> DEFINE longer == Append(q, r)
  <2>1. DOMAIN longer = 1 .. Len(q) + 1 /\ longer[Len(q) + 1] = r /\ Len(q) \in Nat
    OBVIOUS
  <2>2. IsNote(r)
    BY NotesAreNoted
  <2> HIDE DEF longer
  <2>3. EndsInProblem(longer)
    BY <1>2, <2>1, <2>2 DEF EndsInProblem
  <2>4. QED
    BY <2>3 DEF longer, WillSay
<1>3. QED
  BY <1>1, <1>2

\* What the main tab will say stays, as the first function runs.
LEMMA WhatIsRun == ASSUME NEW q \in Seq(Shown \cup Note), q # <<>>, NEW p \in BOOLEAN,
                          WillSay(p, q)
  PROVE  WillSay(IF IsNote(Head(q)) THEN Head(q).problem ELSE p, Tail(q))
<1> DEFINE rest == Tail(q)
           said == IF IsNote(Head(q)) THEN Head(q).problem ELSE p
<1>1. /\ Len(q) \in Nat /\ Len(q) >= 1 /\ Head(q) = q[1]
      /\ DOMAIN q = 1 .. Len(q) /\ DOMAIN rest = 1 .. Len(q) - 1
      /\ \A i \in 1 .. Len(q) - 1 : rest[i] = q[i + 1]
  OBVIOUS
<1> HIDE DEF rest
<1>2. ASSUME NEW i \in DOMAIN q, IsNote(q[i]), q[i].problem,
             \A k \in DOMAIN q : k > i => ~IsNote(q[k])
      PROVE  WillSay(said, rest)
  <2>1. CASE i = 1
    <3>1. NoNote(rest)
      <4>1. ASSUME NEW k \in DOMAIN rest PROVE ~IsNote(rest[k])
        <5>1. k + 1 \in DOMAIN q /\ k + 1 > i /\ rest[k] = q[k + 1]
          BY <1>1, <2>1
        <5>2. QED
          BY <1>2, <5>1
      <4>2. QED
        BY <4>1 DEF NoNote
    <3>2. said
      BY <1>1, <1>2, <2>1
    <3>3. QED
      BY <3>1, <3>2 DEF WillSay
  <2>2. CASE i # 1
    <3>1. i - 1 \in DOMAIN rest /\ rest[i - 1] = q[i]
      <4>1. i - 1 \in 1 .. Len(q) - 1 /\ (i - 1) + 1 = i
        BY <1>1, <2>2
      <4>2. QED
        BY <1>1, <4>1
    <3>2. ASSUME NEW k \in DOMAIN rest, k > i - 1 PROVE ~IsNote(rest[k])
      <4>1. k + 1 \in DOMAIN q /\ k + 1 > i /\ rest[k] = q[k + 1]
        BY <1>1, <3>2
      <4>2. QED
        BY <1>2, <4>1
    <3>3. EndsInProblem(rest)
      BY <1>2, <3>1, <3>2 DEF EndsInProblem
    <3>4. QED
      BY <3>3 DEF WillSay
  <2>3. QED
    BY <2>1, <2>2
<1>3. ASSUME p, NoNote(q) PROVE WillSay(said, rest)
  <2>1. ~IsNote(Head(q)) /\ p
    BY <1>1, <1>3 DEF NoNote
  <2>2. ASSUME NEW k \in DOMAIN rest PROVE ~IsNote(rest[k])
    <3>1. k + 1 \in DOMAIN q /\ rest[k] = q[k + 1]
      BY <1>1
    <3>2. QED
      BY <1>3, <3>1 DEF NoNote
  <2>3. NoNote(rest)
    BY <2>2 DEF NoNote
  <2>4. QED
    BY <2>1, <2>3, Zenon DEF WillSay
<1>4. ASSUME EndsInProblem(q) PROVE WillSay(said, rest)
  BY <1>2, <1>4, Zenon DEF EndsInProblem
<1>5. WillSay(said, rest)
  BY <1>3, <1>4, Zenon DEF WillSay
<1>6. QED
  BY <1>5 DEF rest

-----------------------------------------------------------------------------
(* The invariant.                                                           *)

LEMMA InitHolds == ASSUME Init PROVE IInv
<1> DEFINE job == [binding |-> settings.hotkey, at |-> "register", worked |-> FALSE]
<1>1. settings \in Config /\ settings.hotkey \in Hotkeys
  BY DEF Init, Config
<1>2. job \in Job
  BY <1>1 DEF Job
<1>3. jobs = <<job>>
  BY DEF Init
<1>4. TypeOK
  <2>1. window \in Window
    BY <1>1 DEF Init, Window
  <2>2. jobs \in Seq(Job)
    BY <1>2, <1>3
  <2>3. channel \in Seq(States) /\ Len(channel) <= ChannelSize /\ queue \in Seq(Shown \cup Note)
    BY SizesAssumption DEF Init
  <2>4. saves \in Nat /\ presses \in Nat
    BY DEF Init
  <2>5. QED
    BY <1>1, <2>1, <2>2, <2>3, <2>4 DEF Init, TypeOK, States
<1>5. JobsInv
  <2>1. window.at = "idle" /\ window.previous = settings
    BY DEF Init
  <2>2. DOMAIN jobs = {1} /\ jobs[1] = job /\ Len(jobs) = 1
    BY <1>3
  <2>3. QED
    BY <2>1, <2>2 DEF JobsInv, Owed
<1>6. ShortcutInv /\ MicrophoneInv
  BY <1>3 DEF ShortcutInv, MicrophoneInv, Init
<1>7. QED
  BY <1>4, <1>5, <1>6 DEF IInv

LEMMA TypesStay == ASSUME TypeOK, JobsInv, setup' = setup, [Act]_vars PROVE TypeOK'
<1> USE DEF formVars, keyVars, sessionVars, updateVars
<1>1. CASE Press
  <2>1. /\ state' \in States /\ unpublished' \subseteq States /\ misled' \in BOOLEAN
        /\ channel' \in Seq(States) /\ Len(channel') <= ChannelSize
    <3>1. CASE UNCHANGED <<state, updateVars>>
      BY <3>1 DEF updateVars, TypeOK
    <3>2. CASE \E s \in {"Connecting", "Finalizing"} : Become(s)
      BY <3>2, Becoming DEF States
    <3>3. QED
      BY <1>1, <3>1, <3>2 DEF Press
  <2>2. presses' \in Nat
    BY <1>1 DEF Press, TypeOK
  <2>3. QED
    BY <1>1, <2>1, <2>2 DEF Press, TypeOK
<1>2. CASE DialFails
  <2>1. /\ state' \in States /\ unpublished' \subseteq States /\ misled' \in BOOLEAN
        /\ channel' \in Seq(States) /\ Len(channel') <= ChannelSize
    BY <1>2, Becoming DEF DialFails, States
  <2>2. QED
    BY <1>2, <2>1 DEF DialFails, TypeOK, OpenMicrophone, StopMicrophone
<1>3. CASE Connects
  <2>1. /\ state' \in States /\ unpublished' \subseteq States /\ misled' \in BOOLEAN
        /\ channel' \in Seq(States) /\ Len(channel') <= ChannelSize
    BY <1>3, Becoming DEF Connects, States
  <2>2. QED
    BY <1>3, <2>1 DEF Connects, TypeOK, OpenMicrophone, StopMicrophone
<1>4. CASE Finalizes
  <2>1. /\ state' \in States /\ unpublished' \subseteq States /\ misled' \in BOOLEAN
        /\ channel' \in Seq(States) /\ Len(channel') <= ChannelSize
    BY <1>4, Becoming DEF Finalizes, States
  <2>2. QED
    BY <1>4, <2>1 DEF Finalizes, TypeOK, OpenMicrophone, StopMicrophone
<1>5. CASE ConnectionDrops
  <2>1. unpublished' \subseteq States
    BY <1>5 DEF ConnectionDrops, States, TypeOK
  <2>2. QED
    BY <1>5, <2>1 DEF ConnectionDrops, TypeOK
<1>6. CASE ForwardUpdate
  <2> DEFINE next == [show |-> Head(channel)]
  <2>1. next \in Shown
    BY <1>6 DEF ForwardUpdate, TypeOK, Shown
  <2>2. channel' \in Seq(States) /\ Len(channel') <= ChannelSize
    BY <1>6, SizesAssumption DEF ForwardUpdate, TypeOK
  <2>3. queue' \in Seq(Shown \cup Note)
    BY <1>6, <2>1 DEF ForwardUpdate, TypeOK
  <2>4. QED
    BY <1>6, <2>2, <2>3 DEF ForwardUpdate, TypeOK
<1>7. ASSUME NEW i \in DOMAIN jobs, RunJob(i) PROVE TypeOK'
  <2>1. PICK works \in BOOLEAN :
          /\ Register(jobs[i].binding, works)
          /\ jobs' = [jobs EXCEPT ![i].at = "tell", ![i].worked = works]
    BY <1>7 DEF RunJob
  <2>2. jobs[i] \in Job
    BY DEF TypeOK
  <2> DEFINE told == [jobs[i] EXCEPT !.at = "tell", !.worked = works]
  <2>3. told \in Job
    BY <2>2 DEF Job
  <2>4. jobs' = [jobs EXCEPT ![i] = told]
    BY <2>1
  <2> HIDE DEF told
  <2>5. jobs' \in Seq(Job)
    BY <2>3, <2>4 DEF TypeOK
  <2>6. shortcut' \in Hotkeys \cup {None}
    BY <2>1, <2>2 DEF Register, Job, TypeOK
  <2>7. QED
    BY <1>7, <2>5, <2>6 DEF RunJob, TypeOK
<1>8. ASSUME NEW i \in DOMAIN jobs, EndJob(i) PROVE TypeOK'
  <2>1. jobs' = <<>>
    BY <1>8, TheOnlyJob DEF EndJob, JobsInv, TypeOK
  <2>2. jobs[i].worked \in BOOLEAN
    <3>1. jobs[i] \in Job
      BY DEF TypeOK
    <3>2. QED
      BY <3>1 DEF Job
  <2> DEFINE note == [problem |-> ~jobs[i].worked]
  <2>3. note \in Note
    BY <2>2 DEF Note
  <2>4. queue' \in Seq(Shown \cup Note)
    BY <1>8, <2>3 DEF EndJob, SetShortcutProblem, TypeOK
  <2>5. QED
    BY <1>8, <2>1, <2>4 DEF EndJob, TypeOK
<1>9. CASE RunQueued
  <2>1. Head(queue) \in Shown \cup Note /\ queue' \in Seq(Shown \cup Note)
    BY <1>9 DEF RunQueued, TypeOK
  <2>2. shown' \in States /\ problem' \in BOOLEAN
    BY <1>9, <2>1, NotesAreNoted DEF RunQueued, TypeOK, IsNote
  <2>3. QED
    BY <1>9, <2>1, <2>2 DEF RunQueued, TypeOK
<1>10. CASE ServersUpdated
  <2>1. window.failed \in BOOLEAN
    BY DEF TypeOK, Window
  <2>2. window' \in Window
    BY <1>10, <2>1 DEF ServersUpdated, TypeOK, Window
  <2> DEFINE job == [binding |-> settings.hotkey, at |-> "register", worked |-> FALSE]
  <2>3. job \in Job
    BY DEF TypeOK, Config, Job
  <2>4. jobs' \in Seq(Job)
    BY <1>10, <2>3 DEF ServersUpdated, TypeOK
  <2>5. QED
    BY <1>10, <2>2, <2>4 DEF ServersUpdated, TypeOK
<1>11. CASE ServersNotUpdated
  <2>1. window.failed \in BOOLEAN
    BY DEF TypeOK, Window
  <2>2. window' \in Window
    BY <1>11, <2>1 DEF ServersNotUpdated, TypeOK, Window
  <2>3. QED
    BY <1>11, <2>1, <2>2 DEF ServersNotUpdated, TypeOK
<1>12. CASE Unregister
  <2>1. window' \in Window
    BY <1>12, WindowFields DEF Unregister, TypeOK
  <2>2. QED
    BY <1>12, <2>1 DEF Unregister, TypeOK
<1>13. CASE Close
  <2>1. window' \in Window
    BY <1>13, WindowFields DEF Close, TypeOK
  <2>2. QED
    BY <1>13, <2>1 DEF Close, TypeOK, StopMicrophone
<1>14. ASSUME NEW h \in Hotkeys, NEW s \in Servers, Save(h, s) PROVE TypeOK'
  <2> DEFINE c == [settings EXCEPT !.hotkey = h, !.servers = s]
  <2>1. c \in Config
    BY DEF TypeOK, Config
  <2>2. Apply(c)
    BY <1>14 DEF Save
  <2> HIDE DEF c
  <2>3. settings' \in Config /\ window' \in Window
    BY <2>1, <2>2, WindowFields DEF Apply, TypeOK
  <2>4. saves' \in Nat
    BY <2>2 DEF Apply, TypeOK
  <2>5. QED
    BY <2>2, <2>3, <2>4 DEF Apply, TypeOK
<1>15. CASE LanguageChanges
  <2>1. Apply(settings)
    BY <1>15 DEF LanguageChanges
  <2>2. settings' \in Config /\ window' \in Window
    BY <2>1, WindowFields DEF Apply, TypeOK
  <2>3. saves' \in Nat
    BY <2>1 DEF Apply, TypeOK
  <2>4. QED
    BY <2>1, <2>2, <2>3 DEF Apply, TypeOK
<1>16. CASE StartTest
  BY <1>16 DEF StartTest, OpenMicrophone, TypeOK
<1>17. CASE StopTest
  BY <1>17 DEF StopTest, StopMicrophone, TypeOK
<1>18. CASE Quit
  <2>1. window' \in Window
    BY <1>18, WindowFields DEF Quit, TypeOK
  <2>2. /\ state' \in States /\ unpublished' \subseteq States /\ misled' \in BOOLEAN
        /\ channel' \in Seq(States) /\ Len(channel') <= ChannelSize
        /\ microphone' \in {None, "session", "test"}
    <3>1. CASE UNCHANGED <<state, updateVars, microphone>>
      BY <3>1 DEF updateVars, TypeOK
    <3>2. CASE Become("Idle") /\ StopMicrophone
      BY <3>2, Becoming DEF StopMicrophone, States
    <3>3. QED
      BY <1>18, <3>1, <3>2 DEF Quit
  <2>3. QED
    BY <1>18, <2>1, <2>2 DEF Quit, TypeOK
<1>19. CASE UNCHANGED vars
  BY <1>19 DEF vars, TypeOK
<1>21. CASE ProgressLine
  <2>1. channel' \in Seq(States) /\ Len(channel') <= ChannelSize /\ misled' \in BOOLEAN
    BY <1>21, Publishing DEF ProgressLine, States, TypeOK
  <2>2. QED
    BY <1>21, <2>1 DEF ProgressLine, TypeOK
<1>22. CASE ReportsError
  BY <1>22 DEF ReportsError, TypeOK
<1>23. ASSUME NEW s \in unpublished, PublishState(s) PROVE TypeOK'
  <2>1. s \in States
    BY DEF TypeOK
  <2>2. channel' \in Seq(States) /\ Len(channel') <= ChannelSize
    BY <1>23, <2>1, Publishing DEF PublishState
  <2>3. misled' \in BOOLEAN
    BY <1>23 DEF PublishState, Misleads, TypeOK
  <2>4. QED
    BY <1>23, <2>2, <2>3 DEF PublishState, TypeOK
<1>20. QED
  BY <1>1, <1>2, <1>3, <1>4, <1>5, <1>6, <1>7, <1>8, <1>9, <1>10, <1>11, <1>12, <1>13,
     <1>14, <1>15, <1>16, <1>17, <1>18, <1>19, <1>21, <1>22, <1>23
     DEF Act, SessionStep, PublishStep, JobStep, WindowStep

LEMMA JobsStay == ASSUME TypeOK, JobsInv, [Act]_vars PROVE JobsInv'
<1> USE DEF Working, Owed, HotkeyChanged, Free
<1>kept. ASSUME window' = window, settings' = settings, jobs' = jobs, shortcut' = shortcut
         PROVE  JobsInv'
  BY <1>kept DEF JobsInv
<1>left. ASSUME window'.at \notin {"idle", "updating"}, jobs' = jobs PROVE JobsInv'
  BY <1>left DEF JobsInv
\* ApplySettings begins, from the settings in force.
<1>apply. ASSUME NEW c \in Config, window.at = "idle", Apply(c),
                 jobs = <<>> \/ c = settings
          PROVE  JobsInv'
  <2>1. window.previous = settings /\ jobs' = jobs /\ shortcut' = shortcut
    BY <1>apply DEF JobsInv, Apply, keyVars
  <2>2. CASE settings' = settings /\ window' = window
    BY <1>kept, <2>1, <2>2
  <2>3. CASE settings' = c /\ window' = [window EXCEPT !.at = "updating"]
    <3>1. window'.at = "updating" /\ window'.previous = settings
      BY <2>1, <2>3, WindowFields DEF TypeOK
    <3>2. c = settings \/ jobs' = <<>>
      BY <1>apply, <2>1
    <3>3. CASE jobs' = <<>>
      BY <3>1, <3>3 DEF JobsInv
    <3>4. CASE c = settings
      BY <1>apply, <2>1, <2>3, <3>1, <3>4 DEF JobsInv
    <3>5. QED
      BY <3>2, <3>3, <3>4
  <2>4. QED
    BY <1>apply, <2>2, <2>3 DEF Apply
<1>1. CASE Press
  BY <1>1, <1>kept DEF Press, formVars, keyVars, sessionVars
<1>2. CASE DialFails
  BY <1>2, <1>kept DEF DialFails, formVars, keyVars, sessionVars
<1>3. CASE Connects
  BY <1>3, <1>kept DEF Connects, formVars, keyVars, sessionVars
<1>4. CASE Finalizes
  BY <1>4, <1>kept DEF Finalizes, formVars, keyVars, sessionVars
<1>5. CASE ConnectionDrops
  BY <1>5, <1>kept DEF ConnectionDrops, formVars, keyVars, sessionVars
<1>6. CASE ForwardUpdate
  BY <1>6, <1>kept DEF ForwardUpdate, formVars, keyVars, sessionVars
<1>7. ASSUME NEW i \in DOMAIN jobs, RunJob(i) PROVE JobsInv'
  <2>1. PICK works \in BOOLEAN :
          /\ works => jobs[i].binding \notin Bare
          /\ Register(jobs[i].binding, works)
          /\ jobs' = [jobs EXCEPT ![i].at = "tell", ![i].worked = works]
    BY <1>7 DEF RunJob
  <2>2. window' = window /\ settings' = settings
    BY <1>7 DEF RunJob, formVars
  <2>3. i = 1 /\ Len(jobs) = 1 /\ jobs[i] \in Job
    BY TheOnlyJob DEF JobsInv, TypeOK
  <2>4. DOMAIN jobs' = {1} /\ Len(jobs') = 1
    BY <2>1, <2>3 DEF TypeOK
  <2>5. jobs'[1].binding = jobs[1].binding /\ jobs'[1].worked = works
    BY <2>1, <2>3 DEF TypeOK, Job
  <2>6. works => shortcut' = jobs[1].binding
    BY <2>1, <2>3 DEF Register
  <2>7. jobs # <<>>
    BY <2>3
  <2>8. Working => jobs[1].binding = settings.hotkey
    BY <2>3 DEF JobsInv
  <2>9. (Free => window.previous = settings) /\ ~Owed
    BY <2>7 DEF JobsInv
  <2>10. QED
    BY <2>2, <2>4, <2>5, <2>6, <2>8, <2>9 DEF JobsInv
<1>8. ASSUME NEW i \in DOMAIN jobs, EndJob(i) PROVE JobsInv'
  <2>1. jobs' = <<>>
    BY <1>8, TheOnlyJob DEF EndJob, JobsInv, TypeOK
  <2>2. window' = window /\ settings' = settings
    BY <1>8 DEF EndJob, formVars
  <2>3. QED
    BY <2>1, <2>2 DEF JobsInv
<1>9. CASE RunQueued
  BY <1>9, <1>kept DEF RunQueued, formVars, keyVars, sessionVars
<1>10. CASE ServersUpdated
  <2>1. window'.at = "idle" /\ window'.previous = settings /\ settings' = settings
        /\ shortcut' = shortcut
    BY <1>10 DEF ServersUpdated
  <2>2. CASE HotkeyChanged
    <3> DEFINE job == [binding |-> settings.hotkey, at |-> "register", worked |-> FALSE]
    <3>1. jobs = <<>>
      BY <1>10, <2>2 DEF ServersUpdated, JobsInv
    <3>2. jobs' = Append(<<>>, job)
      BY <1>10, <2>2, <3>1 DEF ServersUpdated
    <3> HIDE DEF job
    <3>3. DOMAIN jobs' = {1} /\ Len(jobs') = 1 /\ jobs'[1] = job
      BY <3>2
    <3>4. job.binding = settings.hotkey /\ job.at = "register"
      BY DEF job
    <3>5. QED
      BY <2>1, <3>3, <3>4 DEF JobsInv
  <2>3. CASE ~HotkeyChanged
    BY <1>10, <2>1, <2>3 DEF ServersUpdated, JobsInv
  <2>4. QED
    BY <2>2, <2>3
<1>11. CASE ServersNotUpdated
  <2>1. window'.at = "idle" /\ window'.previous = settings
        /\ UNCHANGED <<settings, jobs, shortcut>>
    BY <1>11 DEF ServersNotUpdated, keyVars
  <2>2. QED
    BY <1>11, <2>1 DEF ServersNotUpdated, JobsInv
<1>12. CASE Unregister
  <2>1. window'.at \notin {"idle", "updating"}
    BY <1>12, WindowFields DEF Unregister, TypeOK
  <2>2. QED
    BY <1>12, <1>left, <2>1 DEF Unregister, keyVars
<1>13. CASE Close
  <2>1. window'.at \notin {"idle", "updating"}
    BY <1>13, WindowFields DEF Close, TypeOK
  <2>2. QED
    BY <1>13, <1>left, <2>1 DEF Close, keyVars
<1>14. ASSUME NEW h \in Hotkeys, NEW s \in Servers, Save(h, s) PROVE JobsInv'
  <2>1. [settings EXCEPT !.hotkey = h, !.servers = s] \in Config
    BY DEF TypeOK, Config
  <2>2. QED
    BY <1>14, <1>apply, <2>1 DEF Save
<1>15. CASE LanguageChanges
  BY <1>15, <1>apply DEF LanguageChanges, TypeOK
<1>16. CASE StartTest
  BY <1>16, <1>kept DEF StartTest, formVars, keyVars, sessionVars
<1>17. CASE StopTest
  BY <1>17, <1>kept DEF StopTest, formVars, keyVars, sessionVars
<1>18. CASE Quit
  <2>1. window'.at \notin {"idle", "updating"}
    BY <1>18, WindowFields DEF Quit, TypeOK
  <2>2. QED
    BY <1>18, <1>left, <2>1 DEF Quit, keyVars
<1>19. CASE UNCHANGED vars
  BY <1>19, <1>kept DEF vars
<1>21. CASE ProgressLine
  BY <1>21, <1>kept DEF ProgressLine, formVars, keyVars
<1>22. CASE ReportsError
  BY <1>22, <1>kept DEF ReportsError, formVars, keyVars
<1>23. ASSUME NEW s \in unpublished, PublishState(s) PROVE JobsInv'
  BY <1>23, <1>kept DEF PublishState, formVars, keyVars
<1>20. QED
  BY <1>1, <1>2, <1>3, <1>4, <1>5, <1>6, <1>7, <1>8, <1>9, <1>10, <1>11, <1>12, <1>13,
     <1>14, <1>15, <1>16, <1>17, <1>18, <1>19, <1>21, <1>22, <1>23
     DEF Act, SessionStep, PublishStep, JobStep, WindowStep

LEMMA ShortcutStays == ASSUME TypeOK, JobsInv, ShortcutInv, [Act]_vars PROVE ShortcutInv'
<1> USE DEF Working, Owed, HotkeyChanged, Free
<1>kept. ASSUME window' = window, settings' = settings, jobs' = jobs, shortcut' = shortcut,
                problem' = problem, queue' = queue
         PROVE  ShortcutInv'
  BY <1>kept DEF ShortcutInv
<1>left. ASSUME window'.at \notin {"idle", "updating"} PROVE ShortcutInv'
  BY <1>left DEF ShortcutInv
\* What the main tab will say stays.
<1>said. ASSUME window' = window, settings' = settings, jobs' = jobs, shortcut' = shortcut,
                WillSay(problem, queue) => WillSay(problem, queue)'
         PROVE  ShortcutInv'
  <2> HIDE DEF WillSay
  <2>1. QED
    BY <1>said DEF ShortcutInv
\* ApplySettings begins, and the shortcut is another one or the same.
<1>apply. ASSUME NEW c \in Config, window.at = "idle", Apply(c) PROVE ShortcutInv'
  <2>1. window.previous = settings
    BY <1>apply DEF JobsInv
  <2>2. UNCHANGED <<jobs, shortcut, problem, queue>>
    BY <1>apply DEF Apply, keyVars
  <2>3. CASE settings' = settings /\ window' = window
    BY <1>kept, <2>2, <2>3
  <2>4. CASE settings' = c /\ window' = [window EXCEPT !.at = "updating"]
    <3>1. window'.at = "updating" /\ window'.previous = settings
          /\ window'.failed = window.failed
      BY <2>1, <2>4, WindowFields DEF TypeOK
    <3>2. ~Owed' => settings'.hotkey = settings.hotkey
      BY <3>1
    <3>3. ~Owed /\ Working
      BY <1>apply
    <3>4. (WillSay(problem, queue))' = WillSay(problem, queue)
      BY <2>2
    <3> HIDE DEF WillSay, Owed
    <3>5. QED
      BY <2>2, <3>1, <3>2, <3>3, <3>4 DEF ShortcutInv
  <2>5. QED
    BY <1>apply, <2>3, <2>4 DEF Apply
<1>1. CASE Press
  BY <1>1, <1>kept DEF Press, formVars, keyVars, sessionVars
<1>2. CASE DialFails
  BY <1>2, <1>kept DEF DialFails, formVars, keyVars, sessionVars
<1>3. CASE Connects
  BY <1>3, <1>kept DEF Connects, formVars, keyVars, sessionVars
<1>4. CASE Finalizes
  BY <1>4, <1>kept DEF Finalizes, formVars, keyVars, sessionVars
<1>5. CASE ConnectionDrops
  BY <1>5, <1>kept DEF ConnectionDrops, formVars, keyVars, sessionVars
<1>6. CASE ForwardUpdate
  <2> DEFINE next == [show |-> Head(channel)]
  <2>1. next \in Shown /\ queue' = Append(queue, next) /\ problem' = problem
    BY <1>6 DEF ForwardUpdate, TypeOK, Shown, keyVars
  <2> HIDE DEF next
  <2>2. WillSay(problem, queue) => WillSay(problem', queue')
    BY <2>1, WhatIsAdded DEF TypeOK
  <2>3. QED
    BY <1>6, <1>said, <2>2 DEF ForwardUpdate, formVars, keyVars
<1>7. ASSUME NEW i \in DOMAIN jobs, RunJob(i) PROVE ShortcutInv'
  <2>1. jobs' # <<>>
    <3>1. DOMAIN jobs' = DOMAIN jobs /\ i \in DOMAIN jobs
      BY <1>7 DEF RunJob, TypeOK
    <3>2. QED
      BY <3>1
  <2>2. QED
    BY <2>1 DEF ShortcutInv
<1>8. ASSUME NEW i \in DOMAIN jobs, EndJob(i) PROVE ShortcutInv'
  <2> DEFINE note == [problem |-> ~jobs[i].worked]
  <2>1. jobs[i] \in Job /\ jobs[i].at = "tell" /\ i = 1
    BY <1>8, TheOnlyJob DEF EndJob, JobsInv, TypeOK
  <2>2. note \in Note /\ queue' = Append(queue, note)
    BY <1>8, <2>1 DEF EndJob, SetShortcutProblem, Note, Job
  <2>3. UNCHANGED <<window, settings, shortcut, problem>>
    BY <1>8 DEF EndJob, formVars
  <2>4. CASE jobs[i].worked
    BY <1>8, <2>1, <2>3, <2>4 DEF JobsInv, ShortcutInv
  <2>5. CASE ~jobs[i].worked
    <3>1. note.problem
      BY <2>5
    <3> HIDE DEF note
    <3>2. WillSay(problem', queue')
      BY <2>2, <2>3, <3>1, WhatIsAdded DEF TypeOK
    <3>3. QED
      BY <3>2 DEF ShortcutInv
  <2>6. QED
    BY <2>4, <2>5
<1>9. CASE RunQueued
  <2>1. queue # <<>> /\ queue' = Tail(queue)
    BY <1>9 DEF RunQueued
  <2>2. problem' = IF IsNote(Head(queue)) THEN Head(queue).problem ELSE problem
    BY <1>9 DEF RunQueued, IsNote
  <2>3. WillSay(problem, queue) =>
          WillSay(IF IsNote(Head(queue)) THEN Head(queue).problem ELSE problem, Tail(queue))
    BY <2>1, WhatIsRun DEF TypeOK
  <2>4. WillSay(problem, queue) => WillSay(problem', queue')
    BY <2>1, <2>2, <2>3
  <2>5. QED
    BY <1>9, <1>said, <2>4 DEF RunQueued, formVars
<1>10. CASE ServersUpdated
  <2>1. UNCHANGED <<settings, shortcut, problem, queue>>
    BY <1>10 DEF ServersUpdated
  <2>2. CASE HotkeyChanged
    <3> DEFINE job == [binding |-> settings.hotkey, at |-> "register", worked |-> FALSE]
    <3>1. jobs' = Append(jobs, job)
      BY <1>10, <2>2 DEF ServersUpdated
    <3> HIDE DEF job
    <3>2. Len(jobs') # 0
      BY <3>1 DEF TypeOK
    <3>3. QED
      BY <3>2 DEF ShortcutInv
  <2>3. CASE ~HotkeyChanged
    <3>1. jobs' = jobs /\ Working /\ ~Owed
      BY <1>10, <2>3 DEF ServersUpdated
    <3>2. window.failed => window'.failed
      BY <1>10, <2>3 DEF ServersUpdated
    <3>3. WillSay(problem, queue)' = WillSay(problem, queue)
      BY <2>1
    <3> HIDE DEF WillSay, Owed, Working, HotkeyChanged
    <3>4. QED
      BY <2>1, <3>1, <3>2, <3>3 DEF ShortcutInv
  <2>4. QED
    BY <2>2, <2>3
<1>11. CASE ServersNotUpdated
  <2>1. UNCHANGED <<settings, jobs, shortcut, problem, queue>>
    BY <1>11 DEF ServersNotUpdated, keyVars
  <2>2. CASE HotkeyChanged
    <3>1. window'.failed
      BY <1>11, <2>2 DEF ServersNotUpdated
    <3>2. QED
      BY <3>1 DEF ShortcutInv
  <2>3. CASE ~HotkeyChanged
    <3>1. Working /\ ~Owed
      BY <1>11, <2>3 DEF ServersNotUpdated
    <3>2. window.failed => window'.failed
      BY <1>11, <2>3 DEF ServersNotUpdated
    <3>3. WillSay(problem, queue)' = WillSay(problem, queue)
      BY <2>1
    <3> HIDE DEF WillSay, Owed, Working, HotkeyChanged
    <3>4. QED
      BY <2>1, <3>1, <3>2, <3>3 DEF ShortcutInv
  <2>4. QED
    BY <2>2, <2>3
<1>12. CASE Unregister
  <2>1. window'.at \notin {"idle", "updating"}
    BY <1>12, WindowFields DEF Unregister, TypeOK
  <2>2. QED
    BY <1>left, <2>1
<1>13. CASE Close
  <2>1. window'.at \notin {"idle", "updating"}
    BY <1>13, WindowFields DEF Close, TypeOK
  <2>2. QED
    BY <1>left, <2>1
<1>14. ASSUME NEW h \in Hotkeys, NEW s \in Servers, Save(h, s) PROVE ShortcutInv'
  <2>1. [settings EXCEPT !.hotkey = h, !.servers = s] \in Config
    BY DEF TypeOK, Config
  <2>2. QED
    BY <1>14, <1>apply, <2>1 DEF Save
<1>15. CASE LanguageChanges
  BY <1>15, <1>apply DEF LanguageChanges, TypeOK
<1>16. CASE StartTest
  BY <1>16, <1>kept DEF StartTest, formVars, keyVars, sessionVars
<1>17. CASE StopTest
  BY <1>17, <1>kept DEF StopTest, formVars, keyVars, sessionVars
<1>18. CASE Quit
  <2>1. window'.at \notin {"idle", "updating"}
    BY <1>18, WindowFields DEF Quit, TypeOK
  <2>2. QED
    BY <1>left, <2>1
<1>19. CASE UNCHANGED vars
  BY <1>19, <1>kept DEF vars
<1>21. CASE ProgressLine
  BY <1>21, <1>kept DEF ProgressLine, formVars, keyVars
<1>22. CASE ReportsError
  BY <1>22, <1>kept DEF ReportsError, formVars, keyVars
<1>23. ASSUME NEW s \in unpublished, PublishState(s) PROVE ShortcutInv'
  BY <1>23, <1>kept DEF PublishState, formVars, keyVars
<1>20. QED
  BY <1>1, <1>2, <1>3, <1>4, <1>5, <1>6, <1>7, <1>8, <1>9, <1>10, <1>11, <1>12, <1>13,
     <1>14, <1>15, <1>16, <1>17, <1>18, <1>19, <1>21, <1>22, <1>23
     DEF Act, SessionStep, PublishStep, JobStep, WindowStep

LEMMA MicrophoneStays == ASSUME TypeOK, MicrophoneInv, [Act]_vars PROVE MicrophoneInv'
<1> USE DEF Working, Free, MicrophoneInv
<1>kept. ASSUME window' = window, testing' = testing, state' = state, microphone' = microphone
         PROVE  MicrophoneInv'
  BY <1>kept
<1>left. ASSUME window'.at \notin {"idle", "updating"} PROVE MicrophoneInv'
  BY <1>left
\* ApplySettings begins.
<1>apply. ASSUME NEW c, window.at = "idle", Apply(c) PROVE MicrophoneInv'
  BY <1>apply DEF Apply, sessionVars
<1>1. CASE Press
  BY <1>1
     DEF Press, Become, AcceptsSettingsChanges, OpenMicrophone, StopMicrophone, None,
         formVars
<1>2. CASE DialFails
  BY <1>2
     DEF DialFails, Become, AcceptsSettingsChanges, OpenMicrophone, StopMicrophone, None,
         formVars
<1>3. CASE Connects
  BY <1>3
     DEF Connects, Become, AcceptsSettingsChanges, OpenMicrophone, StopMicrophone, None,
         formVars
<1>4. CASE Finalizes
  BY <1>4
     DEF Finalizes, Become, AcceptsSettingsChanges, OpenMicrophone, StopMicrophone, None,
         formVars
<1>5. CASE ConnectionDrops
  BY <1>5, <1>kept DEF ConnectionDrops, formVars, keyVars, sessionVars
<1>6. CASE ForwardUpdate
  BY <1>6, <1>kept DEF ForwardUpdate, formVars, keyVars, sessionVars
<1>7. ASSUME NEW i \in DOMAIN jobs, RunJob(i) PROVE MicrophoneInv'
  BY <1>7, <1>kept DEF RunJob, formVars, keyVars, sessionVars
<1>8. ASSUME NEW i \in DOMAIN jobs, EndJob(i) PROVE MicrophoneInv'
  BY <1>8, <1>kept DEF EndJob, formVars, keyVars, sessionVars
<1>9. CASE RunQueued
  BY <1>9, <1>kept DEF RunQueued, formVars, keyVars, sessionVars
<1>10. CASE ServersUpdated
  BY <1>10 DEF ServersUpdated, sessionVars
<1>11. CASE ServersNotUpdated
  BY <1>11 DEF ServersNotUpdated, sessionVars
<1>12. CASE Unregister
  <2>1. window'.at \notin {"idle", "updating"}
    BY <1>12, WindowFields DEF Unregister, TypeOK
  <2>2. QED
    BY <1>left, <2>1
<1>13. CASE Close
  <2>1. window'.at \notin {"idle", "updating"}
    BY <1>13, WindowFields DEF Close, TypeOK
  <2>2. QED
    BY <1>left, <2>1
<1>14. ASSUME NEW h \in Hotkeys, NEW s \in Servers, Save(h, s) PROVE MicrophoneInv'
  BY <1>14, <1>apply DEF Save
<1>15. CASE LanguageChanges
  BY <1>15, <1>apply DEF LanguageChanges
<1>16. CASE StartTest
  BY <1>16
     DEF StartTest, AcceptsSettingsChanges, OpenMicrophone, StopMicrophone, None, formVars
<1>17. CASE StopTest
  BY <1>17
     DEF StopTest, AcceptsSettingsChanges, OpenMicrophone, StopMicrophone, None, formVars
<1>18. CASE Quit
  <2>1. window'.at \notin {"idle", "updating"}
    BY <1>18, WindowFields DEF Quit, TypeOK
  <2>2. QED
    BY <1>left, <2>1
<1>19. CASE UNCHANGED vars
  BY <1>19, <1>kept DEF vars
<1>21. CASE ProgressLine
  BY <1>21, <1>kept DEF ProgressLine, formVars, keyVars
<1>22. CASE ReportsError
  BY <1>22, <1>kept DEF ReportsError, formVars, keyVars
<1>23. ASSUME NEW s \in unpublished, PublishState(s) PROVE MicrophoneInv'
  BY <1>23, <1>kept DEF PublishState, formVars, keyVars
<1>20. QED
  BY <1>1, <1>2, <1>3, <1>4, <1>5, <1>6, <1>7, <1>8, <1>9, <1>10, <1>11, <1>12, <1>13,
     <1>14, <1>15, <1>16, <1>17, <1>18, <1>19, <1>21, <1>22, <1>23
     DEF Act, SessionStep, PublishStep, JobStep, WindowStep

-----------------------------------------------------------------------------
LEMMA InvStays == ASSUME IInv, setup' = setup, [Act]_vars PROVE IInv'
BY TypesStay, JobsStay, ShortcutStays, MicrophoneStays DEF IInv

(* The inductive invariant: types, the registration under way, what the     *)
(* queue will say of it, and who has the microphone.                        *)
THEOREM Invariance == Spec => []IInv
<1>1. Init => IInv
  BY InitHolds
<1>2. IInv /\ [Next]_<<setup, vars>> => IInv'
  BY InvStays DEF Next
<1>3. QED
  BY <1>1, <1>2, PTL DEF Spec

(* Once everything is done the shortcut is the saved one, or the main tab   *)
(* says it is not, or the save was an error: ApplySettings in app.go,       *)
(* registerHotkey and setShortcutProblem in hotkey.go and main_tab.go.      *)
THEOREM TheShortcutIsTheSavedOne == Spec => []ShortcutIsTheSavedOne
<1>1. IInv => ShortcutIsTheSavedOne
  <2>1. ASSUME ShortcutInv, Settled PROVE shortcut = settings.hotkey \/ problem \/ window.failed
    <3>1. Working /\ ~Owed /\ jobs = <<>> /\ queue = <<>>
      BY <2>1 DEF Settled, Working, Owed, Free
    <3>2. ~EndsInProblem(queue)
      BY <3>1 DEF EndsInProblem
    <3>3. WillSay(problem, queue) => problem
      BY <3>2, Zenon DEF WillSay
    <3>4. QED
      BY <2>1, <3>1, <3>3, Zenon DEF ShortcutInv
  <2>2. QED
    BY <2>1 DEF IInv, ShortcutIsTheSavedOne
<1>2. QED
  BY <1>1, Invariance, PTL

(* A microphone test the window shows running has the microphone:           *)
(* onTestMicrophone in settings_tab.go, Start and Stop in capture_cgo.go.   *)
THEOREM TheTestHasTheMicrophone == Spec => []TestHasTheMicrophone
<1>1. IInv => TestHasTheMicrophone
  BY DEF IInv, MicrophoneInv, Working, Free, TestHasTheMicrophone
<1>2. QED
  BY <1>1, Invariance, PTL
=============================================================================
