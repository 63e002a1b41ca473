---------------------------- MODULE ServersProofs ----------------------------
(***************************************************************************)
(* That no server is lost and settings take effect, for any languages,     *)
(* settings, faults and number of dials and updates.                       *)
(***************************************************************************)
EXTENDS ServerProperties, TLAPS

Places == Over \cup {"remote", "prepare", "runtime", "choose", "start", "wait", "stop", "reap",
                     "store", "connect"}
Interpreter == Runtimes \cup {NoRuntime}
DialRecord == [at : Places, language : Language, asked : Settings, copied : Settings,
               python : Interpreter, server : Dials \cup {Nobody},
               cancelled : BOOLEAN, calm : BOOLEAN, alone : BOOLEAN, late : BOOLEAN]
ProcessRecord == [at : {"none", "loading", "serving", "reaped", "exited"}, settings : Settings,
                  python : Interpreter, told : {"nothing", "terminate", "kill"}]
Window == [at : {"idle", "closing", "stopAll", "stopping", "waiting", "gone"},
           todo : SUBSET Dials, server : Dials \cup {Nobody}, failed : BOOLEAN, quitting : BOOLEAN]

(* Types of the state: dialer.go, manager.go, server.go.                    *)
TypeOK ==
    /\ settings \in Settings
    /\ python \in Interpreter
    /\ venv \in [Runtimes -> {"absent", "bare", "complete"}]
    /\ servers \in [Language -> Dials \cup {Nobody}]
    /\ dial \in [Dials -> DialRecord]
    /\ process \in [Dials -> ProcessRecord]
    /\ window \in Window
    /\ updates \in Nat

\* Where a dial has no process yet, and where its server is nobody's but the map's.
Before == {"none", "remote", "prepare", "runtime", "choose", "start"}
Starting == {"wait", "stop", "reap", "store"}
Settled == {"connect", "open", "failed"}
\* dial.managerSettings: what of the settings a server is started with.
ForManager(s) == [s EXCEPT !.remote = FALSE]

\* A dial and the process it started.
DialInv ==
    \A c \in Dials :
        /\ dial[c].at \in Before => process[c].at = "none"
        /\ process[c].at = "none" => process[c].told = "nothing"
        /\ dial[c].at \in Starting =>
              process[c].at # "none" /\ process[c].settings = dial[c].copied
        /\ dial[c].at = "reap" => process[c].told # "nothing"
        /\ dial[c].at \notin Over \cup {"remote"} => ~dial[c].asked.remote

\* The server a dial connects to has a process.
ServerInv ==
    \A c \in Dials :
        /\ dial[c].at = "connect" => dial[c].server # Nobody
        /\ dial[c].server # Nobody =>
              dial[c].at \in Settled /\ process[dial[c].server].at # "none"

\* So has every server in the map, and the dial that started it is done with it.
MapInv ==
    \A l \in Language : servers[l] # Nobody =>
        /\ dial[servers[l]].at \in Settled
        /\ process[servers[l]].at # "none"
        /\ dial[servers[l]].language = l

\* What StopAll has still to stop.
WindowInv ==
    /\ \A c \in window.todo : dial[c].at \in Settled
    /\ window.at \notin {"stopping", "waiting"} => window.todo = {}
    /\ window.at = "waiting" =>
          window.server \in window.todo /\ process[window.server].told # "nothing"
    /\ window.quitting => window.at # "idle"
    /\ window.at = "gone" => window.quitting

\* A dial that is alone is the only one under way, and stores its server where there is none.
AloneInv ==
    /\ \A c, d \in Dials : c # d /\ InFlight(c) /\ InFlight(d) => ~dial[c].alone
    /\ \A c \in Dials :
          dial[c].at \in {"start", "wait", "store"} /\ servers[dial[c].language] # Nobody =>
              ~dial[servers[dial[c].language]].alone

\* A quit cancels what is under way, and later dials are late; what the map has once
\* StopAll emptied it is from there.
Excused(c) == dial[c].cancelled \/ dial[c].late
QuitInv == window.quitting =>
    /\ \A c \in Dials : InFlight(c) => Excused(c)
    /\ window.at \notin {"closing", "stopAll"} =>
          \A l \in Language : servers[l] # Nobody => Excused(servers[l])

\* What is running, and what is about to be stored, was started with the settings in force.
CurrentInv == "overlap" \notin Faults =>
    /\ \A c \in Dials : InFlight(c) /\ dial[c].calm /\ ~dial[c].cancelled =>
          settings = dial[c].asked /\ window.at = "idle"
    /\ \A c \in Dials :
          dial[c].at = "store" \/ (dial[c].at \in {"start", "wait"} /\ ~dial[c].cancelled) =>
              ForManager(dial[c].copied) = ForManager(settings)
    /\ window.at # "stopAll" => \A l \in Language : servers[l] # Nobody =>
          ForManager(process[servers[l]].settings) = ForManager(settings)
    /\ \A c \in Dials : dial[c].at = "connect" /\ dial[c].calm /\ ~dial[c].cancelled =>
          ForManager(process[dial[c].server].settings) = ForManager(settings)

\* Every server has a port of its own.
FreePorts == \A s \in Settings : s.port = 0

\* The two properties, where they hold.
HeldInv == NoServerIsLost
ServedInv == "overlap" \notin Faults /\ FreePorts => SettingsTakeEffect

IInv == /\ TypeOK /\ DialInv /\ ServerInv /\ MapInv /\ WindowInv /\ AloneInv
        /\ QuitInv /\ CurrentInv /\ HeldInv /\ ServedInv

-----------------------------------------------------------------------------
(* Steps that leave the dials where they are.                               *)

LEMMA DialsAreNumbers == Dials \subseteq Nat /\ Nobody \notin Dials
  BY DialsAssumption DEF Dials, Nobody

\* What a step of a process, or a signal to it, does to the processes.
Progress == /\ process' \in [Dials -> ProcessRecord]
            /\ \A d \in Dials :
                 /\ process'[d].settings = process[d].settings
                 /\ process'[d].at = "none" <=> process[d].at = "none"
                 /\ process[d].told # "nothing" => process'[d].told # "nothing"
                 /\ process[d].at = "none" => process'[d].told = process[d].told

LEMMA ProcessMoves ==
    ASSUME TypeOK, NEW c \in Dials, process[c].at # "none",
           NEW there \in {"loading", "serving", "reaped", "exited"},
           process' = [process EXCEPT ![c].at = there]
    PROVE  Progress
  BY DEF TypeOK, ProcessRecord, Progress

LEMMA ProcessIsTold ==
    ASSUME TypeOK, NEW c \in Dials, process[c].at # "none",
           NEW signal \in {"terminate", "kill"},
           process' = [process EXCEPT ![c].told = signal]
    PROVE  Progress /\ process'[c].told = signal
  BY DEF TypeOK, ProcessRecord, Progress

LEMMA NothingMoves ==
    ASSUME TypeOK, process' = process
    PROVE  Progress
  BY DEF TypeOK, ProcessRecord, Progress

\* A step of the processes alone that brings none to life.
LEMMA ProgressKeeps ==
    ASSUME IInv, Progress,
           UNCHANGED <<settings, python, venv, servers, dial, window, updates>>,
           \A d \in Dials : Alive(d)' => Alive(d)
    PROVE  IInv'
<1>1. TypeOK' /\ DialInv' /\ ServerInv' /\ MapInv'
  <2>1. TypeOK' /\ DialInv'
    BY DEF IInv, TypeOK, DialInv, Progress
  <2>2. \A d \in Dials : dial[d].server # Nobody => dial[d].server \in Dials
    BY DEF IInv, TypeOK, DialRecord
  <2>3. \A l \in Language : servers[l] # Nobody => servers[l] \in Dials
    BY DEF IInv, TypeOK
  <2>4. ServerInv' /\ MapInv'
    BY <2>2, <2>3 DEF IInv, ServerInv, MapInv, Progress
  <2>5. QED
    BY <2>1, <2>4
<1>2. WindowInv'
  BY DEF IInv, TypeOK, WindowInv, Window, Progress
<1>3. AloneInv' /\ QuitInv'
  BY DEF IInv, AloneInv, QuitInv, Excused, InFlight
<1>4. CurrentInv'
  <2>1. SUFFICES ASSUME "overlap" \notin Faults
                 PROVE  CurrentInv'
    BY DEF CurrentInv
  <2>2. \A d \in Dials : ForManager(process'[d].settings) = ForManager(process[d].settings)
    BY DEF Progress
  <2>3. \A l \in Language : servers[l] # Nobody => servers[l] \in Dials
    BY DEF IInv, TypeOK
  <2>4. \A d \in Dials : dial[d].at = "connect" => dial[d].server \in Dials
    BY DEF IInv, TypeOK, DialRecord, ServerInv
  <2>5. QED
    BY <2>1, <2>2, <2>3, <2>4 DEF IInv, CurrentInv, InFlight
<1>5. HeldInv'
  BY DEF IInv, TypeOK, ProcessRecord, HeldInv, NoServerIsLost, Alive, Progress
<1>6. ServedInv'
  BY DEF IInv, TypeOK, ServedInv, SettingsTakeEffect, ServedAsAsked, DialRecord, Progress
<1>7. QED
  BY <1>1, <1>2, <1>3, <1>4, <1>5, <1>6 DEF IInv

LEMMA ProcessKeeps ==
    ASSUME IInv, NEW c \in Dials, Serves(c) \/ Dies(c) \/ NotesExit(c)
    PROVE  IInv'
<1>1. TypeOK
  BY DEF IInv
<1>2. PICK there \in {"loading", "serving", "reaped", "exited"} :
          /\ process' = [process EXCEPT ![c].at = there]
          /\ there = "serving" => Alive(c)
          /\ there # "loading"
  BY DEF Serves, Dies, NotesExit, Alive
<1>3. process[c].at # "none"
  BY DEF Serves, Dies, NotesExit, Alive
<1>4. Progress
  BY <1>1, <1>2, <1>3, ProcessMoves
<1>5. \A d \in Dials : Alive(d)' => Alive(d)
  BY <1>1, <1>2 DEF Alive, TypeOK
<1>6. UNCHANGED <<settings, python, venv, servers, dial, window, updates>>
  BY DEF Serves, Dies, NotesExit
<1>7. QED
  BY <1>4, <1>5, <1>6, ProgressKeeps

-----------------------------------------------------------------------------
(* Dial and Ensure.                                                         *)

\* A step of one dial: it goes there, and the other dials stay where they are.
Moves(c, there) ==
    /\ dial' \in [Dials -> DialRecord]
    /\ dial'[c].at = there
    /\ \A d \in Dials :
         /\ dial'[d].language = dial[d].language /\ dial'[d].asked = dial[d].asked
         /\ dial'[d].cancelled = dial[d].cancelled
         /\ dial'[d].calm = dial[d].calm /\ dial'[d].alone = dial[d].alone
         /\ dial'[d].late = dial[d].late
         /\ d # c => /\ dial'[d].at = dial[d].at /\ dial'[d].copied = dial[d].copied
                     /\ dial'[d].server = dial[d].server
\* It gets no server, and copies the settings in Prepare at most.
SameCopy(c) ==
    /\ dial'[c].server = dial[c].server
    /\ dial'[c].at \notin {"runtime", "choose"} => dial'[c].copied = dial[c].copied

LEMMA Goes ==
    ASSUME TypeOK, NEW c \in Dials, NEW there \in Places, Goto(c, there)
    PROVE  Moves(c, there) /\ SameCopy(c)
  BY DEF TypeOK, DialRecord, Goto, Moves, SameCopy

\* A step inside a dial, before its server is stored, that starts and stores nothing.
LEMMA MovesKeeps ==
    ASSUME IInv, NEW c \in Dials, NEW there \in Places, Moves(c, there), SameCopy(c), Progress,
           UNCHANGED <<settings, servers, window, updates>>,
           python' \in Interpreter, venv' \in [Runtimes -> {"absent", "bare", "complete"}],
           \A d \in Dials : Alive(d)' => Alive(d),
           dial[c].at \notin Over, there # "connect", there # "start",
           dial[c].at \in Before => there \in Before \cup {"open", "failed"},
           dial[c].at \in Starting => there \in Starting \cup {"failed"},
           there \in Starting => dial[c].at \in Starting,
           there = "store" => dial[c].at = "wait" /\ ~dial[c].cancelled,
           there = "wait" => dial[c].at = "wait",
           there = "reap" => process'[c].told # "nothing",
           there \in {"none", "remote"} => dial[c].at = there,
           there # "failed" => dial[c].at # "connect",
           there \notin Over => dial[c].at # "remote",
           dial[c].at \in {"wait", "store", "stop"} /\ there \notin {"wait", "store", "stop"} =>
               ~Alive(c)' \/ process'[c].told # "nothing",
           there = "open" => dial[c].at = "remote"
    PROVE  IInv'
<1>1. TypeOK'
  BY DEF IInv, TypeOK, Moves, Progress
<1>2. DialInv'
  <2>1. ASSUME NEW d \in Dials, d # c
        PROVE  /\ dial'[d].at = dial[d].at /\ dial'[d].copied = dial[d].copied
               /\ dial'[d].asked = dial[d].asked
               /\ process'[d].settings = process[d].settings
               /\ process'[d].at = "none" <=> process[d].at = "none"
               /\ process[d].told # "nothing" => process'[d].told # "nothing"
               /\ process[d].at = "none" => process'[d].told = process[d].told
    BY <2>1 DEF Moves, Progress
  <2>2. /\ dial'[c].at = there
        /\ there \notin {"runtime", "choose"} => dial'[c].copied = dial[c].copied
        /\ dial'[c].asked = dial[c].asked
        /\ process'[c].settings = process[c].settings
        /\ process'[c].at = "none" <=> process[c].at = "none"
        /\ process[c].at = "none" => process'[c].told = process[c].told
    BY DEF Moves, SameCopy, Progress
  <2>3. /\ there \in Before => process'[c].at = "none"
        /\ process'[c].at = "none" => process'[c].told = "nothing"
        /\ there \in Starting =>
              process'[c].at # "none" /\ process'[c].settings = dial'[c].copied
        /\ there = "reap" => process'[c].told # "nothing"
        /\ there \notin Over \cup {"remote"} => ~dial'[c].asked.remote
    <3>1. dial[c].at \in Places
      BY DEF IInv, TypeOK, DialRecord
    <3>2. there \in Before => dial[c].at \in Before
      BY <3>1 DEF Before, Starting, Over, Places
    <3>3. there \notin Over \cup {"remote"} => dial[c].at \notin Over \cup {"remote"}
      OBVIOUS
    <3>4. there \in Starting => dial[c].at \in Starting
      OBVIOUS
    <3>5. QED
      BY <2>2, <3>2, <3>3, <3>4 DEF IInv, DialInv, Starting
  <2>4. QED
    BY <2>1, <2>2, <2>3 DEF IInv, DialInv
<1>3. ServerInv'
  <2>1. \A d \in Dials : dial[d].at \in Settled => dial'[d].at \in Settled
    BY DEF Moves, Settled, Before, Starting, Over, Places
  <2>2. \A d \in Dials : dial'[d].server = dial[d].server
    BY DEF Moves, SameCopy
  <2>3. \A d \in Dials : dial[d].server # Nobody => dial[d].server \in Dials
    BY DEF IInv, TypeOK, DialRecord
  <2>4. \A d \in Dials : dial'[d].at = "connect" => dial[d].at = "connect"
    BY DEF Moves
  <2>5. QED
    BY <2>1, <2>2, <2>3, <2>4 DEF IInv, ServerInv, Progress
<1>4. MapInv'
  <2>1. \A d \in Dials : dial[d].at \in Settled => dial'[d].at \in Settled
    BY DEF Moves, Settled, Before, Starting, Over, Places
  <2>2. \A l \in Language : servers[l] # Nobody => servers[l] \in Dials
    BY DEF IInv, TypeOK
  <2>3. QED
    BY <2>1, <2>2 DEF IInv, MapInv, Progress, Moves
<1>5. WindowInv'
  BY DEF IInv, TypeOK, WindowInv, Window, Moves, Settled, Before, Starting, Over, Places, Progress
<1>6. AloneInv'
  <2>1. \A d \in Dials : InFlight(d)' => InFlight(d)
    BY DEF Moves, InFlight
  <2>2. \A d \in Dials : /\ dial'[d].alone = dial[d].alone
                         /\ dial'[d].language = dial[d].language /\ dial[d].language \in Language
    BY DEF Moves, IInv, TypeOK, DialRecord
  <2>3. \A d \in Dials : dial'[d].at \in {"start", "wait", "store"} =>
                             dial[d].at \in {"start", "wait", "store"}
    BY DEF Moves
  <2>4. \A l \in Language : servers[l] # Nobody => servers[l] \in Dials
    BY DEF IInv, TypeOK
  <2>5. QED
    BY <2>1, <2>2, <2>3, <2>4 DEF IInv, AloneInv
<1>7. QuitInv'
  BY DialsAreNumbers DEF IInv, TypeOK, QuitInv, Excused, InFlight, Moves, Over
<1>8. CurrentInv'
  <2>1. SUFFICES ASSUME "overlap" \notin Faults
                 PROVE  CurrentInv'
    BY DEF CurrentInv
  <2>2. \A d \in Dials : ForManager(process'[d].settings) = ForManager(process[d].settings)
    BY DEF Progress
  <2>3. \A l \in Language : servers[l] # Nobody => servers[l] \in Dials
    BY DEF IInv, TypeOK
  <2>4. \A d \in Dials : dial'[d].at = "connect" =>
            dial[d].at = "connect" /\ dial[d].server \in Dials /\ dial'[d].server = dial[d].server
    BY DEF IInv, TypeOK, DialRecord, ServerInv, Moves
  <2>5. \A d \in Dials :
            /\ InFlight(d)' => InFlight(d)
            /\ dial'[d].asked = dial[d].asked /\ dial'[d].calm = dial[d].calm
            /\ dial'[d].cancelled = dial[d].cancelled
            /\ dial'[d].at \notin {"runtime", "choose"} => dial'[d].copied = dial[d].copied
    BY DEF Moves, SameCopy, InFlight
  <2>6. \A d \in Dials :
            dial'[d].at = "store" \/ (dial'[d].at \in {"start", "wait"} /\ ~dial[d].cancelled) =>
              dial[d].at = "store" \/ (dial[d].at \in {"start", "wait"} /\ ~dial[d].cancelled)
    BY DEF Moves
  <2>7. QED
    BY <2>1, <2>2, <2>3, <2>4, <2>5, <2>6 DEF IInv, CurrentInv
<1>9. HeldInv'
  BY DEF IInv, TypeOK, ProcessRecord, DialInv, HeldInv, NoServerIsLost, Alive, Moves, Progress, Before,
     Starting, Over, Places
<1>10. ServedInv'
  BY DEF IInv, TypeOK, ServedInv, ServerInv, SettingsTakeEffect, ServedAsAsked, DialRecord, Moves, SameCopy, Progress, Before,
     Starting, Over, Places, Settled
<1>11. QED
  BY <1>1, <1>2, <1>3, <1>4, <1>5, <1>6, <1>7, <1>8, <1>9, <1>10 DEF IInv

LEMMA RemoteAnswersKeeps ==
    ASSUME IInv, NEW c \in Dials, RemoteAnswers(c)
    PROVE  IInv'
<1>1. TypeOK /\ dial[c].at = "remote"
  BY DEF IInv, RemoteAnswers, At
<1>2. PICK there \in {"open", "failed"} : Goto(c, there)
  BY DEF RemoteAnswers, Fails
<1>3. UNCHANGED <<settings, python, venv, servers, process, window, updates>>
  BY DEF RemoteAnswers
<1>4. Moves(c, there) /\ SameCopy(c) /\ there \in Places
  BY <1>1, <1>2, Goes DEF Places, Over
<1>5. Progress /\ \A d \in Dials : Alive(d)' => Alive(d)
  BY <1>1, <1>3, NothingMoves DEF Alive
<1>6. QED
  BY <1>1, <1>3, <1>4, <1>5, MovesKeeps DEF TypeOK, Over, Before, Starting

LEMMA PrepareKeeps ==
    ASSUME IInv, NEW c \in Dials, Prepare(c)
    PROVE  IInv'
<1>1. TypeOK /\ dial[c].at = "prepare"
  BY DEF IInv, Prepare, At
<1>2. PICK there \in {"runtime", "choose"} :
          dial' = [dial EXCEPT ![c].at = there, ![c].copied = settings]
  BY DEF Prepare
<1>3. UNCHANGED <<settings, python, venv, servers, process, window, updates>>
  BY DEF Prepare
<1>4. Moves(c, there) /\ SameCopy(c) /\ there \in Places
  <2>1. there \in Places /\ settings \in Settings /\ dial[c] \in DialRecord
    BY <1>1, <1>2 DEF TypeOK, Places
  <2>2. [dial[c] EXCEPT !.at = there, !.copied = settings] \in DialRecord
    BY <2>1 DEF DialRecord
  <2>3. dial' \in [Dials -> DialRecord]
    BY <1>1, <1>2, <2>2 DEF TypeOK
  <2>4. /\ dial'[c] = [dial[c] EXCEPT !.at = there, !.copied = settings]
        /\ \A d \in Dials : d # c => dial'[d] = dial[d]
    BY <1>1, <1>2 DEF TypeOK
  <2>5. /\ dial'[c].at = there /\ dial'[c].server = dial[c].server
        /\ dial'[c].language = dial[c].language /\ dial'[c].asked = dial[c].asked
        /\ dial'[c].cancelled = dial[c].cancelled
        /\ dial'[c].calm = dial[c].calm /\ dial'[c].alone = dial[c].alone
        /\ dial'[c].late = dial[c].late
    BY <2>1, <2>4 DEF DialRecord
  <2>6. QED
    BY <1>2, <2>1, <2>3, <2>4, <2>5 DEF Moves, SameCopy
<1>5. Progress /\ \A d \in Dials : Alive(d)' => Alive(d)
  BY <1>1, <1>3, NothingMoves DEF Alive
<1>6. QED
  BY <1>1, <1>3, <1>4, <1>5, MovesKeeps DEF TypeOK, Over, Before, Starting

LEMMA BuildEnvironmentKeeps ==
    ASSUME IInv, NEW c \in Dials, BuildEnvironment(c)
    PROVE  IInv'
<1>1. TypeOK /\ venv' \in [Runtimes -> {"absent", "bare", "complete"}]
  BY DEF IInv, TypeOK, BuildEnvironment
<1>2. UNCHANGED <<settings, python, servers, dial, process, window, updates>>
  BY DEF BuildEnvironment
<1>3. TypeOK'
  BY <1>1, <1>2 DEF TypeOK
<1>4. DialInv' /\ ServerInv' /\ MapInv' /\ WindowInv' /\ AloneInv' /\ QuitInv'
  BY <1>2 DEF IInv, DialInv, ServerInv, MapInv, WindowInv, AloneInv, QuitInv, Excused, InFlight
<1>5. CurrentInv' /\ HeldInv' /\ ServedInv'
  BY <1>2 DEF IInv, CurrentInv, InFlight, HeldInv, NoServerIsLost, Alive, ServedInv,
              SettingsTakeEffect, ServedAsAsked
<1>6. QED
  BY <1>3, <1>4, <1>5 DEF IInv

LEMMA RuntimeKeeps ==
    ASSUME IInv, NEW c \in Dials, NoSuitableRuntime(c) \/ Prepared(c)
    PROVE  IInv'
<1>1. TypeOK /\ dial[c].at = "runtime"
  BY DEF IInv, NoSuitableRuntime, Prepared, At
<1>2. PICK there \in {"choose", "failed"} : Goto(c, there)
  BY DEF NoSuitableRuntime, Prepared, Fails
<1>3. UNCHANGED <<settings, venv, servers, process, window, updates>> /\ python' \in Interpreter
  <2>1. CASE NoSuitableRuntime(c)
    BY <1>1, <2>1 DEF NoSuitableRuntime, TypeOK
  <2>2. CASE Prepared(c)
    <3>1. dial[c].copied \in Settings
      BY <1>1 DEF TypeOK, DialRecord
    <3>2. QED
      BY <2>2, <3>1 DEF Prepared, Interpreter, Runtimes
  <2>3. QED
    BY <2>1, <2>2
<1>4. Moves(c, there) /\ SameCopy(c) /\ there \in Places
  BY <1>1, <1>2, Goes DEF Places, Over
<1>5. Progress /\ \A d \in Dials : Alive(d)' => Alive(d)
  BY <1>1, <1>3, NothingMoves DEF Alive
<1>6. QED
  BY <1>1, <1>3, <1>4, <1>5, MovesKeeps DEF TypeOK, Over, Before, Starting

LEMMA WaitKeeps ==
    ASSUME IInv, NEW c \in Dials, Ready(c) \/ NotReady(c)
    PROVE  IInv'
<1>1. TypeOK /\ dial[c].at = "wait"
  BY DEF IInv, Ready, NotReady, At
<1>2. PICK there \in {"store", "stop"} :
          Goto(c, there) /\ (there = "store" => ~dial[c].cancelled)
  BY DEF Ready, NotReady
<1>3. UNCHANGED <<settings, python, venv, servers, process, window, updates>>
  BY DEF Ready, NotReady
<1>4. Moves(c, there) /\ SameCopy(c) /\ there \in Places
  BY <1>1, <1>2, Goes DEF Places, Over
<1>5. Progress /\ \A d \in Dials : Alive(d)' => Alive(d)
  BY <1>1, <1>3, NothingMoves DEF Alive
<1>6. QED
  BY <1>1, <1>2, <1>3, <1>4, <1>5, MovesKeeps DEF TypeOK, Over, Before, Starting

LEMMA StopStartedKeeps ==
    ASSUME IInv, NEW c \in Dials, StopStarted(c)
    PROVE  IInv'
<1>1. /\ TypeOK /\ dial[c].at = "stop" /\ process[c].at # "none"
      /\ UNCHANGED <<settings, python, venv, servers, window, updates>>
  BY DEF IInv, DialInv, StopStarted, At, Starting
<1>2. CASE Fails(c) /\ ~Alive(c) /\ process' = process
  <2>1. Moves(c, "failed") /\ SameCopy(c) /\ "failed" \in Places
    BY <1>1, <1>2, Goes DEF Fails, Places, Over
  <2>2. Progress /\ (\A d \in Dials : Alive(d)' => Alive(d)) /\ ~Alive(c)'
    BY <1>1, <1>2, NothingMoves DEF Alive
  <2>3. QED
    BY <1>1, <2>1, <2>2, MovesKeeps DEF TypeOK, Over, Before, Starting
<1>3. CASE Terminate(c) /\ Goto(c, "reap")
  <2>1. Moves(c, "reap") /\ SameCopy(c) /\ "reap" \in Places
    BY <1>1, <1>3, Goes DEF Places, Over
  <2>2. Progress /\ process'[c].told = "terminate"
    BY <1>1, <1>3, ProcessIsTold DEF Terminate
  <2>3. \A d \in Dials : Alive(d)' => Alive(d)
    BY <1>1, <1>3 DEF Terminate, Alive, TypeOK, ProcessRecord
  <2>4. QED
    BY <1>1, <2>1, <2>2, <2>3, MovesKeeps DEF TypeOK, Over, Before, Starting
<1>4. QED
  BY <1>2, <1>3 DEF StopStarted, AlreadyStopped, CannotSignal, Exited, Alive

LEMMA StartedStopsKeeps ==
    ASSUME IInv, NEW c \in Dials, StartedStops(c)
    PROVE  IInv'
<1>1. /\ TypeOK /\ dial[c].at = "reap" /\ process[c].at # "none" /\ process[c].told # "nothing"
      /\ UNCHANGED <<settings, python, venv, servers, window, updates>>
  BY DEF IInv, DialInv, StartedStops, At, Starting
<1>2. CASE Fails(c) /\ process' = process
  <2>1. Moves(c, "failed") /\ SameCopy(c) /\ "failed" \in Places
    BY <1>1, <1>2, Goes DEF Fails, Places, Over
  <2>2. Progress /\ (\A d \in Dials : Alive(d)' => Alive(d)) /\ process'[c].told # "nothing"
    BY <1>1, <1>2, NothingMoves DEF Alive
  <2>3. QED
    BY <1>1, <2>1, <2>2, MovesKeeps DEF TypeOK, Over, Before, Starting
<1>3. CASE Kill(c) /\ dial' = dial
  <2>1. Progress
    BY <1>1, <1>3, ProcessIsTold DEF Kill
  <2>2. \A d \in Dials : Alive(d)' => Alive(d)
    BY <1>1, <1>3 DEF Kill, Alive, TypeOK, ProcessRecord
  <2>3. QED
    BY <1>1, <1>3, <2>1, <2>2, ProgressKeeps
<1>4. QED
  BY <1>2, <1>3 DEF StartedStops

LEMMA DialKeeps ==
    ASSUME IInv, NEW c \in Dials, NEW l \in Language, Dial(c, l)
    PROVE  IInv'
<1> DEFINE there == IF settings.remote THEN "remote" ELSE "prepare"
           calm == window.at = "idle"
           quitting == window.quitting
           others == {d \in Dials : InFlight(d)}
           begun == [dial[c] EXCEPT !.at = there, !.language = l, !.asked = settings,
                                    !.calm = calm, !.alone = others = {}, !.late = quitting]
<1>1. /\ TypeOK /\ dial[c].at = "none" /\ settings \in Settings /\ dial[c] \in DialRecord
      /\ settings.remote \in BOOLEAN /\ window.at # "gone"
      /\ \A d \in Dials : InFlight(d) => dial[d].cancelled
      /\ UNCHANGED <<settings, python, venv, servers, process, window, updates>>
  BY SettingsAssumption DEF IInv, TypeOK, Dial, At
<1>2. /\ there \in {"remote", "prepare"} /\ there \in Places
      /\ settings.remote <=> there = "remote"
  BY <1>1 DEF Places
<1>3. dial' = [d \in Dials |-> IF d = c THEN begun
                               ELSE [dial[d] EXCEPT !.alone = @ /\ d \notin others]]
  BY DEF Dial
<1>4. /\ dial'[c] = begun
      /\ \A d \in Dials : d # c => dial'[d] = [dial[d] EXCEPT !.alone = @ /\ d \notin others]
  BY <1>3
<1>5. begun \in DialRecord
  <2> HIDE DEF there, others, calm, quitting
  <2>1. calm \in BOOLEAN /\ (others = {}) \in BOOLEAN /\ quitting \in BOOLEAN
    BY <1>1 DEF calm, quitting, TypeOK, Window
  <2>2. QED
    BY <1>1, <1>2, <2>1 DEF DialRecord
<1>6. /\ begun.at = there /\ begun.language = l /\ begun.asked = settings
      /\ begun.copied = dial[c].copied /\ begun.server = dial[c].server
      /\ begun.calm = calm /\ begun.alone = (others = {}) /\ begun.late = quitting
  <2> HIDE DEF there, others, calm, quitting
  <2>1. QED
    BY <1>1 DEF DialRecord
<1>7. \A d \in Dials : d # c =>
        /\ dial'[d] \in DialRecord
        /\ dial'[d].at = dial[d].at /\ dial'[d].language = dial[d].language
        /\ dial'[d].asked = dial[d].asked /\ dial'[d].copied = dial[d].copied
        /\ dial'[d].server = dial[d].server /\ dial'[d].cancelled = dial[d].cancelled
        /\ dial'[d].calm = dial[d].calm /\ dial'[d].late = dial[d].late
        /\ dial'[d].alone = (dial[d].alone /\ ~InFlight(d))
  <2>1. SUFFICES ASSUME NEW d \in Dials, d # c
                 PROVE  /\ dial'[d] \in DialRecord
                        /\ dial'[d].at = dial[d].at /\ dial'[d].language = dial[d].language
                        /\ dial'[d].asked = dial[d].asked /\ dial'[d].copied = dial[d].copied
                        /\ dial'[d].server = dial[d].server
                        /\ dial'[d].cancelled = dial[d].cancelled
                        /\ dial'[d].calm = dial[d].calm /\ dial'[d].late = dial[d].late
                        /\ dial'[d].alone = (dial[d].alone /\ ~InFlight(d))
    OBVIOUS
  <2> DEFINE still == dial[d].alone /\ d \notin others
  <2>2. dial'[d] = [dial[d] EXCEPT !.alone = still] /\ dial[d] \in DialRecord
    BY <1>1, <1>4, <2>1 DEF TypeOK
  <2>3. still \in BOOLEAN /\ still = (dial[d].alone /\ ~InFlight(d))
    BY <2>2 DEF DialRecord
  <2> HIDE DEF still
  <2>4. dial'[d] \in DialRecord /\ dial'[d].alone = still
    BY <2>2, <2>3 DEF DialRecord
  <2>5. QED
    BY <2>2, <2>3, <2>4 DEF DialRecord
<1> DEFINE first == others = {}
<1>8. /\ dial'[c].at = there /\ dial'[c].language = l /\ dial'[c].asked = settings
      /\ dial'[c].copied = dial[c].copied /\ dial'[c].server = Nobody
      /\ dial'[c].calm = calm /\ dial'[c].alone = first /\ dial'[c].late = window.quitting
  BY <1>1, <1>4, <1>6 DEF IInv, ServerInv, Settled
<1>9. first => \A d \in Dials : ~InFlight(d)
  OBVIOUS
<1>10. TypeOK'
  <2>1. dial' \in [Dials -> DialRecord]
    BY <1>3, <1>4, <1>5, <1>7
  <2>2. QED
    BY <1>1, <2>1 DEF TypeOK
<1> HIDE DEF there, calm, quitting, others, begun, first
<1>11. DialInv'
  BY <1>1, <1>2, <1>7, <1>8 DEF IInv, DialInv, Before, Starting, Over
<1>12. ServerInv'
  BY <1>1, <1>2, <1>7, <1>8 DEF IInv, ServerInv, Settled
<1>13. \A k \in Language : servers[k] # Nobody => servers[k] \in Dials /\ servers[k] # c
  BY <1>1 DEF IInv, TypeOK, MapInv, Settled
<1>14. MapInv' /\ WindowInv'
  <2>1. window.todo \subseteq Dials /\ c \notin window.todo
    BY <1>1 DEF IInv, TypeOK, Window, WindowInv, Settled
  <2>2. QED
    BY <1>1, <1>7, <1>13, <2>1 DEF IInv, MapInv, WindowInv
<1>15. AloneInv'
  BY <1>1, <1>2, <1>7, <1>8, <1>9, <1>13 DEF IInv, TypeOK, DialRecord, AloneInv, InFlight, Over
<1>16. QuitInv'
  BY <1>1, <1>7, <1>8, <1>13 DEF IInv, QuitInv, Excused, InFlight
<1>17. CurrentInv'
  <2>1. SUFFICES ASSUME "overlap" \notin Faults
                 PROVE  CurrentInv'
    BY DEF CurrentInv
  <2>2. \A d \in Dials : d # c => (InFlight(d)' <=> InFlight(d))
    BY <1>7 DEF InFlight
  <2>3. dial'[c].calm => window.at = "idle"
    BY <1>8 DEF calm
  <2>4. dial'[c].at \notin {"start", "wait", "store", "connect"}
    BY <1>2, <1>8
  <2>5. \A d \in Dials : InFlight(d)' /\ dial'[d].calm /\ ~dial'[d].cancelled =>
            settings = dial'[d].asked /\ window.at = "idle"
    BY <1>1, <1>7, <1>8, <2>2, <2>3
  <2>6. QED
    BY <1>1, <1>7, <1>13, <2>1, <2>4, <2>5 DEF IInv, CurrentInv
<1>18. HeldInv'
  <2>1. process[c].at = "none"
    BY <1>1 DEF IInv, DialInv, Before
  <2>2. \A d \in Dials : Alive(d)' => Alive(d) /\ d # c
    BY <1>1, <2>1 DEF Alive
  <2>3. SUFFICES ASSUME NEW d \in Dials,
                        dial'[d].alone, Alive(d)', process'[d].told = "nothing"
                 PROVE  \/ d \in window'.todo
                        \/ /\ \/ servers'[dial'[d].language] = d
                              \/ dial'[d].at \in {"wait", "store", "stop"}
                           /\ window'.at = "gone" => dial'[d].cancelled \/ dial'[d].late
    BY DEF HeldInv, NoServerIsLost
  <2>4. Alive(d) /\ d # c
    BY <2>2, <2>3
  <2>5. /\ dial'[d].at = dial[d].at /\ dial'[d].language = dial[d].language
        /\ dial'[d].cancelled = dial[d].cancelled /\ dial'[d].late = dial[d].late
        /\ dial[d].alone
    BY <1>7, <2>3, <2>4
  <2>6. NoServerIsLost /\ process[d].told = "nothing"
    BY <1>1, <2>3 DEF IInv, HeldInv
  <2>7. \/ d \in window.todo
        \/ /\ \/ servers[dial[d].language] = d
              \/ dial[d].at \in {"wait", "store", "stop"}
           /\ window.at = "gone" => dial[d].cancelled \/ dial[d].late
    BY <2>4, <2>5, <2>6 DEF NoServerIsLost
  <2>8. QED
    BY <1>1, <2>5, <2>7
<1>19. ServedInv'
  BY <1>1, <1>2, <1>7, <1>8 DEF IInv, ServedInv, SettingsTakeEffect, ServedAsAsked
<1>20. QED
  BY <1>10, <1>11, <1>12, <1>14, <1>15, <1>16, <1>17, <1>18, <1>19 DEF IInv

\* What Choose, Store and Connect do to the dial: it goes there, with a server.
Gets(c, there, server) ==
    /\ dial' \in [Dials -> DialRecord]
    /\ dial'[c].at = there /\ dial'[c].server = server
    /\ \A d \in Dials :
         /\ dial'[d].language = dial[d].language /\ dial'[d].asked = dial[d].asked
         /\ dial'[d].cancelled = dial[d].cancelled
         /\ dial'[d].calm = dial[d].calm /\ dial'[d].alone = dial[d].alone
         /\ dial'[d].late = dial[d].late
         /\ d # c => /\ dial'[d].at = dial[d].at /\ dial'[d].copied = dial[d].copied
                     /\ dial'[d].server = dial[d].server

LEMMA DialGets ==
    ASSUME TypeOK, NEW c \in Dials, NEW there \in Places, NEW server \in Dials,
           dial' = [dial EXCEPT ![c].at = there, ![c].server = server]
    PROVE  Gets(c, there, server)
<1> DEFINE before == dial[c]
           now == dial'[c]
<1>1. now = [before EXCEPT !.at = there, !.server = server] /\ before \in DialRecord
  BY DEF TypeOK
<1>2. \A d \in Dials : d # c => dial'[d] = dial[d]
  BY DEF TypeOK
<1>3. dial' \in [Dials -> DialRecord] /\ now = dial'[c] /\ before = dial[c]
  <2>1. [before EXCEPT !.at = there, !.server = server] \in DialRecord
    <3> HIDE DEF before
    <3>1. QED
      BY <1>1 DEF DialRecord
  <2>2. QED
    BY <2>1 DEF TypeOK
<1> HIDE DEF before, now
<1>4. now.at = there /\ now.server = server
  BY <1>1 DEF DialRecord
<1>5. now.language = before.language /\ now.asked = before.asked
  BY <1>1 DEF DialRecord
<1>6. /\ now.cancelled = before.cancelled
      /\ now.calm = before.calm /\ now.alone = before.alone /\ now.late = before.late
  BY <1>1 DEF DialRecord
<1>7. QED
  BY <1>2, <1>3, <1>4, <1>5, <1>6 DEF Gets

LEMMA ChooseKeeps ==
    ASSUME IInv, NEW c \in Dials, Choose(c)
    PROVE  IInv'
<1> DEFINE l == dial[c].language
           existing == RunningServer(l)
           there == IF existing = Nobody THEN "start" ELSE "connect"
<1>1. /\ TypeOK /\ dial[c].at = "choose" /\ window.at # "gone" /\ dial[c] \in DialRecord
      /\ settings \in Settings /\ python \in Interpreter /\ l \in Language
      /\ UNCHANGED <<settings, python, venv, process, window, updates>>
      /\ servers' = [servers EXCEPT ![l] = existing]
      /\ dial' = [dial EXCEPT ![c].at = there, ![c].server = existing,
                              ![c].copied = settings, ![c].python = python]
  BY DEF IInv, TypeOK, DialRecord, Choose, At
<1>2. /\ existing \in Dials \cup {Nobody}
      /\ existing # Nobody => existing = servers[l]
      /\ existing # servers[l] => existing = Nobody /\ Exited(servers[l])
      /\ existing = Nobody /\ servers[l] # Nobody => Exited(servers[l])
  BY <1>1 DEF TypeOK, RunningServer
<1>3. there \in {"start", "connect"} /\ there \in Places /\ (there = "connect" <=> existing # Nobody)
  BY DEF Places
<1> HIDE DEF existing, there
<1>4. Gets(c, there, existing) /\ dial'[c].copied = settings
  <2>1. [dial[c] EXCEPT !.at = there, !.server = existing, !.copied = settings, !.python = python]
            \in DialRecord
    BY <1>1, <1>2, <1>3 DEF DialRecord
  <2>2. dial' \in [Dials -> DialRecord]
    BY <1>1, <2>1 DEF TypeOK
  <2> DEFINE before == dial[c]
  <2>3. /\ dial'[c] = [before EXCEPT !.at = there, !.server = existing,
                                     !.copied = settings, !.python = python]
        /\ \A d \in Dials : d # c => dial'[d] = dial[d]
        /\ before \in DialRecord /\ before = dial[c]
    BY <1>1 DEF TypeOK
  <2> HIDE DEF before
  <2>4. dial'[c].at = there /\ dial'[c].server = existing /\ dial'[c].copied = settings
    BY <2>3 DEF DialRecord
  <2>5. dial'[c].language = before.language /\ dial'[c].asked = before.asked
    BY <2>3 DEF DialRecord
  <2>6. /\ dial'[c].cancelled = before.cancelled
        /\ dial'[c].calm = before.calm /\ dial'[c].alone = before.alone
        /\ dial'[c].late = before.late
    BY <2>3 DEF DialRecord
  <2>7. QED
    BY <2>2, <2>3, <2>4, <2>5, <2>6 DEF Gets
<1>5. /\ servers' \in [Language -> Dials \cup {Nobody}] /\ servers'[l] = existing
      /\ \A k \in Language : /\ servers'[k] # Nobody => servers'[k] = servers[k]
                             /\ servers'[k] # servers[k] =>
                                   servers[k] # Nobody /\ Exited(servers[k])
  BY <1>1, <1>2 DEF TypeOK
<1>6. \A k \in Language : servers[k] # Nobody =>
          servers[k] \in Dials /\ servers[k] # c /\ process[servers[k]].at # "none"
  BY <1>1 DEF IInv, TypeOK, MapInv, Settled
<1>7. TypeOK'
  BY <1>1, <1>4, <1>5 DEF TypeOK, Gets
<1>8. DialInv'
  BY <1>1, <1>3, <1>4 DEF IInv, DialInv, Gets, Before, Starting, Over
<1>9. ServerInv'
  BY <1>1, <1>2, <1>3, <1>4, <1>6 DEF IInv, ServerInv, Gets, Settled
<1>10. MapInv' /\ WindowInv'
  <2>1. window.todo \subseteq Dials /\ c \notin window.todo
    BY <1>1 DEF IInv, TypeOK, Window, WindowInv, Settled
  <2>2. QED
    BY <1>1, <1>4, <1>5, <1>6, <2>1 DEF IInv, MapInv, WindowInv, Gets
<1>11. AloneInv'
  <2>1. \A d \in Dials : InFlight(d)' => InFlight(d)
    BY <1>1, <1>4 DEF Gets, InFlight, Over
  <2>2. \A d \in Dials : dial[d].language \in Language
    BY <1>1 DEF TypeOK, DialRecord
  <2>3. QED
    BY <1>3, <1>4, <1>5, <1>6, <2>1, <2>2 DEF IInv, AloneInv, Gets
<1>12. QuitInv'
  <2>1. \A d \in Dials : InFlight(d)' => InFlight(d)
    BY <1>1, <1>4 DEF Gets, InFlight, Over
  <2>2. QED
    BY <1>1, <1>4, <1>5, <1>6, <2>1 DEF IInv, QuitInv, Excused, Gets
<1>13. CurrentInv'
  <2>1. SUFFICES ASSUME "overlap" \notin Faults
                 PROVE  CurrentInv'
    BY DEF CurrentInv
  <2>2. \A d \in Dials : InFlight(d)' => InFlight(d)
    BY <1>1, <1>4 DEF Gets, InFlight, Over
  <2>3. InFlight(c)
    BY <1>1 DEF InFlight, Over
  <2>4. QED
    BY <1>1, <1>2, <1>3, <1>4, <1>5, <2>1, <2>2, <2>3 DEF IInv, CurrentInv, Gets
<1>14. HeldInv'
  <2>1. \A d \in Dials : Alive(d) => ~Exited(d)
    BY DEF Alive, Exited
  <2>2. \A d \in Dials : dial[d].language \in Language
    BY <1>1 DEF TypeOK, DialRecord
  <2>3. Alive(c)' => FALSE
    BY <1>1 DEF IInv, DialInv, Before, Alive
  <2>4. QED
    BY <1>1, <1>4, <1>5, <2>1, <2>2, <2>3 DEF IInv, HeldInv, NoServerIsLost, Gets, Alive
<1>15. ServedInv'
  BY <1>1, <1>3, <1>4 DEF IInv, ServedInv, SettingsTakeEffect, ServedAsAsked, Gets
<1>16. QED
  BY <1>7, <1>8, <1>9, <1>10, <1>11, <1>12, <1>13, <1>14, <1>15 DEF IInv

LEMMA StartKeeps ==
    ASSUME IInv, NEW c \in Dials, Start(c)
    PROVE  IInv'
<1>1. /\ TypeOK /\ dial[c].at = "start" /\ window.at # "gone" /\ dial[c] \in DialRecord
      /\ process[c] \in ProcessRecord
      /\ UNCHANGED <<settings, python, venv, servers, window, updates>>
  BY DEF IInv, TypeOK, Start, At
<1>2. CASE Goto(c, "failed") /\ process' = process
  <2>1. Moves(c, "failed") /\ SameCopy(c) /\ "failed" \in Places
    BY <1>1, <1>2, Goes DEF Places, Over
  <2>2. Progress /\ \A d \in Dials : Alive(d)' => Alive(d)
    BY <1>1, <1>2, NothingMoves DEF Alive
  <2>3. QED
    BY <1>1, <2>1, <2>2, MovesKeeps DEF TypeOK, Over, Before, Starting
<1>3. CASE /\ Goto(c, "wait")
           /\ process' = [process EXCEPT ![c].at = "loading", ![c].settings = dial[c].copied,
                                         ![c].python = dial[c].python]
  <2>1. Moves(c, "wait") /\ SameCopy(c)
    BY <1>1, <1>3, Goes DEF Places, Over
  <2>2. process[c].at = "none" /\ process[c].told = "nothing"
    BY <1>1 DEF IInv, DialInv, Before
  <2>3. [process[c] EXCEPT !.at = "loading", !.settings = dial[c].copied,
                           !.python = dial[c].python] \in ProcessRecord
    BY <1>1 DEF ProcessRecord, DialRecord
  <2>4. /\ process'[c] = [process[c] EXCEPT !.at = "loading", !.settings = dial[c].copied,
                                            !.python = dial[c].python]
        /\ \A d \in Dials : d # c => process'[d] = process[d]
    BY <1>1, <1>3 DEF TypeOK
  <2>5. /\ process' \in [Dials -> ProcessRecord]
        /\ process'[c].at = "loading" /\ process'[c].settings = dial[c].copied
        /\ process'[c].told = "nothing"
    BY <1>1, <1>3, <2>2, <2>3, <2>4 DEF TypeOK, ProcessRecord
  <2>6. \A k \in Language : servers[k] # Nobody => servers[k] \in Dials /\ servers[k] # c
    BY <1>1, <2>2 DEF IInv, TypeOK, MapInv
  <2>7. \A d \in Dials : dial[d].server # Nobody => dial[d].server \in Dials /\ dial[d].server # c
    BY <1>1, <2>2 DEF IInv, TypeOK, ServerInv, DialRecord
  <2>8. TypeOK'
    BY <1>1, <2>1, <2>5 DEF TypeOK, Moves
  <2>9. DialInv'
    <3>1. \A d \in Dials : d # c =>
            /\ dial'[d].at = dial[d].at /\ dial'[d].copied = dial[d].copied
            /\ dial'[d].asked = dial[d].asked /\ process'[d] = process[d]
      BY <2>1, <2>4 DEF Moves
    <3>2. /\ dial'[c].at = "wait" /\ dial'[c].copied = dial[c].copied
          /\ dial'[c].asked = dial[c].asked
      BY <2>1 DEF Moves, SameCopy
    <3>3. ~dial[c].asked.remote
      BY <1>1 DEF IInv, DialInv, Over
    <3>4. QED
      BY <2>5, <3>1, <3>2, <3>3 DEF IInv, DialInv, Before, Starting
  <2>10. ServerInv'
    BY <1>1, <2>1, <2>4, <2>7 DEF IInv, ServerInv, Moves, SameCopy, Settled
  <2>11. MapInv' /\ WindowInv'
    <3>1. window.todo \subseteq Dials /\ c \notin window.todo
      BY <1>1 DEF IInv, TypeOK, Window, WindowInv, Settled
    <3>2. window.at = "waiting" => window.server # c /\ window.server \in Dials
      BY <1>1, <3>1 DEF IInv, WindowInv
    <3>3. QED
      BY <1>1, <2>1, <2>4, <2>6, <3>1, <3>2 DEF IInv, MapInv, WindowInv, Moves
  <2>12. AloneInv'
    <3>1. \A d \in Dials : /\ InFlight(d)' => InFlight(d)
                           /\ dial[d].language \in Language
      BY <1>1, <2>1 DEF InFlight, Over, Moves, TypeOK, DialRecord
    <3>2. \A d \in Dials : dial'[d].at \in {"start", "wait", "store"} =>
                               dial[d].at \in {"start", "wait", "store"}
      BY <1>1, <2>1 DEF Moves
    <3>3. QED
      BY <1>1, <2>1, <2>6, <3>1, <3>2 DEF IInv, AloneInv, Moves
  <2>13. QuitInv'
    BY <1>1, <2>1, <2>6 DEF IInv, QuitInv, Excused, InFlight, Over, Moves
  <2>14. CurrentInv'
    <3>1. SUFFICES ASSUME "overlap" \notin Faults
                   PROVE  CurrentInv'
      BY DEF CurrentInv
    <3>2. /\ \A d \in Dials : InFlight(d)' => InFlight(d)
          /\ \A d \in Dials : dial'[d].at = "connect" => dial[d].at = "connect"
          /\ \A d \in Dials : dial[d].at = "connect" => dial[d].server # Nobody
      BY <1>1, <2>1 DEF Moves, InFlight, Over, IInv, ServerInv
    <3>3. QED
      BY <1>1, <2>1, <2>4, <2>6, <2>7, <3>1, <3>2 DEF IInv, CurrentInv, Moves, SameCopy
  <2>15. HeldInv'
    BY <1>1, <2>1, <2>4 DEF IInv, HeldInv, NoServerIsLost, Alive, Moves
  <2>16. ServedInv'
    <3>1. \A d \in Dials : ServedAsAsked(d) => ServedAsAsked(d)'
      <4>1. SUFFICES ASSUME NEW d \in Dials, ServedAsAsked(d),
                            dial'[d].at = "open", dial'[d].server # Nobody
                     PROVE  [process'[dial'[d].server].settings EXCEPT !.remote = FALSE]
                                = dial'[d].asked
        BY DEF ServedAsAsked
      <4>2. /\ dial[d].at = "open" /\ dial'[d].server = dial[d].server
            /\ dial'[d].asked = dial[d].asked
        BY <2>1, <4>1 DEF Moves, SameCopy
      <4>3. process'[dial[d].server] = process[dial[d].server]
        BY <2>4, <2>7, <4>1, <4>2
      <4>4. QED
        BY <4>1, <4>2, <4>3 DEF ServedAsAsked
    <3>2. QED
      BY <2>1, <3>1 DEF IInv, ServedInv, SettingsTakeEffect, Moves
  <2>17. QED
    BY <2>8, <2>9, <2>10, <2>11, <2>12, <2>13, <2>14, <2>15, <2>16 DEF IInv
<1>4. QED
  BY <1>2, <1>3 DEF Start

LEMMA StoreKeeps ==
    ASSUME IInv, NEW c \in Dials, Store(c)
    PROVE  IInv'
<1> DEFINE l == dial[c].language
<1>1. /\ TypeOK /\ dial[c].at = "store" /\ window.at # "gone" /\ dial[c] \in DialRecord
      /\ l \in Language
      /\ UNCHANGED <<settings, python, venv, process, window, updates>>
      /\ servers' = [servers EXCEPT ![l] = c]
      /\ dial' = [dial EXCEPT ![c].at = "connect", ![c].server = c]
  BY DEF IInv, TypeOK, DialRecord, Store, At
<1>2. process[c].at # "none" /\ process[c].settings = dial[c].copied /\ ~dial[c].asked.remote
  BY <1>1 DEF IInv, DialInv, Starting, Over
<1>3. InFlight(c) /\ c # Nobody
  BY <1>1, DialsAreNumbers DEF InFlight, Over
<1>4. Gets(c, "connect", c)
  BY <1>1, DialGets DEF Places
<1>5. /\ servers' \in [Language -> Dials \cup {Nobody}] /\ servers'[l] = c
      /\ \A k \in Language : k # l => servers'[k] = servers[k]
  BY <1>1 DEF TypeOK
<1>6. \A k \in Language : servers[k] # Nobody =>
          servers[k] \in Dials /\ servers[k] # c /\ process[servers[k]].at # "none"
  BY <1>1 DEF IInv, TypeOK, MapInv, Settled
<1>7. \A d \in Dials : (InFlight(d)' <=> InFlight(d)) /\ dial[d].language \in Language
  BY <1>1, <1>3, <1>4 DEF Gets, InFlight, Over, TypeOK, DialRecord
<1>8. TypeOK'
  BY <1>1, <1>4, <1>5 DEF TypeOK, Gets
<1>9. DialInv'
  BY <1>1, <1>2, <1>4 DEF IInv, DialInv, Gets, Before, Starting, Over
<1>10. ServerInv'
  BY <1>1, <1>2, <1>3, <1>4 DEF IInv, ServerInv, Gets, Settled
<1>11. MapInv' /\ WindowInv'
  <2>1. window.todo \subseteq Dials /\ c \notin window.todo
    BY <1>1 DEF IInv, TypeOK, Window, WindowInv, Settled
  <2>2. MapInv'
    BY <1>1, <1>2, <1>4, <1>5, <1>6 DEF IInv, MapInv, Gets, Settled
  <2>3. WindowInv'
    BY <1>1, <1>4, <2>1 DEF IInv, WindowInv, Gets
  <2>4. QED
    BY <2>2, <2>3
<1>12. AloneInv'
  <2>1. \A d \in Dials : d # c /\ InFlight(d) => ~dial[c].alone
    BY <1>3 DEF IInv, AloneInv
  <2>2. \A d \in Dials : dial[d].at \in {"start", "wait", "store"} => InFlight(d)
    BY DEF InFlight, Over
  <2>3. QED
    BY <1>4, <1>5, <1>6, <1>7, <2>1, <2>2 DEF IInv, AloneInv, Gets
<1>13. QuitInv'
  BY <1>1, <1>3, <1>4, <1>5, <1>6, <1>7 DEF IInv, QuitInv, Excused, Gets
<1>14. CurrentInv'
  <2>1. SUFFICES ASSUME "overlap" \notin Faults
                 PROVE  CurrentInv'
    BY DEF CurrentInv
  <2>2. ForManager(process[c].settings) = ForManager(settings)
    BY <1>1, <1>2, <2>1 DEF IInv, CurrentInv
  <2>3. QED
    BY <1>1, <1>4, <1>5, <1>7, <2>1, <2>2 DEF IInv, CurrentInv, Gets
<1>15. HeldInv'
  <2>1. \A d \in Dials : dial[d].at = "store" /\ d # c => dial'[d].at = "store"
    BY <1>4 DEF Gets
  <2>2. servers[l] # Nobody => ~dial[servers[l]].alone
    BY <1>1 DEF IInv, AloneInv
  <2>3. \A d \in Dials : servers[l] = d => ~dial[d].alone
    BY <2>2, DialsAreNumbers
  <2>4. SUFFICES ASSUME NEW d \in Dials,
                        dial'[d].alone, Alive(d)', process'[d].told = "nothing"
                 PROVE  \/ d \in window.todo
                        \/ servers'[dial'[d].language] = d
                        \/ dial'[d].at \in {"wait", "store", "stop"}
    BY <1>1 DEF HeldInv, NoServerIsLost
  <2>5. dial[d].alone /\ Alive(d) /\ process[d].told = "nothing" /\ dial'[d].language = dial[d].language
    BY <1>1, <1>4, <2>4 DEF Gets, Alive
  <2>6. CASE d = c
    BY <1>4, <1>5, <2>6 DEF Gets
  <2>7. CASE d # c
    <3>1. \/ d \in window.todo
          \/ servers[dial[d].language] = d
          \/ dial[d].at \in {"wait", "store", "stop"}
      BY <2>4, <2>5 DEF IInv, HeldInv, NoServerIsLost
    <3>2. QED
      BY <1>4, <1>5, <1>7, <2>3, <2>5, <2>7, <3>1 DEF Gets
  <2>8. QED
    BY <2>6, <2>7
<1>16. ServedInv'
  BY <1>1, <1>4 DEF IInv, ServedInv, SettingsTakeEffect, ServedAsAsked, Gets
<1>17. QED
  BY <1>8, <1>9, <1>10, <1>11, <1>12, <1>13, <1>14, <1>15, <1>16 DEF IInv

\* With a port of its own a server is answered for by nobody else.
LEMMA OwnPort ==
    ASSUME TypeOK, FreePorts, NEW c \in Dials
    PROVE  Listening(Port(c)) \subseteq {c}
  BY DEF TypeOK, FreePorts, ProcessRecord, Listening, Port

LEMMA OpenKeeps ==
    ASSUME IInv, NEW c \in Dials, NEW d \in Listening(Port(dial[c].server)),
           dial[c].at = "connect", ~dial[c].cancelled,
           dial' = [dial EXCEPT ![c].at = "open", ![c].server = d],
           UNCHANGED <<settings, python, venv, servers, process, window, updates>>
    PROVE  IInv'
<1>1. /\ TypeOK /\ dial[c] \in DialRecord /\ d \in Dials /\ process[d].at # "none"
      /\ dial[c].server \in Dials
  BY DEF IInv, TypeOK, DialRecord, ServerInv, Listening
<1>2. Gets(c, "open", d)
  BY <1>1, DialGets DEF Places, Over
<1>3. \A e \in Dials : (InFlight(e)' => InFlight(e)) /\ dial[e].language \in Language
  BY <1>1, <1>2 DEF Gets, InFlight, Over, TypeOK, DialRecord
<1>4. \A k \in Language : servers[k] # Nobody => servers[k] \in Dials
  BY <1>1 DEF TypeOK
<1>5. TypeOK' /\ DialInv' /\ ServerInv'
  <2>1. TypeOK'
    BY <1>1, <1>2 DEF TypeOK, Gets
  <2>2. DialInv'
    BY <1>2 DEF IInv, DialInv, Gets, Before, Starting, Over
  <2>3. ServerInv'
    BY <1>1, <1>2 DEF IInv, ServerInv, Gets, Settled
  <2>4. QED
    BY <2>1, <2>2, <2>3
<1>6. MapInv' /\ WindowInv'
  <2>1. \A e \in Dials : dial[e].at \in Settled => dial'[e].at \in Settled
    BY <1>2 DEF Gets, Settled
  <2>2. window.todo \subseteq Dials
    BY <1>1 DEF TypeOK, Window
  <2>3. QED
    BY <1>2, <1>4, <2>1, <2>2 DEF IInv, MapInv, WindowInv, Gets
<1>7. AloneInv' /\ QuitInv'
  <2>1. \A e \in Dials : dial'[e].at \in {"start", "wait", "store"} =>
                             dial[e].at \in {"start", "wait", "store"}
    BY <1>2 DEF Gets
  <2>2. QED
    BY <1>2, <1>3, <1>4, <2>1 DEF IInv, AloneInv, QuitInv, Excused, Gets
<1>8. CurrentInv'
  BY <1>2, <1>3 DEF IInv, CurrentInv, Gets
<1>9. HeldInv'
  BY <1>2 DEF IInv, HeldInv, NoServerIsLost, Alive, Gets
<1>10. ServedInv'
  <2>1. SUFFICES ASSUME "overlap" \notin Faults, FreePorts, NEW e \in Dials, dial'[e].calm
                 PROVE  ServedAsAsked(e)'
    BY DEF ServedInv, SettingsTakeEffect
  <2>2. CASE e # c
    BY <1>2, <2>1, <2>2 DEF IInv, ServedInv, SettingsTakeEffect, ServedAsAsked, Gets
  <2>3. CASE e = c
    <3>1. d = dial[c].server
      BY <1>1, <2>1, OwnPort
    <3>2. dial[c].calm /\ InFlight(c)
      BY <1>2, <2>1, <2>3 DEF Gets, InFlight, Over
    <3>3. ForManager(process[d].settings) = ForManager(settings)
      BY <2>1, <3>1, <3>2 DEF IInv, CurrentInv
    <3>4. settings = dial[c].asked
      BY <2>1, <3>2 DEF IInv, CurrentInv
    <3>5. ~dial[c].asked.remote
      BY DEF IInv, DialInv, Over
    <3>6. ForManager(settings) = settings
      <4>1. /\ settings = [remote |-> settings.remote, runtime |-> settings.runtime,
                           model |-> settings.model, port |-> settings.port]
            /\ settings.remote \in BOOLEAN
        BY <1>1, SettingsAssumption DEF TypeOK
      <4>2. QED
        BY <3>4, <3>5, <4>1 DEF ForManager
    <3>7. QED
      BY <1>2, <2>3, <3>3, <3>4, <3>6 DEF ServedAsAsked, ForManager, Gets
  <2>4. QED
    BY <2>2, <2>3
<1>11. QED
  BY <1>5, <1>6, <1>7, <1>8, <1>9, <1>10 DEF IInv

LEMMA ConnectKeeps ==
    ASSUME IInv, NEW c \in Dials, Connect(c)
    PROVE  IInv'
<1>1. /\ TypeOK /\ dial[c].at = "connect"
      /\ UNCHANGED <<settings, python, venv, servers, process, window, updates>>
  BY DEF IInv, Connect, At
<1>2. CASE Fails(c)
  <2>1. Moves(c, "failed") /\ SameCopy(c) /\ "failed" \in Places
    BY <1>1, <1>2, Goes DEF Fails, Places, Over
  <2>2. Progress /\ \A d \in Dials : Alive(d)' => Alive(d)
    BY <1>1, NothingMoves DEF Alive
  <2>3. QED
    BY <1>1, <2>1, <2>2, MovesKeeps DEF TypeOK, Over, Before, Starting
<1>3. CASE /\ ~dial[c].cancelled
           /\ \E d \in Listening(Port(dial[c].server)) :
                 dial' = [dial EXCEPT ![c].at = "open", ![c].server = d]
  BY <1>1, <1>3, OpenKeeps
<1>4. QED
  BY <1>2, <1>3 DEF Connect

LEMMA DialStepKeeps ==
    ASSUME IInv, NEW c \in Dials, DialStep(c)
    PROVE  IInv'
  BY RemoteAnswersKeeps, PrepareKeeps, BuildEnvironmentKeeps, RuntimeKeeps, ChooseKeeps, StartKeeps,
     WaitKeeps, StopStartedKeeps, StartedStopsKeeps, StoreKeeps, ConnectKeeps DEF DialStep

-----------------------------------------------------------------------------
(* Cancellation and the window's goroutine.                                 *)

\* Some dials under way are cancelled, and nothing else changes of them.
Cancels == /\ dial' \in [Dials -> DialRecord]
           /\ \A d \in Dials :
                /\ dial'[d].at = dial[d].at /\ dial'[d].language = dial[d].language
                /\ dial'[d].asked = dial[d].asked /\ dial'[d].copied = dial[d].copied
                /\ dial'[d].server = dial[d].server
                /\ dial'[d].calm = dial[d].calm /\ dial'[d].alone = dial[d].alone
                /\ dial'[d].late = dial[d].late
                /\ dial[d].cancelled => dial'[d].cancelled

\* Whatever the window's goroutine does, the dials go nowhere, and their processes
\* are stopped at most.
LEMMA WindowKeeps ==
    ASSUME IInv, Cancels, Progress, \A d \in Dials : Alive(d)' => Alive(d),
           settings' \in Settings, python' \in Interpreter, venv' = venv, updates' \in Nat,
           servers' \in [Language -> Dials \cup {Nobody}],
           \A l \in Language : servers'[l] # Nobody => servers'[l] = servers[l]
    PROVE  /\ window' \in Window => TypeOK'
           /\ DialInv' /\ ServerInv' /\ MapInv' /\ AloneInv' /\ ServedInv'
           /\ \A d \in Dials : InFlight(d)' <=> InFlight(d)
<1>1. \A l \in Language : servers[l] # Nobody => servers[l] \in Dials
  BY DEF IInv, TypeOK
<1>2. \A d \in Dials : dial[d].server # Nobody => dial[d].server \in Dials
  BY DEF IInv, TypeOK, DialRecord
<1>3. \A d \in Dials : (InFlight(d)' <=> InFlight(d)) /\ dial[d].language \in Language
  BY DEF Cancels, InFlight, IInv, TypeOK, DialRecord
<1>4. window' \in Window => TypeOK'
  BY DEF IInv, TypeOK, Cancels, Progress
<1>5. DialInv'
  BY DEF IInv, DialInv, Cancels, Progress
<1>6. ServerInv'
  BY <1>2 DEF IInv, ServerInv, Cancels, Progress
<1>7. MapInv'
  BY <1>1 DEF IInv, MapInv, Cancels, Progress
<1>8. AloneInv'
  BY <1>1, <1>3 DEF IInv, AloneInv, Cancels
<1>9. ServedInv'
  <2>1. \A d \in Dials : ServedAsAsked(d) => ServedAsAsked(d)'
    <3>1. SUFFICES ASSUME NEW d \in Dials, ServedAsAsked(d),
                          dial'[d].at = "open", dial'[d].server # Nobody
                   PROVE  [process'[dial'[d].server].settings EXCEPT !.remote = FALSE]
                              = dial'[d].asked
      BY DEF ServedAsAsked
    <3>2. /\ dial[d].at = "open" /\ dial'[d].server = dial[d].server
          /\ dial'[d].asked = dial[d].asked
      BY <3>1 DEF Cancels
    <3>3. process'[dial[d].server].settings = process[dial[d].server].settings
      BY <1>2, <3>1, <3>2 DEF Progress
    <3>4. QED
      BY <3>1, <3>2, <3>3 DEF ServedAsAsked
  <2>2. QED
    BY <2>1 DEF IInv, ServedInv, SettingsTakeEffect, Cancels
<1>10. QED
  BY <1>3, <1>4, <1>5, <1>6, <1>7, <1>8, <1>9

LEMMA NobodyCancelled ==
    ASSUME TypeOK, dial' = dial
    PROVE  Cancels
  BY DEF TypeOK, Cancels

LEMMA CancelKeeps ==
    ASSUME IInv, NEW c \in Dials, Cancel(c)
    PROVE  IInv'
<1>1. /\ TypeOK /\ dial' = [dial EXCEPT ![c].cancelled = TRUE]
      /\ UNCHANGED <<settings, python, venv, servers, process, window, updates>>
  BY DEF IInv, Cancel
<1>2. Cancels
  <2> DEFINE before == dial[c]
  <2>1. /\ dial'[c] = [before EXCEPT !.cancelled = TRUE]
        /\ \A d \in Dials : d # c => dial'[d] = dial[d]
        /\ before \in DialRecord /\ before = dial[c]
    BY <1>1 DEF TypeOK
  <2> HIDE DEF before
  <2>2. [before EXCEPT !.cancelled = TRUE] \in DialRecord
    BY <2>1 DEF DialRecord
  <2>3. dial' \in [Dials -> DialRecord]
    BY <1>1, <2>1, <2>2 DEF TypeOK
  <2>4. /\ dial'[c].at = before.at /\ dial'[c].language = before.language
        /\ dial'[c].asked = before.asked /\ dial'[c].copied = before.copied
    BY <2>1 DEF DialRecord
  <2>5. /\ dial'[c].server = before.server /\ dial'[c].calm = before.calm
        /\ dial'[c].alone = before.alone /\ dial'[c].late = before.late /\ dial'[c].cancelled
    BY <2>1 DEF DialRecord
  <2>6. QED
    BY <2>1, <2>3, <2>4, <2>5 DEF Cancels
<1>3. Progress /\ \A d \in Dials : Alive(d)' => Alive(d)
  BY <1>1, NothingMoves DEF Alive
<1>4. /\ TypeOK' /\ DialInv' /\ ServerInv' /\ MapInv' /\ AloneInv' /\ ServedInv'
      /\ \A d \in Dials : InFlight(d)' <=> InFlight(d)
  BY <1>1, <1>2, <1>3, WindowKeeps DEF TypeOK
<1>5. WindowInv'
  BY <1>1, <1>2 DEF IInv, TypeOK, Window, WindowInv, Cancels
<1>6. QuitInv' /\ HeldInv'
  <2>1. \A l \in Language : servers[l] # Nobody => servers[l] \in Dials
    BY <1>1 DEF TypeOK
  <2>2. QED
    BY <1>1, <1>2, <1>4, <2>1 DEF IInv, QuitInv, Excused, HeldInv, NoServerIsLost, Alive, Cancels
<1>7. CurrentInv'
  BY <1>1, <1>2, <1>4 DEF IInv, CurrentInv, Cancels
<1>8. QED
  BY <1>4, <1>5, <1>6, <1>7 DEF IInv

LEMMA QuitKeeps ==
    ASSUME IInv, Quit
    PROVE  IInv'
<1>1. /\ TypeOK /\ window.at = "idle" /\ window \in Window
      /\ window' = [window EXCEPT !.at = "closing", !.quitting = TRUE]
      /\ UNCHANGED <<settings, python, venv, servers, process, updates>>
  BY DEF IInv, TypeOK, Quit
<1>2. \A d \in Dials : dial'[d] = [dial[d] EXCEPT !.cancelled = @ \/ InFlight(d)]
  BY DEF Quit
<1>3. Cancels /\ \A d \in Dials : InFlight(d) => dial'[d].cancelled
  <2>1. SUFFICES ASSUME NEW d \in Dials
                 PROVE  /\ dial'[d] \in DialRecord
                        /\ dial'[d].at = dial[d].at /\ dial'[d].language = dial[d].language
                        /\ dial'[d].asked = dial[d].asked /\ dial'[d].copied = dial[d].copied
                        /\ dial'[d].server = dial[d].server
                        /\ dial'[d].calm = dial[d].calm /\ dial'[d].alone = dial[d].alone
                        /\ dial'[d].late = dial[d].late
                        /\ dial[d].cancelled => dial'[d].cancelled
                        /\ InFlight(d) => dial'[d].cancelled
    <3>1. dial' \in [Dials -> {dial'[d] : d \in Dials}]
      BY DEF Quit
    <3>2. QED
      BY <2>1, <3>1 DEF Cancels
  <2> DEFINE before == dial[d]
             now == dial[d].cancelled \/ InFlight(d)
  <2>2. dial'[d] = [before EXCEPT !.cancelled = now] /\ before \in DialRecord /\ before = dial[d]
    BY <1>1, <1>2 DEF TypeOK
  <2>3. now \in BOOLEAN /\ (before.cancelled => now) /\ (InFlight(d) => now)
    OBVIOUS
  <2> HIDE DEF before, now
  <2>4. dial'[d] \in DialRecord
    BY <2>2, <2>3 DEF DialRecord
  <2>5. /\ dial'[d].at = before.at /\ dial'[d].language = before.language
        /\ dial'[d].asked = before.asked /\ dial'[d].copied = before.copied
    BY <2>2 DEF DialRecord
  <2>6. /\ dial'[d].server = before.server /\ dial'[d].calm = before.calm
        /\ dial'[d].alone = before.alone /\ dial'[d].late = before.late
        /\ dial'[d].cancelled = now
    BY <2>2 DEF DialRecord
  <2>7. QED
    BY <2>2, <2>3, <2>4, <2>5, <2>6
<1>4. Progress /\ \A d \in Dials : Alive(d)' => Alive(d)
  BY <1>1, NothingMoves DEF Alive
<1>5. /\ window' \in Window /\ window'.at = "closing" /\ window'.quitting
      /\ window'.todo = window.todo /\ window'.server = window.server
  BY <1>1 DEF Window
<1>6. /\ TypeOK' /\ DialInv' /\ ServerInv' /\ MapInv' /\ AloneInv' /\ ServedInv'
      /\ \A d \in Dials : InFlight(d)' <=> InFlight(d)
  BY <1>1, <1>3, <1>4, <1>5, WindowKeeps DEF TypeOK
<1>7. WindowInv'
  BY <1>1, <1>5 DEF IInv, WindowInv
<1>8. QuitInv'
  BY <1>3, <1>5, <1>6 DEF QuitInv, Excused
<1>9. CurrentInv'
  BY <1>1, <1>3, <1>5, <1>6 DEF IInv, CurrentInv, InFlight, Over, Cancels
<1>10. HeldInv'
  BY <1>1, <1>3, <1>5 DEF IInv, HeldInv, NoServerIsLost, Alive, Cancels
<1>11. QED
  BY <1>6, <1>7, <1>8, <1>9, <1>10 DEF IInv

LEMMA UpdateKeeps ==
    ASSUME IInv, NEW s \in Settings, Update(s)
    PROVE  IInv'
<1>1. /\ TypeOK /\ window.at = "idle" /\ window \in Window /\ settings \in Settings
      /\ settings' = s /\ updates' = updates + 1 /\ updates \in Nat
      /\ python' \in Interpreter
      /\ UNCHANGED <<venv, servers, dial, process>>
      /\ FormOpen
  BY DEF IInv, TypeOK, Update, DropStaleInterpreter, Interpreter
<1> DEFINE there == IF SameForManager(s) THEN "idle" ELSE "stopAll"
<1>2. window' = [window EXCEPT !.at = there] /\ there \in {"idle", "stopAll"}
  BY DEF Update
<1>3. SameForManager(s) => ForManager(s) = ForManager(settings)
  <2>1. \A t \in {s, settings} : t = [remote |-> t.remote, runtime |-> t.runtime,
                                      model |-> t.model, port |-> t.port]
    BY <1>1, SettingsAssumption
  <2>2. QED
    BY <2>1 DEF SameForManager, ForManager
<1>4. there = "idle" => ForManager(settings') = ForManager(settings)
  BY <1>1, <1>3
<1> HIDE DEF there
<1>5. /\ window' \in Window /\ window'.at = there /\ window'.quitting = window.quitting
      /\ window'.todo = window.todo /\ window'.server = window.server
  BY <1>1, <1>2 DEF Window
<1>6. Cancels /\ Progress /\ \A d \in Dials : Alive(d)' => Alive(d)
  BY <1>1, NothingMoves, NobodyCancelled DEF Alive
<1>7. /\ TypeOK' /\ DialInv' /\ ServerInv' /\ MapInv' /\ AloneInv' /\ ServedInv'
      /\ \A d \in Dials : InFlight(d)' <=> InFlight(d)
  BY <1>1, <1>5, <1>6, WindowKeeps DEF TypeOK
<1>8. ~window.quitting
  BY <1>1 DEF IInv, WindowInv
<1>9. WindowInv' /\ QuitInv' /\ HeldInv'
  BY <1>1, <1>2, <1>5, <1>8 DEF IInv, WindowInv, QuitInv, Excused, HeldInv, NoServerIsLost, Alive
<1>10. CurrentInv'
  <2>1. SUFFICES ASSUME "overlap" \notin Faults
                 PROVE  CurrentInv'
    BY DEF CurrentInv
  <2>2. \A d \in Dials : InFlight(d) => dial[d].cancelled /\ dial[d].at # "store"
    BY <1>1, <2>1 DEF FormOpen
  <2>3. \A d \in Dials : dial[d].at \in {"start", "wait", "store", "connect"} => InFlight(d)
    BY DEF InFlight, Over
  <2>4. QED
    BY <1>1, <1>2, <1>4, <1>5, <1>7, <2>1, <2>2, <2>3 DEF IInv, CurrentInv
<1>11. QED
  BY <1>7, <1>9, <1>10 DEF IInv

LEMMA ShutdownKeeps ==
    ASSUME IInv, Shutdown
    PROVE  IInv'
<1>1. /\ TypeOK /\ window.at = "closing" /\ window \in Window
      /\ window' = [window EXCEPT !.at = "stopAll"]
      /\ UNCHANGED <<settings, python, venv, servers, dial, process, updates>>
  BY DEF IInv, TypeOK, Shutdown
<1>2. /\ window' \in Window /\ window'.at = "stopAll" /\ window'.quitting = window.quitting
      /\ window'.todo = window.todo
  BY <1>1 DEF Window
<1>3. Cancels /\ Progress /\ \A d \in Dials : Alive(d)' => Alive(d)
  BY <1>1, NothingMoves, NobodyCancelled DEF Alive
<1>4. /\ TypeOK' /\ DialInv' /\ ServerInv' /\ MapInv' /\ AloneInv' /\ ServedInv'
      /\ \A d \in Dials : InFlight(d)' <=> InFlight(d)
  BY <1>1, <1>2, <1>3, WindowKeeps DEF TypeOK
<1>5. WindowInv' /\ QuitInv' /\ HeldInv'
  BY <1>1, <1>2, <1>4 DEF IInv, WindowInv, QuitInv, Excused, HeldInv, NoServerIsLost, Alive
<1>6. CurrentInv'
  BY <1>1, <1>2, <1>4 DEF IInv, CurrentInv
<1>7. QED
  BY <1>4, <1>5, <1>6 DEF IInv

LEMMA StopAllKeeps ==
    ASSUME IInv, StopAll
    PROVE  IInv'
<1> DEFINE stored == {servers[l] : l \in Language} \ {Nobody}
<1>1. /\ TypeOK /\ window.at = "stopAll" /\ window \in Window
      /\ window' = [window EXCEPT !.at = "stopping", !.failed = FALSE, !.todo = stored]
      /\ servers' = [l \in Language |-> Nobody]
      /\ UNCHANGED <<settings, python, venv, dial, process, updates>>
  BY DEF IInv, TypeOK, StopAll
<1>2. stored \subseteq Dials /\ \A d \in stored : dial[d].at \in Settled
  BY <1>1 DEF TypeOK, IInv, MapInv
<1>3. \A l \in Language : servers[l] # Nobody => servers[l] \in stored
  OBVIOUS
<1> HIDE DEF stored
<1>4. /\ window' \in Window /\ window'.at = "stopping" /\ window'.quitting = window.quitting
      /\ window'.todo = stored
  BY <1>1, <1>2 DEF Window
<1>5. Cancels /\ Progress /\ \A d \in Dials : Alive(d)' => Alive(d)
  BY <1>1, NothingMoves, NobodyCancelled DEF Alive
<1>6. /\ TypeOK' /\ DialInv' /\ ServerInv' /\ MapInv' /\ AloneInv' /\ ServedInv'
      /\ \A d \in Dials : InFlight(d)' <=> InFlight(d)
  BY <1>1, <1>4, <1>5, WindowKeeps DEF TypeOK
<1>7. WindowInv' /\ QuitInv'
  BY <1>1, <1>2, <1>4, <1>6 DEF IInv, WindowInv, QuitInv, Excused
<1>8. HeldInv'
  <2>1. \A d \in Dials : dial[d].language \in Language /\ d # Nobody
    BY <1>1, DialsAreNumbers DEF TypeOK, DialRecord
  <2>2. window.todo = {}
    BY <1>1 DEF IInv, WindowInv
  <2>3. QED
    BY <1>1, <1>3, <1>4, <2>1, <2>2 DEF IInv, HeldInv, NoServerIsLost, Alive
<1>9. CurrentInv'
  BY <1>1, <1>4, <1>6 DEF IInv, CurrentInv
<1>10. QED
  BY <1>6, <1>7, <1>8, <1>9 DEF IInv

\* What is left to stop: what had not been told to, or signalled in vain, stays.
LEMMA StoppingKeeps ==
    ASSUME IInv, Progress, \A d \in Dials : Alive(d)' => Alive(d),
           UNCHANGED <<settings, python, venv, servers, dial, updates>>,
           window.at \in {"stopping", "waiting"}, window'.at \in {"stopping", "waiting"},
           window' \in Window, window'.quitting = window.quitting,
           window'.todo \subseteq window.todo,
           \A d \in window.todo \ window'.todo : ~Alive(d)' \/ process'[d].told # "nothing",
           window'.at = "waiting" =>
               window'.server \in window'.todo /\ process'[window'.server].told # "nothing"
    PROVE  IInv'
<1>1. TypeOK /\ Cancels
  BY NobodyCancelled DEF IInv
<1>2. /\ TypeOK' /\ DialInv' /\ ServerInv' /\ MapInv' /\ AloneInv' /\ ServedInv'
      /\ \A d \in Dials : InFlight(d)' <=> InFlight(d)
  BY <1>1, WindowKeeps DEF TypeOK
<1>3. WindowInv' /\ QuitInv'
  BY <1>2 DEF IInv, WindowInv, QuitInv, Excused
<1>4. HeldInv'
  BY <1>1 DEF IInv, TypeOK, HeldInv, NoServerIsLost, Alive, Progress, ProcessRecord
<1>5. CurrentInv'
  <2>1. SUFFICES ASSUME "overlap" \notin Faults
                 PROVE  CurrentInv'
    BY DEF CurrentInv
  <2>2. \A d \in Dials : ForManager(process'[d].settings) = ForManager(process[d].settings)
    BY DEF Progress
  <2>3. \A l \in Language : servers[l] # Nobody => servers[l] \in Dials
    BY <1>1 DEF TypeOK
  <2>4. \A d \in Dials : dial[d].at = "connect" => dial[d].server \in Dials
    BY <1>1 DEF IInv, TypeOK, DialRecord, ServerInv
  <2>5. QED
    BY <1>2, <2>1, <2>2, <2>3, <2>4 DEF IInv, CurrentInv
<1>6. QED
  BY <1>2, <1>3, <1>4, <1>5 DEF IInv

LEMMA StopOneKeeps ==
    ASSUME IInv, NEW d \in Dials, StopOne(d)
    PROVE  IInv'
<1>1. /\ TypeOK /\ window.at = "stopping" /\ window \in Window /\ d \in window.todo
      /\ UNCHANGED <<settings, python, venv, servers, dial, updates>>
  BY DEF IInv, TypeOK, StopOne
<1>2. CASE /\ ~Alive(d) /\ process' = process
           /\ \E failed \in BOOLEAN :
                 window' = [window EXCEPT !.todo = @ \ {d}, !.failed = failed]
  <2>1. /\ window' \in Window /\ window'.at = "stopping" /\ window'.quitting = window.quitting
        /\ window'.todo = window.todo \ {d}
    BY <1>1, <1>2 DEF Window
  <2>2. Progress /\ (\A e \in Dials : Alive(e)' => Alive(e)) /\ ~Alive(d)'
    BY <1>1, <1>2, NothingMoves DEF Alive
  <2>3. QED
    BY <1>1, <2>1, <2>2, StoppingKeeps
<1>3. CASE Terminate(d) /\ window' = [window EXCEPT !.at = "waiting", !.server = d]
  <2>1. /\ window' \in Window /\ window'.at = "waiting" /\ window'.quitting = window.quitting
        /\ window'.todo = window.todo /\ window'.server = d
    BY <1>1, <1>3 DEF Window
  <2>2. process[d].at # "none"
    BY <1>3 DEF Terminate, Alive
  <2>3. Progress /\ process'[d].told = "terminate"
    BY <1>1, <1>3, <2>2, ProcessIsTold DEF Terminate
  <2>4. \A e \in Dials : Alive(e)' => Alive(e)
    BY <1>1, <1>3 DEF Terminate, Alive, TypeOK, ProcessRecord
  <2>5. QED
    BY <1>1, <2>1, <2>3, <2>4, StoppingKeeps
<1>4. CASE /\ AlreadyStopped(d) \/ CannotSignal(d)
           /\ window' = [window EXCEPT !.todo = @ \ {d}, !.failed = @ \/ CannotSignal(d)]
           /\ UNCHANGED process
  <2> DEFINE failed == window.failed \/ CannotSignal(d)
  <2>1. failed \in BOOLEAN /\ window' = [window EXCEPT !.todo = @ \ {d}, !.failed = failed]
    BY <1>4
  <2>2. ~Alive(d)
    BY <1>4 DEF AlreadyStopped, CannotSignal, Exited, Alive
  <2>3. QED
    BY <1>2, <1>4, <2>1, <2>2
<1>5. QED
  BY <1>3, <1>4 DEF StopOne

LEMMA OneStopsKeeps ==
    ASSUME IInv, OneStops
    PROVE  IInv'
<1> DEFINE d == window.server
<1>1. /\ TypeOK /\ window.at = "waiting" /\ window \in Window
      /\ UNCHANGED <<settings, python, venv, servers, dial, updates>>
  BY DEF IInv, TypeOK, OneStops
<1>2. d \in window.todo /\ d \in Dials /\ process[d].told # "nothing" /\ process[d].at # "none"
  BY <1>1 DEF IInv, WindowInv, DialInv, Window
<1> HIDE DEF d
<1>3. CASE /\ process' = process
           /\ \E failed \in BOOLEAN :
                 window' = [window EXCEPT !.at = "stopping", !.todo = @ \ {d},
                                          !.server = Nobody, !.failed = failed]
  <2> DEFINE rest == window.todo \ {d}
  <2>1. PICK failed \in BOOLEAN :
            window' = [window EXCEPT !.at = "stopping", !.todo = rest, !.server = Nobody,
                                     !.failed = failed]
    BY <1>3
  <2>2. rest \subseteq Dials
    BY <1>1 DEF Window
  <2> HIDE DEF rest
  <2>3. /\ window' \in Window /\ window'.at = "stopping" /\ window'.quitting = window.quitting
        /\ window'.todo = rest
    BY <1>1, <2>1, <2>2 DEF Window
  <2> USE DEF rest
  <2>4. Progress /\ (\A e \in Dials : Alive(e)' => Alive(e)) /\ process'[d].told # "nothing"
    BY <1>1, <1>2, <1>3, NothingMoves DEF Alive
  <2>5. QED
    BY <1>1, <2>3, <2>4, StoppingKeeps
<1>4. CASE Kill(d) /\ UNCHANGED window
  <2>1. Progress
    BY <1>1, <1>2, <1>4, ProcessIsTold DEF Kill
  <2>2. \A e \in Dials : Alive(e)' => Alive(e)
    BY <1>1, <1>2, <1>4 DEF Kill, Alive, TypeOK, ProcessRecord
  <2>3. QED
    BY <1>1, <1>4, <2>1, <2>2, ProgressKeeps
<1>5. CASE /\ UNCHANGED process
           /\ window' = [window EXCEPT !.at = "stopping", !.todo = @ \ {d}, !.server = Nobody,
                                       !.failed = @ \/ ~Exited(d)]
  <2> DEFINE failed == window.failed \/ ~Exited(d)
  <2>1. /\ failed \in BOOLEAN
        /\ window' = [window EXCEPT !.at = "stopping", !.todo = @ \ {d},
                                    !.server = Nobody, !.failed = failed]
    BY <1>5
  <2>2. QED
    BY <1>3, <1>5, <2>1
<1>6. QED
  BY <1>4, <1>5 DEF OneStops, d

LEMMA AllStoppedKeeps ==
    ASSUME IInv, AllStopped
    PROVE  IInv'
<1> DEFINE there == IF window.quitting THEN "gone" ELSE "idle"
<1>1. /\ TypeOK /\ window.at = "stopping" /\ window.todo = {} /\ window \in Window
      /\ window' = [window EXCEPT !.at = there]
      /\ UNCHANGED <<settings, python, venv, servers, dial, process, updates>>
  BY DEF IInv, TypeOK, AllStopped
<1>2. there \in {"gone", "idle"} /\ (there = "gone" <=> window.quitting)
  OBVIOUS
<1> HIDE DEF there
<1>3. /\ window' \in Window /\ window'.at = there /\ window'.quitting = window.quitting
      /\ window'.todo = {}
  BY <1>1, <1>2 DEF Window
<1>4. Cancels /\ Progress /\ \A d \in Dials : Alive(d)' => Alive(d)
  BY <1>1, NothingMoves, NobodyCancelled DEF Alive
<1>5. /\ TypeOK' /\ DialInv' /\ ServerInv' /\ MapInv' /\ AloneInv' /\ ServedInv'
      /\ \A d \in Dials : InFlight(d)' <=> InFlight(d)
  BY <1>1, <1>3, <1>4, WindowKeeps DEF TypeOK
<1>6. WindowInv' /\ QuitInv'
  BY <1>1, <1>2, <1>3, <1>5 DEF IInv, WindowInv, QuitInv, Excused
<1>7. HeldInv'
  <2>1. \A d \in Dials : dial[d].language \in Language /\ d # Nobody
    BY <1>1, DialsAreNumbers DEF TypeOK, DialRecord
  <2>2. \A d \in Dials : dial[d].at \in {"wait", "store", "stop"} => InFlight(d)
    BY DEF InFlight, Over
  <2>3. QED
    BY <1>1, <1>2, <1>3, <2>1, <2>2 DEF IInv, QuitInv, Excused, HeldInv, NoServerIsLost, Alive
<1>8. CurrentInv'
  BY <1>1, <1>2, <1>3, <1>5 DEF IInv, CurrentInv
<1>9. QED
  BY <1>5, <1>6, <1>7, <1>8 DEF IInv

-----------------------------------------------------------------------------
(* The theorems.                                                            *)

LEMMA InitHolds == Init => IInv
<1>1. SUFFICES ASSUME Init PROVE IInv
  OBVIOUS
<1>2. /\ settings \in Settings /\ FirstLanguage \in Language /\ NoRuntime \in Interpreter
      /\ "none" \in Places /\ Nobody \in Dials \cup {Nobody}
  BY <1>1, SettingsAssumption, LanguagesAssumption
     DEF Init, FirstLanguage, NoRuntime, Interpreter, Places, Over
<1>3. /\ \A c \in Dials : /\ dial[c].at = "none" /\ dial[c].server = Nobody
                          /\ process[c].at = "none" /\ process[c].told = "nothing"
      /\ \A l \in Language : servers[l] = Nobody
      /\ window.at = "idle" /\ window.todo = {} /\ window.quitting = FALSE
  BY <1>1 DEF Init
<1>4. TypeOK
  <2>1. [at |-> "none", language |-> FirstLanguage, asked |-> settings, copied |-> settings,
         python |-> NoRuntime, server |-> Nobody, cancelled |-> FALSE, calm |-> TRUE,
         alone |-> TRUE, late |-> FALSE] \in DialRecord
    BY <1>2 DEF DialRecord
  <2>2. [at |-> "none", settings |-> settings, python |-> NoRuntime, told |-> "nothing"]
            \in ProcessRecord
    BY <1>2 DEF ProcessRecord
  <2>3. window \in Window
    BY <1>1 DEF Init, Window
  <2>4. QED
    BY <1>1, <1>2, <2>1, <2>2, <2>3 DEF Init, TypeOK
<1>5. DialInv /\ ServerInv /\ MapInv /\ WindowInv
  BY <1>3 DEF DialInv, ServerInv, MapInv, WindowInv, Starting, Over
<1>6. AloneInv /\ QuitInv /\ CurrentInv
  BY <1>2, <1>3, <1>4 DEF AloneInv, QuitInv, Excused, CurrentInv, InFlight, Over, TypeOK, DialRecord
<1>7. HeldInv /\ ServedInv
  BY <1>3 DEF HeldInv, NoServerIsLost, Alive, ServedInv, SettingsTakeEffect, ServedAsAsked
<1>8. QED
  BY <1>4, <1>5, <1>6, <1>7 DEF IInv

LEMMA NextKeeps == IInv /\ [Next]_vars => IInv'
<1>1. SUFFICES ASSUME IInv, [Next]_vars PROVE IInv'
  OBVIOUS
<1>2. CASE \E c \in Dials : \/ Serves(c) \/ Dies(c) \/ NotesExit(c) \/ DialStep(c) \/ Cancel(c)
                            \/ \E l \in Language : Dial(c, l)
  BY <1>1, <1>2, ProcessKeeps, DialStepKeeps, CancelKeeps, DialKeeps
<1>3. CASE (\E s \in Settings : Update(s)) \/ Quit
  BY <1>1, <1>3, UpdateKeeps, QuitKeeps
<1>4. CASE WindowStep
  BY <1>1, <1>4, ShutdownKeeps, StopAllKeeps, StopOneKeeps, OneStopsKeeps, AllStoppedKeeps
     DEF WindowStep
<1>5. CASE UNCHANGED vars
  <2>1. TypeOK /\ UNCHANGED <<settings, python, venv, servers, dial, process, window, updates>>
    BY <1>1, <1>5 DEF IInv, vars
  <2>2. Progress /\ \A d \in Dials : Alive(d)' => Alive(d)
    BY <2>1, NothingMoves DEF Alive
  <2>3. QED
    BY <1>1, <2>1, <2>2, ProgressKeeps
<1>6. QED
  BY <1>1, <1>2, <1>3, <1>4, <1>5 DEF Next

(***************************************************************************)
(* The inductive invariant: where a dial, its process, the map and the     *)
(* window's goroutine stand with one another.                              *)
(* dialer.go: Dial; manager.go: Ensure, Update, StopAll; server.go: Stop.   *)
(***************************************************************************)
THEOREM Invariance == Spec => []IInv
  BY InitHolds, NextKeeps, PTL DEF Spec

(***************************************************************************)
(* Whatever dials, saves, crashes and cancellations overlap, a process     *)
(* that runs untold can be stopped; once the client has gone only one that *)
(* a dial cancelled by the quit, or asked for after it, has left behind.   *)
(* manager.go: Ensure, StopAll; app.go: Quit.                              *)
(***************************************************************************)
THEOREM ServersStayInReach == Spec => []NoServerIsLost
<1>1. IInv => NoServerIsLost
  BY DEF IInv, HeldInv
<1>2. QED
  BY <1>1, Invariance, PTL

(***************************************************************************)
(* With the form locked while the controller dials, as it is, and a free   *)
(* port for every server, a dictation is served as the settings ask.       *)
(* manager.go: Update, Ensure; dialer.go: Dial.                            *)
(***************************************************************************)
THEOREM SettingsAreServed ==
    ASSUME "overlap" \notin Faults, FreePorts
    PROVE  Spec => []SettingsTakeEffect
<1>1. IInv => SettingsTakeEffect
  BY DEF IInv, ServedInv
<1>2. QED
  BY <1>1, Invariance, PTL
=============================================================================
