---------------------------- MODULE LocalServers ----------------------------
(***************************************************************************)
(* client/internal/localserver and the local half of dial/dialer.go: the   *)
(* map of Python servers, the goroutines that dial (one call of Ensure     *)
(* each), the window's goroutine that changes settings and quits, and the  *)
(* processes themselves.  A dial starts at most one process, so a process  *)
(* has the number of its dial.  A step is what a goroutine does between    *)
(* two points where another may get in: m.mu released, a wait, a command.  *)
(***************************************************************************)
EXTENDS Naturals, FiniteSets

CONSTANTS
    Language,     \* protocol.Language
    Settings,     \* records: remote, runtime (PythonPath, ServerDir and Backend),
                  \* model, and port, which is 0 for a free one
    SavedSettings, \* those the client may start with
    OnDisk,       \* the models that exist
    MaxDials,     \* bound on the calls of Dial
    MaxUpdates,   \* bound on the calls of Update
    Faults        \* which of these happen: "crash" a server dies by itself,
                  \* "hang" one does not get ready in time, "stuck" one survives SIGKILL
                  \* for a while, "pip" the runtime cannot be made, "abort" a dial is
                  \* cancelled, "overlap" settings change under a dial

ASSUME SettingsAssumption ==
    /\ SavedSettings \subseteq Settings
    /\ \A s \in Settings :
        /\ s = [remote |-> s.remote, runtime |-> s.runtime, model |-> s.model, port |-> s.port]
        /\ s.remote \in BOOLEAN
ASSUME LanguagesAssumption == Language # {}
ASSUME DialsAssumption == {MaxDials, MaxUpdates} \subseteq Nat

Dials == 1 .. MaxDials
Nobody == 0
\* Nothing tells languages apart, so the first dial may as well be of this one.
FirstLanguage == CHOOSE l \in Language : TRUE
NoRuntime == "none"
Runtimes == {s.runtime : s \in Settings}

VARIABLES
    settings,   \* d.settings and m.settings
    python,     \* the runtime m.python and m.serverDir were resolved from
    venv,       \* how far the environment of each runtime is
    servers,    \* m.servers
    dial,       \* the dials; asked, calm, alone and late are history: the settings when
                \* it began, nobody saving then, no other dial under way with it, and
                \* asked for when the client was already quitting
    process,    \* the process of each dial
    window,     \* the goroutine that calls Update and Shutdown
    updates     \* the number of updates

vars == <<settings, python, venv, servers, dial, process, window, updates>>

Init ==
    /\ settings \in SavedSettings
    /\ python = NoRuntime
    /\ venv = [r \in Runtimes |-> "absent"]
    /\ servers = [l \in Language |-> Nobody]
    /\ dial = [c \in Dials |-> [at |-> "none", language |-> FirstLanguage,
                                asked |-> settings, copied |-> settings, python |-> NoRuntime,
                                server |-> Nobody, cancelled |-> FALSE, calm |-> TRUE,
                                alone |-> TRUE, late |-> FALSE]]
    /\ process = [c \in Dials |-> [at |-> "none", settings |-> settings,
                                   python |-> NoRuntime, told |-> "nothing"]]
    /\ window = [at |-> "idle", todo |-> {}, server |-> Nobody, failed |-> FALSE,
                 quitting |-> FALSE]
    /\ updates = 0

Over == {"none", "open", "failed"}
InFlight(c) == dial[c].at \notin Over
Alive(c) == process[c].at \in {"loading", "serving"}
Exited(c) == process[c].at = "exited"

\* The port a process was given: its own, or the fixed one of its language.
Port(c) == IF process[c].settings.port = 0 THEN <<0, c>>
                                           ELSE <<process[c].settings.port, dial[c].language>>
Listening(port) == {d \in Dials : process[d].at = "serving" /\ Port(d) = port}

-----------------------------------------------------------------------------
(* The Python process.                                                      *)

\* It binds its port once it has imported what its engine needs.
CanRun(c) == /\ process[c].python = process[c].settings.runtime
             /\ Listening(Port(c)) = {}

Serves(c) ==
    /\ process[c].at = "loading"
    /\ process[c].told = "nothing"
    /\ CanRun(c)
    /\ process' = [process EXCEPT ![c].at = "serving"]
    /\ UNCHANGED <<settings, python, venv, servers, dial, window, updates>>

Doomed(c) == \/ process[c].told # "nothing"
             \/ process[c].at = "loading" /\ ~CanRun(c)

\* The operating system has the exit status; the client does not know it yet.
Dies(c) ==
    /\ Alive(c)
    /\ Doomed(c) \/ "crash" \in Faults
    /\ process' = [process EXCEPT ![c].at = "reaped"]
    /\ UNCHANGED <<settings, python, venv, servers, dial, window, updates>>

-----------------------------------------------------------------------------
(* Server.  Start's goroutine waits for the process and notes its exit.     *)

NotesExit(c) ==
    /\ process[c].at = "reaped"
    /\ window.at # "gone"
    /\ process' = [process EXCEPT ![c].at = "exited"]
    /\ UNCHANGED <<settings, python, venv, servers, dial, window, updates>>

\* Stop, up to its first wait: nothing to do, a signal nobody receives, or SIGTERM.
AlreadyStopped(d) == Exited(d)
CannotSignal(d) == process[d].at = "reaped"
Terminate(d) == /\ Alive(d)
                /\ process' = [process EXCEPT ![d].told = "terminate"]

\* Mutant: wait for ever.
NeverKill(d) == FALSE /\ UNCHANGED process
\* After 15 seconds, or the caller's deadline.
Kill(d) == /\ process[d].told = "terminate"
           /\ ~Exited(d)
           /\ process' = [process EXCEPT ![d].told = "kill"]
GivesUpOn(d) == "stuck" \in Faults /\ process[d].told = "kill" /\ ~Exited(d)

-----------------------------------------------------------------------------
(* Dialer.Dial and Manager.Ensure.                                          *)

At(c, here) == dial[c].at = here /\ window.at # "gone"
Goto(c, there) == dial' = [dial EXCEPT ![c].at = there]
Fails(c) == Goto(c, "failed")

\* The controller dials only when no dial of its own is under way; a cancelled
\* one may still be winding up.
Dial(c, l) ==
    /\ At(c, "none")
    /\ \A d \in Dials : /\ d < c => dial[d].at # "none"
                        /\ InFlight(d) => dial[d].cancelled
    /\ c = 1 => l = FirstLanguage
    /\ LET others == {d \in Dials : InFlight(d)} IN
       dial' = [d \in Dials |->
                  IF d = c THEN [dial[c] EXCEPT
                                    !.at = IF settings.remote THEN "remote" ELSE "prepare",
                                    !.language = l, !.asked = settings,
                                    !.calm = window.at = "idle", !.alone = others = {},
                                    !.late = window.quitting]
                  ELSE [dial[d] EXCEPT !.alone = @ /\ d \notin others]]
    /\ UNCHANGED <<settings, python, venv, servers, process, window, updates>>

RemoteAnswers(c) ==
    /\ At(c, "remote")
    /\ Goto(c, "open") \/ Fails(c)
    /\ UNCHANGED <<settings, python, venv, servers, process, window, updates>>

Prepare(c) ==
    /\ At(c, "prepare")
    /\ dial' = [dial EXCEPT ![c].at = IF python = NoRuntime THEN "runtime" ELSE "choose",
                            ![c].copied = settings]
    /\ UNCHANGED <<settings, python, venv, servers, process, window, updates>>

\* python -m venv, then pip install; what was made stays for the next attempt.
BuildEnvironment(c) ==
    /\ At(c, "runtime")
    /\ ~dial[c].cancelled
    /\ LET r == dial[c].copied.runtime IN
       /\ venv[r] # "complete"
       /\ venv' = [venv EXCEPT ![r] = IF @ = "absent" THEN "bare" ELSE "complete"]
    /\ UNCHANGED <<settings, python, servers, dial, process, window, updates>>

NoSuitableRuntime(c) ==
    /\ At(c, "runtime")
    /\ "pip" \in Faults \/ dial[c].cancelled
    /\ Fails(c)
    /\ UNCHANGED <<settings, python, venv, servers, process, window, updates>>

\* EnsureRuntime has returned.
Prepared(c) ==
    /\ At(c, "runtime")
    /\ venv[dial[c].copied.runtime] = "complete"
    /\ python' = dial[c].copied.runtime
    /\ Goto(c, "choose")
    /\ UNCHANGED <<settings, venv, servers, process, window, updates>>

RunningServer(l) ==
    IF servers[l] # Nobody /\ Exited(servers[l]) THEN Nobody ELSE servers[l]

\* The locked part of Ensure: it forgets a dead server and copies the settings,
\* which need not be those Prepare copied.
Choose(c) ==
    /\ At(c, "choose")
    /\ LET l == dial[c].language
           existing == RunningServer(l)
       IN /\ servers' = [servers EXCEPT ![l] = existing]
          /\ dial' = [dial EXCEPT ![c].at = IF existing = Nobody THEN "start" ELSE "connect",
                                  ![c].server = existing,
                                  ![c].copied = settings, ![c].python = python]
    /\ UNCHANGED <<settings, python, venv, process, window, updates>>

Start(c) ==
    /\ At(c, "start")
    /\ LET able == dial[c].python # NoRuntime /\ dial[c].copied.model \in OnDisk IN
       /\ Goto(c, IF able THEN "wait" ELSE "failed")
       /\ process' = IF able
                     THEN [process EXCEPT ![c].at = "loading",
                                          ![c].settings = dial[c].copied,
                                          ![c].python = dial[c].python]
                     ELSE process
    /\ UNCHANGED <<settings, python, venv, servers, window, updates>>

\* WaitReady: whoever answers at the port, if it is of this language.
Ready(c) ==
    /\ At(c, "wait")
    /\ ~dial[c].cancelled
    /\ \E d \in Listening(Port(c)) : dial[d].language = dial[c].language
    /\ Goto(c, "store")
    /\ UNCHANGED <<settings, python, venv, servers, process, window, updates>>

\* Mutant: a server that did not become ready is left to itself.
JustFail(c) ==
    /\ At(c, "wait")
    /\ Exited(c) \/ dial[c].cancelled \/ "hang" \in Faults
    /\ Goto(c, "failed")
    /\ UNCHANGED <<settings, python, venv, servers, process, window, updates>>
\* It exited, the context was cancelled, or StartTimeout is over.
NotReady(c) ==
    /\ At(c, "wait")
    /\ Exited(c) \/ dial[c].cancelled \/ "hang" \in Faults
    /\ Goto(c, "stop")
    /\ UNCHANGED <<settings, python, venv, servers, process, window, updates>>

\* Ensure's Stop of the server it started.
StopStarted(c) ==
    /\ At(c, "stop")
    /\ \/ /\ AlreadyStopped(c) \/ CannotSignal(c)
          /\ Fails(c)
          /\ UNCHANGED process
       \/ /\ Terminate(c)
          /\ Goto(c, "reap")
    /\ UNCHANGED <<settings, python, venv, servers, window, updates>>

StartedStops(c) ==
    /\ At(c, "reap")
    /\ \/ /\ Exited(c) \/ GivesUpOn(c)
          /\ Fails(c)
          /\ UNCHANGED process
       \/ Kill(c) /\ UNCHANGED dial
    /\ UNCHANGED <<settings, python, venv, servers, window, updates>>

Store(c) ==
    /\ At(c, "store")
    /\ servers' = [servers EXCEPT ![dial[c].language] = c]
    /\ dial' = [dial EXCEPT ![c].at = "connect", ![c].server = c]
    /\ UNCHANGED <<settings, python, venv, process, window, updates>>

\* transport.Dial to the server's port, answered by whoever listens there.
Connect(c) ==
    /\ At(c, "connect")
    /\ LET answering == Listening(Port(dial[c].server)) IN
       \/ /\ ~dial[c].cancelled
          /\ \E d \in answering : dial' = [dial EXCEPT ![c].at = "open", ![c].server = d]
       \/ /\ answering = {} \/ dial[c].cancelled
          /\ Fails(c)
    /\ UNCHANGED <<settings, python, venv, servers, process, window, updates>>

\* Controller.Abort.  Bound: the last dial is cancelled by a quit only.
Cancel(c) ==
    /\ c < MaxDials
    /\ InFlight(c)
    /\ ~dial[c].cancelled
    /\ "abort" \in Faults
    /\ window.at # "gone"
    /\ dial' = [dial EXCEPT ![c].cancelled = TRUE]
    /\ UNCHANGED <<settings, python, venv, servers, process, window, updates>>

-----------------------------------------------------------------------------
(* Update, Shutdown and StopAll, on the window's goroutine.                 *)

KeepsRuntime(s) == s.runtime = settings.runtime

DropStaleInterpreter(s) == python' = IF KeepsRuntime(s) THEN python ELSE NoRuntime

\* Mutant: running servers stay.
KeepServers(s) == TRUE
\* Mode is not part of ManagerSettings: servers survive a change to remote.
SameForManager(s) == [s EXCEPT !.remote = settings.remote] = settings

\* The form is locked while the controller dials, unless settings overlap it.  A
\* cancelled dial that has only to take m.mu has done so before anyone can save.
FormOpen == \/ "overlap" \in Faults
            \/ \A c \in Dials : InFlight(c) => dial[c].cancelled /\ dial[c].at # "store"

Update(s) ==
    /\ window.at = "idle"
    /\ updates < MaxUpdates
    /\ FormOpen
    /\ updates' = updates + 1
    /\ settings' = s
    /\ DropStaleInterpreter(s)
    /\ window' = [window EXCEPT !.at = IF SameForManager(s) THEN "idle" ELSE "stopAll"]
    /\ UNCHANGED <<venv, servers, dial, process>>

\* Quit aborts the session, waits at most 2 seconds for the shortcut to be released,
\* and then stops servers; the shortcut and the tray's item work in between.
Quit ==
    /\ window.at = "idle"
    /\ window' = [window EXCEPT !.at = "closing", !.quitting = TRUE]
    /\ dial' = [c \in Dials |-> [dial[c] EXCEPT !.cancelled = @ \/ InFlight(c)]]
    /\ UNCHANGED <<settings, python, venv, servers, process, updates>>

Shutdown ==
    /\ window.at = "closing"
    /\ window' = [window EXCEPT !.at = "stopAll"]
    /\ UNCHANGED <<settings, python, venv, servers, dial, process, updates>>

StopAll ==
    /\ window.at = "stopAll"
    /\ window' = [window EXCEPT !.at = "stopping", !.failed = FALSE,
                                !.todo = {servers[l] : l \in Language} \ {Nobody}]
    /\ servers' = [l \in Language |-> Nobody]
    /\ UNCHANGED <<settings, python, venv, dial, process, updates>>

\* One server after the other, in the order of the map, which is any.
StopOne(d) ==
    /\ window.at = "stopping"
    /\ d \in window.todo
    /\ \/ /\ AlreadyStopped(d) \/ CannotSignal(d)
          /\ window' = [window EXCEPT !.todo = @ \ {d}, !.failed = @ \/ CannotSignal(d)]
          /\ UNCHANGED process
       \/ /\ Terminate(d)
          /\ window' = [window EXCEPT !.at = "waiting", !.server = d]
    /\ UNCHANGED <<settings, python, venv, servers, dial, updates>>

OneStops ==
    /\ window.at = "waiting"
    /\ LET d == window.server IN
       \/ /\ Exited(d) \/ GivesUpOn(d)
          /\ window' = [window EXCEPT !.at = "stopping", !.todo = @ \ {d}, !.server = Nobody,
                                      !.failed = @ \/ ~Exited(d)]
          /\ UNCHANGED process
       \/ Kill(d) /\ UNCHANGED window
    /\ UNCHANGED <<settings, python, venv, servers, dial, updates>>

AllStopped ==
    /\ window.at = "stopping"
    /\ window.todo = {}
    /\ window' = [window EXCEPT !.at = IF window.quitting THEN "gone" ELSE "idle"]
    /\ UNCHANGED <<settings, python, venv, servers, dial, process, updates>>

-----------------------------------------------------------------------------
DialStep(c) ==
    \/ RemoteAnswers(c) \/ Prepare(c) \/ BuildEnvironment(c) \/ NoSuitableRuntime(c)
    \/ Prepared(c) \/ Choose(c) \/ Start(c) \/ Ready(c) \/ NotReady(c)
    \/ StopStarted(c) \/ StartedStops(c) \/ Store(c) \/ Connect(c)

WindowStep == Shutdown \/ StopAll \/ (\E d \in Dials : StopOne(d)) \/ OneStops \/ AllStopped

Next ==
    \/ \E c \in Dials : \/ Serves(c) \/ Dies(c) \/ NotesExit(c) \/ DialStep(c) \/ Cancel(c)
                        \/ \E l \in Language : Dial(c, l)
    \/ \E s \in Settings : Update(s)
    \/ Quit
    \/ WindowStep

Spec == Init /\ [][Next]_vars

\* Goroutines run and their timers fire, and the operating system reports what
\* it has ended.  Nothing is assumed of pip and of a server's own work.
FairSpec ==
    /\ Spec
    /\ \A c \in Dials :
        /\ WF_vars(NotesExit(c))
        /\ WF_vars(process[c].told = "kill" /\ Dies(c))
        /\ WF_vars(Prepare(c) \/ Choose(c) \/ Start(c) \/ Ready(c) \/ NotReady(c)
                   \/ StopStarted(c) \/ StartedStops(c) \/ Store(c) \/ Connect(c))
    /\ WF_vars(WindowStep)
=============================================================================
