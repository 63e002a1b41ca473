----------------------------- MODULE Application -----------------------------
(***************************************************************************)
(* client/internal/ui: the window's goroutine, which saves settings, tests  *)
(* the microphone, shows what the session reports and quits; the goroutines *)
(* that register the shortcut (hotkey.go); the updates channel and the      *)
(* functions queued with fyne.Do.  The session is controller.go seen from   *)
(* here: its state, what it publishes, and the one microphone of            *)
(* capture_cgo.go.                                                          *)
(***************************************************************************)
EXTENDS Naturals, Sequences, FiniteSets, SequencesExt

CONSTANTS
    Hotkeys,       \* the bindings the form can make
    Bare,          \* those without a modifier, which Register refuses
    Servers,       \* the server settings, one of which Validate refuses
    Invalid,       \* the server settings Validate refuses
    ChannelSize,   \* the updates channel's buffer
    Setups         \* the runs there may be: saves and presses bound the saves and the
                   \* presses of the shortcut, and faults says which happen:
                   \* "update" a server does not stop, "taken" another application
                   \* owns a chord, "drop" a connection breaks, "event" the server or
                   \* the composer reports an error, "lines" a dial reports its
                   \* progress, "stuck" the shortcut is not released

ASSUME HotkeysAssumption == Bare \subseteq Hotkeys /\ Invalid \subseteq Servers
ASSUME SizesAssumption ==
    ChannelSize \in Nat /\ \A s \in Setups : {s.saves, s.presses} \subseteq Nat

Config == [hotkey : Hotkeys, servers : Servers]
None == "none"

VARIABLES
    setup,        \* the run this is; it never changes
    settings,     \* a.settings, and the settings file, which is written first
    window,       \* what the window's goroutine is doing; failed: history, a save of
                  \* another shortcut was an error and none has come through since
    jobs,         \* the registerHotkey goroutines, in the order they were started
    shortcut,     \* m.current and m.binding
    problem,      \* the shortcut problem the main tab shows
    state,        \* the controller's state
    unpublished,  \* the states that goroutines of the session have set, or read, and
                  \* not published yet
    channel,      \* c.updates
    misled,       \* history: of the updates the window has or will get the last says
                  \* otherwise than the state whether settings may change
    queue,        \* functions given to fyne.Do
    shown,        \* the state the window shows; it locks the form
    microphone,   \* who the capture delivers frames to
    testing,      \* s.testStop is set
    linked,       \* the session's consumer is running
    saves, presses

vars == <<settings, window, jobs, shortcut, problem, state, unpublished, channel, misled,
          queue, shown, microphone, testing, linked, saves, presses>>
MaxSaves == setup.saves
MaxPresses == setup.presses
Faults == setup.faults

updateVars == <<unpublished, channel, misled>>
sessionVars == <<state, updateVars, microphone, linked, presses>>
formVars == <<settings, window, saves>>
keyVars == <<jobs, shortcut, problem>>

Init ==
    /\ setup \in Setups
    /\ settings \in {c \in Config : c.servers \notin Invalid}
    /\ window = [at |-> "idle", previous |-> settings, failed |-> FALSE]
    /\ jobs = <<[binding |-> settings.hotkey, at |-> "register", worked |-> FALSE]>>
    /\ shortcut = None
    /\ problem = FALSE
    /\ state = "Idle"
    /\ unpublished = {}
    /\ channel = <<>>
    /\ misled = FALSE
    /\ queue = <<>>
    /\ shown = "Idle"
    /\ microphone = None
    /\ testing = FALSE
    /\ linked = FALSE
    /\ saves = 0
    /\ presses = 0

AcceptsSettingsChanges(s) == s \in {"Idle", "Error"}
\* setEditable: the buttons work.
Editable == AcceptsSettingsChanges(shown)
Free == window.at = "idle"
Gone == window.at = "gone"

-----------------------------------------------------------------------------
(* The session.                                                             *)

\* Mutant: an update waits in the channel only if nothing else does.
PublishIfEmpty(update) == channel' = IF channel = <<>> THEN <<update>> ELSE channel
\* A full channel drops the update, whatever it says.
Publish(update) ==
    channel' = IF Len(channel) < ChannelSize THEN Append(channel, update) ELSE channel

\* The update says otherwise than the state whether settings may change.
Misleads(update) == AcceptsSettingsChanges(update) # AcceptsSettingsChanges(state)

\* The state is set with the mutex held, and published after it is released.  Two
\* goroutines about to publish the same state count as one.
Become(s) == /\ state' = s
             /\ unpublished' = unpublished \cup {s}
             /\ UNCHANGED <<channel, misled>>

PublishState(s) ==
    /\ ~Gone
    /\ s \in unpublished
    /\ unpublished' = unpublished \ {s}
    /\ Publish(s)
    /\ misled' = IF Len(channel) < ChannelSize THEN Misleads(s) ELSE misled \/ ~Misleads(s)
    /\ UNCHANGED <<formVars, keyVars, state, microphone, linked, presses, queue, shown, testing>>

\* Start goes on once it has published Connecting.
Dialling == state = "Connecting" /\ "Connecting" \notin unpublished

\* What dial reports: each line of pip, each step.  Bound: none while the window has
\* something to run.
ProgressLine ==
    /\ ~Gone
    /\ "lines" \in Faults
    /\ queue = <<>>
    /\ Dialling
    /\ Publish("Connecting")
    /\ misled' = (misled /\ Len(channel) >= ChannelSize)
    /\ UNCHANGED <<formVars, keyVars, state, unpublished, microphone, linked, presses, queue,
                   shown, testing>>

\* consume reads the state for an error it reports, and publishes that later.  The same
\* bound.
ReportsError ==
    /\ ~Gone
    /\ "event" \in Faults
    /\ queue = <<>>
    /\ linked
    /\ unpublished' = unpublished \cup {state}
    /\ UNCHANGED <<formVars, keyVars, state, channel, misled, microphone, linked, presses, queue,
                   shown, testing>>

\* Toggle.  The shortcut works while one is registered; the tray item needs the
\* window's goroutine.
Press ==
    /\ ~Gone
    /\ presses < MaxPresses
    /\ shortcut # None \/ Free
    /\ presses' = presses + 1
    /\ CASE AcceptsSettingsChanges(state) -> Become("Connecting")
         [] state = "Listening" -> Become("Finalizing")
         [] OTHER -> UNCHANGED <<state, updateVars>>
    /\ UNCHANGED <<formVars, keyVars, queue, shown, microphone, testing, linked>>

\* Mutant: the device is opened again.
StealMicrophone(who) == microphone' = who
\* Capture.Start refuses while the device is open.
OpenMicrophone(who) == microphone = None /\ microphone' = who
StopMicrophone == microphone' = None

DialFails ==
    /\ ~Gone
    /\ Dialling
    /\ Become("Error")
    /\ UNCHANGED <<formVars, keyVars, queue, shown, microphone, testing, linked, presses>>

Connects ==
    /\ ~Gone
    /\ Dialling
    /\ linked' = TRUE
    /\ \/ OpenMicrophone("session") /\ Become("Listening")
       \/ microphone # None /\ Become("Error") /\ UNCHANGED microphone
    /\ UNCHANGED <<formVars, keyVars, queue, shown, testing, presses>>

\* consume publishes the break without a change of state.
ConnectionDrops ==
    /\ ~Gone
    /\ "drop" \in Faults
    /\ state = "Listening"
    /\ linked
    /\ linked' = FALSE
    /\ unpublished' = unpublished \cup {"Error"}
    /\ UNCHANGED <<formVars, keyVars, queue, shown, state, channel, misled, microphone, testing,
                   presses>>

\* The rest of Stop, which waits for consume no longer than its deadline.
Finalizes ==
    /\ ~Gone
    /\ state = "Finalizing"
    /\ "Finalizing" \notin unpublished
    /\ StopMicrophone
    /\ Become("Idle")
    /\ linked' = FALSE
    /\ UNCHANGED <<formVars, keyVars, queue, shown, testing, presses>>

\* consumeUpdates: fyne.Do queues and returns.
ForwardUpdate ==
    /\ ~Gone
    /\ channel # <<>>
    /\ channel' = Tail(channel)
    /\ queue' = Append(queue, [show |-> Head(channel)])
    /\ UNCHANGED <<formVars, keyVars, state, unpublished, misled, shown, microphone, testing,
                   linked, presses>>

\* The next queued function runs: applyUpdate, or setShortcutProblem.
RunQueued ==
    /\ Free
    /\ queue # <<>>
    /\ queue' = Tail(queue)
    /\ LET next == Head(queue) IN
       IF "show" \in DOMAIN next THEN shown' = next.show /\ UNCHANGED problem
                                 ELSE problem' = next.problem /\ UNCHANGED shown
    /\ UNCHANGED <<formVars, jobs, shortcut, sessionVars, testing>>

-----------------------------------------------------------------------------
(* registerHotkey: a goroutine of its own for each.                         *)

\* Register: a bare key is refused before the old chord is released, a chord
\* another application owns after.
Register(b, works) ==
    shortcut' = IF b \in Bare THEN shortcut ELSE IF works THEN b ELSE None

RunJob(i) ==
    /\ ~Gone
    /\ i \in DOMAIN jobs
    /\ jobs[i].at = "register"
    /\ \E works \in BOOLEAN :
        /\ works => jobs[i].binding \notin Bare
        /\ ~works => jobs[i].binding \in Bare \/ "taken" \in Faults
        /\ Register(jobs[i].binding, works)
        /\ jobs' = [jobs EXCEPT ![i].at = "tell", ![i].worked = works]
    /\ UNCHANGED <<formVars, problem, sessionVars, queue, shown, testing>>

\* Mutant: a failure is not told.
TellSuccess(worked) == IF worked THEN Append(queue, [problem |-> FALSE]) ELSE queue
SetShortcutProblem(worked) == Append(queue, [problem |-> ~worked])

EndJob(i) ==
    /\ ~Gone
    /\ i \in DOMAIN jobs
    /\ jobs[i].at = "tell"
    /\ queue' = SetShortcutProblem(jobs[i].worked)
    /\ jobs' = RemoveAt(jobs, i)
    /\ UNCHANGED <<formVars, shortcut, problem, sessionVars, shown, testing>>

-----------------------------------------------------------------------------
(* Settings.                                                                *)

\* ApplySettings, until it stops the servers.
Apply(c) ==
    /\ saves' = saves + 1
    /\ \/ /\ c.servers \in Invalid
          /\ UNCHANGED <<settings, window>>
       \/ /\ c.servers \notin Invalid
          /\ settings' = c
          /\ window' = [window EXCEPT !.at = "updating"]
    /\ UNCHANGED <<keyVars, sessionVars, queue, shown, testing>>

\* Save is enabled while the form is; it collects the form over the settings.  Bound:
\* nobody edits the form faster than a shortcut is registered.
Save(h, s) ==
    /\ Free
    /\ saves < MaxSaves
    /\ Editable
    /\ jobs = <<>>
    /\ Apply([settings EXCEPT !.hotkey = h, !.servers = s])

\* The radio group is enabled with the form, and asks the controller as well.  The
\* language itself makes no difference here.
LanguageChanges ==
    /\ Free
    /\ saves < MaxSaves
    /\ Editable
    /\ AcceptsSettingsChanges(state)
    /\ Apply(settings)

HotkeyChanged == settings.hotkey # window.previous.hotkey

\* The rest of ApplySettings.  An error of the servers ends it before the shortcut.
ServersUpdated ==
    /\ window.at = "updating"
    /\ window' = [at |-> "idle", previous |-> settings,
                  failed |-> window.failed /\ ~HotkeyChanged]
    /\ jobs' = IF HotkeyChanged
               THEN Append(jobs, [binding |-> settings.hotkey, at |-> "register",
                                  worked |-> FALSE])
               ELSE jobs
    /\ UNCHANGED <<settings, saves, shortcut, problem, sessionVars, queue, shown, testing>>

ServersNotUpdated ==
    /\ window.at = "updating"
    /\ "update" \in Faults
    /\ window' = [at |-> "idle", previous |-> settings,
                  failed |-> window.failed \/ HotkeyChanged]
    /\ UNCHANGED <<settings, saves, keyVars, sessionVars, queue, shown, testing>>

-----------------------------------------------------------------------------
(* The microphone test, and quitting.                                       *)

StartTest ==
    /\ Free
    /\ ~testing
    /\ Editable
    /\ AcceptsSettingsChanges(state)
    /\ OpenMicrophone("test")
    /\ testing' = TRUE
    /\ UNCHANGED <<formVars, keyVars, state, updateVars, linked, presses, queue, shown>>

StopTest ==
    /\ Free
    /\ testing
    /\ Editable
    /\ StopMicrophone
    /\ testing' = FALSE
    /\ UNCHANGED <<formVars, keyVars, state, updateVars, linked, presses, queue, shown>>

\* Abort, which stops the microphone whoever has it unless the session is idle.
Quit ==
    /\ Free
    /\ window' = [window EXCEPT !.at = "unregistering"]
    /\ IF state = "Idle" THEN UNCHANGED <<state, updateVars, microphone>>
                         ELSE Become("Idle") /\ StopMicrophone
    /\ linked' = FALSE
    /\ UNCHANGED <<settings, saves, keyVars, presses, queue, shown, testing>>

\* Mutant: wait until the shortcut is released.
WaitForRelease == "stuck" \notin Faults
TwoSecondsAreOver == TRUE
\* Unregister in a goroutine, given two seconds; it may hold the registration's lock.
Unregister ==
    /\ window.at = "unregistering"
    /\ \/ shortcut' = None
       \/ "stuck" \in Faults /\ UNCHANGED shortcut
    /\ TwoSecondsAreOver
    /\ window' = [window EXCEPT !.at = "closing"]
    /\ UNCHANGED <<settings, saves, jobs, problem, sessionVars, queue, shown, testing>>

\* The composer and the capture are closed, the servers stopped.
Close ==
    /\ window.at = "closing"
    /\ StopMicrophone
    /\ window' = [window EXCEPT !.at = "gone"]
    /\ UNCHANGED <<settings, saves, keyVars, state, updateVars, linked, presses, queue, shown,
                   testing>>

-----------------------------------------------------------------------------
SessionStep == DialFails \/ Connects \/ Finalizes
PublishStep == \E s \in unpublished : PublishState(s)
JobStep == \E i \in DOMAIN jobs : RunJob(i) \/ EndJob(i)
WindowStep == RunQueued \/ ServersUpdated \/ ServersNotUpdated \/ Unregister \/ Close

Act ==
    \/ Press \/ SessionStep \/ ConnectionDrops \/ ProgressLine \/ ReportsError
    \/ PublishStep \/ ForwardUpdate \/ JobStep \/ WindowStep
    \/ \E h \in Hotkeys, s \in Servers : Save(h, s)
    \/ LanguageChanges \/ StartTest \/ StopTest \/ Quit

Next == Act /\ UNCHANGED setup

Spec == Init /\ [][Next]_<<setup, vars>>

\* Goroutines run, the window's goroutine gets to what is queued, and a session
\* that connects or finalizes comes to an end.
FairSpec ==
    /\ Spec
    /\ WF_vars(SessionStep) /\ WF_vars(PublishStep) /\ WF_vars(ForwardUpdate)
    /\ WF_vars(JobStep) /\ WF_vars(WindowStep)

-----------------------------------------------------------------------------
Settled == jobs = <<>> /\ queue = <<>> /\ Free

(***************************************************************************)
(* Once everything is done, the shortcut that works is the one the settings *)
(* name, unless the main tab says it is not, or the save that changed it    *)
(* was an error and it was not changed again (a later save that leaves it   *)
(* as it is finds nothing changed).                                         *)
(* settings_tab.go:540, "It takes effect when you save"; hotkey.go:6, "A    *)
(* shortcut that silently does nothing is the worst possible outcome".      *)
(***************************************************************************)
ShortcutIsTheSavedOne ==
    Settled => shortcut = settings.hotkey \/ problem \/ window.failed

(***************************************************************************)
(* A microphone test that the window shows running has the microphone: no   *)
(* session opens it beside the test, and none loses it to the end of one.   *)
(* settings_tab.go: onTestMicrophone; capture_cgo.go: Start, Stop.          *)
(***************************************************************************)
TestHasTheMicrophone == testing /\ Free => microphone = "test"

(***************************************************************************)
(* The form does not stay locked: whenever the session has come to rest,    *)
(* the window gets to show it, or another session begins.  Two exceptions,  *)
(* which the code does not prevent and only another session puts right: the *)
(* channel was full of lines nobody had read yet and dropped the update     *)
(* that tells it, or an update with an older state was published after it.  *)
(* main_tab.go: applyUpdate; controller.go: publish, handleServerError.     *)
(***************************************************************************)
FormUnlocks == AcceptsSettingsChanges(state) ~>
    AcceptsSettingsChanges(shown) \/ ~AcceptsSettingsChanges(state) \/ misled \/ Gone

(***************************************************************************)
(* Quitting ends, though the operating system never releases the shortcut.  *)
(* app.go: Quit.                                                            *)
(***************************************************************************)
QuitEnds == window.at = "unregistering" ~> Gone
=============================================================================
