# Verification of Local Dictation

TLA+ models of this repository: the streaming server, from the hypotheses of a
speech decoder to the transcripts on a WebSocket; and the Go client, from the
session controller and the text typed at the cursor to the local servers, the
settings, the files on disk and the updates. TLC checks the models on small
instances; TLAPS proves the safety properties of all of them for every value of
the constants. Liveness is model-checked only.

    tlc -config MCSession.cfg MCStreamingSession
    tlapm SessionProofs.tla

## The system

| Part | State it keeps | Operations | What is hard |
|---|---|---|---|
| `LocalAgreement` (server) | committed tokens, history of n-1 hypotheses | `update`, `commit_all`, `reset` | revisions, re-casing, re-spacing, short hypotheses |
| `StreamingSession` (server) | audio buffer and decoded cursor, silence tracker, utterance, wake and flush events, event queue | `push_audio`, `flush`, the decode task's `_step`, `aclose` | three asyncio tasks; audio and flushes that arrive during a decode; decodes that fail, read nothing or hang; two decoders |
| WebSocket endpoint, `SessionLimiter`, `AppState` (server) | handler, reader and writer of each connection; slots; the executor's threads and queue | handshake, admission, `_pump`, release, shutdown | every exit must release the slot; passes that nobody waits for any more hold threads |
| Voice activity, stitching, backends, settings, metrics, health (server) | per-frame speech flags; caches; counters | pure functions and library calls | boundaries |
| `Composer` and typers (client) | utterance, committed text, last revision, marked region | `Apply`, `DropPartial`, `Finish`, `Reset` | replays, retractions, teardown with events still buffered, keys that do not arrive |
| `Controller` (client) | state, session, cancel, finished, updates channel | `Start`, `Stop`, `Toggle`, `Abort`, `consume`, `watchFocus` | goroutines that release the mutex between reading and acting; timeouts; dropped connections |
| Transport, capture (client) | connection, buffered events; one microphone | dial, read loop, close; start, stop | close against a pending read; two users of one device |
| Dialer, local server manager, process (client) | settings, interpreter, servers by language, child processes | `Dial`, `Prepare`, `Ensure`, `Update`, `StopAll`; start, readiness, stop | concurrent dials, saves and quits; a process that dies or will not |
| Application, hotkey (client) | settings, registration, state shown, microphone test | `ApplySettings`, register, apply update, quit | one goroutine for the window and many others; failures half way |
| Settings form (client) | widgets, devices, note, download | build, edit, collect, save, adopt a model | a form filled once over settings that change elsewhere |
| Launches: main, singleton, configuration, model installer (client) | lock file and flock, settings file, model directory | load, acquire, release, save, install | processes that overlap and crash between two system calls |
| Updates (client) | release offered, package, installer, watcher | check, download, install, reopen | three processes; a site that changes between requests |

The decoder hands hypotheses to the session, which commits the words successive
hypotheses agree on and sends `transcript` events (`stable`, `partial`,
`final`). The client's read loop buffers them in a channel; the consumer
goroutine gives each to the composer, which types at the cursor. The shortcut
toggles `Start` and `Stop` in goroutines of their own; `Start` dials, which may
start a local server first. The window's goroutine saves settings, which goes
to the file, the dialer and the shortcut in that order; it learns of sessions
through a channel and functions queued with `fyne.Do`. `PROJECT.json` lists
every component with its status, and the hazards at their lines with the
properties that cover them.

What each has to guarantee:

- `LocalAgreement`: committed words are never retracted; nothing is committed
  that n hypotheses in a row did not say; no word heard is lost.
- `StreamingSession`: the transcripts are a protocol v1 stream; what was shown
  is sealed; speech reaches the accurate decoder; a flush is answered.
- Endpoint: never more sessions than slots, and no slot lost; a client that
  stays is sent everything; no live session waits for another's pass.
- `Composer`: the document grows by the stable text exactly once; committed
  text is never taken back.
- `Controller`: one session at a time, with the microphone on only while busy;
  Stop returns after everything was applied.
- Local servers: no process out of reach; the settings in force are served; all
  waits end.
- Application: the shortcut that works is the saved one; test and session do not
  share the microphone; the form unlocks; quitting ends.
- Form: a save stores what is shown; the note is true; a downloaded model can be
  read by the backend it is for.
- Launches: one copy has the lock; settings that can be read; no save and no
  model lost.
- Updates: only what was verified is installed, when asked for; the button comes
  back; the application reopens.

## Modules

| Module | Models |
|---|---|
| `Agreement` | The text algebra of `local_agreement.py`: tokenizing, `same_words`, `remainder_after`, and `update` and `commit_all` as functions from an agreement to the next and its result. |
| `LocalAgreement` | The class as a state machine, any order of calls. |
| `TranscriptStream` | The abstract specification: invariants 1 to 3 of `protocol/v1/protocol.md`, committed text compared by its characters, whitespace apart. |
| `StreamingSession`, `SessionProperties`, `SessionProofs` | `session.py` with `buffer.py`, what it reads of `vad.py`, and the reader and writer of `websocket.py`; what a session owes its client. `DeliversAStream` is the refinement of `TranscriptStream`. Uses `Agreement`. The proofs begin with those of `LocalAgreement`, whose text lemmas they use. |
| `Endpoint`, `EndpointProofs` | `websocket.py` for all connections, with `limits.py`, the executor of `state.py` and the way uvicorn stops. A session in it is its queue, its flush and the pass it waits for. |
| `Composer` | `composer.go` over `keystroke.go` over an operating system that types and backspaces. |
| `SessionController`, `ControllerProperties`, `ControllerProofs` | `controller.go` with the parts of `client.go`, `capture_cgo.go` and `app.go` it shares state with. The proofs include those of `Composer`. |
| `LocalServers`, `ServerProperties`, `ServersProofs` | `dialer.go`, `manager.go`, `server.go` and the environment of `python.go`, with the processes. |
| `Application`, `ApplicationProofs` | `app.go`, `main_tab.go`, `hotkey.go` and the microphone test, over the controller's state. |
| `Form`, `FormProofs` | `settings_tab.go` and `models_tab.go` over `config.go`. |
| `Launches`, `LaunchesProofs` | `main.go`, `singleton_unix.go`, `SaveTo` and `models.Install` as system calls of several processes. |
| `Versions` | `IsNewer` of `update.go`. |
| `Updating`, `UpdatingProofs` | `update.go`, `github.go`, `install.go` and the flow of `settings_tab.go`. Uses `Versions`. |
| `MC*` | Instances for TLC. |

**Text.** For the server a text is a string, written as a list of words each with
the amount of whitespace after it. What a decoder says has whitespace after every
word but the last (`IsTokenized`); what the code puts together may have none
between two words, a weld, which the client and the next `tokenize` read as one
word (`WordEnds`). So concatenation is that of strings, and equality is byte for
byte. Words are model values with a function `Fold` for `casefold()`: equality,
equality up to case, and whether a word can still grow are kept apart. For the
composer, a text is a sequence of characters one of which is the space.

**Session.** An action is what a task does between two awaits that suspend.
`task.at` names where the decode task is: waiting for the wake, or in one of the
three `run_in_executor` calls, with the length of the snapshot it handed out.
`_step` is five actions, one for each of its branches, with the guards of the
branches above it negated. `audio` is the buffer as speech flags with the
decoded cursor; `audio.read` is history, how much the accurate decoder was
given. `utterance` holds what `_emit`, `_close_utterance` and `_finalize` work
on; the `out` field collects a step's transcripts, which go to `events`
together because nothing suspends between them. `wire` is the last transcript
sent. Which boundary the word timings give is a choice among all of them and none: a
backend without timings, words too short for the committed text, and a cut of less
than 0.1 s all leave the window as it is. `carried` is history: a transcript shows
what a revision left over, which no pass has read again.

**Endpoint.** `conn[c].at` is where the handler of a connection is;
`conn[c].open` is `_is_open`, false after a fatal error was sent or a disconnect
read. Admission is one action because nothing suspends between `try_acquire` and
the start of the decode task. `queued` and `running` are the executor: cancelling
a task takes its pass out of the queue, but a pass a thread has taken runs on
after its session is over. Sending to a peer that takes nothing is one step, as
uvicorn's ping ends it.

**Controller.** `start`, `consumer`, `stops` and `aborts` are program counters
of the goroutines; a step runs from one release of `c.mu`, wait, or call into
another component to the next. A `Stop` keeps the `session` and the number of
the context and channel it copied under the lock. `conn` has the link, the
buffered events and what was sent; `CloseNow` makes a read fail, which is not a
normal closure. `peer` is whether the server takes what is sent; while it does
not, the capture's callback is in `SendAudio` and stopping the microphone waits
for it (`CallbackWaits`), up to a break or a cancelled context. `over` and
`applied` are history.

**Local servers.** A dial starts at most one process, so processes are numbered
by dials. `dial[c].at` follows `Dial`, `Prepare` and `Ensure`; a step ends where
`m.mu` is released, and before a wait or a command. A process goes from loading
to serving, and from alive to reaped by the operating system to exited once the
goroutine of `Start` has noted it; the two are apart because `Stop` between them
signals a process that is not there. `Port` is that a fixed port may be taken by
an older process of the same language. A dial may come at any moment, during a
quit too (`late`). `asked`, `calm`, `alone` and `late` are history.

**Application.** `window` is the goroutine every callback of the window runs on;
`jobs` are the goroutines of `registerHotkey`; `queue` is what was given to
`fyne.Do`, in order. The controller is the sequence of states it goes through.
It publishes a state after it has released its mutex, so `unpublished` holds
what its goroutines have still to publish, in no order; `channel` has a size and
drops what does not fit. `misled` is history: the last update the window has or
will get says otherwise than the state whether settings may change. `shown` is
the state the window shows, by which the form is locked, and which lags behind
`state`.

**Form.** A settings record is filled into widgets by `BuiltFrom`, once, and
read back by `Collect` over the settings in force. A model directory is a family
and a conversion, which is what `adoptModel` and the note tell apart.

**Launches.** A step is one system call of one process: reading the settings,
create, write, open, flock, unlock, unlink, rename; removing a directory is two,
for a crash may leave part of it. A copy that cannot open the lock file goes on
without one (`OpenFails`). Files are named by the process that created
them, so a name, `path`, can be another file than the one a process has opened.
Saves are the set of copies whose change a settings file has. `inherited`,
`overlapped` and `crowded` are history: a lock was taken on a file about to be
unlinked, a copy had another beside it while it started or one without a lock
afterwards, and a copy without the lock had another beside it.

**Updates.** A package is a version and a build; replacing a release replaces its
package first and its checksum later. Installer and watcher are processes of
their own that outlive the client.

A definition introduced by a comment `Mutant` is not part of a model. It is a
mistake one could make in the definition below it; with it in place, TLC finds
the property named in `PROJECT.json` violated. Every property of every passing
run has one.

## Runs

| Run | Configuration | Result |
|---|---|---|
| `agreement` | window 2; words a, A, b with A the capital of a; all stripped hypotheses of up to 3 words; call sequences unbounded | holds, 66 thousand states |
| `session` | one decoder with a window of 2, and a draft decoder with a window of 3; 4 frames; 3 texts, one of which revises another; utterance 4; any cut or none; fairness | holds, 708 thousand |
| `composer` | a session of 3 transcripts and one of 1; 2 utterances; 4 stable and 3 partial texts; retractions allowed; a call may be refused once a session, the first of an operation or one after a key | holds, 2.8 million |
| `controller` | 2 sessions whose links may break, and 1 session with every fault; 2 transcripts each, 2 stops; fairness | holds, 340 thousand |
| `servers` | 2 languages, 3 settings (plain, another runtime with a missing model, remote), 2 dials, a save of the plain ones, a quit; crashes, hangs, SIGKILL that takes its time, cancelled dials; fairness | holds, 327 thousand |
| `application` | 2 shortcuts, one bare; a server setting that is refused; a channel of 2; 2 saves and a press over servers that do not stop, chords that are taken and a stuck release; 2 presses over errors of a session; a press over a dial that says much and a link that breaks; fairness | holds, 1.1 million |
| `endpoint` | 2 connections for 1 slot, with decode tasks that die and readers that raise, or with a pass before the flush; 2 connections for 2 slots; peers that leave or fall silent; fairness | holds, 837 thousand |
| `launches` | 3 launches that save, that install, and some of both; crashes, failed calls on files, locks that cannot be had | holds, 2.1 million |
| `updating` | macOS with GitHub and a check at the start, Windows with a manifest; 2 versions, 2 builds of the newer, 2 installs; fairness | holds, 227 thousand |
| `form` | 3 settings files, all disks and microphones; 4 things the user does | holds, 1.1 million |
| `session_retraction` | one decoder, silence of 2, window 4 | `StableIsAppendOnly` violated |
| `form_microphone` | the settings file that names a microphone | `PinnedMicrophoneStays` violated |

Why the bounds are enough. In the agreement the alphabet has a case variant and
a different word, the two relations `update` can tell apart, and a text of three
words has one to keep committed, one to agree on and one still growing. In the
session four frames let a window be decoded, extended, trimmed or compacted and
decoded again, with a flush between any two; a trim that finds no cut leaves the
agreement standing, which a third pass may then contradict; the limits
(`ChunkUnits`, `SilenceUnits`, `MaxUtterance`) are set so that each of the
branches of `_step` is taken. The composer's three transcripts are one to show,
one to revise or retract and one late or final; the second session shows what a
reset leaves behind. With a fuse of 0 the first call of an operation is refused,
with 1 the typing or the separator after one key that arrived; one refusal a
session is enough for every operation to follow a failed one, and the proofs
take any number. The controller's two sessions are the least in which one
goroutine can act on another's session. Two dials are one that is cancelled and
one that overlaps it, or one that finds what the other left; a third would find
no more than the map, which has one server for a language. One save before,
between or during the dials makes a server stale; it saves the plain settings,
over any that were in force. In the application two saves are one that fails
half way and one that finds nothing changed or changes the shortcut back; a
press of the shortcut with them puts a registration, a session and a quit into
every order. The channel has 2 entries where the code has 32, shared with the
lines of a dial, so it fills in a few steps; progress lines and reports of
errors come while the window has nothing queued, which bounds the queue and not
the channel. Two connections for one slot are one that leaves its pass in a
thread and one that comes after it; with two slots two live sessions want a
thread at once. Three launches are one that quits, one that opens its lock file
and one that creates another, or one without a lock between two that have it;
each world of `MCLaunches` has the faults that matter to the files it is about.
Two installs are one that is under way while another version or build is
downloaded. Four steps of the form are an edit, a change elsewhere, a download
and a save. `CHECK_DEADLOCK FALSE` stands where the system stops by design: a
closed session, a client that has quit, an exhausted bound.

**Fairness.**

- `StreamingSession`: asyncio runs every ready task and its timers fire, so
  `Step`, `FlushReturns`, `FlushTimesOut` and `Close` are weakly fair. A decode
  may never return and a client may stay silent.
- `Endpoint`: the same for handlers and writers; nothing of passes and threads,
  so `SlotComesBack` holds though a pass never ends.
- `SessionController`: a runnable goroutine runs and the timer of
  `FinalizeTimeout` fires; nothing is assumed of the server, the network or the
  user. `StopReturns` holds against a server that never answers, but not against
  one that never reads: Stop stops the microphone before its deadline begins, and
  that waits for a callback in a write without a deadline. The property says that
  either every Stop comes back or the callback waits for ever. An Abort, and the
  quit that calls it, wait in the same place.
- `LocalServers`: goroutines and timers run, and the operating system reports a
  process it was told to kill. Nothing is assumed of pip, of a server's own work,
  or of SIGTERM.
- `Application`: goroutines run, the window's goroutine gets to what is queued,
  and a session that connects or finalizes comes to an end (`servers` and
  `controller` are about that).
- `Updating`: requests and processes time out and the user answers the installer;
  nobody has to publish, press or launch.

## What the violations show

- **Stable text shrinks** (`local_agreement.py:148`). Hypotheses "a b", "a b",
  "a" give stable "a " and then "a": `update` re-anchors the committed tokens
  onto every hypothesis and loses the whitespace. Whitespace apart the stream is
  append-only: its letters are only ever added to, which is what
  `TranscriptStream` asks and what is proved (`Refinement`, and
  `CommittedWordsStay` for the words of the agreement). As strings, which is what
  `protocol.md:187-190` says and `composer.go` tests, it is not, and for a client
  that reads words neither, because of the next disagreement.
- **An unplugged microphone is replaced** (`settings_tab.go:449`). When the form
  is filled while the pinned device is not there, the first of the list, the
  system default, is selected, and the next save of anything stores it.
  `client-usage.md:304-306` promises that dictation reports the missing device;
  `DeviceName`, kept "so the UI can say which device went missing"
  (`config.go:116`), is read nowhere.

Disagreements met while modelling that have no run of their own; the properties
above are stated without these cases:

- `local_agreement.py:143`: once the committed text ends without whitespace, after
  a `commit_all` or a re-anchor to "a", the hypothesis "A b" is re-cased to "a"
  and "b" one after the other, and "ab" is sent; `session.py:324` and
  `session.py:350` put the prefix before it in the same way. `AgreementResult`
  (`local_agreement.py:96-97`) and the module's docstring (13-15) say that stable
  and partial together are the hypothesis exactly. `StablePlusPartialIsHypothesis`
  says so where nothing was re-cased, and otherwise what the code does.
- `controller.go:287`, `capture_cgo.go:116`: the sink writes to the connection
  with the session's context, which has no deadline, and `device.Stop` waits for
  it, so a peer that takes nothing keeps Stop and Abort; `capture_cgo.go:75` calls
  it "a non-blocking WebSocket write" and `controller.go:212-213` "best effort".
- `controller.go:435`, `controller.go:391`: an update is dropped when the channel
  is full, and a report of an error carries a state that was read before it is
  published, so the last update may be missing or be an older one than the state.
  The light and the form's lock, which follow the last update, then stay as they
  were until the next session: amber and locked with nothing to wait for, or open
  during a dictation. `client-usage.md:98-106` says which light means what and
  that settings are locked while it is green or amber. `misled` marks the case in
  `FormUnlocks`.
- `controller.go:314`: a Stop that timed out does not wait for its consumer,
  which may raise `lastRevision` after the next session has reset it; an Abort by
  a focus watcher leaves its consumer behind as well. `NobodyLingers`, a premise
  of `StopAppliesEverything`, excludes two sessions with either fault, with which
  the property breaks.
- `controller.go:223`: Start does not notice an Abort by a quit and sets
  Listening with no session; the next Stop calls a method of nil.
- `controller.go:376`: a dropped connection is published as Error, which unlocks
  the window, while the controller stays Listening; the next press is a Stop.
- `keystroke.go:52`: after a call that delivers some of its backspaces the marked
  length no longer matches the screen, and the next call backspaces over the
  user's own text. With `WholeCalls = FALSE` and a fuse of one key
  `KeptTextIsAppendOnly` breaks. A call that is refused whole, which is what an
  elevated window does, is followed by the code as `keystroke.go:58-61` says.
- `composer.go:237`: when the backspaces of a `DropPartial` are refused, it has
  closed the composition and returns before it abandons the utterance, so the
  tail stays, and a transcript still buffered is written after it. `stranded` is
  that utterance; `ScreenShowsTheHypothesis`, `FinalSealsOnce` and
  `TornDownStaysDown` except it, and `KeptTextIsAppendOnly` does not.
- `composer.go:256`, `composer.go:214`: `Finish` overwrites the abandoned
  utterance, so a refused one may be typed again, and can weld a marked tail to
  the next text.
- `session.py:309`: when a revision finds no cut, for want of word timings or
  because the words it was read with are shorter than what was committed
  (645-660), its remainder is shown under a new utterance while
  `_window_hypothesis` is empty; a flush with no audio left then has nothing to
  finalize. `carried` marks such a transcript; without it `FlushDeliversFinal`
  and `ShownUtterancesAreSealed` break.
- `session.py:442`: with a draft decoder, a flush whose accurate pass reads
  nothing emits no final.
- `websocket.py:9-10` says that if any of the three tasks stops the other two are
  torn down with it; when the decode task dies the reader goes on.
- `app.go:249`: when a server does not stop, `ApplySettings` returns before the
  shortcut is registered, though the settings are saved. A later save of the
  same shortcut finds nothing changed and clears the error without registering
  it. `ShortcutIsTheSavedOne` names the case by `window.failed`, which stays set
  until the shortcut is changed again.
- `manager.go:212`: `Update` drops the interpreter, but an `Ensure` that has just
  prepared one for the old backend stores it afterwards ("overlap"). The
  form is locked during a dial, but by what the window was last told, which lags
  behind the controller and may have been dropped, so it is unlikely rather than
  impossible.
- `manager.go:181` says that StopAll "shuts every local server down" and is called
  on quit. The quit cancels a dial but does not wait for it, so a server that is
  still loading when StopAll looks at the map, or is stored after StopAll emptied
  it, is stopped by its dial only if the client lives long enough
  (`app.go:219`). Nor does anything cancel a dial that is asked for after Quit's
  Abort, while it waits up to two seconds for the shortcut and then for the servers:
  the tray item is still there (`app.go:167-175`). `NoServerIsLost` asks of a client
  that is gone no more than that the dial of such a server was cancelled or came
  that late (`late`).
- `manager.go:137`: when a dial was cancelled and the next began before it wound
  up, both may start a server for one language; the later store overwrites the
  earlier, whose process no Stop knows any more. `dial.alone` leaves these out.
- `manager.go:200`: a server with a fixed port that survived its stop answers in
  place of the one started with new settings.
- `settings_tab.go:730-731` says "Local Dictation will close and reopen when it
  is done." When the installer is dismissed while the client still stops its
  servers, `open -a` brings the copy that is leaving to the front, and nothing
  runs afterwards. `ReopensAfterQuit` is about a copy that has gone.
- `install.go`: on Windows the watcher starts before msiexec and may look before
  there is one. Its command contains `%%i` after formatting, which is a batch
  file's form and not one `cmd /c` takes; what cmd does with it is external.
- `singleton_unix.go:44`: Release unlocks before it unlinks, so a launch in
  between holds the lock of a file that has no name any more. `inherited` marks
  it; `OneCopy` and `ModelIsKept` hold until then.
- `main.go:70-74`: a copy that cannot open the lock file works without one, beside
  any other: either may undo the other's save, and of two that install the model
  one may remove what the other has moved aside (`install.go:171`). `overlapped`
  and `crowded` mark the copies and the time for `NoSaveIsLost`, `ModelIsKept` and
  `FilesAreWhole`. `main.go:56` says "One copy per user"; `OneCopy` is about the
  lock. Any error of flock, on the other hand, ends a launch as if another copy
  had the lock (`singleton_unix.go:27-36`).
- `main.go:45`: the settings are read before the lock is tried, so a launch that
  overlaps a quit has settings from before the last save. `NoSaveIsLost` names
  this, the copies without a lock, and nothing else.
- `install.go:171`, `install.go:183`: a crash inside `RemoveAll` leaves part of the
  old model under `.replaced`. `FilesAreWhole` says that this is never all there is.

## Proofs

Eight modules of proofs; those of `LocalAgreement` and of `Composer` are in the
modules of what they work for, the session and the controller. In each, `IInv`
is the inductive invariant, a conjunction of named parts (`ComposerInv` for the
composer); `Invariance == Spec => []IInv` is proved from one lemma or step for
each action; the theorems about the runs' properties follow from it, and TLC
checked each of these invariants before it was proved. The assumptions are those
the modules state of their constants, and nothing else is assumed unless a
theorem says so.

**`LocalAgreement`**, in `SessionProofs`, for every vocabulary, fold function,
widest gap, window of at least 2 and set of stripped hypotheses: type
correctness and `HistoryIsHeard` as invariants, and
`StablePlusPartialIsHypothesis`, `WordsNeverRetracted` and `CommittedWasAgreed`
as action properties. The assumptions are `FoldAssumption`, `GapAssumption`,
`WindowAssumption`, and `HypothesesAssumption` (`str.strip()` was applied, so a
text ends in a word, and whitespace is what parts words; the decoders' callers
and `tokenize` see to that).

The inductive invariant is the conjunction of types and `HistoryIsHeard`. Types
alone do not say what the history holds; `CommittedWasAgreed` is about the last n
hypotheses, of which the code keeps n-1, re-cased. `HistoryIsHeard` ties the two:
position by position the history is what was heard, case apart, and shorter by
exactly the one that is about to be compared. From there a newly committed word,
being common to the history and the new hypothesis, was said by all n.

**`SessionProofs`**, for all texts of both decoders, limits and numbers of
frames, with or without a draft decoder: `DeliversAStream`, the refinement of
`TranscriptStream`; `OnlyAccurateTextIsStable`; `SpeechReachesTheDecoder`;
`ShownUtterancesAreSealed` and `FlushDeliversFinal`, wherever a cut falls and
where there is none. The assumptions are `WindowAssumption`, `GapAssumption`,
`SetupsAssumption` (a decoder that heard nothing gives no text, which is an
outcome of its own; what it heard is tokenized) and `UnitsAssumption`. The last
two properties except the transcripts marked `carried`, which is the disagreement
at `session.py:309` above.

None of these is inductive, because the writer is behind: what the client has
says nothing about the next transcript, which was made many steps ago. `Sent`,
the transcript on the wire followed by the queue, is one stream, of which
`Good(Sent, utterance)` says everything at once.

- `Ordered`: any two transcripts of it are in the order the protocol asks for,
  and the utterance in progress is where the stream may go on. `Mark` is that
  place: its index, its revision and the letters it has settled, which are those
  of the committed text and the prefix, or with a draft decoder of the prefix
  alone.
- `Spoken` and `Reads`: what is stable in it was read accurately, as is what the
  utterance holds of which something may become stable.
- `Sealing`: whoever showed text is sealed before another utterance speaks, or is
  the utterance in progress and has something left for a final transcript
  (`Pending`), or shows what a revision left over.

One lemma for each thing the decode task can do (`GoodSays`, `GoodSeals`,
`GoodClosed`, `GoodFinalized`, `GoodExtends`, `GoodContradicts`, `GoodDrafts`,
`GoodCompacts`) says that it keeps the stream good; a committed text with a weld
in it, which the next `tokenize` reads as fewer words, is among their cases;
`Published` moves what a step said to the queue, and `ThinnedKeeps` and
`WriteKeeps` let the writer skip a superseded partial and send. `AudioInv` says
how far the buffer was decoded and given to the accurate decoder, for
`SpeechReachesTheDecoder`; `DoneInv` that an answered flush left no audio, no
pass and nothing pending, for good, as audio after a flush is ignored. The words
`update` and `commit_all` keep are taken from the lemmas about `LocalAgreement`.

**`EndpointProofs`**, for any finite set of connections, any capacity and any set of
faults (`ConnectionsAssumption`, `SetupsAssumption`): `CapacityHolds`,
`PassWaitsForAbandonedOnes`, `NothingIsLeftUnsent`. `SlotsInv` is that `active`
is the number of handlers between admission and release and that these hold the
slots; each exit changes both or neither. `LiveInv` and `PoolInv` say whose pass
is in the queue or in a thread, which is what makes a queued pass of a live
session wait for threads of sessions that are over. `FlushInv` and `SentInv`
follow a stop from the flush to the end of the drain.

**`ControllerProofs`**, for any number of sessions, transcripts and stops and any
set of faults (`BoundsAssumption`, `WorldsAssumption`): `ListeningHasASession`,
`OneSessionAtATime`, `StopAppliesEverything`, `NothingTypedOnceOver`. The mutex is
held only between two steps, so each step must know what the others may have
done since. `CalmInv` says, for each state and as long as no Abort came, which
Start or Stop is under way and who has the session and the microphone; without
it, that state is Listening says nothing of `c.session`. `SessionInv`, `ConnInv`
and `StopInv` say how far a session, its connection and the Stops that copied it
have come. `QuietInv` keeps older connections closed, `LingerInv` says that no
consumer is left when the next session begins, `TextInv` that what was sent is
what was applied and what is buffered, in order of revision, and `OverInv` that a
session a Stop is done with was read to its end.

**`Composer`**, in `ControllerProofs`, for any texts, utterances, sessions and
sequence of transcripts, with retractions or without (`TextsAssumption`,
`FusesAssumption`, `LengthsAssumption`): `ScreenShowsTheHypothesis`,
`KeptTextIsAppendOnly`, `FinalSealsOnce`, `TornDownStaysDown`, whichever calls
are refused and however often. All have the hypothesis `WholeCalls`, that a call
delivers all of its keys or none; without it they are false, which is the
disagreement at `keystroke.go:52` above. `KeptTextIsAppendOnly` says nothing of how
many characters the next backspaces will take. `TailInv` does: the screen is some
text and then exactly `marked`, which is empty unless a composition is under way,
and an utterance open without one is stranded. `UtteranceInv` says that this text
is `base` and `committed`, that `committed` and `marked` are those of the last
transcript once that is rendered, and that `wrote` is whether anything is
committed, unless a final's separator was refused. `OrderInv` is that the composer
is never ahead of the server and does not compose what it abandoned; `TornInv`
that of the utterances torn down only the last can still be spoken of, and that it
is abandoned or stranded unless the session is over. The text lemmas say what the
operations do to a screen that is `kept` followed by `marked`, when their calls
arrive and when one is refused: `Marking` that retyping only what two tails do not
share leaves `kept` and the tail it says it left, `Committing` that the tail goes
and the text comes or the tail stays, `Separating` that at most one space
follows what was written, `Rendering` and `Sealing` what the whole of a transcript
does. `Grows` is the step: some `kept` before is `kept` and more afterwards.

**`ServersProofs`**, for any languages, settings, faults, and numbers of dials
and saves (`SettingsAssumption`, `LanguagesAssumption`, `DialsAssumption`):
`NoServerIsLost`, through a quit and the dials asked for after it, and
`SettingsTakeEffect`, if no save falls into a dial (`"overlap" \notin Faults`)
and no port is fixed (`FreePorts`). The window's lock is there for the first, as
far as it follows the controller; with a fixed port an old server answers for
the new one, which is the disagreement at `manager.go:200`. The steps of a dial
are apart in time from what they read: `Ensure` starts a server with settings it
copied and stores it after a wait. `DialInv`, `ServerInv` and `MapInv` say which
process a dial at each place has, and that what is in the map was started and
let go by its dial. `CurrentInv` says that as long as no save falls into a dial,
what is in the map, and what is about to be stored, was started with the
settings in force, except while `Update` is about to stop it. `AloneInv` is that
a dial stores where the map has nobody, or a server whose dial was not alone, of
which nothing is promised. `QuitInv` is that a quit has cancelled whatever can
still store a server, or it came later, and `WindowInv` that what StopAll has
still to stop was started.

**`ApplicationProofs`**, for any shortcuts, servers, faults, numbers of saves
and presses and size of the channel (`SizesAssumption`):
`ShortcutIsTheSavedOne`, `TestHasTheMicrophone`. The first is about a moment
when nothing is under way. `JobsInv` says what the one registration under way
registers; `ShortcutInv` says of the time after it that the shortcut is right or
that the window will say otherwise once its queue has run (`WillSay`: the last
note in the queue, or the one shown if there is none).

**`FormProofs`**, for any languages, backends, models, microphones and shortcuts
(`MachineAssumption`, `ShortcutsAssumption`, `InitialAssumption`):
`NoteIsCurrent`, `SaveStoresTheForm`, `DownloadedModelIsUsable`. `FieldsShown` is
the link: a field nobody edited shows the settings in force, in the form in which
a Save would read it back.

**`LaunchesProofs`**, for any number of launches and in any worlds, with every
fault: `OneCopy`, `FilesAreWhole`, `NoSaveIsLost` and `ModelIsKept`. The only
assumption is that launches are numbered from 1 (`CopiesAssumption`). `OneCopy` is
not inductive: that two copies have no lock says nothing of the file the next one
opens. `LockInv` adds who holds which flock (a copy at work holds that of the file
it opened, if it opened one, and nobody else any), that the locked file is the one
under the name, and that a file about to be unlinked is not locked, the last two
unless a lock was inherited; and that a copy without a lock is alone at work,
unless it was crowded. `InstallersWork`, `StagedIsWhole` and `OldModelStands` say
what an installation relies on between its calls: its copy is at work, hence,
while nothing was inherited or crowded, alone, so what it staged is whole and the
old model is where it left it until it is removed, file by file. `SavesInv` says
that a copy that was not overlapped knows every save: while it starts or works
without the lock nobody else does, and whoever starts once it has the lock finds
its file locked.

**`UpdatingProofs`**, for any releases, builds and installs
(`ReleasesAssumption`, `BoundsAssumption`): `OnlyVerifiedPackagesAreInstalled`,
`EachPressInstallsOnce`, and `NewerIsAStrictOrder`, that `IsNewer` is
irreflexive, asymmetric and transitive on all versions, for fields that are no
numbers and versions of different length too. `FilesAreChecked` says that what
is in the Downloads folder passed the check, `FlowInv` and `HandedOver` that this
is still so when the installer gets it, whatever the site has changed to
meanwhile; `PressesInv` counts the installers and the press still being worked
for. A candidate is compared by its own fields only, so 1.2.0 and 1.2 are not
newer than one another.

Only model-checked:

- Liveness: `FlushIsAnswered`, `StopReturns`, `ServersComeToAnEnd`, `FormUnlocks`,
  `QuitEnds`, `SlotComesBack`, `ButtonComesBack` and `ReopensAfterQuit`. tlapm does
  not reason about fairness.
- `StableIsAppendOnly` and `PinnedMicrophoneStays`, which are false.

## What the models leave out

- **Server.** Prompts, timestamps and metrics; `_without_repeat_of` and
  `stitch.py`; JSON, TLS and what a handshake message says; the detectors and
  inference backends. `_trim_decoded_audio` and `_compact_draft_window` cut at
  any boundary the timings could give; whether the decoder's timings are right is
  not a question the models ask. An exception in a session's constructor, between
  `try_acquire` and the `try` that releases: validated settings do not raise there.
- **Controller and composer.** The write of an audio frame is one with the
  callback that makes it; once that has returned the mutex of the connection is
  free, so `SendStop` waits for the peer under its deadline only. On macOS the
  typer reports no failure: a fuse that never blows. The composer is not run
  over calls that deliver some of their keys, with which its properties break.
- **Local servers.** The faults "pip" (the environment cannot be made) and
  "overlap" (settings change under a dial) are in the module and not in the run:
  "pip" ends a dial early and only makes the run longer; "overlap" breaks
  `SettingsTakeEffect`. The window locks the form during a dial, but learns of
  the dial through the channel of `Application`: between a press and the update
  that locks it, and when that update is dropped, a save can fall into a dial,
  and nothing is promised of the dictation it falls into. `FormOpen` takes it
  that a cancelled dial which has only to lock `m.mu` has done so before a user
  saves. `stream` reads what pip prints without a timeout; a pip that never ends
  keeps the dial until it is cancelled. The window's health probe.
- **Application.** Saves wait until a registration has ended (`jobs = <<>>`):
  two registrations at once could end in either order, which nobody saves fast
  enough to see. Two goroutines about to publish the same state count as one, and
  an `Abort` that finds the microphone's callback waiting is `SessionController`'s.
  The language makes no difference there. The log tab and the
  level meter.
- **Form.** Gain, live preview, the remote ports and TLS are fields like those
  that are modelled. A port field that is no number is stored as 0. Two devices
  of one name are one. Directories are not deleted from outside. That the form is
  locked during a session is in `Application`.
- **Launches.** An error of writing, syncing, closing or chmod is one failure.
  The recorded PID and the signal that shows the window; PIDs are reused, and a
  stale one may be signalled. The named mutex of Windows. The detector's single
  file. A copy started with `--config` loads that path and saves to the default
  one. `--check` changes nothing.
- **Updates.** All packages are of one size, so that a size proves nothing about
  a replaced one; a signature that is accepted is right; temporary files are not
  tracked. The watcher's limits, a minute and six hundred looks, are the fault
  "patience", under which nothing is promised.
- The layout of the window, and the build and packaging scripts.

## Plan

1. Done: the dictation path (`Agreement` to `SessionController`), the endpoint,
   the local servers, the application, the form, the launches and the updates,
   with the safety of each proved.
2. The composer over calls that deliver some of their keys: what still holds when
   typing stops half way and every backspace arrives.
3. `Stitch`: `repeated_prefix` against a reference definition over bounded
   inputs, and the tracker's timeline.
4. A composition of the server's stream with the composer: the document under
   any stream the session can deliver, retractions included.
