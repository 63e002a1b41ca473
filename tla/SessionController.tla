-------------------------- MODULE SessionController --------------------------
(***************************************************************************)
(* client/internal/session/controller.go: the goroutines that share one    *)
(* Controller, with the connection of transport/client.go they read from   *)
(* and the one microphone of audio/capture_cgo.go.                         *)
(*                                                                         *)
(* A goroutine per call: Start (numbered by the session it opens), the     *)
(* consumer and the focus watcher Start leaves behind, Stop (onShortcut    *)
(* runs every toggle in a goroutine of its own) and Abort, which the focus *)
(* watchers and Quit call.  A step is what one goroutine does between two  *)
(* points where another may get in: c.mu released, a call that waits, a    *)
(* call into the composer or the capture, which lock for themselves.  A    *)
(* step publishes its update in the same breath, but for the consumer,     *)
(* which reads the state first and publishes it later.                     *)
(***************************************************************************)
EXTENDS Naturals, Sequences, FiniteSets

CONSTANTS
    MaxSessions,     \* bound on the sessions opened
    MaxTranscripts,  \* bound on the transcripts of a session
    MaxStops,        \* bound on the calls of Stop that get past its guard
    Worlds           \* the worlds the program may find itself in:
                     \*   faults    which of these happen there:
                     \*     "drop"     a connection breaks by itself
                     \*     "stall"    a peer takes nothing for a while, or for ever
                     \*     "timeout"  a server does not finish within FinalizeTimeout
                     \*     "focus"    the user moves to another window
                     \*     "quit"     the user quits
                     \*   sessions  how often the user starts, and stops, dictation

ASSUME BoundsAssumption == {MaxSessions, MaxTranscripts, MaxStops} \subseteq Nat
ASSUME WorldsAssumption == \A w \in Worlds :
    w.faults \subseteq {"drop", "stall", "timeout", "focus", "quit"} /\ w.sessions \in 0 .. MaxSessions

Sessions == 1 .. MaxSessions
NoSession == 0
Quitting == 0                        \* the Abort of Quit; the others are the watchers'
Aborters == Sessions \cup {Quitting}

VARIABLES
    world,      \* the world this is; it never changes
    state,      \* c.state
    session,    \* c.session
    latest,     \* the session c.cancel and c.finished belong to
    start,      \* where the Start of each session is
    consumer,   \* where its consumer is, and the state it is about to publish
    cancelled,  \* its context
    finished,   \* its finished channel is closed
    conn,       \* its connection: link, buffered events, transcripts sent, stop received,
                \* and whether the peer takes what is sent
    mic,        \* the session the capture delivers frames to
    stops,      \* the Stop calls
    aborts,     \* the Abort calls
    last,       \* the composer's lastRevision
    applied,    \* transcripts of each session that reached the document
    over,       \* sessions a Stop or an Abort is done with
    ui          \* the state the window shows

callVars == <<start, consumer, stops, aborts>>
textVars == <<last, applied, over>>
vars == <<state, session, latest, start, consumer, cancelled, finished, conn, mic,
          stops, aborts, last, applied, over, ui>>

States == {"Idle", "Connecting", "Listening", "Finalizing", "Error"}

\* What DecodeServerEvent makes of a frame for consume to read.  A ready is for Start,
\* a closed is the end of the connection, and a frame of an unknown type is skipped.
Event == [kind : {"transcript"}, revision : Nat] \cup [kind : {"error"}, fatal : BOOLEAN]
Fresh(revision) == [kind |-> "transcript", revision |-> revision]
Complaint(fatal) == [kind |-> "error", fatal |-> fatal]

Idling(at) == [at |-> at, seen |-> "Idle", fatal |-> FALSE]

-----------------------------------------------------------------------------
(* Connection.  CloseNow makes the pending read fail, which is not a       *)
(* normal closure; what was read before stays buffered.                    *)

Broken(c) == [c EXCEPT !.link = IF @ = "open" THEN "dropped" ELSE @]

CloseNow(n) == conn' = [m \in Sessions |-> IF m = n THEN Broken(conn[m]) ELSE conn[m]]

Cancel(n) == cancelled' = [cancelled EXCEPT ![n] = TRUE]

\* The server speaks only once it has accepted the session.
Serving(n) == conn[n].link = "open" /\ consumer[n].at # "none"

\* There is nothing to transcribe before the microphone has delivered frames.
ServerSends(n) ==
    /\ Serving(n)
    /\ start[n] \in {"opened", "listening", "done"}
    /\ conn[n].sent < MaxTranscripts
    /\ conn' = [conn EXCEPT ![n].sent = @ + 1, ![n].inbox = Append(@, Fresh(conn[n].sent + 1))]
    /\ UNCHANGED <<state, session, latest, callVars, cancelled, finished, mic, textVars, ui>>

\* At most one error a session; a fatal one is followed by the close.
ServerComplains(n, fatal) ==
    /\ Serving(n)
    /\ ~conn[n].complained
    /\ conn' = [conn EXCEPT ![n].complained = TRUE,
                            ![n].inbox = Append(@, Complaint(fatal)),
                            ![n].link = IF fatal THEN "closed" ELSE @]
    /\ UNCHANGED <<state, session, latest, callVars, cancelled, finished, mic, textVars, ui>>

ServerCloses(n) ==
    /\ Serving(n)
    /\ conn[n].asked
    /\ conn' = [conn EXCEPT ![n].link = "closed"]
    /\ UNCHANGED <<state, session, latest, callVars, cancelled, finished, mic, textVars, ui>>

LinkDrops(n) ==
    /\ "drop" \in world.faults
    /\ Serving(n)
    /\ conn' = [conn EXCEPT ![n].link = "dropped"]
    /\ UNCHANGED <<state, session, latest, callVars, cancelled, finished, mic, textVars, ui>>

\* The peer takes nothing, and the capture's callback waits in SendAudio, which has no
\* deadline.  Bound: once a session.
PeerStalls(n) ==
    /\ "stall" \in world.faults
    /\ Serving(n)
    /\ mic = n
    /\ conn[n].peer = "reads"
    /\ conn' = [conn EXCEPT ![n].peer = "stalled"]
    /\ UNCHANGED <<state, session, latest, callVars, cancelled, finished, mic, textVars, ui>>

PeerReadsAgain(n) ==
    /\ conn[n].peer = "stalled"
    /\ conn' = [conn EXCEPT ![n].peer = "back"]
    /\ UNCHANGED <<state, session, latest, callVars, cancelled, finished, mic, textVars, ui>>

-----------------------------------------------------------------------------
(* What the calls ask and do.                                               *)

\* Mutant: a session that listens does not stop another from starting.
MayStartBesides == state # "Connecting"
MayStart == state \in {"Idle", "Error"}

\* Mutant: a Stop under way does not keep another from stopping.
MayStopAgain == state \in {"Listening", "Finalizing"}
MayStop == state = "Listening"

\* Mutant: the revision counter is not reset.
KeepRevision == UNCHANGED last
ResetComposer == last' = 0

\* A break or a cancelled context ends the write as well.
CallbackWaits == \E n \in Sessions :
    mic = n /\ conn[n].peer = "stalled" /\ conn[n].link = "open" /\ ~cancelled[n]

\* Audio.Stop waits for the callback, without a deadline.  SendStop after it finds
\* writeMu free.
CloseMicrophone == ~CallbackWaits /\ mic' = NoSession

After(fatal) == IF fatal THEN "done" ELSE "running"

EventsEnded(n) == conn[n].inbox = <<>> /\ conn[n].link \in {"closed", "dropped"}

\* Mutant: Stop does not wait for the consumer.
WithoutWaiting(n) == TRUE
AllApplied(n) == finished[n]

\* Mutant: it waits without a limit.
NeverGivesUp == FALSE
GivesUp == "timeout" \in world.faults

-----------------------------------------------------------------------------
(* Start *)

Start ==
    /\ MayStart
    /\ latest < world.sessions
    /\ aborts[Quitting].at = "none"
    /\ state' = "Connecting"
    /\ ui' = "Connecting"
    /\ latest' = latest + 1
    /\ start' = [start EXCEPT ![latest + 1] = "dialing"]
    /\ ResetComposer
    /\ UNCHANGED <<session, consumer, cancelled, finished, conn, mic, stops, aborts, applied, over>>

\* c.fail, and Start returns its error
Fail(n) ==
    /\ start' = [start EXCEPT ![n] = "failed"]
    /\ state' = "Error"
    /\ ui' = "Error"
    /\ session' = NoSession
    /\ Cancel(n)

Dial(n) ==
    /\ start[n] = "dialing"
    /\ ~cancelled[n]
    /\ start' = [start EXCEPT ![n] = "awaiting"]
    /\ conn' = [conn EXCEPT ![n].link = "open"]
    /\ UNCHANGED <<state, session, latest, consumer, cancelled, finished, mic, stops, aborts, textVars, ui>>

\* No connection, no start message, no ready within 30 s, or cancelled meanwhile.
NotReady(n) ==
    /\ start[n] \in {"dialing", "awaiting"}
    /\ Fail(n)
    /\ CloseNow(n)
    /\ finished' = [finished EXCEPT ![n] = TRUE]
    /\ UNCHANGED <<latest, consumer, mic, stops, aborts, textVars>>

Ready(n) ==
    /\ start[n] = "awaiting"
    /\ start' = [start EXCEPT ![n] = "microphone"]
    /\ session' = n
    /\ consumer' = [consumer EXCEPT ![n] = Idling("running")]
    /\ UNCHANGED <<state, latest, cancelled, finished, conn, mic, stops, aborts, textVars, ui>>

OpenMicrophone(n) ==
    /\ start[n] = "microphone"
    /\ mic = NoSession
    /\ mic' = n
    /\ start' = [start EXCEPT ![n] = "opened"]
    /\ UNCHANGED <<state, session, latest, consumer, cancelled, finished, conn, stops, aborts, textVars, ui>>

\* No device, or the capture is already running.
NoMicrophone(n) ==
    /\ start[n] = "microphone"
    /\ Fail(n)
    /\ CloseNow(n)
    /\ UNCHANGED <<latest, consumer, finished, mic, stops, aborts, textVars>>

\* Whatever the state has become meanwhile.
Listen(n) ==
    /\ start[n] = "opened"
    /\ start' = [start EXCEPT ![n] = "listening"]
    /\ state' = "Listening"
    /\ ui' = "Listening"
    /\ UNCHANGED <<session, latest, consumer, cancelled, finished, conn, mic, stops, aborts, textVars>>

WatchFocus(n) ==
    /\ start[n] = "listening"
    /\ start' = [start EXCEPT ![n] = "done"]
    /\ aborts' = IF "focus" \in world.faults THEN [aborts EXCEPT ![n].at = "polling"] ELSE aborts
    /\ UNCHANGED <<state, session, latest, consumer, cancelled, finished, conn, mic, stops, textVars, ui>>

-----------------------------------------------------------------------------
(* consume *)

ConsumeTranscript(n) ==
    /\ consumer[n].at = "running"
    /\ conn[n].inbox # <<>>
    /\ Head(conn[n].inbox).kind = "transcript"
    /\ conn' = [conn EXCEPT ![n].inbox = Tail(@)]
    /\ LET revision == Head(conn[n].inbox).revision
       IN  IF revision > last
           THEN /\ last' = revision
                /\ applied' = [applied EXCEPT ![n] = @ + 1]
           ELSE UNCHANGED <<last, applied>>                   \* StaleDiscarded
    /\ UNCHANGED <<state, session, latest, callVars, cancelled, finished, mic, over, ui>>

\* handleServerError up to its c.State()
ConsumeError(n) ==
    /\ consumer[n].at = "running"
    /\ conn[n].inbox # <<>>
    /\ Head(conn[n].inbox).kind = "error"
    /\ conn' = [conn EXCEPT ![n].inbox = Tail(@)]
    /\ consumer' = [consumer EXCEPT ![n] =
                      [at |-> "reporting", seen |-> state, fatal |-> Head(conn[n].inbox).fatal]]
    /\ UNCHANGED <<state, session, latest, start, cancelled, finished, mic, stops, aborts, textVars, ui>>

ReportError(n) ==
    /\ consumer[n].at = "reporting"
    /\ ui' = consumer[n].seen
    /\ consumer' = [consumer EXCEPT ![n] = Idling(After(consumer[n].fatal))]
    /\ finished' = [finished EXCEPT ![n] = @ \/ consumer[n].fatal]
    /\ UNCHANGED <<state, session, latest, start, cancelled, conn, mic, stops, aborts, textVars>>

\* The events channel is closed: the state is published, and left as it is.
ConsumeEnd(n) ==
    /\ consumer[n].at = "running"
    /\ EventsEnded(n)
    /\ consumer' = [consumer EXCEPT ![n] = Idling("done")]
    /\ finished' = [finished EXCEPT ![n] = TRUE]
    /\ ui' = IF conn[n].link = "dropped" /\ ~cancelled[n] THEN "Error" ELSE ui
    /\ UNCHANGED <<state, session, latest, start, cancelled, conn, mic, stops, aborts, textVars>>

-----------------------------------------------------------------------------
(* Stop *)

Advance(k, at) == stops' = [stops EXCEPT ![k].at = at]

Stop ==
    /\ MayStop
    /\ Len(stops) < MaxStops /\ Len(stops) < world.sessions
    /\ state' = "Finalizing"
    /\ ui' = "Finalizing"
    /\ stops' = Append(stops, [at |-> "microphone", session |-> session, of |-> latest,
                               failed |-> FALSE, clean |-> FALSE])
    /\ UNCHANGED <<session, latest, start, consumer, cancelled, finished, conn, mic, aborts, textVars>>

StopMicrophone(k) ==
    /\ stops[k].at = "microphone"
    /\ CloseMicrophone
    /\ Advance(k, "sending")
    /\ UNCHANGED <<state, session, latest, start, consumer, cancelled, finished, conn, aborts, textVars, ui>>

\* SendStop on a nil session panics: the call gets no further.
SendStop(k) ==
    /\ stops[k].at = "sending"
    /\ stops[k].session # NoSession
    /\ conn[stops[k].session].link = "open"
    /\ conn' = [conn EXCEPT ![stops[k].session].asked = TRUE]
    /\ Advance(k, "waiting")
    /\ UNCHANGED <<state, session, latest, start, consumer, cancelled, finished, mic, aborts, textVars, ui>>

SendStopFails(k) ==
    /\ stops[k].at = "sending"
    /\ stops[k].session # NoSession
    /\ CloseNow(stops[k].session)
    /\ stops' = [stops EXCEPT ![k].at = "draining", ![k].failed = TRUE]
    /\ UNCHANGED <<state, session, latest, start, consumer, cancelled, finished, mic, aborts, textVars, ui>>

StopFinished(k) ==
    /\ stops[k].at \in {"waiting", "draining"}
    /\ AllApplied(stops[k].of)
    /\ Cancel(stops[k].of)
    /\ stops' = [stops EXCEPT ![k].at = "finishing",
                              ![k].clean = /\ stops[k].at = "waiting"
                                           /\ conn[stops[k].of].link = "closed"
                                           /\ conn[stops[k].of].asked]
    /\ UNCHANGED <<state, session, latest, start, consumer, finished, conn, mic, aborts, textVars, ui>>

StopTimesOut(k) ==
    /\ GivesUp
    /\ stops[k].at = "waiting"
    /\ ui' = "Finalizing"
    /\ CloseNow(stops[k].session)
    /\ Advance(k, "closing")
    /\ UNCHANGED <<state, session, latest, start, consumer, cancelled, finished, mic, aborts, textVars>>

StopCancels(k) ==
    /\ stops[k].at = "closing"
    /\ Cancel(stops[k].of)
    /\ Advance(k, "finishing")
    /\ UNCHANGED <<state, session, latest, start, consumer, finished, conn, mic, aborts, textVars, ui>>

\* c.finish: Composer.Finish, session.Close, and back to rest
FinishStop(k) ==
    /\ stops[k].at = "finishing"
    /\ Advance(k, "done")
    /\ CloseNow(stops[k].session)
    /\ state' = IF stops[k].failed THEN "Error" ELSE "Idle"
    /\ ui' = state'
    /\ session' = NoSession
    /\ over' = over \cup {stops[k].session}
    /\ UNCHANGED <<latest, start, consumer, cancelled, finished, mic, aborts, last, applied>>

-----------------------------------------------------------------------------
(* Abort *)

\* A tick of the watcher's ticker: the session is over, or the window is another.
PollFocus(n) ==
    /\ aborts[n].at = "polling"
    /\ \/ /\ state # "Listening" \/ cancelled[n]
          /\ aborts' = [aborts EXCEPT ![n].at = "none"]
       \/ /\ state = "Listening"
          /\ aborts' = [aborts EXCEPT ![n].at = "called"]
    /\ UNCHANGED <<state, session, latest, start, consumer, cancelled, finished, conn, mic,
                   stops, textVars, ui>>

Quit ==
    /\ "quit" \in world.faults
    /\ aborts[Quitting].at = "none"
    /\ aborts' = [aborts EXCEPT ![Quitting].at = "called"]
    /\ UNCHANGED <<state, session, latest, start, consumer, cancelled, finished, conn, mic,
                   stops, textVars, ui>>

Abort(p) ==
    /\ aborts[p].at = "called"
    /\ aborts' = [aborts EXCEPT ![p] =
                    IF state = "Idle" THEN [@ EXCEPT !.at = "done"]
                    ELSE [at |-> "tearing", session |-> session, of |-> latest]]
    /\ UNCHANGED <<state, session, latest, start, consumer, cancelled, finished, conn, mic,
                   stops, textVars, ui>>

AbortTearsDown(p) ==
    /\ aborts[p].at = "tearing"
    /\ aborts' = [aborts EXCEPT ![p].at = "settling"]
    /\ CloseMicrophone
    /\ Cancel(aborts[p].of)
    /\ CloseNow(aborts[p].session)
    /\ UNCHANGED <<state, session, latest, start, consumer, finished, stops, textVars, ui>>

AbortSettles(p) ==
    /\ aborts[p].at = "settling"
    /\ aborts' = [aborts EXCEPT ![p].at = "done"]
    /\ state' = "Idle"
    /\ ui' = "Idle"
    /\ session' = NoSession
    /\ over' = over \cup {aborts[p].session}
    /\ UNCHANGED <<latest, start, consumer, cancelled, finished, conn, mic, stops, last, applied>>

-----------------------------------------------------------------------------
Init ==
    /\ world \in Worlds
    /\ state = "Idle"
    /\ session = NoSession
    /\ latest = 0
    /\ start = [n \in Sessions |-> "none"]
    /\ consumer = [n \in Sessions |-> Idling("none")]
    /\ cancelled = [n \in Sessions |-> FALSE]
    /\ finished = [n \in Sessions |-> FALSE]
    /\ conn = [n \in Sessions |-> [link |-> "none", inbox |-> <<>>, sent |-> 0,
                                   asked |-> FALSE, complained |-> FALSE, peer |-> "reads"]]
    /\ mic = NoSession
    /\ stops = <<>>
    /\ aborts = [p \in Aborters |-> [at |-> "none", session |-> NoSession, of |-> 0]]
    /\ last = 0
    /\ applied = [n \in Sessions |-> 0]
    /\ over = {}
    /\ ui = "Idle"

Transport(n) == ServerSends(n) \/ ServerCloses(n) \/ LinkDrops(n)
                \/ PeerStalls(n) \/ PeerReadsAgain(n)
                \/ \E fatal \in BOOLEAN : ServerComplains(n, fatal)

Starting(n) == Dial(n) \/ NotReady(n) \/ Ready(n) \/ OpenMicrophone(n) \/ NoMicrophone(n)
               \/ Listen(n) \/ WatchFocus(n)

Consuming(n) == ConsumeTranscript(n) \/ ConsumeError(n) \/ ReportError(n) \/ ConsumeEnd(n)

Stopping(k) == StopMicrophone(k) \/ SendStop(k) \/ SendStopFails(k) \/ StopFinished(k)
               \/ StopTimesOut(k) \/ StopCancels(k) \/ FinishStop(k)

Aborting(p) == Abort(p) \/ AbortTearsDown(p) \/ AbortSettles(p)

Moves ==
    \/ Start \/ Stop \/ Quit
    \/ \E n \in Sessions : Transport(n) \/ Starting(n) \/ Consuming(n) \/ PollFocus(n)
    \/ \E k \in 1 .. Len(stops) : Stopping(k)
    \/ \E p \in Aborters : Aborting(p)

Next == Moves /\ UNCHANGED world

Spec == Init /\ [][Next]_<<world, vars>>

(* A runnable goroutine runs, and the ten seconds of FinalizeTimeout pass;  *)
(* nothing is assumed of the server, the network or the user.               *)
Fairness ==
    /\ \A n \in Sessions : WF_vars(Starting(n)) /\ WF_vars(Consuming(n))
    /\ \A k \in 1 .. MaxStops :
          WF_vars(k <= Len(stops) /\ (Stopping(k)))
    /\ \A p \in Aborters : WF_vars(Aborting(p))

FairSpec == Spec /\ Fairness
=============================================================================
