------------------------------ MODULE Endpoint ------------------------------
(***************************************************************************)
(* server/app/api/websocket.py with runtime/limits.py and api/state.py:     *)
(* every connection has a handler, and once it is admitted a session with   *)
(* its decode task and a writer; all share the limiter and the executor's   *)
(* threads.  A step is what a task does up to an await that suspends.  Here *)
(* a session is its queue, its flush and the pass it waits for: module      *)
(* StreamingSession has the rest.  Sending to a peer that takes nothing     *)
(* ends when uvicorn's ping goes unanswered, so a send is one step.         *)
(***************************************************************************)
EXTENDS Naturals, Sequences, FiniteSets, SequencesExt

CONSTANTS
    Connections,  \* the connections ever made
    Setups        \* the servers there may be:
                  \*   sessions  limits.max_sessions
                  \*   events    bound on a session's queue for passes to go on; errors may
                  \*             add to it
                  \*   faults    which happen: "die" the decode task fails, "raise" the
                  \*             handler does

ASSUME SetupsAssumption == \A s \in Setups : s.sessions \in Nat \ {0} /\ s.events \in Nat
ASSUME ConnectionsAssumption == IsFiniteSet(Connections)

VARIABLES
    setup,     \* the server this is; it never changes
    conn,      \* the handlers and their sockets
    session,   \* the sessions; events: how many wait to be written, late: a flush was
               \* given up
    active,    \* limiter._active
    queued,    \* the executor's queue: whose pass waits for a thread
    running,   \* whose pass has one
    server     \* "serving", "draining" once uvicorn stops, "stopping" in shutdown, "stopped"

vars == <<conn, session, active, queued, running, server>>

MaxSessions == setup.sessions
MaxEvents == setup.events
Faults == setup.faults

NoSession == [task |-> "none", undecoded |-> FALSE, flush |-> "no", late |-> FALSE,
              events |-> 0, writer |-> FALSE]

Init ==
    /\ setup \in Setups
    /\ conn = [c \in Connections |-> [at |-> "none", peer |-> "talking", open |-> TRUE,
                                      slot |-> FALSE, reason |-> "error"]]
    /\ session = [c \in Connections |-> NoSession]
    /\ active = 0
    /\ queued = <<>>
    /\ running = {}
    /\ server = "serving"

InSession == {"ready", "reading", "flushing", "stopping", "draining", "closing", "releasing"}

\* _fail with a fatal error, which closes the socket.  open is _is_open: what we
\* have sent, and the disconnect we have read.
FailWith(k, there) == [k EXCEPT !.open = FALSE, !.at = there]

At(c, here) == conn[c].at = here
Step(c, there) == conn' = [conn EXCEPT ![c].at = there]
Hears(c) == conn[c].peer = "talking" /\ server = "serving"
Leaves(c) == conn[c].peer = "gone" \/ server # "serving"
pool == <<queued, running>>

-----------------------------------------------------------------------------
(* The peer.                                                                *)

\* It disconnects, or vanishes without a word; before and after the session that
\* is no different from a handshake that fails and a closed that nobody reads.
PeerLeaves(c) ==
    /\ conn[c].at \in InSession
    /\ conn[c].peer = "talking"
    /\ \E p \in {"silent", "gone"} : conn' = [conn EXCEPT ![c].peer = p]
    /\ UNCHANGED <<session, active, pool, server>>

-----------------------------------------------------------------------------
(* The handler up to its session.                                           *)

Accept(c) ==
    /\ At(c, "none")
    /\ Hears(c)
    /\ Step(c, "handshake")
    /\ UNCHANGED <<session, active, pool, server>>

\* No start in time, audio before it, a message that does not parse, another
\* language, a model that is not loaded; or nobody is there any more.
HandshakeFails(c) ==
    /\ At(c, "handshake")
    /\ conn' = [conn EXCEPT ![c] = FailWith(@, "over")]
    /\ UNCHANGED <<session, active, pool, server>>

\* try_acquire, with the lock held.
Busy == active >= MaxSessions

Rejected(c) ==
    /\ At(c, "handshake")
    /\ Hears(c)
    /\ Busy
    /\ conn' = [conn EXCEPT ![c] = FailWith(@, "over")]
    /\ UNCHANGED <<session, active, pool, server>>

\* Nothing suspends from the slot to the start of the decode task.
Admitted(c) ==
    /\ At(c, "handshake")
    /\ Hears(c)
    /\ ~Busy
    /\ active' = active + 1
    /\ conn' = [conn EXCEPT ![c].slot = TRUE, ![c].at = "ready"]
    /\ session' = [session EXCEPT ![c].task = "idle"]
    /\ UNCHANGED <<pool, server>>

\* ServerReady is sent and _pump makes the writer.
Begin(c) ==
    /\ At(c, "ready")
    /\ Step(c, "reading")
    /\ session' = [session EXCEPT ![c].writer = TRUE]
    /\ UNCHANGED <<active, pool, server>>

-----------------------------------------------------------------------------
(* _reader.                                                                 *)

Ends(k, reason) == [k EXCEPT !.at = "draining", !.reason = reason]

\* push_audio; after a flush it is ignored.
Audio(c) ==
    /\ At(c, "reading")
    /\ Hears(c)
    /\ session[c].flush = "no"
    /\ session' = [session EXCEPT ![c].undecoded = TRUE]
    /\ UNCHANGED <<conn, active, pool, server>>

\* A frame too big or ragged, a message that does not parse, a second start.
BadMessage(c) ==
    /\ At(c, "reading")
    /\ Hears(c)
    /\ conn' = [conn EXCEPT ![c] = Ends(FailWith(@, "reading"), "error")]
    /\ UNCHANGED <<session, active, pool, server>>

\* Mutant: a silent peer is waited for.
NoTimeout == FALSE
IdleTimeout == TRUE
Idle(c) ==
    /\ At(c, "reading")
    /\ conn[c].peer = "silent"
    /\ ~Leaves(c)
    /\ IdleTimeout
    /\ conn' = [conn EXCEPT ![c] = Ends(FailWith(@, "reading"), "idle_timeout")]
    /\ UNCHANGED <<session, active, pool, server>>

Disconnected(c) ==
    /\ At(c, "reading")
    /\ Leaves(c)
    /\ conn' = [conn EXCEPT ![c] = Ends([@ EXCEPT !.open = FALSE], "client_stop")]
    /\ UNCHANGED <<session, active, pool, server>>

\* flush and stop; a second flush finds the first answered.
Flush(c, last) ==
    /\ At(c, "reading")
    /\ Hears(c)
    /\ Step(c, IF last THEN "stopping" ELSE "flushing")
    /\ session' = [session EXCEPT ![c].flush = IF @ = "no" THEN "asked" ELSE @]
    /\ UNCHANGED <<active, pool, server>>

Flushed(k) == IF k.at = "stopping" THEN Ends(k, "client_stop") ELSE [k EXCEPT !.at = "reading"]

FlushAnswered(c) ==
    /\ conn[c].at \in {"flushing", "stopping"}
    /\ session[c].flush = "done"
    /\ conn' = [conn EXCEPT ![c] = Flushed(@)]
    /\ UNCHANGED <<session, active, pool, server>>

\* Thirty seconds are over: an error is queued, the flush counts as answered.
FlushTimesOut(c) ==
    /\ conn[c].at \in {"flushing", "stopping"}
    /\ session[c].flush = "asked"
    /\ conn' = [conn EXCEPT ![c] = Flushed(@)]
    /\ session' = [session EXCEPT ![c].flush = "done", ![c].late = TRUE,
                                  ![c].events = @ + 1]
    /\ UNCHANGED <<active, pool, server>>

\* Anything else that goes wrong in the reader.
Raises(c) ==
    /\ At(c, "reading")
    /\ "raise" \in Faults
    /\ conn' = [conn EXCEPT ![c] = Ends(@, "exception")]
    /\ UNCHANGED <<session, active, pool, server>>

-----------------------------------------------------------------------------
(* The decode task and the executor.                                        *)

\* _step: what it has not decoded goes to the executor, for a flush or before one.
Submit(c) ==
    /\ session[c].task = "idle"
    /\ session[c].undecoded
    /\ session[c].flush = "asked" \/ session[c].events < MaxEvents
    /\ session' = [session EXCEPT ![c].undecoded = FALSE,
                                  ![c].task = IF session[c].flush = "no" THEN "pass" ELSE "final"]
    /\ queued' = Append(queued, c)
    /\ UNCHANGED <<conn, active, running, server>>

\* A flush with nothing left to decode.
NothingToDecode(c) ==
    /\ session[c].task = "idle"
    /\ ~session[c].undecoded
    /\ session[c].flush = "asked"
    /\ session' = [session EXCEPT ![c].flush = "done"]
    /\ UNCHANGED <<conn, active, pool, server>>

\* One worker per admissible session.  Mutant: one thread for all of them.
OneForAll == 1
Workers == MaxSessions

ThreadTakes ==
    /\ queued # <<>>
    /\ Cardinality(running) < Workers
    /\ queued' = Tail(queued)
    /\ running' = running \cup {Head(queued)}
    /\ UNCHANGED <<conn, session, active, server>>

\* A pass ends with a transcript, nothing new, or an error, for the task that
\* waits for it, if it still does.
PassEnds(c) ==
    /\ c \in running
    /\ running' = running \ {c}
    /\ \/ /\ session[c].task \notin {"pass", "final"}
          /\ UNCHANGED session
       \/ /\ session[c].task = "pass"
          /\ \E new \in {0, 1} :
                 session' = [session EXCEPT ![c].task = "idle", ![c].events = @ + new]
       \/ /\ session[c].task = "final"
          /\ session' = [session EXCEPT ![c].task = "idle", ![c].flush = "done",
                                        ![c].events = @ + 1]
    /\ UNCHANGED <<conn, active, queued, server>>

\* _run's last line of defence; the reader is told nothing.
TaskDies(c) ==
    /\ "die" \in Faults
    /\ session[c].task = "idle"
    /\ session[c].undecoded \/ session[c].flush = "asked"
    /\ session' = [session EXCEPT ![c].task = "dead", ![c].flush = "done",
                                  ![c].events = @ + 1]
    /\ UNCHANGED <<conn, active, pool, server>>

-----------------------------------------------------------------------------
(* _writer, and the end of a session.                                       *)

Write(c) ==
    /\ session[c].writer
    /\ session[c].events > 0
    /\ session' = [session EXCEPT ![c].events = @ - 1]
    /\ UNCHANGED <<conn, active, pool, server>>

\* Mutant: the queue is not waited for.
NotDrained(c) == TRUE
\* events.join, for two seconds, which a peer that takes nothing outlasts.
Drain(c) == session[c].events = 0
Drained(c) ==
    /\ At(c, "draining")
    /\ Drain(c) \/ conn[c].peer = "silent"
    /\ Step(c, "closing")
    /\ session' = [session EXCEPT ![c].writer = FALSE]
    /\ UNCHANGED <<active, pool, server>>

Without(passes, c) ==
    LET places == {i \in DOMAIN passes : passes[i] = c}
    IN  IF places = {} THEN passes ELSE RemoveAt(passes, CHOOSE i \in places : TRUE)

\* aclose cancels the task.  The pass it waits for is cancelled only if no thread
\* has taken it; a thread that has decodes on, for nobody.
Close(c) ==
    /\ At(c, "closing")
    /\ Step(c, "releasing")
    /\ session' = [session EXCEPT ![c].task = "cancelled", ![c].undecoded = FALSE]
    /\ queued' = Without(queued, c)
    /\ UNCHANGED <<active, running, server>>

\* Mutant: the slot is given back by the normal end of a session only.
ReleaseUnlessRaised(c) == conn[c].slot /\ conn[c].reason # "exception"
Release(c) == conn[c].slot

\* The finally of the handler, after _fail if something was raised.
Finish(c) ==
    /\ At(c, "releasing")
    /\ active' = IF Release(c) /\ active > 0 THEN active - 1 ELSE active
    /\ conn' = [conn EXCEPT ![c] =
                  LET k == IF @.reason = "exception" THEN FailWith(@, "bye") ELSE @ IN
                  [k EXCEPT !.at = "bye", !.slot = ~Release(c)]]
    /\ UNCHANGED <<session, pool, server>>

\* closed is sent if it can be, and nothing of the session is left.
Goodbye(c) ==
    /\ At(c, "bye")
    /\ conn' = [conn EXCEPT ![c] = [FailWith(@, "over") EXCEPT !.reason = "error"]]
    /\ session' = [session EXCEPT ![c] = [NoSession EXCEPT !.task = "cancelled"]]
    /\ UNCHANGED <<active, pool, server>>

-----------------------------------------------------------------------------
(* uvicorn stops: it disconnects everyone, waits for the handlers, and runs *)
(* the end of lifespan, AppState.shutdown.                                  *)

Drop ==
    /\ server = "serving"
    /\ server' = "draining"
    /\ UNCHANGED <<conn, session, active, pool>>

Shutdown ==
    /\ server = "draining"
    /\ \A c \in Connections : conn[c].at \in {"none", "over"}
    /\ server' = "stopping"
    /\ queued' = <<>>
    /\ UNCHANGED <<conn, session, active, running>>

ThreadsAreDone == running = {}
\* The models are closed.
Stopped ==
    /\ server = "stopping"
    /\ ThreadsAreDone
    /\ server' = "stopped"
    /\ UNCHANGED <<conn, session, active, pool>>

-----------------------------------------------------------------------------
HandlerStep(c) ==
    \/ HandshakeFails(c) \/ Rejected(c) \/ Admitted(c) \/ Begin(c)
    \/ Idle(c) \/ Disconnected(c) \/ FlushAnswered(c) \/ FlushTimesOut(c)
    \/ Drained(c) \/ Close(c) \/ Finish(c) \/ Goodbye(c)
TaskStep(c) == Submit(c) \/ NothingToDecode(c) \/ TaskDies(c)

Act ==
    \/ \E c \in Connections :
         \/ PeerLeaves(c) \/ Accept(c) \/ Audio(c) \/ BadMessage(c) \/ Raises(c)
         \/ Flush(c, TRUE) \/ Flush(c, FALSE)
         \/ HandlerStep(c) \/ TaskStep(c) \/ PassEnds(c) \/ Write(c)
    \/ ThreadTakes \/ Drop \/ Shutdown \/ Stopped

Next == Act /\ UNCHANGED setup

Spec == Init /\ [][Next]_<<setup, vars>>

\* The event loop runs tasks and timers.  A pass need never end.
FairSpec ==
    /\ Spec
    /\ \A c \in Connections : WF_vars(HandlerStep(c)) /\ WF_vars(Write(c))

-----------------------------------------------------------------------------
(***************************************************************************)
(* At most max_sessions sessions decode, and the limiter counts exactly the *)
(* handlers that are in a session, however sessions end.  websocket.py:    *)
(* dictation; limits.py.                                                    *)
(***************************************************************************)
Holders == {c \in Connections : conn[c].at \in InSession}
Live(c) == session[c].task \notin {"none", "cancelled"}
CapacityHolds ==
    /\ active = Cardinality(Holders)
    /\ active <= MaxSessions
    /\ \A c \in Connections : Live(c) => c \in Holders

(***************************************************************************)
(* A slow pass does not keep another session's pass from a thread, unless   *)
(* it is one whose session is over: state.py:53, "a dedicated thread keeps  *)
(* a slow decode from blocking another session's flush".                    *)
(***************************************************************************)
PassWaitsForAbandonedOnes ==
    queued # <<>> =>
        \/ Cardinality(running) < Workers
        \/ \E d \in running : ~Live(d)

(***************************************************************************)
(* A client that stops and stays was sent every event of its session before *)
(* closed, the final transcript it waits for among them, unless the flush   *)
(* was given up or the client takes nothing for two seconds.  websocket.py:   *)
(* _pump, _drain.                                                           *)
(***************************************************************************)
NothingIsLeftUnsent ==
    \A c \in Connections :
        /\ At(c, "bye") /\ conn[c].open
        /\ conn[c].reason = "client_stop"
        /\ ~session[c].late /\ conn[c].peer # "silent"
        => session[c].events = 0

(***************************************************************************)
(* A peer that left, with or without a word, gives its slot back, though    *)
(* its pass never ends.  websocket.py: _reader, dictation.                  *)
(***************************************************************************)
SlotComesBack ==
    \A c \in Connections : conn[c].slot /\ conn[c].peer # "talking" ~> ~conn[c].slot
=============================================================================
