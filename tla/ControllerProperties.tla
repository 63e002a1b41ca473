------------------------ MODULE ControllerProperties ------------------------
(***************************************************************************)
(* What the session controller owes the user and the window.               *)
(***************************************************************************)
EXTENDS SessionController

AcceptsSettingsChanges(s) == s \in {"Idle", "Error"}

\* No Abort has come, of a focus watcher or of Quit.
Undisturbed == \A p \in Aborters : aborts[p].at \in {"none", "polling"}

(* Listening means a session to talk to and a microphone delivering to it:  *)
(* Stop calls a method of c.session without looking (controller.go:298).    *)
(* At rest the microphone is off.  An Abort during a Start breaks both: it  *)
(* finds no session to close, and Start goes on to Listening.               *)
ListeningHasASession ==
    Undisturbed =>
        /\ state = "Listening" => session # NoSession /\ mic = session
        /\ mic # NoSession => ~AcceptsSettingsChanges(state)

\* No focus watcher has called Abort.
WatchersAreQuiet == \A n \in Sessions : aborts[n].at \in {"none", "polling"}

(* One session at a time: two open connections would need two slots of a    *)
(* server that has one, and two consumers would type into one document.  A  *)
(* watcher's Abort that comes late may find the next Start under way, which *)
(* it cannot close; Quit's may too, but nothing is started after it.        *)
OneSessionAtATime ==
    WatchersAreQuiet => Cardinality({n \in Sessions : conn[n].link = "open"}) <= 1

(* controller.go:234: text may not follow the cursor into another window,   *)
(* and a session that is over types nothing any more.  That is so because   *)
(* Stop waits for the consumer; an Abort, and a Stop that gives up, do not, *)
(* and an event they leave buffered is applied after them.                  *)
NothingTypedOnceOver ==
    [][ \A n \in Sessions :
          applied'[n] # applied[n] /\ Undisturbed /\ "timeout" \notin world.faults =>
              n \notin over ]_applied

\* No consumer outlives its session into the next one.
NobodyLingers == {"timeout", "focus"} \cap world.faults = {} \/ world.sessions <= 1

(* controller.go:271: Stop waits until every event, the final transcript    *)
(* included, has been applied; composer.go:262: Reset is called so that a   *)
(* stale revision counter cannot swallow real events.  A Stop that gave up  *)
(* and an Abort leave a consumer behind, which may raise the counter again  *)
(* after the next session has reset it.                                     *)
StopAppliesEverything == NobodyLingers =>
    \A k \in 1 .. Len(stops) :
        stops[k].at = "finishing" /\ stops[k].clean /\ ~conn[stops[k].of].complained =>
            applied[stops[k].of] = conn[stops[k].of].sent

(* A Stop with a session to stop comes back, whatever the server, the       *)
(* network and an Abort meanwhile do (controller.go:306-318), but for a     *)
(* peer that takes nothing for ever: the microphone is stopped before the   *)
(* deadline begins, and waits for a callback that is sending to it (the     *)
(* write is not the non-blocking one capture_cgo.go:75 says).  Where no     *)
(* timeout happens the server is one that may answer at any later time.     *)
StopReturns ==
    \/ \A k \in 1 .. MaxStops :
          (/\ "timeout" \in world.faults
           /\ k <= Len(stops) /\ stops[k].session # NoSession)
              ~> (k <= Len(stops) /\ stops[k].at = "done")
    \/ <>[]CallbackWaits
=============================================================================
