--------------------------- MODULE ControllerProofs ---------------------------
(***************************************************************************)
(* What the controller owes the user, for any number of sessions, stops    *)
(* and transcripts, and in every world; and then what the composer that    *)
(* it gives its transcripts to does to the user's document, for texts of   *)
(* any length.  The two specifications share no variable.                  *)
(***************************************************************************)
EXTENDS ControllerProperties, Composer, FiniteSetTheorems, SequenceTheorems,
        WellFoundedInduction, TLAPS

Underway == {"dialing", "awaiting", "microphone", "opened"}
Starts == {"none", "failed", "listening", "done"} \cup Underway
Consumer == [at : {"none", "running", "reporting", "done"}, seen : States, fatal : BOOLEAN]
Conn == [link : {"none", "open", "closed", "dropped"}, inbox : Seq(Event), sent : Nat,
         asked : BOOLEAN, complained : BOOLEAN, peer : {"reads", "stalled", "back"}]
StopCall == [at : {"microphone", "sending", "waiting", "draining", "closing", "finishing", "done"},
             session : Sessions \cup {NoSession}, of : Sessions,
             failed : BOOLEAN, clean : BOOLEAN]
AbortCall == [at : {"none", "polling", "called", "tearing", "settling", "done"},
              session : Sessions \cup {NoSession}, of : 0 .. MaxSessions]

(* Types of the state: controller.go and client.go.                         *)
TypeOK ==
    /\ world \in Worlds
    /\ state \in States
    /\ session \in Sessions \cup {NoSession}
    /\ latest \in 0 .. world.sessions
    /\ start \in [Sessions -> Starts]
    /\ consumer \in [Sessions -> Consumer]
    /\ cancelled \in [Sessions -> BOOLEAN]
    /\ finished \in [Sessions -> BOOLEAN]
    /\ conn \in [Sessions -> Conn]
    /\ mic \in Sessions \cup {NoSession}
    /\ stops \in Seq(StopCall)
    /\ aborts \in [Aborters -> AbortCall]
    /\ last \in Nat
    /\ applied \in [Sessions -> Nat]
    /\ over \subseteq Sessions \cup {NoSession}
    /\ ui \in States

\* What has become of a session by the place where its Start is.
SessionInv ==
    /\ state = "Listening" => latest # 0
    /\ \A n \in Sessions :
        /\ start[n] = "none" <=> n > latest
        /\ start[n] = "none" => applied[n] = 0
        /\ start[n] \in {"none", "dialing"} => conn[n].link = "none"
        /\ start[n] = "failed" => conn[n].link # "open"
        /\ start[n] \in {"none", "dialing", "awaiting"} =>
            ~finished[n] /\ consumer[n].at = "none"

\* What a session's connection delivers.
ConnInv == \A n \in Sessions :
    /\ start[n] \notin {"opened", "listening", "done"} =>
        conn[n].sent = 0 /\ \A i \in DOMAIN conn[n].inbox : conn[n].inbox[i].kind = "error"
    /\ consumer[n].at = "none" =>
        conn[n].link # "closed" /\ conn[n].inbox = <<>> /\ ~conn[n].complained
    /\ \A i \in DOMAIN conn[n].inbox : conn[n].inbox[i].kind = "error" =>
        conn[n].complained /\ (conn[n].inbox[i].fatal => conn[n].link # "open")
    /\ consumer[n].at = "reporting" =>
        conn[n].complained /\ (consumer[n].fatal => conn[n].link # "open")
    /\ finished[n] =>
        /\ consumer[n].at \in {"none", "done"}
        /\ conn[n].link # "open"
        /\ conn[n].link = "closed" /\ ~conn[n].complained => conn[n].inbox = <<>>

\* What Stop knows.
StopInv == \A k \in DOMAIN stops :
    /\ stops[k].clean => finished[stops[k].of] /\ conn[stops[k].of].link = "closed"
    /\ "timeout" \notin world.faults =>
        /\ stops[k].at # "closing"
        /\ stops[k].at = "finishing" => finished[stops[k].of]

NothingToStop == \A k \in DOMAIN stops : stops[k].at = "done"
AtRest == AcceptsSettingsChanges(state)

\* Each state of the controller, as long as no Abort comes.
RestInv == AtRest =>
    /\ session = NoSession /\ mic = NoSession
    /\ NothingToStop
    /\ \A n \in Sessions : start[n] \notin Underway /\ conn[n].link # "open"
ConnectingInv == state = "Connecting" =>
    /\ latest \in Sessions /\ start[latest] \in Underway
    /\ session = IF start[latest] \in {"microphone", "opened"} THEN latest ELSE NoSession
    /\ mic = IF start[latest] = "opened" THEN latest ELSE NoSession
    /\ NothingToStop
ListeningInv == state = "Listening" =>
    /\ latest \in Sessions /\ start[latest] \notin Underway
    /\ session = latest /\ mic = latest
    /\ NothingToStop
FinalizingInv == state = "Finalizing" =>
    /\ latest \in Sessions /\ start[latest] \notin Underway
    /\ session = latest
    /\ \E k \in DOMAIN stops :
        /\ \A j \in DOMAIN stops : j # k => stops[j].at = "done"
        /\ stops[k].at # "done" /\ stops[k].session = latest /\ stops[k].of = latest
        /\ mic = IF stops[k].at = "microphone" THEN latest ELSE NoSession
CalmInv == Undisturbed => RestInv /\ ConnectingInv /\ ListeningInv /\ FinalizingInv

\* Only the last session is being started, and only its connection is open.
QuietInv ==
    /\ WatchersAreQuiet => \A n \in Sessions :
        n # latest => start[n] \notin Underway /\ conn[n].link # "open"
    /\ "focus" \notin world.faults => \A n \in Sessions : aborts[n].at = "none"
    /\ \A n \in Sessions : start[n] # "done" => aborts[n].at = "none"

\* The consumer of a session that is over has ended, unless Start failed.
Lingering(n) == consumer[n].at \in {"running", "reporting"} /\ start[n] # "failed"
LingerInv ==
    /\ Undisturbed /\ "timeout" \notin world.faults => \A n \in Sessions :
        n # latest \/ AtRest => ~Lingering(n)
    /\ NobodyLingers => \A n \in Sessions : n < latest => ~Lingering(n)

\* What was sent has been applied or is about to be, in order.
TextInv == NobodyLingers =>
    /\ \A n \in Sessions : ~conn[n].complained =>
        /\ applied[n] + Len(conn[n].inbox) = conn[n].sent
        /\ \A i \in DOMAIN conn[n].inbox : conn[n].inbox[i] = Fresh(applied[n] + i)
    /\ \A n \in Sessions : n = latest /\ ~conn[n].complained => last = applied[n]

\* A session that a Stop is done with has been read to its end.
OverInv == Undisturbed /\ "timeout" \notin world.faults =>
    \A n \in Sessions : n \in over => finished[n]

IInv == /\ TypeOK /\ SessionInv /\ ConnInv /\ StopInv /\ CalmInv /\ QuietInv /\ LingerInv
        /\ TextInv /\ OverInv

\* A connection other than n's.
Others(n) == \A m \in Sessions : m # n => conn'[m] = conn[m]
\* A connection that goes on, or breaks.
Goes(m) ==
    /\ conn'[m].inbox = conn[m].inbox /\ conn'[m].sent = conn[m].sent
    /\ conn'[m].complained = conn[m].complained
    /\ conn'[m].link = conn[m].link \/ (conn[m].link = "open" /\ conn'[m].link = "dropped")

-----------------------------------------------------------------------------
(* The parts of the state.                                                  *)

LEMMA ConnTypes == ASSUME NEW c \in Conn
  PROVE  /\ c.inbox \in Seq(Event) /\ c.sent \in Nat /\ c.complained \in BOOLEAN /\ c.asked \in BOOLEAN
         /\ c.link \in {"none", "open", "closed", "dropped"}
BY DEF Conn

LEMMA EventTypes ==
  /\ \A r \in Nat : Fresh(r) \in Event /\ Fresh(r).kind = "transcript" /\ Fresh(r).revision = r
  /\ \A b \in BOOLEAN : Complaint(b) \in Event /\ Complaint(b).kind = "error" /\ Complaint(b).fatal = b
  /\ \A e \in Event : \/ e.kind = "transcript" /\ e.revision \in Nat
                      \/ e.kind = "error" /\ e.fatal \in BOOLEAN
BY DEF Fresh, Complaint, Event

LEMMA ChangeOfOne == ASSUME NEW n \in Sessions, NEW c \in Conn, conn \in [Sessions -> Conn],
                            conn' = [conn EXCEPT ![n] = c]
                     PROVE  conn' \in [Sessions -> Conn] /\ conn'[n] = c /\ Others(n)
BY DEF Others

LEMMA Closing == ASSUME conn \in [Sessions -> Conn], NEW n, CloseNow(n)
  PROVE  /\ conn' \in [Sessions -> Conn]
         /\ \A m \in Sessions : Goes(m) /\ (m = n => conn'[m].link # "open")
<1>1. ASSUME NEW m \in Sessions PROVE conn'[m] = IF m = n THEN Broken(conn[m]) ELSE conn[m]
  BY <1>1 DEF CloseNow
<1>2. ASSUME NEW c \in Conn PROVE /\ Broken(c) \in Conn
                                  /\ Broken(c).inbox = c.inbox /\ Broken(c).sent = c.sent
                                  /\ Broken(c).complained = c.complained
                                  /\ Broken(c).link = IF c.link = "open" THEN "dropped" ELSE c.link
  BY <1>2, ConnTypes DEF Broken, Conn
<1>3. ASSUME NEW m \in Sessions PROVE conn[m] \in Conn
  OBVIOUS
<1>4. ASSUME NEW m \in Sessions PROVE conn'[m] \in Conn
  BY <1>1, <1>2, <1>3
<1>5. conn' = [m \in Sessions |-> conn'[m]]
  BY DEF CloseNow
<1>6. conn' \in [Sessions -> Conn]
  BY <1>4, <1>5
<1>7. ASSUME NEW m \in Sessions PROVE Goes(m) /\ (m = n => conn'[m].link # "open")
  BY <1>1, <1>2, <1>3 DEF Goes
<1>8. QED
  BY <1>6, <1>7

LEMMA Sending == ASSUME TypeOK, NEW n \in Sessions, ServerSends(n)
  PROVE  /\ conn' \in [Sessions -> Conn] /\ Others(n)
         /\ conn'[n].inbox = Append(conn[n].inbox, Fresh(conn[n].sent + 1))
         /\ conn'[n].sent = conn[n].sent + 1
         /\ conn'[n].complained = conn[n].complained /\ conn'[n].link = conn[n].link
<1> DEFINE c == conn[n]
           event == Fresh(c.sent + 1)
           counted == [c EXCEPT !.sent = c.sent + 1]
           queued == [counted EXCEPT !.inbox = Append(c.inbox, event)]
<1>1. c \in Conn
  BY DEF TypeOK
<1>2. c.sent + 1 \in Nat /\ event \in Event
  BY <1>1, ConnTypes, EventTypes
<1>3. counted \in Conn /\ counted.inbox = c.inbox /\ counted.link = c.link
      /\ counted.complained = c.complained /\ counted.sent = c.sent + 1
  BY <1>1, <1>2 DEF Conn
<1>4. Append(c.inbox, event) \in Seq(Event)
  BY <1>1, <1>2, ConnTypes
<1>5. conn' = [conn EXCEPT ![n] = queued]
  BY DEF ServerSends
<1> HIDE DEF event, counted
<1>6. queued \in Conn /\ queued.inbox = Append(c.inbox, event) /\ queued.link = c.link
      /\ queued.complained = c.complained /\ queued.sent = c.sent + 1
  BY <1>3, <1>4 DEF Conn
<1> HIDE DEF c, queued
<1>7. conn' \in [Sessions -> Conn] /\ conn'[n] = queued /\ Others(n)
  BY <1>5, <1>6, ChangeOfOne DEF TypeOK
<1>8. QED
  BY <1>6, <1>7 DEF c, event

LEMMA Complaining == ASSUME TypeOK, NEW n \in Sessions, NEW fatal \in BOOLEAN,
                            ServerComplains(n, fatal)
  PROVE  /\ conn' \in [Sessions -> Conn] /\ Others(n)
         /\ conn'[n].inbox = Append(conn[n].inbox, Complaint(fatal))
         /\ conn'[n].sent = conn[n].sent /\ conn'[n].complained
         /\ conn'[n].link = IF fatal THEN "closed" ELSE conn[n].link
<1> DEFINE c == conn[n]
           event == Complaint(fatal)
           noted == [c EXCEPT !.complained = TRUE]
           queued == [noted EXCEPT !.inbox = Append(c.inbox, event)]
           link == IF fatal THEN "closed" ELSE c.link
           told == [queued EXCEPT !.link = link]
<1>1. c \in Conn
  BY DEF TypeOK
<1>2. event \in Event
  BY EventTypes
<1>3. noted \in Conn /\ noted.inbox = c.inbox /\ noted.link = c.link
      /\ noted.complained = TRUE /\ noted.sent = c.sent
  BY <1>1 DEF Conn
<1>4. Append(c.inbox, event) \in Seq(Event)
  BY <1>1, <1>2, ConnTypes
<1>5. conn' = [conn EXCEPT ![n] = told]
  BY DEF ServerComplains
<1> HIDE DEF event, noted
<1>6. queued \in Conn /\ queued.inbox = Append(c.inbox, event) /\ queued.link = c.link
      /\ queued.complained = TRUE /\ queued.sent = c.sent
  BY <1>3, <1>4 DEF Conn
<1>7. link \in {"none", "open", "closed", "dropped"}
  BY <1>1, ConnTypes
<1> HIDE DEF c, queued, link
<1>8. told \in Conn /\ told.inbox = Append(c.inbox, event) /\ told.link = link
      /\ told.complained = TRUE /\ told.sent = c.sent
  BY <1>6, <1>7 DEF Conn
<1> HIDE DEF told
<1>9. conn' \in [Sessions -> Conn] /\ conn'[n] = told /\ Others(n)
  BY <1>5, <1>8, ChangeOfOne DEF TypeOK
<1>10. QED
  BY <1>8, <1>9 DEF c, event, link

\* Only the link of n's connection changes.
LEMMA Linking == ASSUME TypeOK, NEW n \in Sessions,
                        NEW link \in {"none", "open", "closed", "dropped"},
                        conn' = [conn EXCEPT ![n].link = link]
  PROVE  /\ conn' \in [Sessions -> Conn] /\ Others(n)
         /\ conn'[n].inbox = conn[n].inbox /\ conn'[n].sent = conn[n].sent
         /\ conn'[n].complained = conn[n].complained /\ conn'[n].link = link
<1> DEFINE c == [conn[n] EXCEPT !.link = link]
<1>1. conn[n] \in Conn
  BY DEF TypeOK
<1>2. c \in Conn /\ c.inbox = conn[n].inbox /\ c.sent = conn[n].sent
      /\ c.complained = conn[n].complained /\ c.link = link
  BY <1>1 DEF Conn
<1>3. conn' = [conn EXCEPT ![n] = c]
  OBVIOUS
<1> HIDE DEF c
<1>4. QED
  BY <1>2, <1>3, ChangeOfOne DEF TypeOK

LEMMA Reading == ASSUME TypeOK, NEW n \in Sessions, conn[n].inbox # <<>>,
                        conn' = [conn EXCEPT ![n].inbox = Tail(@)]
  PROVE  /\ conn' \in [Sessions -> Conn] /\ Others(n)
         /\ conn'[n].inbox = Tail(conn[n].inbox) /\ conn'[n].sent = conn[n].sent
         /\ conn'[n].complained = conn[n].complained /\ conn'[n].link = conn[n].link
         /\ Head(conn[n].inbox) = conn[n].inbox[1] /\ 1 \in DOMAIN conn[n].inbox
         /\ Len(conn'[n].inbox) = Len(conn[n].inbox) - 1
         /\ \A i \in DOMAIN conn'[n].inbox :
              i + 1 \in DOMAIN conn[n].inbox /\ conn'[n].inbox[i] = conn[n].inbox[i + 1]
<1> DEFINE q == conn[n].inbox
           c == [conn[n] EXCEPT !.inbox = Tail(q)]
<1>1. conn[n] \in Conn
  BY DEF TypeOK
<1>2. q \in Seq(Event)
  BY <1>1, ConnTypes
<1>3. Tail(q) \in Seq(Event)
  BY <1>2
<1>4. c \in Conn /\ c.inbox = Tail(q) /\ c.sent = conn[n].sent
      /\ c.complained = conn[n].complained /\ c.link = conn[n].link
  BY <1>1, <1>3 DEF Conn
<1>5. conn' = [conn EXCEPT ![n] = c]
  OBVIOUS
<1> HIDE DEF c
<1>6. conn' \in [Sessions -> Conn] /\ conn'[n] = c /\ Others(n)
  BY <1>4, <1>5, ChangeOfOne DEF TypeOK
<1>7. q # <<>>
  OBVIOUS
<1> HIDE DEF q
<1>8. /\ Head(q) = q[1] /\ 1 \in DOMAIN q /\ Len(Tail(q)) = Len(q) - 1
      /\ \A i \in DOMAIN Tail(q) : i + 1 \in DOMAIN q /\ Tail(q)[i] = q[i + 1]
  BY <1>2, <1>7
<1>9. QED
  BY <1>4, <1>6, <1>8 DEF q

\* SendStop: only asked changes.
LEMMA Asking == ASSUME TypeOK, NEW n \in Sessions, conn' = [conn EXCEPT ![n].asked = TRUE]
                PROVE  conn' \in [Sessions -> Conn] /\ \A m \in Sessions : Goes(m)
<1> DEFINE c == [conn[n] EXCEPT !.asked = TRUE]
<1>1. conn[n] \in Conn
  BY DEF TypeOK
<1>2. c \in Conn /\ c.inbox = conn[n].inbox /\ c.sent = conn[n].sent
      /\ c.complained = conn[n].complained /\ c.link = conn[n].link
  BY <1>1 DEF Conn
<1>3. conn' = [conn EXCEPT ![n] = c]
  OBVIOUS
<1> HIDE DEF c
<1>4. conn' \in [Sessions -> Conn] /\ conn'[n] = c /\ Others(n)
  BY <1>2, <1>3, ChangeOfOne DEF TypeOK
<1>5. QED
  BY <1>2, <1>4 DEF Goes, Others

\* A peer that stalls, or reads again: only that changes.
Stalls(n) == PeerStalls(n) \/ PeerReadsAgain(n)

LEMMA Stalling == ASSUME TypeOK, NEW n \in Sessions, Stalls(n)
  PROVE  /\ conn' \in [Sessions -> Conn] /\ \A m \in Sessions : Goes(m)
         /\ UNCHANGED <<state, session, latest, callVars, cancelled, finished, mic, textVars, ui>>
<1>1. PICK peer \in {"reads", "stalled", "back"} : conn' = [conn EXCEPT ![n].peer = peer]
  BY DEF Stalls, PeerStalls, PeerReadsAgain
<1> DEFINE c == [conn[n] EXCEPT !.peer = peer]
<1>2. conn[n] \in Conn
  BY DEF TypeOK
<1>3. c \in Conn /\ c.inbox = conn[n].inbox /\ c.sent = conn[n].sent
      /\ c.complained = conn[n].complained /\ c.link = conn[n].link
  BY <1>2 DEF Conn
<1>4. conn' = [conn EXCEPT ![n] = c]
  BY <1>1
<1> HIDE DEF c
<1>5. conn' \in [Sessions -> Conn] /\ conn'[n] = c /\ Others(n)
  BY <1>3, <1>4, ChangeOfOne DEF TypeOK
<1>6. \A m \in Sessions : Goes(m)
  BY <1>3, <1>5 DEF Goes, Others
<1>7. QED
  BY <1>5, <1>6 DEF Stalls, PeerStalls, PeerReadsAgain

LEMMA StopFields == ASSUME NEW c \in StopCall
  PROVE  \A at \in {"microphone", "sending", "waiting", "draining", "closing", "finishing", "done"} :
           \A failed \in BOOLEAN, clean \in BOOLEAN :
             /\ [c EXCEPT !.at = at] \in StopCall
             /\ [c EXCEPT !.at = at, !.failed = failed] \in StopCall
             /\ [c EXCEPT !.at = at, !.clean = clean] \in StopCall
BY DEF StopCall

LEMMA AbortFields == ASSUME NEW c \in AbortCall
  PROVE  \A at \in {"none", "polling", "called", "tearing", "settling", "done"} :
           [c EXCEPT !.at = at] \in AbortCall
BY DEF AbortCall

\* One of the Stops goes on.
LEMMA Advancing == ASSUME TypeOK, NEW k \in 1 .. Len(stops), NEW c \in StopCall,
                          stops' = [stops EXCEPT ![k] = c]
                   PROVE  /\ stops' \in Seq(StopCall) /\ DOMAIN stops' = DOMAIN stops
                          /\ Len(stops') = Len(stops) /\ stops'[k] = c
                          /\ \A j \in DOMAIN stops : j # k => stops'[j] = stops[j]
BY DEF TypeOK

LEMMA Bounds == ASSUME TypeOK
  PROVE  /\ MaxSessions \in Nat /\ Sessions = 1 .. MaxSessions /\ NoSession \notin Sessions
         /\ world.sessions \in 0 .. MaxSessions /\ latest \in 0 .. MaxSessions
         /\ latest # 0 => latest \in Sessions
         /\ Quitting \notin Sessions /\ Quitting \in Aborters /\ Sessions \subseteq Aborters
         /\ \A n \in Sessions : n \in Nat /\ n >= 1
BY BoundsAssumption, WorldsAssumption DEF TypeOK, Sessions, NoSession, Quitting, Aborters

-----------------------------------------------------------------------------
(* The invariant.                                                           *)

LEMMA InitHolds == ASSUME Init PROVE IInv
<1> DEFINE none == [link |-> "none", inbox |-> <<>>, sent |-> 0, asked |-> FALSE,
                    complained |-> FALSE, peer |-> "reads"]
<1>1. MaxSessions \in Nat /\ world.sessions \in 0 .. MaxSessions /\ NoSession \notin Sessions
      /\ \A n \in Sessions : n \in Nat /\ n >= 1
  BY BoundsAssumption, WorldsAssumption DEF Init, Sessions, NoSession
<1>2. none \in Conn /\ none.inbox = <<>> /\ none.sent = 0 /\ none.link = "none"
      /\ none.complained = FALSE
  BY DEF Conn
<1>3. Idling("none") \in Consumer /\ Idling("none").at = "none"
  BY DEF Idling, Consumer, States
<1>4. TypeOK
  <2>1. conn \in [Sessions -> Conn]
    BY <1>2 DEF Init
  <2>2. [at |-> "none", session |-> NoSession, of |-> 0] \in AbortCall
    BY <1>1 DEF AbortCall
  <2>3. aborts \in [Aborters -> AbortCall]
    BY <2>2 DEF Init
  <2>4. QED
    BY <1>1, <1>3, <2>1, <2>3 DEF Init, TypeOK, States, Starts
<1>5. \A n \in Sessions : start[n] = "none" /\ consumer[n].at = "none" /\ conn[n] = none
                          /\ ~finished[n] /\ applied[n] = 0
  BY <1>3 DEF Init
<1>6. state = "Idle" /\ latest = 0 /\ session = NoSession /\ mic = NoSession /\ stops = <<>>
  BY DEF Init
<1> HIDE DEF none
<1>7. SessionInv
  BY <1>1, <1>2, <1>5, <1>6 DEF SessionInv
<1>8. ConnInv
  BY <1>2, <1>5 DEF ConnInv
<1>9. StopInv
  BY <1>6 DEF StopInv
<1>10. CalmInv
  BY <1>2, <1>5, <1>6 DEF CalmInv, RestInv, ConnectingInv, ListeningInv, FinalizingInv,
     NothingToStop, Underway
<1>11. QuietInv
  <2>1. \A n \in Sessions : aborts[n].at = "none"
    BY DEF Init, Aborters
  <2>2. QED
    BY <1>2, <1>5, <2>1 DEF QuietInv, Underway
<1>12. LingerInv /\ TextInv
  BY <1>1, <1>2, <1>5, <1>6 DEF LingerInv, Lingering, TextInv
<1>13. OverInv
  BY DEF Init, OverInv
<1>14. QED
  BY <1>4, <1>7, <1>8, <1>9, <1>10, <1>11, <1>12, <1>13 DEF IInv

LEMMA TypesStay == ASSUME TypeOK, SessionInv, [Next]_<<world, vars>> PROVE TypeOK'
<1>0. /\ world' = world
      /\ \A n \in Sessions : n \in Sessions \cup {NoSession} /\ n \in Nat
      /\ session \in Sessions \cup {NoSession} /\ latest \in 0 .. MaxSessions
  BY Bounds DEF Next, vars, TypeOK
<1>stop. \A k \in 1 .. Len(stops) : stops[k] \in StopCall
  BY DEF TypeOK
<1> USE DEF callVars, textVars
<1>1. CASE Start
  <2>1. latest + 1 \in 0 .. world.sessions /\ latest + 1 \in Nat
    BY <1>1, Bounds DEF Start, TypeOK
  <2>2. start' \in [Sessions -> Starts]
    BY <1>1 DEF Start, TypeOK, Starts, Underway
  <2>3. QED
    BY <1>1, <1>0, <2>1, <2>2 DEF Start, TypeOK, ResetComposer, States
<1>2. CASE Stop
  <2> DEFINE call == [at |-> "microphone", session |-> session, of |-> latest,
                      failed |-> FALSE, clean |-> FALSE]
  <2>1. latest \in Sessions
    BY <1>2, Bounds DEF Stop, MayStop, SessionInv
  <2>2. call \in StopCall
    BY <2>1 DEF StopCall, TypeOK
  <2>3. stops' = Append(stops, call)
    BY <1>2 DEF Stop
  <2> HIDE DEF call
  <2>4. stops' \in Seq(StopCall)
    BY <2>2, <2>3 DEF TypeOK
  <2>5. QED
    BY <1>2, <1>0, <2>4 DEF Stop, TypeOK, States
<1>3. CASE Quit
  <2>1. Quitting \in Aborters /\ aborts[Quitting] \in AbortCall
    BY Bounds DEF TypeOK
  <2>2. aborts' \in [Aborters -> AbortCall]
    BY <1>3, <2>1, AbortFields DEF Quit, TypeOK
  <2>3. QED
    BY <1>3, <1>0, <2>1, <2>2 DEF Quit, TypeOK
<1>4. ASSUME NEW n \in Sessions, ServerSends(n) PROVE TypeOK'
  <2>1. conn' \in [Sessions -> Conn]
    BY <1>4, Sending
  <2>2. QED
    BY <1>4, <1>0, <2>1 DEF ServerSends, TypeOK
<1>5. ASSUME NEW n \in Sessions, ServerCloses(n) PROVE TypeOK'
  <2>1. conn' \in [Sessions -> Conn]
    BY <1>5, Linking DEF ServerCloses
  <2>2. QED
    BY <1>5, <1>0, <2>1 DEF ServerCloses, TypeOK
<1>6. ASSUME NEW n \in Sessions, LinkDrops(n) PROVE TypeOK'
  <2>1. conn' \in [Sessions -> Conn]
    BY <1>6, Linking DEF LinkDrops
  <2>2. QED
    BY <1>6, <1>0, <2>1 DEF LinkDrops, TypeOK
<1>7. ASSUME NEW n \in Sessions, NEW fatal \in BOOLEAN, ServerComplains(n, fatal) PROVE TypeOK'
  <2>1. conn' \in [Sessions -> Conn]
    BY <1>7, Complaining
  <2>2. QED
    BY <1>7, <1>0, <2>1 DEF ServerComplains, TypeOK
<1>8. ASSUME NEW n \in Sessions, Dial(n) PROVE TypeOK'
  <2>1. conn' \in [Sessions -> Conn]
    BY <1>8, Linking DEF Dial
  <2>2. start' \in [Sessions -> Starts]
    BY <1>8 DEF Dial, TypeOK, Starts, Underway
  <2>3. QED
    BY <1>8, <1>0, <2>1, <2>2 DEF Dial, TypeOK
<1>9. ASSUME NEW n \in Sessions, NotReady(n) PROVE TypeOK'
  <2>1. conn' \in [Sessions -> Conn]
    BY <1>9, Closing DEF NotReady, TypeOK
  <2>2. start' \in [Sessions -> Starts]
    BY <1>9 DEF NotReady, Fail, TypeOK, Starts, Underway
  <2>3. QED
    BY <1>9, <1>0, <2>1, <2>2 DEF NotReady, TypeOK, Fail, Cancel, States
<1>10. ASSUME NEW n \in Sessions, Ready(n) PROVE TypeOK'
  <2>1. Idling("running") \in Consumer
    BY DEF Idling, Consumer, States
  <2>2. consumer' \in [Sessions -> Consumer]
    BY <1>10, <2>1 DEF Ready, TypeOK
  <2>3. start' \in [Sessions -> Starts]
    BY <1>10 DEF Ready, TypeOK, Starts, Underway
  <2>4. QED
    BY <1>10, <1>0, <2>1, <2>2, <2>3 DEF Ready, TypeOK
<1>11. ASSUME NEW n \in Sessions, OpenMicrophone(n) PROVE TypeOK'
  <2>1. start' \in [Sessions -> Starts]
    BY <1>11 DEF OpenMicrophone, TypeOK, Starts, Underway
  <2>2. QED
    BY <1>11, <1>0, <2>1 DEF OpenMicrophone, TypeOK
<1>12. ASSUME NEW n \in Sessions, NoMicrophone(n) PROVE TypeOK'
  <2>1. conn' \in [Sessions -> Conn]
    BY <1>12, Closing DEF NoMicrophone, TypeOK
  <2>2. start' \in [Sessions -> Starts]
    BY <1>12 DEF NoMicrophone, Fail, TypeOK, Starts, Underway
  <2>3. QED
    BY <1>12, <1>0, <2>1, <2>2 DEF NoMicrophone, TypeOK, Fail, Cancel, States
<1>13. ASSUME NEW n \in Sessions, Listen(n) PROVE TypeOK'
  <2>1. start' \in [Sessions -> Starts]
    BY <1>13 DEF Listen, TypeOK, Starts, Underway
  <2>2. QED
    BY <1>13, <1>0, <2>1 DEF Listen, TypeOK, States
<1>14. ASSUME NEW n \in Sessions, WatchFocus(n) PROVE TypeOK'
  <2>1. start' \in [Sessions -> Starts]
    BY <1>14 DEF WatchFocus, TypeOK, Starts, Underway
  <2>2. n \in Aborters /\ aborts[n] \in AbortCall
    BY Bounds DEF TypeOK
  <2>3. aborts' \in [Aborters -> AbortCall]
    BY <1>14, <2>2, AbortFields DEF WatchFocus, TypeOK
  <2>4. QED
    BY <1>14, <1>0, <2>1, <2>2, <2>3 DEF WatchFocus, TypeOK
<1>15. ASSUME NEW n \in Sessions, ConsumeTranscript(n) PROVE TypeOK'
  <2>1. conn' \in [Sessions -> Conn] /\ Head(conn[n].inbox) = conn[n].inbox[1]
        /\ 1 \in DOMAIN conn[n].inbox
    BY <1>15, Reading DEF ConsumeTranscript
  <2>2. conn[n].inbox[1] \in Event
    BY <2>1, ConnTypes DEF TypeOK
  <2>3. Head(conn[n].inbox).revision \in Nat
    BY <1>15, <2>1, <2>2, EventTypes DEF ConsumeTranscript
  <2>4. applied[n] + 1 \in Nat
    BY DEF TypeOK
  <2>5. last' \in Nat /\ applied' \in [Sessions -> Nat]
    BY <1>15, <2>3, <2>4 DEF ConsumeTranscript, TypeOK
  <2>6. QED
    BY <1>15, <1>0, <2>1, <2>5 DEF ConsumeTranscript, TypeOK
<1>16. ASSUME NEW n \in Sessions, ConsumeError(n) PROVE TypeOK'
  <2>1. conn' \in [Sessions -> Conn] /\ Head(conn[n].inbox) = conn[n].inbox[1]
        /\ 1 \in DOMAIN conn[n].inbox
    BY <1>16, Reading DEF ConsumeError
  <2>2. conn[n].inbox[1] \in Event
    BY <2>1, ConnTypes DEF TypeOK
  <2>3. Head(conn[n].inbox).fatal \in BOOLEAN
    BY <1>16, <2>1, <2>2, EventTypes DEF ConsumeError
  <2>4. [at |-> "reporting", seen |-> state, fatal |-> Head(conn[n].inbox).fatal] \in Consumer
    BY <2>3 DEF Consumer, TypeOK
  <2>5. consumer' \in [Sessions -> Consumer]
    BY <1>16, <2>4 DEF ConsumeError, TypeOK
  <2>6. QED
    BY <1>16, <1>0, <2>1, <2>5 DEF ConsumeError, TypeOK
<1>17. ASSUME NEW n \in Sessions, ReportError(n) PROVE TypeOK'
  <2>1. consumer[n] \in Consumer
    BY DEF TypeOK
  <2>2. consumer[n].seen \in States /\ consumer[n].fatal \in BOOLEAN
    BY <2>1 DEF Consumer
  <2>3. Idling(After(consumer[n].fatal)) \in Consumer
    BY DEF Idling, After, Consumer, States
  <2>4. consumer' \in [Sessions -> Consumer]
    BY <1>17, <2>3 DEF ReportError, TypeOK
  <2>5. finished' \in [Sessions -> BOOLEAN]
    BY <1>17 DEF ReportError, TypeOK
  <2>6. QED
    BY <1>17, <1>0, <2>2, <2>4, <2>5 DEF ReportError, TypeOK
<1>18. ASSUME NEW n \in Sessions, ConsumeEnd(n) PROVE TypeOK'
  <2>1. Idling("done") \in Consumer
    BY DEF Idling, Consumer, States
  <2>2. consumer' \in [Sessions -> Consumer]
    BY <1>18, <2>1 DEF ConsumeEnd, TypeOK
  <2>3. QED
    BY <1>18, <1>0, <2>1, <2>2 DEF ConsumeEnd, TypeOK, States
<1>19. ASSUME NEW n \in Sessions, PollFocus(n) PROVE TypeOK'
  <2>1. n \in Aborters /\ aborts[n] \in AbortCall
    BY Bounds DEF TypeOK
  <2>2. aborts' \in [Aborters -> AbortCall]
    BY <1>19, <2>1, AbortFields DEF PollFocus, TypeOK
  <2>3. QED
    BY <1>19, <1>0, <2>1, <2>2 DEF PollFocus, TypeOK
<1>20. ASSUME NEW k \in 1 .. Len(stops), StopMicrophone(k) PROVE TypeOK'
  <2> DEFINE c == [stops[k] EXCEPT !.at = "sending"]
  <2>1. c \in StopCall
    BY <1>stop, StopFields
  <2>2. stops' = [stops EXCEPT ![k] = c]
    BY <1>20 DEF StopMicrophone, Advance
  <2> HIDE DEF c
  <2>3. stops' \in Seq(StopCall)
    BY <2>1, <2>2, Advancing
  <2>4. QED
    BY <1>20, <1>0, <2>3 DEF StopMicrophone, TypeOK, CloseMicrophone
<1>21. ASSUME NEW k \in 1 .. Len(stops), SendStop(k) PROVE TypeOK'
  <2>1. stops[k] \in StopCall
    BY DEF TypeOK
  <2>2. stops[k].session \in Sessions
    BY <1>21, <2>1 DEF SendStop, StopCall
  <2>3. conn' \in [Sessions -> Conn]
    BY <1>21, <2>2, Asking DEF SendStop
  <2> DEFINE c == [stops[k] EXCEPT !.at = "waiting"]
  <2>4. c \in StopCall
    BY <1>stop, StopFields
  <2>5. stops' = [stops EXCEPT ![k] = c]
    BY <1>21 DEF SendStop, Advance
  <2> HIDE DEF c
  <2>6. stops' \in Seq(StopCall)
    BY <2>4, <2>5, Advancing
  <2>7. QED
    BY <1>21, <1>0, <2>3, <2>6 DEF SendStop, TypeOK
<1>22. ASSUME NEW k \in 1 .. Len(stops), SendStopFails(k) PROVE TypeOK'
  <2> DEFINE c == [stops[k] EXCEPT !.at = "draining", !.failed = TRUE]
  <2>1. c \in StopCall
    BY <1>stop, StopFields
  <2>2. stops' = [stops EXCEPT ![k] = c]
    BY <1>22 DEF SendStopFails, Advance
  <2> HIDE DEF c
  <2>3. stops' \in Seq(StopCall)
    BY <2>1, <2>2, Advancing
  <2>4. conn' \in [Sessions -> Conn]
    BY <1>22, Closing DEF SendStopFails, TypeOK
  <2>5. QED
    BY <1>22, <1>0, <2>3, <2>4 DEF SendStopFails, TypeOK
<1>23. ASSUME NEW k \in 1 .. Len(stops), StopFinished(k) PROVE TypeOK'
  <2> DEFINE c == [stops[k] EXCEPT !.at = "finishing",
                     !.clean = /\ stops[k].at = "waiting" /\ conn[stops[k].of].link = "closed"
                               /\ conn[stops[k].of].asked]
  <2>1. c \in StopCall
    BY <1>stop, StopFields
  <2>2. stops' = [stops EXCEPT ![k] = c]
    BY <1>23 DEF StopFinished, Advance
  <2> HIDE DEF c
  <2>3. stops' \in Seq(StopCall)
    BY <2>1, <2>2, Advancing
  <2>4. QED
    BY <1>23, <1>0, <2>3 DEF StopFinished, TypeOK, Cancel
<1>24. ASSUME NEW k \in 1 .. Len(stops), StopTimesOut(k) PROVE TypeOK'
  <2> DEFINE c == [stops[k] EXCEPT !.at = "closing"]
  <2>1. c \in StopCall
    BY <1>stop, StopFields
  <2>2. stops' = [stops EXCEPT ![k] = c]
    BY <1>24 DEF StopTimesOut, Advance
  <2> HIDE DEF c
  <2>3. stops' \in Seq(StopCall)
    BY <2>1, <2>2, Advancing
  <2>4. conn' \in [Sessions -> Conn]
    BY <1>24, Closing DEF StopTimesOut, TypeOK
  <2>5. QED
    BY <1>24, <1>0, <2>3, <2>4 DEF StopTimesOut, TypeOK, States
<1>25. ASSUME NEW k \in 1 .. Len(stops), StopCancels(k) PROVE TypeOK'
  <2> DEFINE c == [stops[k] EXCEPT !.at = "finishing"]
  <2>1. c \in StopCall
    BY <1>stop, StopFields
  <2>2. stops' = [stops EXCEPT ![k] = c]
    BY <1>25 DEF StopCancels, Advance
  <2> HIDE DEF c
  <2>3. stops' \in Seq(StopCall)
    BY <2>1, <2>2, Advancing
  <2>4. QED
    BY <1>25, <1>0, <2>3 DEF StopCancels, TypeOK, Cancel
<1>26. ASSUME NEW k \in 1 .. Len(stops), FinishStop(k) PROVE TypeOK'
  <2> DEFINE c == [stops[k] EXCEPT !.at = "done"]
  <2>1. c \in StopCall
    BY <1>stop, StopFields
  <2>2. stops' = [stops EXCEPT ![k] = c]
    BY <1>26 DEF FinishStop, Advance
  <2> HIDE DEF c
  <2>3. stops' \in Seq(StopCall)
    BY <2>1, <2>2, Advancing
  <2>4. conn' \in [Sessions -> Conn]
    BY <1>26, Closing DEF FinishStop, TypeOK
  <2>5. stops[k].session \in Sessions \cup {NoSession}
    BY <1>stop DEF StopCall
  <2>6. QED
    BY <1>26, <1>0, <2>3, <2>4, <2>5 DEF FinishStop, TypeOK, States
<1>27. ASSUME NEW p \in Aborters, Abort(p) PROVE TypeOK'
  <2>1. aborts[p] \in AbortCall
    BY DEF TypeOK
  <2>2. [at |-> "tearing", session |-> session, of |-> latest] \in AbortCall
    BY <1>0 DEF AbortCall
  <2>3. aborts' \in [Aborters -> AbortCall]
    BY <1>27, <2>1, <2>2, AbortFields DEF Abort, TypeOK
  <2>4. QED
    BY <1>27, <1>0, <2>3 DEF Abort, TypeOK
<1>28. ASSUME NEW p \in Aborters, AbortTearsDown(p) PROVE TypeOK'
  <2>1. aborts[p] \in AbortCall
    BY DEF TypeOK
  <2>2. aborts' \in [Aborters -> AbortCall]
    BY <1>28, <2>1, AbortFields DEF AbortTearsDown, TypeOK
  <2>3. conn' \in [Sessions -> Conn]
    BY <1>28, Closing DEF AbortTearsDown, TypeOK
  <2>4. QED
    BY <1>28, <1>0, <2>1, <2>2, <2>3 DEF AbortTearsDown, TypeOK, CloseMicrophone, Cancel
<1>29. ASSUME NEW p \in Aborters, AbortSettles(p) PROVE TypeOK'
  <2>1. aborts[p] \in AbortCall
    BY DEF TypeOK
  <2>2. aborts[p].session \in Sessions \cup {NoSession}
    BY <2>1 DEF AbortCall
  <2>3. aborts' \in [Aborters -> AbortCall]
    BY <1>29, <2>1, AbortFields DEF AbortSettles, TypeOK
  <2>4. QED
    BY <1>29, <1>0, <2>1, <2>2, <2>3 DEF AbortSettles, TypeOK, States
<1>30. CASE UNCHANGED vars
  BY <1>30, <1>0 DEF vars, TypeOK
<1>stall. ASSUME NEW n \in Sessions, Stalls(n) PROVE TypeOK'
  <2>1. conn' \in [Sessions -> Conn]
    BY <1>stall, Stalling
  <2>2. QED
    BY <1>stall, <1>0, <2>1, Stalling DEF TypeOK
<1>31. QED
  BY <1>1, <1>2, <1>3, <1>4, <1>5, <1>6, <1>7, <1>8, <1>9, <1>10, <1>11, <1>12, <1>13,
     <1>14, <1>15, <1>16, <1>17, <1>18, <1>19, <1>20, <1>21, <1>22, <1>23, <1>24, <1>25,
     <1>26, <1>27, <1>28, <1>29, <1>30, <1>stall DEF Stalls, Next, Moves, Transport, Starting, Consuming,
     Stopping, Aborting

LEMMA SessionStays == ASSUME TypeOK, SessionInv, [Next]_<<world, vars>> PROVE SessionInv'
<1> USE DEF callVars, textVars
<1>types. /\ \A m \in Sessions : m \in Nat /\ m >= 1
          /\ \A m \in Sessions : conn[m] \in Conn /\ consumer[m] \in Consumer
          /\ latest \in Nat
  BY Bounds DEF TypeOK
<1>kept. ASSUME latest' = latest, start' = start, state' = state \/ state' # "Listening",
                \A m \in Sessions :
                  /\ conn'[m].link = conn[m].link
                     \/ (conn[m].link # "none" /\ conn'[m].link # "open")
                  /\ start[m] \in {"none", "dialing", "awaiting"} =>
                       finished'[m] = finished[m] /\ consumer'[m].at = consumer[m].at
                  /\ start[m] = "none" => applied'[m] = applied[m]
         PROVE  SessionInv'
  BY <1>kept DEF SessionInv
<1>same. ASSUME latest' = latest, start' = start, state' = state \/ state' # "Listening",
                \A m \in Sessions : Goes(m), UNCHANGED <<finished, consumer, applied>>
         PROVE  SessionInv'
  BY <1>same, <1>kept DEF Goes
\* The Start of n goes on, to any place but the first.
<1>on. ASSUME NEW n \in Sessions, NEW at \in Starts, start[n] \notin {"none", "failed"},
              at \notin {"none", "dialing", "awaiting"}, at = "failed" => conn'[n].link # "open",
              start' = [start EXCEPT ![n] = at], latest' = latest,
              \A m \in Sessions : Goes(m) /\ (m # n => /\ finished'[m] = finished[m]
                                                       /\ consumer'[m] = consumer[m]),
              applied' = applied
       PROVE  SessionInv'
  <2>1. start'[n] = at /\ \A m \in Sessions : m # n => start'[m] = start[m]
    BY <1>on DEF TypeOK
  <2>2. latest # 0
    BY <1>on, <1>types DEF SessionInv
  <2>3. QED
    BY <1>on, <2>1, <2>2 DEF SessionInv, Goes
<1>1. CASE Start
  <2> DEFINE n == latest + 1
  <2>1. latest' = n /\ start' = [start EXCEPT ![n] = "dialing"] /\ state' = "Connecting"
        /\ UNCHANGED <<conn, finished, consumer, applied>>
    BY <1>1 DEF Start
  <2>2. n \in Sessions /\ \A m \in Sessions : m # n => (m > n <=> m > latest)
    BY <1>1, <1>types, Bounds DEF Start, TypeOK
  <2>3. start[n] = "none"
    BY <2>2, <1>types DEF SessionInv
  <2>4. start'[n] = "dialing" /\ \A m \in Sessions : m # n => start'[m] = start[m]
    BY <2>1, <2>2 DEF TypeOK
  <2>5. n # 0 /\ ~(n > n)
    BY <1>types
  <2> HIDE DEF n
  <2>6. QED
    BY <2>1, <2>2, <2>3, <2>4, <2>5 DEF SessionInv
<1>2. CASE Stop
  <2>1. \A m \in Sessions : Goes(m)
    BY <1>2 DEF Stop, Goes
  <2>2. QED
    BY <1>2, <2>1, <1>same DEF Stop
<1>3. CASE Quit
  <2>1. \A m \in Sessions : Goes(m)
    BY <1>3 DEF Quit, Goes
  <2>2. QED
    BY <1>3, <2>1, <1>same DEF Quit
<1>4. ASSUME NEW n \in Sessions, ServerSends(n) PROVE SessionInv'
  <2>1. Others(n) /\ (conn'[n].link = conn[n].link \/ conn'[n].link = "closed")
    BY <1>4, Sending
  <2>2. conn[n].link = "open"
    BY <1>4 DEF ServerSends, Serving
  <2>3. QED
    BY <1>4, <1>kept, <2>1, <2>2 DEF ServerSends, Others
<1>5. ASSUME NEW n \in Sessions, ServerCloses(n) PROVE SessionInv'
  <2>1. Others(n) /\ (conn'[n].link = conn[n].link \/ conn'[n].link = "closed")
    BY <1>5, Linking DEF ServerCloses
  <2>2. conn[n].link = "open"
    BY <1>5 DEF ServerCloses, Serving
  <2>3. QED
    BY <1>5, <1>kept, <2>1, <2>2 DEF ServerCloses, Others
<1>6. ASSUME NEW n \in Sessions, LinkDrops(n) PROVE SessionInv'
  <2>1. \A m \in Sessions : Goes(m)
    BY <1>6, Linking DEF LinkDrops, Serving, Goes, Others
  <2>2. QED
    BY <1>6, <2>1, <1>same DEF LinkDrops
<1>7. ASSUME NEW n \in Sessions, NEW fatal \in BOOLEAN, ServerComplains(n, fatal) PROVE SessionInv'
  <2>1. Others(n) /\ (conn'[n].link = conn[n].link \/ conn'[n].link = "closed")
    BY <1>7, Complaining
  <2>2. conn[n].link = "open"
    BY <1>7 DEF ServerComplains, Serving
  <2>3. QED
    BY <1>7, <1>kept, <2>1, <2>2 DEF ServerComplains, Others
<1>8. ASSUME NEW n \in Sessions, Dial(n) PROVE SessionInv'
  <2>1. conn'[n].link = "open" /\ Others(n)
    BY <1>8, Linking DEF Dial
  <2>2. start'[n] = "awaiting" /\ (\A m \in Sessions : m # n => start'[m] = start[m])
        /\ start[n] = "dialing"
    BY <1>8 DEF Dial, TypeOK
  <2>3. QED
    BY <1>8, <2>1, <2>2 DEF Dial, SessionInv, Others
<1>9. ASSUME NEW n \in Sessions, NotReady(n) PROVE SessionInv'
  <2>1. (\A m \in Sessions : Goes(m)) /\ conn'[n].link # "open"
    BY <1>9, Closing DEF NotReady, TypeOK
  <2>2. QED
    BY <1>9, <1>on, <2>1 DEF NotReady, Fail, Starts, TypeOK
<1>10. ASSUME NEW n \in Sessions, Ready(n) PROVE SessionInv'
  <2>1. \A m \in Sessions : Goes(m)
    BY <1>10 DEF Ready, Goes
  <2>2. QED
    BY <1>10, <1>on, <2>1 DEF Ready, Starts, Underway, TypeOK
<1>11. ASSUME NEW n \in Sessions, OpenMicrophone(n) PROVE SessionInv'
  <2>1. \A m \in Sessions : Goes(m)
    BY <1>11 DEF OpenMicrophone, Goes
  <2>2. QED
    BY <1>11, <1>on, <2>1 DEF OpenMicrophone, Starts, Underway, TypeOK
<1>12. ASSUME NEW n \in Sessions, NoMicrophone(n) PROVE SessionInv'
  <2>1. (\A m \in Sessions : Goes(m)) /\ conn'[n].link # "open"
    BY <1>12, Closing DEF NoMicrophone, TypeOK
  <2>2. QED
    BY <1>12, <1>on, <2>1 DEF NoMicrophone, Fail, Starts, TypeOK
<1>13. ASSUME NEW n \in Sessions, Listen(n) PROVE SessionInv'
  <2>1. \A m \in Sessions : Goes(m)
    BY <1>13 DEF Listen, Goes
  <2>2. QED
    BY <1>13, <1>on, <2>1 DEF Listen, Starts, Underway, TypeOK
<1>14. ASSUME NEW n \in Sessions, WatchFocus(n) PROVE SessionInv'
  <2>1. \A m \in Sessions : Goes(m)
    BY <1>14 DEF WatchFocus, Goes
  <2>2. QED
    BY <1>14, <1>on, <2>1 DEF WatchFocus, Starts, Underway, TypeOK
<1>15. ASSUME NEW n \in Sessions, ConsumeTranscript(n) PROVE SessionInv'
  <2>1. conn'[n].link = conn[n].link /\ Others(n)
    BY <1>15, Reading DEF ConsumeTranscript
  <2>2. start[n] \notin {"none", "dialing", "awaiting"}
    BY <1>15 DEF ConsumeTranscript, SessionInv
  <2>3. QED
    BY <1>15, <1>kept, <2>1, <2>2 DEF ConsumeTranscript, Others, TypeOK
<1>16. ASSUME NEW n \in Sessions, ConsumeError(n) PROVE SessionInv'
  <2>1. conn'[n].link = conn[n].link /\ Others(n)
    BY <1>16, Reading DEF ConsumeError
  <2>2. start[n] \notin {"none", "dialing", "awaiting"}
    BY <1>16 DEF ConsumeError, SessionInv
  <2>3. QED
    BY <1>16, <1>kept, <2>1, <2>2 DEF ConsumeError, Others, TypeOK
<1>17. ASSUME NEW n \in Sessions, ReportError(n) PROVE SessionInv'
  <2>1. start[n] \notin {"none", "dialing", "awaiting"}
    BY <1>17 DEF ReportError, SessionInv
  <2>2. QED
    BY <1>17, <1>kept, <2>1 DEF ReportError, TypeOK
<1>18. ASSUME NEW n \in Sessions, ConsumeEnd(n) PROVE SessionInv'
  <2>1. start[n] \notin {"none", "dialing", "awaiting"}
    BY <1>18 DEF ConsumeEnd, SessionInv
  <2>2. QED
    BY <1>18, <1>kept, <2>1 DEF ConsumeEnd, TypeOK
<1>19. ASSUME NEW n \in Sessions, PollFocus(n) PROVE SessionInv'
  <2>1. \A m \in Sessions : Goes(m)
    BY <1>19 DEF PollFocus, Goes
  <2>2. QED
    BY <1>19, <2>1, <1>same DEF PollFocus
<1>20. ASSUME NEW k \in 1 .. Len(stops), StopMicrophone(k) PROVE SessionInv'
  <2>1. \A m \in Sessions : Goes(m)
    BY <1>20 DEF StopMicrophone, Goes
  <2>2. QED
    BY <1>20, <2>1, <1>same DEF StopMicrophone
<1>21. ASSUME NEW k \in 1 .. Len(stops), SendStop(k) PROVE SessionInv'
  <2>1. stops[k] \in StopCall
    BY DEF TypeOK
  <2>2. stops[k].session \in Sessions
    BY <1>21, <2>1 DEF SendStop, StopCall
  <2>3. \A m \in Sessions : Goes(m)
    BY <1>21, <2>2, Asking DEF SendStop
  <2>4. QED
    BY <1>21, <2>3, <1>same DEF SendStop
<1>22. ASSUME NEW k \in 1 .. Len(stops), SendStopFails(k) PROVE SessionInv'
  <2>1. \A m \in Sessions : Goes(m)
    BY <1>22, Closing DEF SendStopFails, TypeOK
  <2>2. QED
    BY <1>22, <2>1, <1>same DEF SendStopFails
<1>23. ASSUME NEW k \in 1 .. Len(stops), StopFinished(k) PROVE SessionInv'
  <2>1. \A m \in Sessions : Goes(m)
    BY <1>23 DEF StopFinished, Goes
  <2>2. QED
    BY <1>23, <2>1, <1>same DEF StopFinished
<1>24. ASSUME NEW k \in 1 .. Len(stops), StopTimesOut(k) PROVE SessionInv'
  <2>1. \A m \in Sessions : Goes(m)
    BY <1>24, Closing DEF StopTimesOut, TypeOK
  <2>2. QED
    BY <1>24, <2>1, <1>same DEF StopTimesOut
<1>25. ASSUME NEW k \in 1 .. Len(stops), StopCancels(k) PROVE SessionInv'
  <2>1. \A m \in Sessions : Goes(m)
    BY <1>25 DEF StopCancels, Goes
  <2>2. QED
    BY <1>25, <2>1, <1>same DEF StopCancels
<1>26. ASSUME NEW k \in 1 .. Len(stops), FinishStop(k) PROVE SessionInv'
  <2>1. \A m \in Sessions : Goes(m)
    BY <1>26, Closing DEF FinishStop, TypeOK
  <2>2. QED
    BY <1>26, <2>1, <1>same DEF FinishStop
<1>27. ASSUME NEW p \in Aborters, Abort(p) PROVE SessionInv'
  <2>1. \A m \in Sessions : Goes(m)
    BY <1>27 DEF Abort, Goes
  <2>2. QED
    BY <1>27, <2>1, <1>same DEF Abort
<1>28. ASSUME NEW p \in Aborters, AbortTearsDown(p) PROVE SessionInv'
  <2>1. \A m \in Sessions : Goes(m)
    BY <1>28, Closing DEF AbortTearsDown, TypeOK
  <2>2. QED
    BY <1>28, <2>1, <1>same DEF AbortTearsDown
<1>29. ASSUME NEW p \in Aborters, AbortSettles(p) PROVE SessionInv'
  <2>1. \A m \in Sessions : Goes(m)
    BY <1>29 DEF AbortSettles, Goes
  <2>2. QED
    BY <1>29, <2>1, <1>same DEF AbortSettles
<1>30. CASE UNCHANGED vars
  <2>1. \A m \in Sessions : Goes(m)
    BY <1>30 DEF vars, Goes
  <2>2. QED
    BY <1>30, <2>1, <1>same DEF vars
<1>stall. ASSUME NEW n \in Sessions, Stalls(n) PROVE SessionInv'
  BY <1>stall, Stalling, <1>same
<1>31. QED
  BY <1>1, <1>2, <1>3, <1>4, <1>5, <1>6, <1>7, <1>8, <1>9, <1>10, <1>11, <1>12, <1>13,
     <1>14, <1>15, <1>16, <1>17, <1>18, <1>19, <1>20, <1>21, <1>22, <1>23, <1>24, <1>25,
     <1>26, <1>27, <1>28, <1>29, <1>30, <1>stall DEF Stalls, Next, Moves, Transport, Starting, Consuming,
     Stopping, Aborting

LEMMA ConnStays == ASSUME TypeOK, SessionInv, ConnInv, [Next]_<<world, vars>> PROVE ConnInv'
<1> USE DEF callVars, textVars
<1> DEFINE Fine(m) ==
      /\ start[m] \notin {"opened", "listening", "done"} =>
          conn[m].sent = 0 /\ \A i \in DOMAIN conn[m].inbox : conn[m].inbox[i].kind = "error"
      /\ consumer[m].at = "none" =>
          conn[m].link # "closed" /\ conn[m].inbox = <<>> /\ ~conn[m].complained
      /\ \A i \in DOMAIN conn[m].inbox : conn[m].inbox[i].kind = "error" =>
          conn[m].complained /\ (conn[m].inbox[i].fatal => conn[m].link # "open")
      /\ consumer[m].at = "reporting" =>
          conn[m].complained /\ (consumer[m].fatal => conn[m].link # "open")
      /\ finished[m] =>
          /\ consumer[m].at \in {"none", "done"}
          /\ conn[m].link # "open"
          /\ conn[m].link = "closed" /\ ~conn[m].complained => conn[m].inbox = <<>>
<1>each. ASSUME \A m \in Sessions : Fine(m)' PROVE ConnInv'
  BY <1>each DEF ConnInv
<1>now. ASSUME NEW m \in Sessions PROVE Fine(m)
  BY DEF ConnInv
<1>types. ASSUME NEW m \in Sessions
          PROVE  conn[m] \in Conn /\ consumer[m] \in Consumer /\ finished[m] \in BOOLEAN
  BY DEF TypeOK
\* What a session whose connection goes on or breaks keeps.
<1>fine. ASSUME NEW m \in Sessions, Goes(m), consumer'[m] = consumer[m],
                finished'[m] = finished[m],
                start'[m] = start[m] \/ start'[m] \in {"opened", "listening", "done"}
                \/ start[m] \notin {"opened", "listening", "done"}
         PROVE  Fine(m)'
  BY <1>fine, <1>now DEF Goes
<1>same. ASSUME \A m \in Sessions : Goes(m), UNCHANGED <<consumer, finished, start>>
         PROVE  ConnInv'
  BY <1>same, <1>fine, <1>each
\* The Start of n goes on.
<1>on. ASSUME NEW n \in Sessions, NEW at \in Starts,
              at \in {"opened", "listening", "done"}
              \/ start[n] \notin {"opened", "listening", "done"},
              start' = [start EXCEPT ![n] = at],
              \A m \in Sessions : Goes(m), UNCHANGED <<consumer, finished>>
       PROVE  ConnInv'
  <2>1. start'[n] = at /\ \A m \in Sessions : m # n => start'[m] = start[m]
    BY <1>on DEF TypeOK
  <2>2. QED
    BY <1>on, <1>fine, <1>each, <2>1
\* Only the session n is touched.
<1>one. ASSUME NEW n \in Sessions, Others(n), start' = start,
               \A m \in Sessions : m # n => consumer'[m] = consumer[m] /\ finished'[m] = finished[m],
               Fine(n)'
        PROVE  ConnInv'
  <2>1. ASSUME NEW m \in Sessions, m # n PROVE Fine(m)'
    <3>1. Goes(m)
      BY <1>one, <2>1 DEF Others, Goes
    <3>2. QED
      BY <1>one, <1>fine, <2>1, <3>1
  <2>2. QED
    BY <1>one, <1>each, <2>1
<1>1. CASE Start
  <2>1. \A m \in Sessions : Goes(m)
    BY <1>1 DEF Start, Goes
  <2>2. latest + 1 \in Sessions /\ latest + 1 > latest
    BY <1>1, Bounds DEF Start, TypeOK
  <2>3. start[latest + 1] = "none"
    BY <2>2 DEF SessionInv
  <2>4. QED
    BY <1>1, <1>on, <2>1, <2>2, <2>3 DEF Start, Starts, Underway
<1>2. CASE Stop
  <2>1. \A m \in Sessions : Goes(m)
    BY <1>2 DEF Stop, Goes
  <2>2. QED
    BY <1>2, <2>1, <1>same DEF Stop
<1>3. CASE Quit
  <2>1. \A m \in Sessions : Goes(m)
    BY <1>3 DEF Quit, Goes
  <2>2. QED
    BY <1>3, <2>1, <1>same DEF Quit
<1>4. ASSUME NEW n \in Sessions, ServerSends(n) PROVE ConnInv'
  <2> DEFINE event == Fresh(conn[n].sent + 1)
  <2>1. /\ Others(n) /\ conn'[n].inbox = Append(conn[n].inbox, event)
        /\ conn'[n].complained = conn[n].complained /\ conn'[n].link = conn[n].link
    BY <1>4, Sending
  <2>2. conn[n].link = "open" /\ consumer[n].at # "none"
        /\ start[n] \in {"opened", "listening", "done"} /\ UNCHANGED <<consumer, finished, start>>
    BY <1>4 DEF ServerSends, Serving
  <2>3. event.kind = "transcript"
    BY DEF Fresh
  <2> HIDE DEF event
  <2>4. conn[n].inbox \in Seq(Event)
    BY <1>types, ConnTypes
  <2>5. \A i \in DOMAIN conn'[n].inbox : conn'[n].inbox[i].kind = "error" =>
          i \in DOMAIN conn[n].inbox /\ conn'[n].inbox[i] = conn[n].inbox[i]
    BY <2>1, <2>3, <2>4
  <2>6. Fine(n)'
    BY <1>now, <2>1, <2>2, <2>5
  <2>7. QED
    BY <1>one, <2>1, <2>2, <2>6
<1>5. ASSUME NEW n \in Sessions, ServerCloses(n) PROVE ConnInv'
  <2>1. /\ Others(n) /\ conn'[n].inbox = conn[n].inbox /\ conn'[n].sent = conn[n].sent
        /\ conn'[n].complained = conn[n].complained /\ conn'[n].link = "closed"
    BY <1>5, Linking DEF ServerCloses
  <2>2. conn[n].link = "open" /\ consumer[n].at # "none" /\ UNCHANGED <<consumer, finished, start>>
    BY <1>5 DEF ServerCloses, Serving
  <2>3. Fine(n)'
    BY <1>now, <2>1, <2>2
  <2>4. QED
    BY <1>one, <2>1, <2>2, <2>3
<1>6. ASSUME NEW n \in Sessions, LinkDrops(n) PROVE ConnInv'
  <2>1. \A m \in Sessions : Goes(m)
    BY <1>6, Linking DEF LinkDrops, Serving, Goes, Others
  <2>2. QED
    BY <1>6, <2>1, <1>same DEF LinkDrops
<1>7. ASSUME NEW n \in Sessions, NEW fatal \in BOOLEAN, ServerComplains(n, fatal) PROVE ConnInv'
  <2> DEFINE event == Complaint(fatal)
  <2>1. /\ Others(n) /\ conn'[n].inbox = Append(conn[n].inbox, event)
        /\ conn'[n].sent = conn[n].sent /\ conn'[n].complained
        /\ conn'[n].link = IF fatal THEN "closed" ELSE conn[n].link
    BY <1>7, Complaining
  <2>2. conn[n].link = "open" /\ consumer[n].at # "none" /\ ~conn[n].complained
        /\ UNCHANGED <<consumer, finished, start>>
    BY <1>7 DEF ServerComplains, Serving
  <2>3. event.kind = "error" /\ event.fatal = fatal
    BY DEF Complaint
  <2> HIDE DEF event
  <2>4. conn[n].inbox \in Seq(Event)
    BY <1>types, ConnTypes
  <2>5. \A i \in DOMAIN conn'[n].inbox :
          \/ i \in DOMAIN conn[n].inbox /\ conn'[n].inbox[i] = conn[n].inbox[i]
          \/ conn'[n].inbox[i] = event
    BY <2>1, <2>4
  <2>6. ASSUME NEW i \in DOMAIN conn'[n].inbox
        PROVE  conn'[n].inbox[i].kind = "error" /\ conn'[n].inbox[i].fatal => conn'[n].link # "open"
    <3>1. CASE i \in DOMAIN conn[n].inbox /\ conn'[n].inbox[i] = conn[n].inbox[i]
      BY <1>now, <2>2, <3>1
    <3>2. CASE conn'[n].inbox[i] = event
      BY <2>1, <2>3, <3>2
    <3>3. QED
      BY <2>5, <3>1, <3>2
  <2>7. start[n] \notin {"opened", "listening", "done"} =>
          \A i \in DOMAIN conn'[n].inbox : conn'[n].inbox[i].kind = "error"
    BY <1>now, <2>3, <2>5
  <2>8. ~finished[n] /\ consumer[n].at # "reporting"
    BY <1>now, <2>2
  <2>9. Fine(n)'
    BY <1>now, <2>1, <2>2, <2>6, <2>7, <2>8
  <2>10. QED
    BY <1>one, <2>1, <2>2, <2>9
<1>8. ASSUME NEW n \in Sessions, Dial(n) PROVE ConnInv'
  <2>1. /\ Others(n) /\ conn'[n].inbox = conn[n].inbox /\ conn'[n].sent = conn[n].sent
        /\ conn'[n].complained = conn[n].complained /\ conn'[n].link = "open"
    BY <1>8, Linking DEF Dial
  <2>2. start'[n] = "awaiting" /\ (\A m \in Sessions : m # n => start'[m] = start[m])
        /\ start[n] = "dialing" /\ UNCHANGED <<consumer, finished>>
    BY <1>8 DEF Dial, TypeOK
  <2>3. ~finished[n] /\ consumer[n].at = "none"
    BY <2>2 DEF SessionInv
  <2>4. Fine(n)'
    BY <1>now, <2>1, <2>2, <2>3
  <2>5. ASSUME NEW m \in Sessions, m # n PROVE Fine(m)'
    <3>1. Goes(m)
      BY <2>1, <2>5 DEF Others, Goes
    <3>2. QED
      BY <1>fine, <2>2, <2>5, <3>1
  <2>6. QED
    BY <1>each, <2>4, <2>5
<1>9. ASSUME NEW n \in Sessions, NotReady(n) PROVE ConnInv'
  <2>1. (\A m \in Sessions : Goes(m)) /\ conn'[n].link # "open"
    BY <1>9, Closing DEF NotReady, TypeOK
  <2>2. /\ start'[n] = "failed" /\ \A m \in Sessions : m # n => start'[m] = start[m]
        /\ finished'[n] /\ \A m \in Sessions : m # n => finished'[m] = finished[m]
        /\ consumer' = consumer /\ start[n] \in {"dialing", "awaiting"}
    BY <1>9 DEF NotReady, Fail, TypeOK
  <2>3. ~finished[n] /\ consumer[n].at = "none"
    BY <2>2 DEF SessionInv
  <2>4. Fine(n)'
    BY <1>now, <2>1, <2>2, <2>3 DEF Goes
  <2>5. QED
    BY <1>each, <1>fine, <2>1, <2>2, <2>4
<1>10. ASSUME NEW n \in Sessions, Ready(n) PROVE ConnInv'
  <2>1. /\ start'[n] = "microphone" /\ \A m \in Sessions : m # n => start'[m] = start[m]
        /\ consumer'[n].at = "running" /\ \A m \in Sessions : m # n => consumer'[m] = consumer[m]
        /\ finished' = finished /\ conn' = conn /\ start[n] = "awaiting"
    BY <1>10 DEF Ready, Idling, TypeOK
  <2>2. ~finished[n]
    BY <2>1 DEF SessionInv
  <2>3. Fine(n)'
    BY <1>now, <2>1, <2>2
  <2>4. \A m \in Sessions : Goes(m)
    BY <2>1 DEF Goes
  <2>5. QED
    BY <1>each, <1>fine, <2>1, <2>3, <2>4
<1>11. ASSUME NEW n \in Sessions, OpenMicrophone(n) PROVE ConnInv'
  <2>1. \A m \in Sessions : Goes(m)
    BY <1>11 DEF OpenMicrophone, Goes
  <2>2. QED
    BY <1>11, <2>1, <1>on DEF OpenMicrophone, Starts, Underway
<1>12. ASSUME NEW n \in Sessions, NoMicrophone(n) PROVE ConnInv'
  <2>1. \A m \in Sessions : Goes(m)
    BY <1>12, Closing DEF NoMicrophone, TypeOK
  <2>2. QED
    BY <1>12, <2>1, <1>on DEF NoMicrophone, Fail, Starts
<1>13. ASSUME NEW n \in Sessions, Listen(n) PROVE ConnInv'
  <2>1. \A m \in Sessions : Goes(m)
    BY <1>13 DEF Listen, Goes
  <2>2. QED
    BY <1>13, <2>1, <1>on DEF Listen, Starts, Underway
<1>14. ASSUME NEW n \in Sessions, WatchFocus(n) PROVE ConnInv'
  <2>1. \A m \in Sessions : Goes(m)
    BY <1>14 DEF WatchFocus, Goes
  <2>2. QED
    BY <1>14, <2>1, <1>on DEF WatchFocus, Starts, Underway
<1>15. ASSUME NEW n \in Sessions, ConsumeTranscript(n) PROVE ConnInv'
  <2>1. /\ Others(n) /\ conn'[n].sent = conn[n].sent
        /\ conn'[n].complained = conn[n].complained /\ conn'[n].link = conn[n].link
        /\ Head(conn[n].inbox) = conn[n].inbox[1] /\ 1 \in DOMAIN conn[n].inbox
        /\ \A i \in DOMAIN conn'[n].inbox :
             i + 1 \in DOMAIN conn[n].inbox /\ conn'[n].inbox[i] = conn[n].inbox[i + 1]
    BY <1>15, Reading DEF ConsumeTranscript
  <2>2. consumer[n].at = "running" /\ UNCHANGED <<consumer, finished, start>>
    BY <1>15 DEF ConsumeTranscript
  <2>3. Fine(n)'
    BY <1>now, <2>1, <2>2
  <2>4. QED
    BY <1>one, <2>1, <2>2, <2>3
<1>16. ASSUME NEW n \in Sessions, ConsumeError(n) PROVE ConnInv'
  <2>1. /\ Others(n) /\ conn'[n].sent = conn[n].sent
        /\ conn'[n].complained = conn[n].complained /\ conn'[n].link = conn[n].link
        /\ Head(conn[n].inbox) = conn[n].inbox[1] /\ 1 \in DOMAIN conn[n].inbox
        /\ \A i \in DOMAIN conn'[n].inbox :
             i + 1 \in DOMAIN conn[n].inbox /\ conn'[n].inbox[i] = conn[n].inbox[i + 1]
    BY <1>16, Reading DEF ConsumeError
  <2>2. /\ consumer[n].at = "running" /\ UNCHANGED <<finished, start>>
        /\ conn[n].inbox[1].kind = "error"
        /\ consumer'[n].at = "reporting" /\ consumer'[n].fatal = conn[n].inbox[1].fatal
        /\ \A m \in Sessions : m # n => consumer'[m] = consumer[m]
    BY <1>16, <2>1 DEF ConsumeError, TypeOK
  <2>3. ~finished[n]
    BY <1>now, <2>2
  <2>4. Fine(n)'
    BY <1>now, <2>1, <2>2, <2>3
  <2>5. QED
    BY <1>one, <2>1, <2>2, <2>4
<1>17. ASSUME NEW n \in Sessions, ReportError(n) PROVE ConnInv'
  <2>1. /\ consumer[n].at = "reporting" /\ UNCHANGED <<conn, start>>
        /\ consumer'[n].at = After(consumer[n].fatal)
        /\ finished'[n] = (finished[n] \/ consumer[n].fatal)
        /\ \A m \in Sessions : m # n => consumer'[m] = consumer[m] /\ finished'[m] = finished[m]
    BY <1>17 DEF ReportError, Idling, TypeOK
  <2>2. conn[n].complained /\ (consumer[n].fatal => conn[n].link # "open") /\ ~finished[n]
    BY <1>now, <2>1
  <2>3. CASE consumer[n].fatal
    <3>1. consumer'[n].at = "done"
      BY <2>1, <2>3 DEF After
    <3>2. Fine(n)'
      BY <1>now, <2>1, <2>2, <2>3, <3>1
    <3>3. QED
      BY <1>one, <2>1, <3>2 DEF Others
  <2>4. CASE ~consumer[n].fatal
    <3>1. consumer'[n].at = "running" /\ ~finished'[n]
      BY <2>1, <2>2, <2>4 DEF After
    <3>2. Fine(n)'
      BY <1>now, <2>1, <2>2, <3>1
    <3>3. QED
      BY <1>one, <2>1, <3>2 DEF Others
  <2>5. QED
    BY <2>3, <2>4
<1>18. ASSUME NEW n \in Sessions, ConsumeEnd(n) PROVE ConnInv'
  <2>1. /\ UNCHANGED <<conn, start>> /\ EventsEnded(n)
        /\ consumer'[n].at = "done" /\ finished'[n]
        /\ \A m \in Sessions : m # n => consumer'[m] = consumer[m] /\ finished'[m] = finished[m]
    BY <1>18 DEF ConsumeEnd, Idling, TypeOK
  <2>2. Fine(n)'
    BY <1>now, <2>1 DEF EventsEnded
  <2>3. QED
    BY <1>one, <2>1, <2>2 DEF Others
<1>19. ASSUME NEW n \in Sessions, PollFocus(n) PROVE ConnInv'
  <2>1. \A m \in Sessions : Goes(m)
    BY <1>19 DEF PollFocus, Goes
  <2>2. QED
    BY <1>19, <2>1, <1>same DEF PollFocus
<1>20. ASSUME NEW k \in 1 .. Len(stops), StopMicrophone(k) PROVE ConnInv'
  <2>1. \A m \in Sessions : Goes(m)
    BY <1>20 DEF StopMicrophone, Goes
  <2>2. QED
    BY <1>20, <2>1, <1>same DEF StopMicrophone
<1>21. ASSUME NEW k \in 1 .. Len(stops), SendStop(k) PROVE ConnInv'
  <2>1. stops[k] \in StopCall
    BY DEF TypeOK
  <2>2. stops[k].session \in Sessions
    BY <1>21, <2>1 DEF SendStop, StopCall
  <2>3. \A m \in Sessions : Goes(m)
    BY <1>21, <2>2, Asking DEF SendStop
  <2>4. QED
    BY <1>21, <2>3, <1>same DEF SendStop
<1>22. ASSUME NEW k \in 1 .. Len(stops), SendStopFails(k) PROVE ConnInv'
  <2>1. \A m \in Sessions : Goes(m)
    BY <1>22, Closing DEF SendStopFails, TypeOK
  <2>2. QED
    BY <1>22, <2>1, <1>same DEF SendStopFails
<1>23. ASSUME NEW k \in 1 .. Len(stops), StopFinished(k) PROVE ConnInv'
  <2>1. \A m \in Sessions : Goes(m)
    BY <1>23 DEF StopFinished, Goes
  <2>2. QED
    BY <1>23, <2>1, <1>same DEF StopFinished
<1>24. ASSUME NEW k \in 1 .. Len(stops), StopTimesOut(k) PROVE ConnInv'
  <2>1. \A m \in Sessions : Goes(m)
    BY <1>24, Closing DEF StopTimesOut, TypeOK
  <2>2. QED
    BY <1>24, <2>1, <1>same DEF StopTimesOut
<1>25. ASSUME NEW k \in 1 .. Len(stops), StopCancels(k) PROVE ConnInv'
  <2>1. \A m \in Sessions : Goes(m)
    BY <1>25 DEF StopCancels, Goes
  <2>2. QED
    BY <1>25, <2>1, <1>same DEF StopCancels
<1>26. ASSUME NEW k \in 1 .. Len(stops), FinishStop(k) PROVE ConnInv'
  <2>1. \A m \in Sessions : Goes(m)
    BY <1>26, Closing DEF FinishStop, TypeOK
  <2>2. QED
    BY <1>26, <2>1, <1>same DEF FinishStop
<1>27. ASSUME NEW p \in Aborters, Abort(p) PROVE ConnInv'
  <2>1. \A m \in Sessions : Goes(m)
    BY <1>27 DEF Abort, Goes
  <2>2. QED
    BY <1>27, <2>1, <1>same DEF Abort
<1>28. ASSUME NEW p \in Aborters, AbortTearsDown(p) PROVE ConnInv'
  <2>1. \A m \in Sessions : Goes(m)
    BY <1>28, Closing DEF AbortTearsDown, TypeOK
  <2>2. QED
    BY <1>28, <2>1, <1>same DEF AbortTearsDown
<1>29. ASSUME NEW p \in Aborters, AbortSettles(p) PROVE ConnInv'
  <2>1. \A m \in Sessions : Goes(m)
    BY <1>29 DEF AbortSettles, Goes
  <2>2. QED
    BY <1>29, <2>1, <1>same DEF AbortSettles
<1>30. CASE UNCHANGED vars
  <2>1. \A m \in Sessions : Goes(m)
    BY <1>30 DEF vars, Goes
  <2>2. QED
    BY <1>30, <2>1, <1>same DEF vars
<1>stall. ASSUME NEW n \in Sessions, Stalls(n) PROVE ConnInv'
  BY <1>stall, Stalling, <1>same
<1>31. QED
  BY <1>1, <1>2, <1>3, <1>4, <1>5, <1>6, <1>7, <1>8, <1>9, <1>10, <1>11, <1>12, <1>13,
     <1>14, <1>15, <1>16, <1>17, <1>18, <1>19, <1>20, <1>21, <1>22, <1>23, <1>24, <1>25,
     <1>26, <1>27, <1>28, <1>29, <1>30, <1>stall DEF Stalls, Next, Moves, Transport, Starting, Consuming,
     Stopping, Aborting

\* What is finished or closed stays so.
LEMMA Lasting == ASSUME TypeOK, SessionInv, [Next]_<<world, vars>>, NEW o \in Sessions
                 PROVE  /\ finished[o] => finished'[o]
                        /\ conn[o].link = "closed" => conn'[o].link = "closed"
<1> USE DEF callVars, textVars
<1>same. ASSUME \A n \in Sessions : Goes(n), finished' = finished
         PROVE  (finished[o] => finished'[o]) /\ (conn[o].link = "closed" => conn'[o].link = "closed")
  BY <1>same DEF Goes
<1>1. CASE Start
  <2>1. \A m \in Sessions : Goes(m)
    BY <1>1 DEF Start, Goes
  <2>2. QED
    BY <1>1, <2>1, <1>same DEF Start
<1>2. CASE Stop
  <2>1. \A m \in Sessions : Goes(m)
    BY <1>2 DEF Stop, Goes
  <2>2. QED
    BY <1>2, <2>1, <1>same DEF Stop
<1>3. CASE Quit
  <2>1. \A m \in Sessions : Goes(m)
    BY <1>3 DEF Quit, Goes
  <2>2. QED
    BY <1>3, <2>1, <1>same DEF Quit
<1>4. ASSUME NEW n \in Sessions, ServerSends(n)
      PROVE  (finished[o] => finished'[o]) /\ (conn[o].link = "closed" => conn'[o].link = "closed")
  <2>1. Others(n) /\ (conn'[n].link = conn[n].link \/ conn'[n].link = "closed")
    BY <1>4, Sending
  <2>2. QED
    BY <1>4, <2>1 DEF ServerSends, Others
<1>5. ASSUME NEW n \in Sessions, ServerCloses(n)
      PROVE  (finished[o] => finished'[o]) /\ (conn[o].link = "closed" => conn'[o].link = "closed")
  <2>1. Others(n) /\ (conn'[n].link = conn[n].link \/ conn'[n].link = "closed")
    BY <1>5, Linking DEF ServerCloses
  <2>2. QED
    BY <1>5, <2>1 DEF ServerCloses, Others
<1>6. ASSUME NEW n \in Sessions, LinkDrops(n)
      PROVE  (finished[o] => finished'[o]) /\ (conn[o].link = "closed" => conn'[o].link = "closed")
  <2>1. \A m \in Sessions : Goes(m)
    BY <1>6, Linking DEF LinkDrops, Serving, Goes, Others
  <2>2. QED
    BY <1>6, <2>1, <1>same DEF LinkDrops
<1>7. ASSUME NEW n \in Sessions, NEW fatal \in BOOLEAN, ServerComplains(n, fatal)
      PROVE  (finished[o] => finished'[o]) /\ (conn[o].link = "closed" => conn'[o].link = "closed")
  <2>1. Others(n) /\ (conn'[n].link = conn[n].link \/ conn'[n].link = "closed")
    BY <1>7, Complaining
  <2>2. QED
    BY <1>7, <2>1 DEF ServerComplains, Others
<1>8. ASSUME NEW n \in Sessions, Dial(n)
      PROVE  (finished[o] => finished'[o]) /\ (conn[o].link = "closed" => conn'[o].link = "closed")
  <2>1. Others(n) /\ conn[n].link = "none"
    BY <1>8, Linking DEF Dial, SessionInv
  <2>2. QED
    BY <1>8, <2>1 DEF Dial, Others
<1>9. ASSUME NEW n \in Sessions, NotReady(n)
      PROVE  (finished[o] => finished'[o]) /\ (conn[o].link = "closed" => conn'[o].link = "closed")
  <2>1. \A m \in Sessions : Goes(m)
    BY <1>9, Closing DEF NotReady, TypeOK
  <2>2. QED
    BY <1>9, <2>1 DEF NotReady, Goes, TypeOK
<1>10. ASSUME NEW n \in Sessions, Ready(n)
      PROVE  (finished[o] => finished'[o]) /\ (conn[o].link = "closed" => conn'[o].link = "closed")
  <2>1. \A m \in Sessions : Goes(m)
    BY <1>10 DEF Ready, Goes
  <2>2. QED
    BY <1>10, <2>1, <1>same DEF Ready
<1>11. ASSUME NEW n \in Sessions, OpenMicrophone(n)
      PROVE  (finished[o] => finished'[o]) /\ (conn[o].link = "closed" => conn'[o].link = "closed")
  <2>1. \A m \in Sessions : Goes(m)
    BY <1>11 DEF OpenMicrophone, Goes
  <2>2. QED
    BY <1>11, <2>1, <1>same DEF OpenMicrophone
<1>12. ASSUME NEW n \in Sessions, NoMicrophone(n)
      PROVE  (finished[o] => finished'[o]) /\ (conn[o].link = "closed" => conn'[o].link = "closed")
  <2>1. \A m \in Sessions : Goes(m)
    BY <1>12, Closing DEF NoMicrophone, TypeOK
  <2>2. QED
    BY <1>12, <2>1, <1>same DEF NoMicrophone
<1>13. ASSUME NEW n \in Sessions, Listen(n)
      PROVE  (finished[o] => finished'[o]) /\ (conn[o].link = "closed" => conn'[o].link = "closed")
  <2>1. \A m \in Sessions : Goes(m)
    BY <1>13 DEF Listen, Goes
  <2>2. QED
    BY <1>13, <2>1, <1>same DEF Listen
<1>14. ASSUME NEW n \in Sessions, WatchFocus(n)
      PROVE  (finished[o] => finished'[o]) /\ (conn[o].link = "closed" => conn'[o].link = "closed")
  <2>1. \A m \in Sessions : Goes(m)
    BY <1>14 DEF WatchFocus, Goes
  <2>2. QED
    BY <1>14, <2>1, <1>same DEF WatchFocus
<1>15. ASSUME NEW n \in Sessions, ConsumeTranscript(n)
      PROVE  (finished[o] => finished'[o]) /\ (conn[o].link = "closed" => conn'[o].link = "closed")
  <2>1. conn'[n].link = conn[n].link /\ Others(n)
    BY <1>15, Reading DEF ConsumeTranscript
  <2>2. QED
    BY <1>15, <2>1 DEF ConsumeTranscript, Others
<1>16. ASSUME NEW n \in Sessions, ConsumeError(n)
      PROVE  (finished[o] => finished'[o]) /\ (conn[o].link = "closed" => conn'[o].link = "closed")
  <2>1. conn'[n].link = conn[n].link /\ Others(n)
    BY <1>16, Reading DEF ConsumeError
  <2>2. QED
    BY <1>16, <2>1 DEF ConsumeError, Others
<1>17. ASSUME NEW n \in Sessions, ReportError(n)
      PROVE  (finished[o] => finished'[o]) /\ (conn[o].link = "closed" => conn'[o].link = "closed")
  <2>1. \A m \in Sessions : Goes(m)
    BY <1>17 DEF ReportError, Goes
  <2>2. QED
    BY <1>17, <2>1 DEF ReportError, Goes, TypeOK
<1>18. ASSUME NEW n \in Sessions, ConsumeEnd(n)
      PROVE  (finished[o] => finished'[o]) /\ (conn[o].link = "closed" => conn'[o].link = "closed")
  <2>1. \A m \in Sessions : Goes(m)
    BY <1>18 DEF ConsumeEnd, Goes
  <2>2. QED
    BY <1>18, <2>1 DEF ConsumeEnd, Goes, TypeOK
<1>19. ASSUME NEW n \in Sessions, PollFocus(n)
      PROVE  (finished[o] => finished'[o]) /\ (conn[o].link = "closed" => conn'[o].link = "closed")
  <2>1. \A m \in Sessions : Goes(m)
    BY <1>19 DEF PollFocus, Goes
  <2>2. QED
    BY <1>19, <2>1, <1>same DEF PollFocus
<1>20. ASSUME NEW k \in 1 .. Len(stops), StopMicrophone(k)
      PROVE  (finished[o] => finished'[o]) /\ (conn[o].link = "closed" => conn'[o].link = "closed")
  <2>1. \A m \in Sessions : Goes(m)
    BY <1>20 DEF StopMicrophone, Goes
  <2>2. QED
    BY <1>20, <2>1, <1>same DEF StopMicrophone
<1>21. ASSUME NEW k \in 1 .. Len(stops), SendStop(k)
      PROVE  (finished[o] => finished'[o]) /\ (conn[o].link = "closed" => conn'[o].link = "closed")
  <2>1. stops[k] \in StopCall
    BY DEF TypeOK
  <2>2. stops[k].session \in Sessions
    BY <1>21, <2>1 DEF SendStop, StopCall
  <2>3. \A m \in Sessions : Goes(m)
    BY <1>21, <2>2, Asking DEF SendStop
  <2>4. QED
    BY <1>21, <2>3, <1>same DEF SendStop
<1>22. ASSUME NEW k \in 1 .. Len(stops), SendStopFails(k)
      PROVE  (finished[o] => finished'[o]) /\ (conn[o].link = "closed" => conn'[o].link = "closed")
  <2>1. \A m \in Sessions : Goes(m)
    BY <1>22, Closing DEF SendStopFails, TypeOK
  <2>2. QED
    BY <1>22, <2>1, <1>same DEF SendStopFails
<1>23. ASSUME NEW k \in 1 .. Len(stops), StopFinished(k)
      PROVE  (finished[o] => finished'[o]) /\ (conn[o].link = "closed" => conn'[o].link = "closed")
  <2>1. \A m \in Sessions : Goes(m)
    BY <1>23 DEF StopFinished, Goes
  <2>2. QED
    BY <1>23, <2>1, <1>same DEF StopFinished
<1>24. ASSUME NEW k \in 1 .. Len(stops), StopTimesOut(k)
      PROVE  (finished[o] => finished'[o]) /\ (conn[o].link = "closed" => conn'[o].link = "closed")
  <2>1. \A m \in Sessions : Goes(m)
    BY <1>24, Closing DEF StopTimesOut, TypeOK
  <2>2. QED
    BY <1>24, <2>1, <1>same DEF StopTimesOut
<1>25. ASSUME NEW k \in 1 .. Len(stops), StopCancels(k)
      PROVE  (finished[o] => finished'[o]) /\ (conn[o].link = "closed" => conn'[o].link = "closed")
  <2>1. \A m \in Sessions : Goes(m)
    BY <1>25 DEF StopCancels, Goes
  <2>2. QED
    BY <1>25, <2>1, <1>same DEF StopCancels
<1>26. ASSUME NEW k \in 1 .. Len(stops), FinishStop(k)
      PROVE  (finished[o] => finished'[o]) /\ (conn[o].link = "closed" => conn'[o].link = "closed")
  <2>1. \A m \in Sessions : Goes(m)
    BY <1>26, Closing DEF FinishStop, TypeOK
  <2>2. QED
    BY <1>26, <2>1, <1>same DEF FinishStop
<1>27. ASSUME NEW p \in Aborters, Abort(p)
      PROVE  (finished[o] => finished'[o]) /\ (conn[o].link = "closed" => conn'[o].link = "closed")
  <2>1. \A m \in Sessions : Goes(m)
    BY <1>27 DEF Abort, Goes
  <2>2. QED
    BY <1>27, <2>1, <1>same DEF Abort
<1>28. ASSUME NEW p \in Aborters, AbortTearsDown(p)
      PROVE  (finished[o] => finished'[o]) /\ (conn[o].link = "closed" => conn'[o].link = "closed")
  <2>1. \A m \in Sessions : Goes(m)
    BY <1>28, Closing DEF AbortTearsDown, TypeOK
  <2>2. QED
    BY <1>28, <2>1, <1>same DEF AbortTearsDown
<1>29. ASSUME NEW p \in Aborters, AbortSettles(p)
      PROVE  (finished[o] => finished'[o]) /\ (conn[o].link = "closed" => conn'[o].link = "closed")
  <2>1. \A m \in Sessions : Goes(m)
    BY <1>29 DEF AbortSettles, Goes
  <2>2. QED
    BY <1>29, <2>1, <1>same DEF AbortSettles
<1>30. CASE UNCHANGED vars
  <2>1. \A m \in Sessions : Goes(m)
    BY <1>30 DEF vars, Goes
  <2>2. QED
    BY <1>30, <2>1, <1>same DEF vars
<1>stall. ASSUME NEW n \in Sessions, Stalls(n)
      PROVE  (finished[o] => finished'[o]) /\ (conn[o].link = "closed" => conn'[o].link = "closed")
  BY <1>stall, Stalling, <1>same
<1>31. QED
  BY <1>1, <1>2, <1>3, <1>4, <1>5, <1>6, <1>7, <1>8, <1>9, <1>10, <1>11, <1>12, <1>13,
     <1>14, <1>15, <1>16, <1>17, <1>18, <1>19, <1>20, <1>21, <1>22, <1>23, <1>24, <1>25,
     <1>26, <1>27, <1>28, <1>29, <1>30, <1>stall DEF Stalls, Next, Moves, Transport, Starting, Consuming,
     Stopping, Aborting

LEMMA StopStays == ASSUME TypeOK, SessionInv, StopInv, [Next]_<<world, vars>> PROVE StopInv'
<1> USE DEF callVars, textVars
<1> DEFINE Fine(j) ==
      /\ stops[j].clean => finished[stops[j].of] /\ conn[stops[j].of].link = "closed"
      /\ "timeout" \notin world.faults =>
          /\ stops[j].at # "closing"
          /\ stops[j].at = "finishing" => finished[stops[j].of]
<1>0. world' = world /\ (\A j \in DOMAIN stops : Fine(j) /\ stops[j].of \in Sessions)
      /\ DOMAIN stops = 1 .. Len(stops)
  <2>1. world' = world
    BY DEF Next
  <2>2. DOMAIN stops = 1 .. Len(stops) /\ \A j \in DOMAIN stops : stops[j] \in StopCall
    BY DEF TypeOK
  <2>3. \A j \in DOMAIN stops : stops[j].of \in Sessions
    BY <2>2 DEF StopCall
  <2>4. \A j \in DOMAIN stops : Fine(j)
    BY DEF StopInv
  <2>5. QED
    BY <2>1, <2>2, <2>3, <2>4
<1>stays. ASSUME NEW j \in DOMAIN stops, stops'[j] = stops[j] PROVE Fine(j)'
  BY <1>0, <1>stays, Lasting
<1>each. ASSUME \A j \in DOMAIN stops' : Fine(j)' PROVE StopInv'
  BY <1>each DEF StopInv
<1>kept. ASSUME stops' = stops PROVE StopInv'
  BY <1>kept, <1>stays, <1>each
\* The Stop k goes on to c.
<1>on. ASSUME NEW k \in 1 .. Len(stops), NEW c \in StopCall, stops' = [stops EXCEPT ![k] = c],
              c.of = stops[k].of,
              c.clean => \/ stops[k].clean
                         \/ finished[c.of] /\ conn[c.of].link = "closed",
              "timeout" \notin world.faults =>
                c.at # "closing" /\ (c.at = "finishing" => finished[c.of])
       PROVE  StopInv'
  <2>1. DOMAIN stops' = DOMAIN stops /\ stops'[k] = c
        /\ \A j \in DOMAIN stops : j # k => stops'[j] = stops[j]
    BY <1>on, Advancing
  <2>2. k \in DOMAIN stops /\ c.of \in Sessions
    BY <1>0, <1>on
  <2>3. (finished[c.of] => finished'[c.of])
        /\ (conn[c.of].link = "closed" => conn'[c.of].link = "closed")
    BY <2>2, Lasting
  <2>4. Fine(k)'
    BY <1>0, <1>on, <2>1, <2>2, <2>3
  <2>5. QED
    BY <1>stays, <1>each, <2>1, <2>4
<1>1. CASE Start
  BY <1>1, <1>kept DEF Start
<1>2. CASE Stop
  <2> DEFINE call == [at |-> "microphone", session |-> session, of |-> latest,
                      failed |-> FALSE, clean |-> FALSE]
  <2>1. stops' = Append(stops, call) /\ call.clean = FALSE /\ call.at = "microphone"
    BY <1>2 DEF Stop
  <2> HIDE DEF call, Fine
  <2>2. ASSUME NEW j \in DOMAIN stops' PROVE Fine(j)'
    <3>1. (j \in DOMAIN stops /\ stops'[j] = stops[j]) \/ stops'[j] = call
      BY <2>1 DEF TypeOK
    <3>2. CASE stops'[j] = call
      BY <2>1, <3>2 DEF Fine
    <3>3. CASE j \in DOMAIN stops /\ stops'[j] = stops[j]
      BY <1>stays, <3>3
    <3>4. QED
      BY <3>1, <3>2, <3>3
  <2>3. QED
    BY <1>each, <2>2
<1>3. CASE Quit
  BY <1>3, <1>kept DEF Quit
<1>4. ASSUME NEW n \in Sessions, ServerSends(n) PROVE StopInv'
  BY <1>4, <1>kept DEF ServerSends
<1>5. ASSUME NEW n \in Sessions, ServerCloses(n) PROVE StopInv'
  BY <1>5, <1>kept DEF ServerCloses
<1>6. ASSUME NEW n \in Sessions, LinkDrops(n) PROVE StopInv'
  BY <1>6, <1>kept DEF LinkDrops
<1>7. ASSUME NEW n \in Sessions, NEW fatal \in BOOLEAN, ServerComplains(n, fatal) PROVE StopInv'
  BY <1>7, <1>kept DEF ServerComplains
<1>8. ASSUME NEW n \in Sessions, Dial(n) PROVE StopInv'
  BY <1>8, <1>kept DEF Dial
<1>9. ASSUME NEW n \in Sessions, NotReady(n) PROVE StopInv'
  BY <1>9, <1>kept DEF NotReady
<1>10. ASSUME NEW n \in Sessions, Ready(n) PROVE StopInv'
  BY <1>10, <1>kept DEF Ready
<1>11. ASSUME NEW n \in Sessions, OpenMicrophone(n) PROVE StopInv'
  BY <1>11, <1>kept DEF OpenMicrophone
<1>12. ASSUME NEW n \in Sessions, NoMicrophone(n) PROVE StopInv'
  BY <1>12, <1>kept DEF NoMicrophone
<1>13. ASSUME NEW n \in Sessions, Listen(n) PROVE StopInv'
  BY <1>13, <1>kept DEF Listen
<1>14. ASSUME NEW n \in Sessions, WatchFocus(n) PROVE StopInv'
  BY <1>14, <1>kept DEF WatchFocus
<1>15. ASSUME NEW n \in Sessions, ConsumeTranscript(n) PROVE StopInv'
  BY <1>15, <1>kept DEF ConsumeTranscript
<1>16. ASSUME NEW n \in Sessions, ConsumeError(n) PROVE StopInv'
  BY <1>16, <1>kept DEF ConsumeError
<1>17. ASSUME NEW n \in Sessions, ReportError(n) PROVE StopInv'
  BY <1>17, <1>kept DEF ReportError
<1>18. ASSUME NEW n \in Sessions, ConsumeEnd(n) PROVE StopInv'
  BY <1>18, <1>kept DEF ConsumeEnd
<1>19. ASSUME NEW n \in Sessions, PollFocus(n) PROVE StopInv'
  BY <1>19, <1>kept DEF PollFocus
<1>20. ASSUME NEW k \in 1 .. Len(stops), StopMicrophone(k) PROVE StopInv'
  <2> DEFINE c == [stops[k] EXCEPT !.at = "sending"]
  <2>1. stops[k] \in StopCall /\ k \in DOMAIN stops
    BY DEF TypeOK
  <2>2. c \in StopCall
    BY <2>1, StopFields
  <2>3. stops' = [stops EXCEPT ![k] = c]
    BY <1>20 DEF StopMicrophone, Advance
  <2>4. c.of = stops[k].of /\ (c.clean = stops[k].clean)
    BY <2>1 DEF StopCall
  <2>5. "timeout" \notin world.faults =>
          c.at # "closing" /\ (c.at = "finishing" => finished[c.of])
    BY <1>20, <1>0, <2>1 DEF StopMicrophone, StopCall, GivesUp, AllApplied
  <2> HIDE DEF c
  <2>6. QED
    BY <1>on, <2>2, <2>3, <2>4, <2>5
<1>21. ASSUME NEW k \in 1 .. Len(stops), SendStop(k) PROVE StopInv'
  <2> DEFINE c == [stops[k] EXCEPT !.at = "waiting"]
  <2>1. stops[k] \in StopCall /\ k \in DOMAIN stops
    BY DEF TypeOK
  <2>2. c \in StopCall
    BY <2>1, StopFields
  <2>3. stops' = [stops EXCEPT ![k] = c]
    BY <1>21 DEF SendStop, Advance
  <2>4. c.of = stops[k].of /\ (c.clean = stops[k].clean)
    BY <2>1 DEF StopCall
  <2>5. "timeout" \notin world.faults =>
          c.at # "closing" /\ (c.at = "finishing" => finished[c.of])
    BY <1>21, <1>0, <2>1 DEF SendStop, StopCall, GivesUp, AllApplied
  <2> HIDE DEF c
  <2>6. QED
    BY <1>on, <2>2, <2>3, <2>4, <2>5
<1>22. ASSUME NEW k \in 1 .. Len(stops), SendStopFails(k) PROVE StopInv'
  <2> DEFINE c == [stops[k] EXCEPT !.at = "draining", !.failed = TRUE]
  <2>1. stops[k] \in StopCall /\ k \in DOMAIN stops
    BY DEF TypeOK
  <2>2. c \in StopCall
    BY <2>1, StopFields
  <2>3. stops' = [stops EXCEPT ![k] = c]
    BY <1>22 DEF SendStopFails, Advance
  <2>4. c.of = stops[k].of /\ (c.clean = stops[k].clean)
    BY <2>1 DEF StopCall
  <2>5. "timeout" \notin world.faults =>
          c.at # "closing" /\ (c.at = "finishing" => finished[c.of])
    BY <1>22, <1>0, <2>1 DEF SendStopFails, StopCall, GivesUp, AllApplied
  <2> HIDE DEF c
  <2>6. QED
    BY <1>on, <2>2, <2>3, <2>4, <2>5
<1>23. ASSUME NEW k \in 1 .. Len(stops), StopFinished(k) PROVE StopInv'
  <2> DEFINE clean == /\ stops[k].at = "waiting" /\ conn[stops[k].of].link = "closed"
                      /\ conn[stops[k].of].asked
             c == [stops[k] EXCEPT !.at = "finishing", !.clean = clean]
  <2>1. stops[k] \in StopCall /\ clean \in BOOLEAN
    BY DEF TypeOK
  <2>2. stops' = [stops EXCEPT ![k] = c] /\ finished[stops[k].of]
    BY <1>23 DEF StopFinished, AllApplied
  <2>3. clean => conn[stops[k].of].link = "closed"
    OBVIOUS
  <2> HIDE DEF clean
  <2>4. c \in StopCall
    BY <2>1, StopFields
  <2>5. c.of = stops[k].of /\ c.clean = clean /\ c.at = "finishing"
    BY <2>1 DEF StopCall
  <2> HIDE DEF c
  <2>6. QED
    BY <1>on, <2>2, <2>3, <2>4, <2>5
<1>24. ASSUME NEW k \in 1 .. Len(stops), StopTimesOut(k) PROVE StopInv'
  <2> DEFINE c == [stops[k] EXCEPT !.at = "closing"]
  <2>1. stops[k] \in StopCall /\ k \in DOMAIN stops
    BY DEF TypeOK
  <2>2. c \in StopCall
    BY <2>1, StopFields
  <2>3. stops' = [stops EXCEPT ![k] = c]
    BY <1>24 DEF StopTimesOut, Advance
  <2>4. c.of = stops[k].of /\ (c.clean = stops[k].clean)
    BY <2>1 DEF StopCall
  <2>5. "timeout" \notin world.faults =>
          c.at # "closing" /\ (c.at = "finishing" => finished[c.of])
    BY <1>24, <1>0, <2>1 DEF StopTimesOut, StopCall, GivesUp, AllApplied
  <2> HIDE DEF c
  <2>6. QED
    BY <1>on, <2>2, <2>3, <2>4, <2>5
<1>25. ASSUME NEW k \in 1 .. Len(stops), StopCancels(k) PROVE StopInv'
  <2> DEFINE c == [stops[k] EXCEPT !.at = "finishing"]
  <2>1. stops[k] \in StopCall /\ k \in DOMAIN stops
    BY DEF TypeOK
  <2>2. c \in StopCall
    BY <2>1, StopFields
  <2>3. stops' = [stops EXCEPT ![k] = c]
    BY <1>25 DEF StopCancels, Advance
  <2>4. c.of = stops[k].of /\ (c.clean = stops[k].clean)
    BY <2>1 DEF StopCall
  <2>5. "timeout" \notin world.faults =>
          c.at # "closing" /\ (c.at = "finishing" => finished[c.of])
    BY <1>25, <1>0, <2>1 DEF StopCancels, StopCall, GivesUp, AllApplied
  <2> HIDE DEF c
  <2>6. QED
    BY <1>on, <2>2, <2>3, <2>4, <2>5
<1>26. ASSUME NEW k \in 1 .. Len(stops), FinishStop(k) PROVE StopInv'
  <2> DEFINE c == [stops[k] EXCEPT !.at = "done"]
  <2>1. stops[k] \in StopCall /\ k \in DOMAIN stops
    BY DEF TypeOK
  <2>2. c \in StopCall
    BY <2>1, StopFields
  <2>3. stops' = [stops EXCEPT ![k] = c]
    BY <1>26 DEF FinishStop, Advance
  <2>4. c.of = stops[k].of /\ (c.clean = stops[k].clean)
    BY <2>1 DEF StopCall
  <2>5. "timeout" \notin world.faults =>
          c.at # "closing" /\ (c.at = "finishing" => finished[c.of])
    BY <1>26, <1>0, <2>1 DEF FinishStop, StopCall, GivesUp, AllApplied
  <2> HIDE DEF c
  <2>6. QED
    BY <1>on, <2>2, <2>3, <2>4, <2>5
<1>27. ASSUME NEW p \in Aborters, Abort(p) PROVE StopInv'
  BY <1>27, <1>kept DEF Abort
<1>28. ASSUME NEW p \in Aborters, AbortTearsDown(p) PROVE StopInv'
  BY <1>28, <1>kept DEF AbortTearsDown
<1>29. ASSUME NEW p \in Aborters, AbortSettles(p) PROVE StopInv'
  BY <1>29, <1>kept DEF AbortSettles
<1>30. CASE UNCHANGED vars
  BY <1>30, <1>kept DEF vars
<1>stall. ASSUME NEW n \in Sessions, Stalls(n) PROVE StopInv'
  BY <1>stall, Stalling, <1>kept
<1>31. QED
  BY <1>1, <1>2, <1>3, <1>4, <1>5, <1>6, <1>7, <1>8, <1>9, <1>10, <1>11, <1>12, <1>13,
     <1>14, <1>15, <1>16, <1>17, <1>18, <1>19, <1>20, <1>21, <1>22, <1>23, <1>24, <1>25,
     <1>26, <1>27, <1>28, <1>29, <1>30, <1>stall DEF Stalls, Next, Moves, Transport, Starting, Consuming,
     Stopping, Aborting

\* A disturbance is remembered.
LEMMA Disturbing == ASSUME TypeOK, QuietInv, [Next]_<<world, vars>>
                    PROVE  (Undisturbed' => Undisturbed) /\ (WatchersAreQuiet' => WatchersAreQuiet)
<1> USE DEF callVars, textVars, Undisturbed, WatchersAreQuiet
<1>kept. ASSUME aborts' = aborts
         PROVE  (Undisturbed' => Undisturbed) /\ (WatchersAreQuiet' => WatchersAreQuiet)
  BY <1>kept
\* The Abort p goes on.
<1>on. ASSUME NEW p \in Aborters, NEW c \in AbortCall, aborts' = [aborts EXCEPT ![p] = c],
              aborts[p].at \in {"none", "polling"} \/ c.at \notin {"none", "polling"}
         PROVE  (Undisturbed' => Undisturbed) /\ (WatchersAreQuiet' => WatchersAreQuiet)
  <2>1. aborts'[p] = c /\ \A q \in Aborters : q # p => aborts'[q] = aborts[q]
    BY <1>on DEF TypeOK
  <2>2. QED
    BY <1>on, <2>1, Bounds
<1>call. ASSUME NEW p \in Aborters, NEW at \in {"none", "polling", "called", "tearing", "settling", "done"}
         PROVE  /\ [aborts[p] EXCEPT !.at = at] \in AbortCall
                /\ [aborts[p] EXCEPT !.at = at].at = at
  <2>1. aborts[p] \in AbortCall
    BY DEF TypeOK
  <2>2. QED
    BY <2>1, AbortFields DEF AbortCall
<1>1. CASE Start
  BY <1>1, <1>kept DEF Start
<1>2. CASE Stop
  BY <1>2, <1>kept DEF Stop
<1>3. CASE Quit
  <2>1. Quitting \in Aborters
    BY Bounds
  <2>2. QED
    BY <1>3, <1>on, <1>call, <2>1 DEF Quit
<1>4. ASSUME NEW n \in Sessions, ServerSends(n)
      PROVE  (Undisturbed' => Undisturbed) /\ (WatchersAreQuiet' => WatchersAreQuiet)
  BY <1>4, <1>kept DEF ServerSends
<1>5. ASSUME NEW n \in Sessions, ServerCloses(n)
      PROVE  (Undisturbed' => Undisturbed) /\ (WatchersAreQuiet' => WatchersAreQuiet)
  BY <1>5, <1>kept DEF ServerCloses
<1>6. ASSUME NEW n \in Sessions, LinkDrops(n)
      PROVE  (Undisturbed' => Undisturbed) /\ (WatchersAreQuiet' => WatchersAreQuiet)
  BY <1>6, <1>kept DEF LinkDrops
<1>7. ASSUME NEW n \in Sessions, NEW fatal \in BOOLEAN, ServerComplains(n, fatal)
      PROVE  (Undisturbed' => Undisturbed) /\ (WatchersAreQuiet' => WatchersAreQuiet)
  BY <1>7, <1>kept DEF ServerComplains
<1>8. ASSUME NEW n \in Sessions, Dial(n)
      PROVE  (Undisturbed' => Undisturbed) /\ (WatchersAreQuiet' => WatchersAreQuiet)
  BY <1>8, <1>kept DEF Dial
<1>9. ASSUME NEW n \in Sessions, NotReady(n)
      PROVE  (Undisturbed' => Undisturbed) /\ (WatchersAreQuiet' => WatchersAreQuiet)
  BY <1>9, <1>kept DEF NotReady
<1>10. ASSUME NEW n \in Sessions, Ready(n)
      PROVE  (Undisturbed' => Undisturbed) /\ (WatchersAreQuiet' => WatchersAreQuiet)
  BY <1>10, <1>kept DEF Ready
<1>11. ASSUME NEW n \in Sessions, OpenMicrophone(n)
      PROVE  (Undisturbed' => Undisturbed) /\ (WatchersAreQuiet' => WatchersAreQuiet)
  BY <1>11, <1>kept DEF OpenMicrophone
<1>12. ASSUME NEW n \in Sessions, NoMicrophone(n)
      PROVE  (Undisturbed' => Undisturbed) /\ (WatchersAreQuiet' => WatchersAreQuiet)
  BY <1>12, <1>kept DEF NoMicrophone
<1>13. ASSUME NEW n \in Sessions, Listen(n)
      PROVE  (Undisturbed' => Undisturbed) /\ (WatchersAreQuiet' => WatchersAreQuiet)
  BY <1>13, <1>kept DEF Listen
<1>14. ASSUME NEW n \in Sessions, WatchFocus(n)
      PROVE  (Undisturbed' => Undisturbed) /\ (WatchersAreQuiet' => WatchersAreQuiet)
  <2>1. n \in Aborters /\ aborts[n].at = "none"
    BY <1>14, Bounds DEF WatchFocus, QuietInv
  <2>2. QED
    BY <1>14, <1>kept, <1>on, <1>call, <2>1 DEF WatchFocus
<1>15. ASSUME NEW n \in Sessions, ConsumeTranscript(n)
      PROVE  (Undisturbed' => Undisturbed) /\ (WatchersAreQuiet' => WatchersAreQuiet)
  BY <1>15, <1>kept DEF ConsumeTranscript
<1>16. ASSUME NEW n \in Sessions, ConsumeError(n)
      PROVE  (Undisturbed' => Undisturbed) /\ (WatchersAreQuiet' => WatchersAreQuiet)
  BY <1>16, <1>kept DEF ConsumeError
<1>17. ASSUME NEW n \in Sessions, ReportError(n)
      PROVE  (Undisturbed' => Undisturbed) /\ (WatchersAreQuiet' => WatchersAreQuiet)
  BY <1>17, <1>kept DEF ReportError
<1>18. ASSUME NEW n \in Sessions, ConsumeEnd(n)
      PROVE  (Undisturbed' => Undisturbed) /\ (WatchersAreQuiet' => WatchersAreQuiet)
  BY <1>18, <1>kept DEF ConsumeEnd
<1>19. ASSUME NEW n \in Sessions, PollFocus(n)
      PROVE  (Undisturbed' => Undisturbed) /\ (WatchersAreQuiet' => WatchersAreQuiet)
  <2>1. n \in Aborters
    BY Bounds
  <2>2. QED
    BY <1>19, <1>on, <1>call, <2>1 DEF PollFocus
<1>20. ASSUME NEW k \in 1 .. Len(stops), StopMicrophone(k)
      PROVE  (Undisturbed' => Undisturbed) /\ (WatchersAreQuiet' => WatchersAreQuiet)
  BY <1>20, <1>kept DEF StopMicrophone
<1>21. ASSUME NEW k \in 1 .. Len(stops), SendStop(k)
      PROVE  (Undisturbed' => Undisturbed) /\ (WatchersAreQuiet' => WatchersAreQuiet)
  BY <1>21, <1>kept DEF SendStop
<1>22. ASSUME NEW k \in 1 .. Len(stops), SendStopFails(k)
      PROVE  (Undisturbed' => Undisturbed) /\ (WatchersAreQuiet' => WatchersAreQuiet)
  BY <1>22, <1>kept DEF SendStopFails
<1>23. ASSUME NEW k \in 1 .. Len(stops), StopFinished(k)
      PROVE  (Undisturbed' => Undisturbed) /\ (WatchersAreQuiet' => WatchersAreQuiet)
  BY <1>23, <1>kept DEF StopFinished
<1>24. ASSUME NEW k \in 1 .. Len(stops), StopTimesOut(k)
      PROVE  (Undisturbed' => Undisturbed) /\ (WatchersAreQuiet' => WatchersAreQuiet)
  BY <1>24, <1>kept DEF StopTimesOut
<1>25. ASSUME NEW k \in 1 .. Len(stops), StopCancels(k)
      PROVE  (Undisturbed' => Undisturbed) /\ (WatchersAreQuiet' => WatchersAreQuiet)
  BY <1>25, <1>kept DEF StopCancels
<1>26. ASSUME NEW k \in 1 .. Len(stops), FinishStop(k)
      PROVE  (Undisturbed' => Undisturbed) /\ (WatchersAreQuiet' => WatchersAreQuiet)
  BY <1>26, <1>kept DEF FinishStop
<1>27. ASSUME NEW p \in Aborters, Abort(p)
      PROVE  (Undisturbed' => Undisturbed) /\ (WatchersAreQuiet' => WatchersAreQuiet)
  <2>1. [at |-> "tearing", session |-> session, of |-> latest] \in AbortCall
    BY Bounds DEF AbortCall, TypeOK
  <2>2. QED
    BY <1>27, <1>on, <1>call, <2>1 DEF Abort
<1>28. ASSUME NEW p \in Aborters, AbortTearsDown(p)
      PROVE  (Undisturbed' => Undisturbed) /\ (WatchersAreQuiet' => WatchersAreQuiet)
  BY <1>28, <1>on, <1>call DEF AbortTearsDown
<1>29. ASSUME NEW p \in Aborters, AbortSettles(p)
      PROVE  (Undisturbed' => Undisturbed) /\ (WatchersAreQuiet' => WatchersAreQuiet)
  BY <1>29, <1>on, <1>call DEF AbortSettles
<1>30. CASE UNCHANGED vars
  BY <1>30, <1>kept DEF vars
<1>stall. ASSUME NEW n \in Sessions, Stalls(n)
      PROVE  (Undisturbed' => Undisturbed) /\ (WatchersAreQuiet' => WatchersAreQuiet)
  BY <1>stall, Stalling, <1>kept
<1>31. QED
  BY <1>1, <1>2, <1>3, <1>4, <1>5, <1>6, <1>7, <1>8, <1>9, <1>10, <1>11, <1>12, <1>13,
     <1>14, <1>15, <1>16, <1>17, <1>18, <1>19, <1>20, <1>21, <1>22, <1>23, <1>24, <1>25,
     <1>26, <1>27, <1>28, <1>29, <1>30, <1>stall DEF Stalls, Next, Moves, Transport, Starting, Consuming,
     Stopping, Aborting

\* Who is being started, as long as no Abort comes.
LEMMA StartingIsLatest == ASSUME TypeOK, CalmInv, QuietInv, Undisturbed, NEW n \in Sessions,
                                 start[n] \in Underway
                          PROVE  n = latest /\ state = "Connecting"
<1>1. WatchersAreQuiet
  BY Bounds DEF Undisturbed, WatchersAreQuiet
<1>2. n = latest
  BY <1>1 DEF QuietInv
<1>3. state \in States
  BY DEF TypeOK
<1>4. QED
  BY <1>2, <1>3 DEF CalmInv, RestInv, ListeningInv, FinalizingInv, AtRest,
     AcceptsSettingsChanges, States

\* What is being stopped, as long as no Abort comes.
LEMMA StoppingIsLatest == ASSUME TypeOK, CalmInv, Undisturbed, NEW k \in 1 .. Len(stops),
                                 stops[k].at # "done"
  PROVE  /\ state = "Finalizing" /\ latest \in Sessions /\ start[latest] \notin Underway
         /\ session = latest
         /\ \A j \in DOMAIN stops : j # k => stops[j].at = "done"
         /\ stops[k].session = latest /\ stops[k].of = latest
         /\ mic = IF stops[k].at = "microphone" THEN latest ELSE NoSession
<1>1. k \in DOMAIN stops /\ state \in States
  BY DEF TypeOK
<1>2. ~NothingToStop
  BY <1>1 DEF NothingToStop
<1>3. state = "Finalizing"
  BY <1>1, <1>2 DEF CalmInv, RestInv, ConnectingInv, ListeningInv, AtRest,
     AcceptsSettingsChanges, States
<1>4. PICK i \in DOMAIN stops :
        /\ \A j \in DOMAIN stops : j # i => stops[j].at = "done"
        /\ stops[i].at # "done" /\ stops[i].session = latest /\ stops[i].of = latest
        /\ mic = IF stops[i].at = "microphone" THEN latest ELSE NoSession
  BY <1>3 DEF CalmInv, FinalizingInv
<1>5. i = k
  BY <1>1, <1>4
<1>6. QED
  BY <1>3, <1>4, <1>5 DEF CalmInv, FinalizingInv

LEMMA CalmStays == ASSUME TypeOK, SessionInv, CalmInv, QuietInv, [Next]_<<world, vars>>
                   PROVE  CalmInv'
<1> SUFFICES ASSUME Undisturbed' PROVE (RestInv /\ ConnectingInv /\ ListeningInv /\ FinalizingInv)'
  BY DEF CalmInv
<1> DEFINE Calm == RestInv /\ ConnectingInv /\ ListeningInv /\ FinalizingInv
<1> USE DEF callVars, textVars
<1>calm. Undisturbed /\ WatchersAreQuiet /\ Calm
  BY Disturbing, Bounds DEF CalmInv, Undisturbed, WatchersAreQuiet
<1>noabort. \A p \in Aborters : aborts[p].at \in {"none", "polling"}
            /\ aborts'[p].at \in {"none", "polling"}
  BY <1>calm DEF Undisturbed
<1>kept. ASSUME UNCHANGED <<state, session, mic, stops, latest>>,
                \A m \in Sessions :
                  /\ conn'[m].link = "open" => conn[m].link = "open"
                  /\ start'[m] = start[m] \/ (start[m] \notin Underway /\ start'[m] \notin Underway)
         PROVE  Calm'
  <2>1. RestInv'
    BY <1>kept, <1>calm DEF RestInv, AtRest, AcceptsSettingsChanges, NothingToStop
  <2>2. ConnectingInv'
    BY <1>kept, <1>calm DEF ConnectingInv, NothingToStop
  <2>3. ListeningInv'
    BY <1>kept, <1>calm DEF ListeningInv, NothingToStop
  <2>4. FinalizingInv'
    BY <1>kept, <1>calm DEF FinalizingInv
  <2>5. QED
    BY <2>1, <2>2, <2>3, <2>4
<1>same. ASSUME UNCHANGED <<state, session, mic, stops, latest, start>>,
                \A m \in Sessions : Goes(m)
         PROVE  Calm'
  BY <1>same, <1>kept DEF Goes
\* A Start fails.
<1>fail. ASSUME NEW n \in Sessions, Fail(n), start[n] \in {"dialing", "awaiting", "microphone"},
                UNCHANGED <<latest, mic, stops>>,
                (\A m \in Sessions : Goes(m)) /\ conn'[n].link # "open"
         PROVE  Calm'
  <2>1. n = latest /\ state = "Connecting" /\ ConnectingInv
    BY <1>fail, <1>calm, StartingIsLatest DEF Underway
  <2>2. /\ start'[n] = "failed" /\ (\A m \in Sessions : m # n => start'[m] = start[m])
        /\ state' = "Error" /\ session' = NoSession
    BY <1>fail DEF Fail, TypeOK
  <2>3. mic' = NoSession /\ NothingToStop'
    BY <1>fail, <2>1 DEF ConnectingInv, NothingToStop
  <2>4. \A m \in Sessions : start'[m] \notin Underway /\ conn'[m].link # "open"
    BY <1>fail, <1>calm, <2>1, <2>2 DEF QuietInv, Goes, Underway
  <2>5. QED
    BY <2>2, <2>3, <2>4 DEF RestInv, ConnectingInv, ListeningInv, FinalizingInv
\* The Start that is under way goes on, or comes to its end.
<1>start. ASSUME NEW n \in Sessions, start[n] \in Underway, NEW at \in Starts,
                 start' = [start EXCEPT ![n] = at], UNCHANGED <<latest, stops>>,
                 \/ /\ state' = state /\ at \in Underway
                    /\ session' = IF at \in {"microphone", "opened"} THEN n ELSE NoSession
                    /\ mic' = IF at = "opened" THEN n ELSE NoSession
                 \/ /\ state' = "Listening" /\ at \notin Underway
                    /\ session' = n /\ mic' = n
          PROVE  Calm'
  <2>1. n = latest /\ state = "Connecting" /\ NothingToStop
    BY <1>start, <1>calm, StartingIsLatest DEF ConnectingInv
  <2>2. start'[n] = at /\ NothingToStop'
    BY <1>start, <2>1 DEF TypeOK, NothingToStop
  <2>3. CASE state' = "Connecting"
    BY <1>start, <2>1, <2>2, <2>3 DEF RestInv, ConnectingInv, ListeningInv, FinalizingInv,
       AtRest, AcceptsSettingsChanges
  <2>4. CASE state' = "Listening"
    BY <1>start, <2>1, <2>2, <2>4 DEF RestInv, ConnectingInv, ListeningInv, FinalizingInv,
       AtRest, AcceptsSettingsChanges
  <2>5. QED
    BY <1>start, <2>1, <2>3, <2>4
\* A Stop goes on.
<1>stop. ASSUME NEW k \in 1 .. Len(stops), stops[k].at # "done", NEW c \in StopCall,
                stops' = [stops EXCEPT ![k] = c], c.at \notin {"microphone", "done"},
                c.session = stops[k].session, c.of = stops[k].of,
                UNCHANGED <<state, session, latest, start>>,
                mic' = NoSession
         PROVE  Calm'
  <2>1. /\ state = "Finalizing" /\ latest \in Sessions /\ start[latest] \notin Underway
        /\ session = latest /\ \A j \in DOMAIN stops : j # k => stops[j].at = "done"
        /\ stops[k].session = latest /\ stops[k].of = latest
    BY <1>stop, <1>calm, StoppingIsLatest
  <2>2. DOMAIN stops' = DOMAIN stops /\ stops'[k] = c /\ k \in DOMAIN stops
        /\ \A j \in DOMAIN stops : j # k => stops'[j] = stops[j]
    BY <1>stop, Advancing DEF TypeOK
  <2>3. FinalizingInv'
    BY <1>stop, <2>1, <2>2 DEF FinalizingInv
  <2>4. state' = "Finalizing"
    BY <1>stop, <2>1
  <2>5. QED
    BY <2>3, <2>4 DEF RestInv, ConnectingInv, ListeningInv, AtRest, AcceptsSettingsChanges
<1>off. ASSUME NEW k \in 1 .. Len(stops), stops[k].at \notin {"microphone", "done"}
        PROVE  mic = NoSession
  BY <1>off, <1>calm, StoppingIsLatest
<1> HIDE DEF Calm
<1>1. CASE Start
  <2> DEFINE n == latest + 1
  <2>1. RestInv /\ AtRest
    BY <1>1, <1>calm DEF Calm, Start, MayStart, AtRest, AcceptsSettingsChanges
  <2>2. session = NoSession /\ mic = NoSession /\ NothingToStop
    BY <2>1 DEF RestInv
  <2>3. n \in Sessions
    BY <1>1, Bounds DEF Start, TypeOK
  <2>4. start'[n] = "dialing" /\ state' = "Connecting" /\ latest' = n
        /\ UNCHANGED <<session, mic, stops>>
    BY <1>1, <2>3 DEF Start, TypeOK
  <2> HIDE DEF n
  <2>5. ConnectingInv'
    BY <2>2, <2>3, <2>4 DEF ConnectingInv, NothingToStop, Underway
  <2>6. QED
    BY <2>4, <2>5
       DEF Calm, RestInv, ListeningInv, FinalizingInv, AtRest, AcceptsSettingsChanges
<1>2. CASE Stop
  <2> DEFINE call == [at |-> "microphone", session |-> session, of |-> latest,
                      failed |-> FALSE, clean |-> FALSE]
  <2>1. ListeningInv /\ state = "Listening"
    BY <1>2, <1>calm DEF Calm, Stop, MayStop
  <2>2. /\ latest \in Sessions /\ start[latest] \notin Underway
        /\ session = latest /\ mic = latest /\ NothingToStop
    BY <2>1 DEF ListeningInv
  <2>3. stops' = Append(stops, call) /\ call.session = session /\ call.of = latest
        /\ call.at = "microphone"
    BY <1>2 DEF Stop
  <2>4. UNCHANGED <<session, mic, latest, start>> /\ state' = "Finalizing"
    BY <1>2 DEF Stop
  <2> HIDE DEF call
  <2> DEFINE k == Len(stops) + 1
  <2>5. k \in DOMAIN stops' /\ stops'[k] = call
        /\ \A j \in DOMAIN stops' : j # k => j \in DOMAIN stops /\ stops'[j] = stops[j]
    BY <2>3 DEF TypeOK
  <2> HIDE DEF k
  <2>6. \A j \in DOMAIN stops' : j # k => stops'[j].at = "done"
    BY <2>2, <2>5 DEF NothingToStop
  <2>7. FinalizingInv'
    BY <2>2, <2>3, <2>4, <2>5, <2>6 DEF FinalizingInv
  <2>8. QED
    BY <2>4, <2>7
       DEF Calm, RestInv, ConnectingInv, ListeningInv, AtRest, AcceptsSettingsChanges
<1>3. CASE Quit
  <2>1. aborts'[Quitting].at = "called"
    BY <1>3, Bounds DEF Quit, TypeOK, AbortCall
  <2>2. QED
    BY <1>noabort, <2>1, Bounds
<1>4. ASSUME NEW n \in Sessions, ServerSends(n) PROVE Calm'
  <2>1. Others(n) /\ conn'[n].link = conn[n].link
    BY <1>4, Sending
  <2>2. QED
    BY <1>4, <1>kept, <2>1 DEF ServerSends, Others
<1>5. ASSUME NEW n \in Sessions, ServerCloses(n) PROVE Calm'
  <2>1. Others(n) /\ conn'[n].link = "closed"
    BY <1>5, Linking DEF ServerCloses
  <2>2. QED
    BY <1>5, <1>kept, <2>1 DEF ServerCloses, Others
<1>6. ASSUME NEW n \in Sessions, LinkDrops(n) PROVE Calm'
  <2>1. \A m \in Sessions : Goes(m)
    BY <1>6, Linking DEF LinkDrops, Serving, Goes, Others
  <2>2. QED
    BY <1>6, <2>1, <1>same DEF LinkDrops
<1>7. ASSUME NEW n \in Sessions, NEW fatal \in BOOLEAN, ServerComplains(n, fatal) PROVE Calm'
  <2>1. Others(n) /\ (conn'[n].link = conn[n].link \/ conn'[n].link = "closed")
    BY <1>7, Complaining
  <2>2. QED
    BY <1>7, <1>kept, <2>1 DEF ServerComplains, Others
<1>8. ASSUME NEW n \in Sessions, Dial(n) PROVE Calm'
  <2>1. start[n] \in Underway /\ n = latest /\ state = "Connecting"
    BY <1>8, <1>calm, StartingIsLatest DEF Dial, Underway
  <2>2. session = NoSession /\ mic = NoSession
    BY <1>8, <1>calm, <2>1 DEF Calm, Dial, ConnectingInv
  <2>3. QED
    BY <1>8, <1>start, <2>1, <2>2 DEF Dial, Starts, Underway
<1>9. ASSUME NEW n \in Sessions, NotReady(n) PROVE Calm'
  <2>1. (\A m \in Sessions : Goes(m)) /\ conn'[n].link # "open"
    BY <1>9, Closing DEF NotReady, TypeOK
  <2>2. QED
    BY <1>9, <1>fail, <2>1 DEF NotReady
<1>10. ASSUME NEW n \in Sessions, Ready(n) PROVE Calm'
  <2>1. start[n] \in Underway /\ n = latest /\ state = "Connecting"
    BY <1>10, <1>calm, StartingIsLatest DEF Ready, Underway
  <2>2. /\ session = IF start[n] \in {"microphone", "opened"} THEN n ELSE NoSession
        /\ mic = IF start[n] = "opened" THEN n ELSE NoSession
    BY <1>calm, <2>1 DEF Calm, ConnectingInv
  <2>3. QED
    BY <1>10, <1>start, <2>1, <2>2 DEF Ready, Starts, Underway
<1>11. ASSUME NEW n \in Sessions, OpenMicrophone(n) PROVE Calm'
  <2>1. start[n] \in Underway /\ n = latest /\ state = "Connecting"
    BY <1>11, <1>calm, StartingIsLatest DEF OpenMicrophone, Underway
  <2>2. /\ session = IF start[n] \in {"microphone", "opened"} THEN n ELSE NoSession
        /\ mic = IF start[n] = "opened" THEN n ELSE NoSession
    BY <1>calm, <2>1 DEF Calm, ConnectingInv
  <2>3. QED
    BY <1>11, <1>start, <2>1, <2>2 DEF OpenMicrophone, Starts, Underway
<1>12. ASSUME NEW n \in Sessions, NoMicrophone(n) PROVE Calm'
  <2>1. (\A m \in Sessions : Goes(m)) /\ conn'[n].link # "open"
    BY <1>12, Closing DEF NoMicrophone, TypeOK
  <2>2. QED
    BY <1>12, <1>fail, <2>1 DEF NoMicrophone
<1>13. ASSUME NEW n \in Sessions, Listen(n) PROVE Calm'
  <2>1. start[n] \in Underway /\ n = latest /\ state = "Connecting"
    BY <1>13, <1>calm, StartingIsLatest DEF Listen, Underway
  <2>2. /\ session = IF start[n] \in {"microphone", "opened"} THEN n ELSE NoSession
        /\ mic = IF start[n] = "opened" THEN n ELSE NoSession
    BY <1>calm, <2>1 DEF Calm, ConnectingInv
  <2>3. QED
    BY <1>13, <1>start, <2>1, <2>2 DEF Listen, Starts, Underway
<1>14. ASSUME NEW n \in Sessions, WatchFocus(n) PROVE Calm'
  <2>1. start[n] \notin Underway /\ start'[n] \notin Underway
        /\ \A m \in Sessions : m # n => start'[m] = start[m]
    BY <1>14 DEF WatchFocus, Underway, TypeOK
  <2>2. QED
    BY <1>14, <1>kept, <2>1 DEF WatchFocus
<1>15. ASSUME NEW n \in Sessions, ConsumeTranscript(n) PROVE Calm'
  <2>1. conn'[n].link = conn[n].link /\ Others(n)
    BY <1>15, Reading DEF ConsumeTranscript
  <2>2. QED
    BY <1>15, <1>kept, <2>1 DEF ConsumeTranscript, Others
<1>16. ASSUME NEW n \in Sessions, ConsumeError(n) PROVE Calm'
  <2>1. conn'[n].link = conn[n].link /\ Others(n)
    BY <1>16, Reading DEF ConsumeError
  <2>2. QED
    BY <1>16, <1>kept, <2>1 DEF ConsumeError, Others
<1>17. ASSUME NEW n \in Sessions, ReportError(n) PROVE Calm'
  <2>1. \A m \in Sessions : Goes(m)
    BY <1>17 DEF ReportError, Goes
  <2>2. QED
    BY <1>17, <2>1, <1>same DEF ReportError
<1>18. ASSUME NEW n \in Sessions, ConsumeEnd(n) PROVE Calm'
  <2>1. \A m \in Sessions : Goes(m)
    BY <1>18 DEF ConsumeEnd, Goes
  <2>2. QED
    BY <1>18, <2>1, <1>same DEF ConsumeEnd
<1>19. ASSUME NEW n \in Sessions, PollFocus(n) PROVE Calm'
  <2>1. \A m \in Sessions : Goes(m)
    BY <1>19 DEF PollFocus, Goes
  <2>2. QED
    BY <1>19, <2>1, <1>same DEF PollFocus
<1>20. ASSUME NEW k \in 1 .. Len(stops), StopMicrophone(k) PROVE Calm'
  <2> DEFINE c == [stops[k] EXCEPT !.at = "sending"]
  <2>1. stops[k] \in StopCall
    BY DEF TypeOK
  <2>2. c \in StopCall /\ c.at \notin {"microphone", "done"}
        /\ c.session = stops[k].session /\ c.of = stops[k].of
    BY <2>1 DEF StopCall
  <2>3. stops' = [stops EXCEPT ![k] = c] /\ stops[k].at # "done"
    BY <1>20 DEF StopMicrophone, Advance
  <2> HIDE DEF c
  <2>4. mic' = NoSession
    BY <1>20 DEF StopMicrophone, CloseMicrophone
  <2>5. QED
    BY <1>20, <1>stop, <2>2, <2>3, <2>4 DEF StopMicrophone
<1>21. ASSUME NEW k \in 1 .. Len(stops), SendStop(k) PROVE Calm'
  <2> DEFINE c == [stops[k] EXCEPT !.at = "waiting"]
  <2>1. stops[k] \in StopCall
    BY DEF TypeOK
  <2>2. c \in StopCall /\ c.at \notin {"microphone", "done"}
        /\ c.session = stops[k].session /\ c.of = stops[k].of
    BY <2>1 DEF StopCall
  <2>3. stops' = [stops EXCEPT ![k] = c] /\ stops[k].at # "done"
    BY <1>21 DEF SendStop, Advance
  <2> HIDE DEF c
  <2>4. mic' = NoSession
    BY <1>21, <1>off DEF SendStop
  <2>5. QED
    BY <1>21, <1>stop, <2>2, <2>3, <2>4 DEF SendStop
<1>22. ASSUME NEW k \in 1 .. Len(stops), SendStopFails(k) PROVE Calm'
  <2> DEFINE c == [stops[k] EXCEPT !.at = "draining", !.failed = TRUE]
  <2>1. stops[k] \in StopCall
    BY DEF TypeOK
  <2>2. c \in StopCall /\ c.at \notin {"microphone", "done"}
        /\ c.session = stops[k].session /\ c.of = stops[k].of
    BY <2>1 DEF StopCall
  <2>3. stops' = [stops EXCEPT ![k] = c] /\ stops[k].at # "done"
    BY <1>22 DEF SendStopFails, Advance
  <2> HIDE DEF c
  <2>4. mic' = NoSession
    BY <1>22, <1>off DEF SendStopFails
  <2>5. QED
    BY <1>22, <1>stop, <2>2, <2>3, <2>4 DEF SendStopFails
<1>23. ASSUME NEW k \in 1 .. Len(stops), StopFinished(k) PROVE Calm'
  <2> DEFINE c == [stops[k] EXCEPT !.at = "finishing",
                     !.clean = /\ stops[k].at = "waiting" /\ conn[stops[k].of].link = "closed"
                               /\ conn[stops[k].of].asked]
  <2>1. stops[k] \in StopCall
    BY DEF TypeOK
  <2>2. c \in StopCall /\ c.at \notin {"microphone", "done"}
        /\ c.session = stops[k].session /\ c.of = stops[k].of
    BY <2>1 DEF StopCall
  <2>3. stops' = [stops EXCEPT ![k] = c] /\ stops[k].at # "done"
    BY <1>23 DEF StopFinished, Advance
  <2> HIDE DEF c
  <2>4. mic' = NoSession
    BY <1>23, <1>off DEF StopFinished
  <2>5. QED
    BY <1>23, <1>stop, <2>2, <2>3, <2>4 DEF StopFinished
<1>24. ASSUME NEW k \in 1 .. Len(stops), StopTimesOut(k) PROVE Calm'
  <2> DEFINE c == [stops[k] EXCEPT !.at = "closing"]
  <2>1. stops[k] \in StopCall
    BY DEF TypeOK
  <2>2. c \in StopCall /\ c.at \notin {"microphone", "done"}
        /\ c.session = stops[k].session /\ c.of = stops[k].of
    BY <2>1 DEF StopCall
  <2>3. stops' = [stops EXCEPT ![k] = c] /\ stops[k].at # "done"
    BY <1>24 DEF StopTimesOut, Advance
  <2> HIDE DEF c
  <2>4. mic' = NoSession
    BY <1>24, <1>off DEF StopTimesOut
  <2>5. QED
    BY <1>24, <1>stop, <2>2, <2>3, <2>4 DEF StopTimesOut
<1>25. ASSUME NEW k \in 1 .. Len(stops), StopCancels(k) PROVE Calm'
  <2> DEFINE c == [stops[k] EXCEPT !.at = "finishing"]
  <2>1. stops[k] \in StopCall
    BY DEF TypeOK
  <2>2. c \in StopCall /\ c.at \notin {"microphone", "done"}
        /\ c.session = stops[k].session /\ c.of = stops[k].of
    BY <2>1 DEF StopCall
  <2>3. stops' = [stops EXCEPT ![k] = c] /\ stops[k].at # "done"
    BY <1>25 DEF StopCancels, Advance
  <2> HIDE DEF c
  <2>4. mic' = NoSession
    BY <1>25, <1>off DEF StopCancels
  <2>5. QED
    BY <1>25, <1>stop, <2>2, <2>3, <2>4 DEF StopCancels
<1>26. ASSUME NEW k \in 1 .. Len(stops), FinishStop(k) PROVE Calm'
  <2> DEFINE c == [stops[k] EXCEPT !.at = "done"]
  <2>1. stops[k] \in StopCall /\ stops[k].at # "done"
    BY <1>26 DEF TypeOK, FinishStop
  <2>2. c \in StopCall /\ c.at = "done"
    BY <2>1 DEF StopCall
  <2>3. stops' = [stops EXCEPT ![k] = c]
    BY <1>26 DEF FinishStop, Advance
  <2> HIDE DEF c
  <2>4. /\ start[latest] \notin Underway /\ stops[k].session = latest /\ latest \in Sessions
        /\ \A j \in DOMAIN stops : j # k => stops[j].at = "done"
        /\ mic = NoSession
    BY <1>26, <1>calm, <1>off, <2>1, StoppingIsLatest DEF FinishStop
  <2>5. (\A m \in Sessions : Goes(m)) /\ conn'[latest].link # "open"
    BY <1>26, <2>4, Closing DEF FinishStop, TypeOK
  <2>6. NothingToStop'
    BY <2>2, <2>3, <2>4, Advancing DEF NothingToStop
  <2>7. \A m \in Sessions : start[m] \notin Underway /\ conn'[m].link # "open"
    BY <1>calm, <2>4, <2>5 DEF QuietInv, Goes
  <2>8. state' \in {"Error", "Idle"} /\ session' = NoSession /\ mic' = mic /\ start' = start
    BY <1>26 DEF FinishStop
  <2>9. QED
    BY <2>4, <2>6, <2>7, <2>8 DEF Calm, RestInv, ConnectingInv, ListeningInv, FinalizingInv
<1>27. ASSUME NEW p \in Aborters, Abort(p) PROVE Calm'
  BY <1>27, <1>noabort DEF Abort
<1>28. ASSUME NEW p \in Aborters, AbortTearsDown(p) PROVE Calm'
  BY <1>28, <1>noabort DEF AbortTearsDown
<1>29. ASSUME NEW p \in Aborters, AbortSettles(p) PROVE Calm'
  BY <1>29, <1>noabort DEF AbortSettles
<1>30. CASE UNCHANGED vars
  <2>1. \A m \in Sessions : Goes(m)
    BY <1>30 DEF vars, Goes
  <2>2. QED
    BY <1>30, <2>1, <1>same DEF Calm, vars
<1>stall. ASSUME NEW n \in Sessions, Stalls(n) PROVE Calm'
  BY <1>stall, Stalling, <1>same
<1>31. QED
  BY <1>1, <1>2, <1>3, <1>4, <1>5, <1>6, <1>7, <1>8, <1>9, <1>10, <1>11, <1>12, <1>13,
     <1>14, <1>15, <1>16, <1>17, <1>18, <1>19, <1>20, <1>21, <1>22, <1>23, <1>24, <1>25,
     <1>26, <1>27, <1>28, <1>29, <1>30, <1>stall DEF Stalls, Calm, Next, Moves, Transport, Starting, Consuming,
     Stopping, Aborting

LEMMA QuietStays == ASSUME TypeOK, SessionInv, CalmInv, QuietInv, [Next]_<<world, vars>>
                    PROVE  QuietInv'
<1> USE DEF callVars, textVars
<1> DEFINE One == WatchersAreQuiet => \A n \in Sessions :
                    n # latest => start[n] \notin Underway /\ conn[n].link # "open"
           Unwatched == "focus" \notin world.faults => \A n \in Sessions : aborts[n].at = "none"
           Later == \A n \in Sessions : start[n] # "done" => aborts[n].at = "none"
<1>now. One /\ Unwatched /\ Later /\ world' = world
  BY DEF QuietInv, Next, vars
<1>then. (One /\ Unwatched /\ Later)' => QuietInv'
  BY DEF QuietInv
<1>one. ASSUME latest' = latest,
               \A m \in Sessions :
                 /\ conn'[m].link = "open" => conn[m].link = "open" \/ m = latest
                 /\ start'[m] = start[m] \/ start'[m] \notin Underway \/ m = latest
                    \/ start[m] \in Underway
        PROVE  One'
  BY <1>one, <1>now, Disturbing
\* The watchers are as they were, and a Start that has come to its end stays there.
<1>watch. ASSUME aborts' = aborts, \A m \in Sessions : start[m] = "done" => start'[m] = "done"
          PROVE  Unwatched' /\ Later'
  BY <1>watch, <1>now
<1>same. ASSUME UNCHANGED <<latest, start, aborts>>, \A m \in Sessions : Goes(m) PROVE QuietInv'
  BY <1>same, <1>one, <1>watch, <1>then DEF Goes
\* A Start goes on.
<1>on. ASSUME NEW n \in Sessions, start[n] \in Underway, NEW at, start' = [start EXCEPT ![n] = at],
              UNCHANGED <<latest, aborts>>, \A m \in Sessions : Goes(m)
       PROVE  QuietInv'
  <2>1. start'[n] = at /\ \A m \in Sessions : m # n => start'[m] = start[m]
    BY <1>on DEF TypeOK
  <2>2. start[n] # "done"
    BY <1>on DEF Underway
  <2>3. QED
    BY <1>on, <2>1, <2>2, <1>one, <1>watch, <1>then DEF Goes
\* The Abort p goes on.
<1>abort. ASSUME NEW p \in Aborters, NEW c \in AbortCall, aborts' = [aborts EXCEPT ![p] = c],
                 UNCHANGED <<latest, start>>, \A m \in Sessions : Goes(m),
                 p = Quitting \/ aborts[p].at # "none" \/ c.at = "none"
          PROVE  QuietInv'
  <2>1. aborts'[p] = c /\ \A q \in Aborters : q # p => aborts'[q] = aborts[q]
    BY <1>abort DEF TypeOK
  <2>2. One'
    BY <1>abort, <1>one DEF Goes
  <2>3. Unwatched' /\ Later'
    BY <1>abort, <1>now, <2>1, Bounds
  <2>4. QED
    BY <2>2, <2>3, <1>then
<1>call. ASSUME NEW p \in Aborters, NEW at \in {"none", "polling", "called", "tearing", "settling", "done"}
         PROVE  /\ [aborts[p] EXCEPT !.at = at] \in AbortCall
                /\ [aborts[p] EXCEPT !.at = at].at = at
  <2>1. aborts[p] \in AbortCall
    BY DEF TypeOK
  <2>2. QED
    BY <2>1, AbortFields DEF AbortCall
<1> HIDE DEF One, Unwatched, Later
<1>1. CASE Start
  <2> DEFINE n == latest + 1
  <2>1. n \in Sessions /\ n > latest
    BY <1>1, Bounds DEF Start, TypeOK
  <2>2. start[n] = "none"
    BY <2>1 DEF SessionInv
  <2>3. start'[n] = "dialing" /\ (\A m \in Sessions : m # n => start'[m] = start[m])
        /\ latest' = n /\ UNCHANGED <<conn, aborts>>
    BY <1>1, <2>1 DEF Start, TypeOK
  <2>4. AtRest /\ aborts[Quitting].at = "none"
    BY <1>1 DEF Start, MayStart, AtRest, AcceptsSettingsChanges
  <2> HIDE DEF n
  <2>5. ASSUME WatchersAreQuiet' PROVE \A m \in Sessions :
          m # n => start'[m] \notin Underway /\ conn'[m].link # "open"
    <3>1. WatchersAreQuiet
      BY <2>3, <2>5 DEF WatchersAreQuiet
    <3>2. Undisturbed
      BY <2>4, <3>1 DEF Undisturbed, WatchersAreQuiet, Aborters
    <3>3. \A m \in Sessions : start[m] \notin Underway /\ conn[m].link # "open"
      BY <2>4, <3>2 DEF CalmInv, RestInv
    <3>4. QED
      BY <2>3, <3>3
  <2>6. One'
    BY <2>3, <2>5 DEF One
  <2>7. QED
    BY <1>watch, <1>then, <2>2, <2>3, <2>6
<1>2. CASE Stop
  <2>1. \A m \in Sessions : Goes(m)
    BY <1>2 DEF Stop, Goes
  <2>2. QED
    BY <1>2, <2>1, <1>same DEF Stop
<1>3. CASE Quit
  <2>1. Quitting \in Aborters /\ \A m \in Sessions : Goes(m)
    BY <1>3, Bounds DEF Quit, Goes
  <2>2. QED
    BY <1>3, <1>abort, <1>call, <2>1 DEF Quit
<1>4. ASSUME NEW n \in Sessions, ServerSends(n) PROVE QuietInv'
  <2>1. Others(n) /\ (conn'[n].link = conn[n].link \/ conn'[n].link = "closed")
    BY <1>4, Sending
  <2>2. QED
    BY <1>4, <1>one, <1>watch, <1>then, <2>1 DEF ServerSends, Others
<1>5. ASSUME NEW n \in Sessions, ServerCloses(n) PROVE QuietInv'
  <2>1. Others(n) /\ (conn'[n].link = conn[n].link \/ conn'[n].link = "closed")
    BY <1>5, Linking DEF ServerCloses
  <2>2. QED
    BY <1>5, <1>one, <1>watch, <1>then, <2>1 DEF ServerCloses, Others
<1>6. ASSUME NEW n \in Sessions, LinkDrops(n) PROVE QuietInv'
  <2>1. \A m \in Sessions : Goes(m)
    BY <1>6, Linking DEF LinkDrops, Serving, Goes, Others
  <2>2. QED
    BY <1>6, <2>1, <1>same DEF LinkDrops
<1>7. ASSUME NEW n \in Sessions, NEW fatal \in BOOLEAN, ServerComplains(n, fatal) PROVE QuietInv'
  <2>1. Others(n) /\ (conn'[n].link = conn[n].link \/ conn'[n].link = "closed")
    BY <1>7, Complaining
  <2>2. QED
    BY <1>7, <1>one, <1>watch, <1>then, <2>1 DEF ServerComplains, Others
<1>8. ASSUME NEW n \in Sessions, Dial(n) PROVE QuietInv'
  <2>1. Others(n) /\ start[n] = "dialing" /\ UNCHANGED <<latest, aborts>>
    BY <1>8, Linking DEF Dial
  <2>2. start'[n] = "awaiting" /\ \A m \in Sessions : m # n => start'[m] = start[m]
    BY <1>8 DEF Dial, TypeOK
  <2>3. ASSUME WatchersAreQuiet' PROVE n = latest
    BY <1>now, <2>1, <2>3, Disturbing DEF One, Underway
  <2>4. One'
    BY <1>now, <2>1, <2>2, <2>3, Disturbing DEF One, Others
  <2>5. QED
    BY <1>watch, <1>then, <2>1, <2>2, <2>4
<1>9. ASSUME NEW n \in Sessions, NotReady(n) PROVE QuietInv'
  <2>1. \A m \in Sessions : Goes(m)
    BY <1>9, Closing DEF NotReady, TypeOK
  <2>2. QED
    BY <1>9, <1>on, <2>1 DEF NotReady, Underway, Fail
<1>10. ASSUME NEW n \in Sessions, Ready(n) PROVE QuietInv'
  <2>1. \A m \in Sessions : Goes(m)
    BY <1>10 DEF Ready, Goes
  <2>2. QED
    BY <1>10, <1>on, <2>1 DEF Ready, Underway
<1>11. ASSUME NEW n \in Sessions, OpenMicrophone(n) PROVE QuietInv'
  <2>1. \A m \in Sessions : Goes(m)
    BY <1>11 DEF OpenMicrophone, Goes
  <2>2. QED
    BY <1>11, <1>on, <2>1 DEF OpenMicrophone, Underway
<1>12. ASSUME NEW n \in Sessions, NoMicrophone(n) PROVE QuietInv'
  <2>1. \A m \in Sessions : Goes(m)
    BY <1>12, Closing DEF NoMicrophone, TypeOK
  <2>2. QED
    BY <1>12, <1>on, <2>1 DEF NoMicrophone, Underway, Fail
<1>13. ASSUME NEW n \in Sessions, Listen(n) PROVE QuietInv'
  <2>1. \A m \in Sessions : Goes(m)
    BY <1>13 DEF Listen, Goes
  <2>2. QED
    BY <1>13, <1>on, <2>1 DEF Listen, Underway
<1>14. ASSUME NEW n \in Sessions, WatchFocus(n) PROVE QuietInv'
  <2>1. \A m \in Sessions : Goes(m)
    BY <1>14 DEF WatchFocus, Goes
  <2>2. start'[n] = "done" /\ (\A m \in Sessions : m # n => start'[m] = start[m])
        /\ start[n] = "listening" /\ latest' = latest
    BY <1>14 DEF WatchFocus, TypeOK
  <2>3. One'
    BY <1>one, <2>1, <2>2 DEF Goes, Underway
  <2>4. CASE "focus" \notin world.faults
    BY <1>14, <1>watch, <1>then, <2>2, <2>3, <2>4 DEF WatchFocus
  <2>5. CASE "focus" \in world.faults
    <3>1. n \in Aborters /\ aborts' = [aborts EXCEPT ![n].at = "polling"]
      BY <1>14, <2>5, Bounds DEF WatchFocus
    <3>2. \A m \in Sessions : m # n => aborts'[m] = aborts[m]
      BY <3>1, Bounds DEF TypeOK
    <3>3. Unwatched' /\ Later'
      BY <1>now, <2>2, <2>5, <3>2 DEF Unwatched, Later
    <3>4. QED
      BY <1>then, <2>3, <3>3
  <2>6. QED
    BY <2>4, <2>5
<1>15. ASSUME NEW n \in Sessions, ConsumeTranscript(n) PROVE QuietInv'
  <2>1. conn'[n].link = conn[n].link /\ Others(n)
    BY <1>15, Reading DEF ConsumeTranscript
  <2>2. QED
    BY <1>15, <1>one, <1>watch, <1>then, <2>1 DEF ConsumeTranscript, Others
<1>16. ASSUME NEW n \in Sessions, ConsumeError(n) PROVE QuietInv'
  <2>1. conn'[n].link = conn[n].link /\ Others(n)
    BY <1>16, Reading DEF ConsumeError
  <2>2. QED
    BY <1>16, <1>one, <1>watch, <1>then, <2>1 DEF ConsumeError, Others
<1>17. ASSUME NEW n \in Sessions, ReportError(n) PROVE QuietInv'
  <2>1. \A m \in Sessions : Goes(m)
    BY <1>17 DEF ReportError, Goes
  <2>2. QED
    BY <1>17, <2>1, <1>same DEF ReportError
<1>18. ASSUME NEW n \in Sessions, ConsumeEnd(n) PROVE QuietInv'
  <2>1. \A m \in Sessions : Goes(m)
    BY <1>18 DEF ConsumeEnd, Goes
  <2>2. QED
    BY <1>18, <2>1, <1>same DEF ConsumeEnd
<1>19. ASSUME NEW n \in Sessions, PollFocus(n) PROVE QuietInv'
  <2>1. n \in Aborters /\ \A m \in Sessions : Goes(m)
    BY <1>19, Bounds DEF PollFocus, Goes
  <2>2. aborts[n].at # "none"
    BY <1>19 DEF PollFocus
  <2>3. QED
    BY <1>19, <1>abort, <1>call, <2>1, <2>2 DEF PollFocus
<1>20. ASSUME NEW k \in 1 .. Len(stops), StopMicrophone(k) PROVE QuietInv'
  <2>1. \A m \in Sessions : Goes(m)
    BY <1>20 DEF StopMicrophone, Goes
  <2>2. QED
    BY <1>20, <2>1, <1>same DEF StopMicrophone
<1>21. ASSUME NEW k \in 1 .. Len(stops), SendStop(k) PROVE QuietInv'
  <2>1. stops[k] \in StopCall
    BY DEF TypeOK
  <2>2. stops[k].session \in Sessions
    BY <1>21, <2>1 DEF SendStop, StopCall
  <2>3. \A m \in Sessions : Goes(m)
    BY <1>21, <2>2, Asking DEF SendStop
  <2>4. QED
    BY <1>21, <2>3, <1>same DEF SendStop
<1>22. ASSUME NEW k \in 1 .. Len(stops), SendStopFails(k) PROVE QuietInv'
  <2>1. \A m \in Sessions : Goes(m)
    BY <1>22, Closing DEF SendStopFails, TypeOK
  <2>2. QED
    BY <1>22, <2>1, <1>same DEF SendStopFails
<1>23. ASSUME NEW k \in 1 .. Len(stops), StopFinished(k) PROVE QuietInv'
  <2>1. \A m \in Sessions : Goes(m)
    BY <1>23 DEF StopFinished, Goes
  <2>2. QED
    BY <1>23, <2>1, <1>same DEF StopFinished
<1>24. ASSUME NEW k \in 1 .. Len(stops), StopTimesOut(k) PROVE QuietInv'
  <2>1. \A m \in Sessions : Goes(m)
    BY <1>24, Closing DEF StopTimesOut, TypeOK
  <2>2. QED
    BY <1>24, <2>1, <1>same DEF StopTimesOut
<1>25. ASSUME NEW k \in 1 .. Len(stops), StopCancels(k) PROVE QuietInv'
  <2>1. \A m \in Sessions : Goes(m)
    BY <1>25 DEF StopCancels, Goes
  <2>2. QED
    BY <1>25, <2>1, <1>same DEF StopCancels
<1>26. ASSUME NEW k \in 1 .. Len(stops), FinishStop(k) PROVE QuietInv'
  <2>1. \A m \in Sessions : Goes(m)
    BY <1>26, Closing DEF FinishStop, TypeOK
  <2>2. QED
    BY <1>26, <2>1, <1>same DEF FinishStop
<1>27. ASSUME NEW p \in Aborters, Abort(p) PROVE QuietInv'
  <2>1. [at |-> "tearing", session |-> session, of |-> latest] \in AbortCall
    BY Bounds DEF AbortCall, TypeOK
  <2>2. \A m \in Sessions : Goes(m)
    BY <1>27 DEF Abort, Goes
  <2>3. QED
    BY <1>27, <1>abort, <1>call, <2>1, <2>2 DEF Abort
<1>28. ASSUME NEW p \in Aborters, AbortTearsDown(p) PROVE QuietInv'
  <2>1. \A m \in Sessions : Goes(m)
    BY <1>28, Closing DEF AbortTearsDown, TypeOK
  <2>2. QED
    BY <1>28, <1>abort, <1>call, <2>1 DEF AbortTearsDown
<1>29. ASSUME NEW p \in Aborters, AbortSettles(p) PROVE QuietInv'
  <2>1. \A m \in Sessions : Goes(m)
    BY <1>29 DEF AbortSettles, Goes
  <2>2. QED
    BY <1>29, <1>abort, <1>call, <2>1 DEF AbortSettles
<1>30. CASE UNCHANGED vars
  <2>1. \A m \in Sessions : Goes(m)
    BY <1>30 DEF vars, Goes
  <2>2. QED
    BY <1>30, <2>1, <1>same DEF vars
<1>stall. ASSUME NEW n \in Sessions, Stalls(n) PROVE QuietInv'
  BY <1>stall, Stalling, <1>same
<1>31. QED
  BY <1>1, <1>2, <1>3, <1>4, <1>5, <1>6, <1>7, <1>8, <1>9, <1>10, <1>11, <1>12, <1>13,
     <1>14, <1>15, <1>16, <1>17, <1>18, <1>19, <1>20, <1>21, <1>22, <1>23, <1>24, <1>25,
     <1>26, <1>27, <1>28, <1>29, <1>30, <1>stall DEF Stalls, Next, Moves, Transport, Starting, Consuming,
     Stopping, Aborting

LEMMA LingerStays == ASSUME TypeOK, SessionInv, ConnInv, StopInv, CalmInv, QuietInv, LingerInv,
                            [Next]_<<world, vars>>
                     PROVE  LingerInv'
<1> USE DEF callVars, textVars
<1> DEFINE AtOnce == Undisturbed /\ "timeout" \notin world.faults => \A n \in Sessions :
                       n # latest \/ AtRest => ~Lingering(n)
           Before == NobodyLingers => \A n \in Sessions : n < latest => ~Lingering(n)
<1>now. AtOnce /\ Before /\ world' = world /\ (NobodyLingers' <=> NobodyLingers)
        /\ (Undisturbed' => Undisturbed)
  BY Disturbing DEF LingerInv, Next, vars, NobodyLingers
<1>then. AtOnce' /\ Before' => LingerInv'
  BY DEF LingerInv
<1>before. ASSUME latest' = latest, \A m \in Sessions : Lingering(m)' => Lingering(m)
           PROVE  Before'
  BY <1>before, <1>now
<1>kept. ASSUME latest' = latest, AtRest' => AtRest,
                \A m \in Sessions : Lingering(m)' => Lingering(m)
         PROVE  LingerInv'
  <2>1. AtOnce'
    BY <1>kept, <1>now
  <2>2. QED
    BY <1>kept, <1>before, <1>then, <2>1
<1>same. ASSUME UNCHANGED <<latest, consumer, start>>, AtRest' => AtRest PROVE LingerInv'
  BY <1>same, <1>kept DEF Lingering
\* Of the sessions that may be under way, only the last is started.
<1>latest. ASSUME NEW n \in Sessions, start[n] \in Underway, NobodyLingers PROVE ~(n < latest)
  <2>1. CASE world.sessions <= 1
    BY <2>1, Bounds DEF TypeOK
  <2>2. CASE "focus" \notin world.faults
    BY <1>latest, <2>2, Bounds DEF QuietInv, WatchersAreQuiet
  <2>3. QED
    BY <1>latest, <2>1, <2>2 DEF NobodyLingers
\* A Start fails.
<1>fail. ASSUME NEW n \in Sessions, Fail(n), start[n] \in Underway, UNCHANGED <<latest, consumer>>
         PROVE  LingerInv'
  <2>1. start'[n] = "failed" /\ \A m \in Sessions : m # n => start'[m] = start[m]
    BY <1>fail DEF Fail, TypeOK
  <2>2. \A m \in Sessions : Lingering(m)' => Lingering(m) /\ m # n
    BY <1>fail, <2>1 DEF Lingering
  <2>3. Before'
    BY <1>fail, <1>before, <2>2
  <2>4. Undisturbed => n = latest
    BY <1>fail, StartingIsLatest
  <2>5. AtOnce'
    BY <1>fail, <1>now, <2>2, <2>4
  <2>6. QED
    BY <1>then, <2>3, <2>5
<1> HIDE DEF AtOnce, Before
<1>1. CASE Start
  <2> DEFINE n == latest + 1
  <2>1. n \in Sessions /\ latest \in Nat /\ n <= world.sessions /\ world.sessions \in Nat
    BY <1>1, Bounds DEF Start, TypeOK
  <2>2. start[n] = "none" /\ consumer[n].at = "none"
    BY <2>1 DEF SessionInv
  <2>3. start'[n] = "dialing" /\ (\A m \in Sessions : m # n => start'[m] = start[m])
        /\ latest' = n /\ UNCHANGED <<consumer, aborts>> /\ state' = "Connecting"
    BY <1>1, <2>1 DEF Start, TypeOK
  <2>4. \A m \in Sessions : Lingering(m)' => Lingering(m) /\ m # n
    BY <2>2, <2>3 DEF Lingering
  <2>5. AtRest /\ aborts[Quitting].at = "none" /\ ~AtRest'
    BY <1>1, <2>3 DEF Start, MayStart, AtRest, AcceptsSettingsChanges
  <2>6. AtOnce'
    BY <1>now, <2>3, <2>4, <2>5 DEF AtOnce
  <2>7. ASSUME NobodyLingers, NEW m \in Sessions, m < n PROVE ~Lingering(m)
    <3>1. CASE world.sessions <= 1
      BY <2>1, <2>7, <3>1, Bounds
    <3>2. CASE {"timeout", "focus"} \cap world.faults = {}
      <4>1. \A p \in Sessions : aborts[p].at = "none"
        BY <3>2 DEF QuietInv
      <4>2. Undisturbed
        BY <2>5, <4>1 DEF Undisturbed, Aborters
      <4>3. QED
        BY <1>now, <2>5, <3>2, <4>2 DEF AtOnce
    <3>3. QED
      BY <2>7, <3>1, <3>2 DEF NobodyLingers
  <2>8. Before'
    BY <1>now, <2>3, <2>4, <2>7 DEF Before
  <2>9. QED
    BY <1>then, <2>6, <2>8
<1>2. CASE Stop
  BY <1>2, <1>same DEF Stop, AtRest, AcceptsSettingsChanges
<1>3. CASE Quit
  BY <1>3, <1>same DEF Quit, AtRest
<1>4. ASSUME NEW n \in Sessions, ServerSends(n) PROVE LingerInv'
  BY <1>4, <1>same DEF ServerSends, AtRest
<1>5. ASSUME NEW n \in Sessions, ServerCloses(n) PROVE LingerInv'
  BY <1>5, <1>same DEF ServerCloses, AtRest
<1>6. ASSUME NEW n \in Sessions, LinkDrops(n) PROVE LingerInv'
  BY <1>6, <1>same DEF LinkDrops, AtRest
<1>7. ASSUME NEW n \in Sessions, NEW fatal \in BOOLEAN, ServerComplains(n, fatal) PROVE LingerInv'
  BY <1>7, <1>same DEF ServerComplains, AtRest
<1>8. ASSUME NEW n \in Sessions, Dial(n) PROVE LingerInv'
  <2>1. \A m \in Sessions : start'[m] # start[m] => start[m] # "failed"
    BY <1>8 DEF Dial, TypeOK
  <2>2. \A m \in Sessions : Lingering(m)' => Lingering(m)
    BY <1>8, <2>1 DEF Dial, Lingering
  <2>3. AtRest' => AtRest
    BY <1>8 DEF Dial, AtRest, AcceptsSettingsChanges
  <2>4. QED
    BY <1>8, <1>kept, <2>2, <2>3 DEF Dial
<1>9. ASSUME NEW n \in Sessions, NotReady(n) PROVE LingerInv'
  BY <1>9, <1>fail DEF NotReady, Underway
<1>10. ASSUME NEW n \in Sessions, Ready(n) PROVE LingerInv'
  <2>1. start'[n] = "microphone" /\ (\A m \in Sessions : m # n => start'[m] = start[m])
        /\ (\A m \in Sessions : m # n => consumer'[m] = consumer[m])
        /\ latest' = latest /\ state' = state /\ start[n] \in Underway
    BY <1>10 DEF Ready, Underway, TypeOK
  <2>2. \A m \in Sessions : m # n => (Lingering(m)' => Lingering(m))
    BY <2>1 DEF Lingering
  <2>3. Before'
    BY <1>now, <1>latest, <2>1, <2>2 DEF Before
  <2>4. Undisturbed => n = latest /\ ~AtRest'
    BY <2>1, StartingIsLatest DEF AtRest, AcceptsSettingsChanges
  <2>5. AtOnce'
    BY <1>now, <2>1, <2>2, <2>4 DEF AtOnce
  <2>6. QED
    BY <1>then, <2>3, <2>5
<1>11. ASSUME NEW n \in Sessions, OpenMicrophone(n) PROVE LingerInv'
  <2>1. \A m \in Sessions : start'[m] # start[m] => start[m] # "failed"
    BY <1>11 DEF OpenMicrophone, TypeOK
  <2>2. \A m \in Sessions : Lingering(m)' => Lingering(m)
    BY <1>11, <2>1 DEF OpenMicrophone, Lingering
  <2>3. AtRest' => AtRest
    BY <1>11 DEF OpenMicrophone, AtRest, AcceptsSettingsChanges
  <2>4. QED
    BY <1>11, <1>kept, <2>2, <2>3 DEF OpenMicrophone
<1>12. ASSUME NEW n \in Sessions, NoMicrophone(n) PROVE LingerInv'
  BY <1>12, <1>fail DEF NoMicrophone, Underway
<1>13. ASSUME NEW n \in Sessions, Listen(n) PROVE LingerInv'
  <2>1. \A m \in Sessions : start'[m] # start[m] => start[m] # "failed"
    BY <1>13 DEF Listen, TypeOK
  <2>2. \A m \in Sessions : Lingering(m)' => Lingering(m)
    BY <1>13, <2>1 DEF Listen, Lingering
  <2>3. AtRest' => AtRest
    BY <1>13 DEF Listen, AtRest, AcceptsSettingsChanges
  <2>4. QED
    BY <1>13, <1>kept, <2>2, <2>3 DEF Listen
<1>14. ASSUME NEW n \in Sessions, WatchFocus(n) PROVE LingerInv'
  <2>1. \A m \in Sessions : start'[m] # start[m] => start[m] # "failed"
    BY <1>14 DEF WatchFocus, TypeOK
  <2>2. \A m \in Sessions : Lingering(m)' => Lingering(m)
    BY <1>14, <2>1 DEF WatchFocus, Lingering
  <2>3. AtRest' => AtRest
    BY <1>14 DEF WatchFocus, AtRest, AcceptsSettingsChanges
  <2>4. QED
    BY <1>14, <1>kept, <2>2, <2>3 DEF WatchFocus
<1>15. ASSUME NEW n \in Sessions, ConsumeTranscript(n) PROVE LingerInv'
  BY <1>15, <1>same DEF ConsumeTranscript, AtRest
<1>16. ASSUME NEW n \in Sessions, ConsumeError(n) PROVE LingerInv'
  <2>1. consumer[n].at \in {"running", "reporting"}
        /\ \A m \in Sessions : m # n => consumer'[m] = consumer[m]
    BY <1>16 DEF ConsumeError, TypeOK
  <2>2. \A m \in Sessions : Lingering(m)' => Lingering(m)
    BY <1>16, <2>1 DEF ConsumeError, Lingering
  <2>3. QED
    BY <1>16, <1>kept, <2>2 DEF ConsumeError, AtRest
<1>17. ASSUME NEW n \in Sessions, ReportError(n) PROVE LingerInv'
  <2>1. consumer[n].at \in {"running", "reporting"}
        /\ \A m \in Sessions : m # n => consumer'[m] = consumer[m]
    BY <1>17 DEF ReportError, TypeOK
  <2>2. \A m \in Sessions : Lingering(m)' => Lingering(m)
    BY <1>17, <2>1 DEF ReportError, Lingering
  <2>3. QED
    BY <1>17, <1>kept, <2>2 DEF ReportError, AtRest
<1>18. ASSUME NEW n \in Sessions, ConsumeEnd(n) PROVE LingerInv'
  <2>1. consumer[n].at \in {"running", "reporting"}
        /\ \A m \in Sessions : m # n => consumer'[m] = consumer[m]
    BY <1>18 DEF ConsumeEnd, TypeOK
  <2>2. \A m \in Sessions : Lingering(m)' => Lingering(m)
    BY <1>18, <2>1 DEF ConsumeEnd, Lingering
  <2>3. QED
    BY <1>18, <1>kept, <2>2 DEF ConsumeEnd, AtRest
<1>19. ASSUME NEW n \in Sessions, PollFocus(n) PROVE LingerInv'
  BY <1>19, <1>same DEF PollFocus, AtRest
<1>20. ASSUME NEW k \in 1 .. Len(stops), StopMicrophone(k) PROVE LingerInv'
  BY <1>20, <1>same DEF StopMicrophone, AtRest
<1>21. ASSUME NEW k \in 1 .. Len(stops), SendStop(k) PROVE LingerInv'
  BY <1>21, <1>same DEF SendStop, AtRest
<1>22. ASSUME NEW k \in 1 .. Len(stops), SendStopFails(k) PROVE LingerInv'
  BY <1>22, <1>same DEF SendStopFails, AtRest
<1>23. ASSUME NEW k \in 1 .. Len(stops), StopFinished(k) PROVE LingerInv'
  BY <1>23, <1>same DEF StopFinished, AtRest
<1>24. ASSUME NEW k \in 1 .. Len(stops), StopTimesOut(k) PROVE LingerInv'
  BY <1>24, <1>same DEF StopTimesOut, AtRest, AcceptsSettingsChanges
<1>25. ASSUME NEW k \in 1 .. Len(stops), StopCancels(k) PROVE LingerInv'
  BY <1>25, <1>same DEF StopCancels, AtRest
<1>26. ASSUME NEW k \in 1 .. Len(stops), FinishStop(k) PROVE LingerInv'
  <2>1. UNCHANGED <<latest, consumer, start>> /\ stops[k].at = "finishing"
    BY <1>26 DEF FinishStop
  <2>2. \A m \in Sessions : Lingering(m)' => Lingering(m)
    BY <2>1 DEF Lingering
  <2>3. Before'
    BY <1>before, <2>1, <2>2
  <2>4. ASSUME Undisturbed, "timeout" \notin world.faults PROVE ~Lingering(latest)
    <3>1. latest \in Sessions /\ stops[k].of = latest /\ k \in DOMAIN stops
      BY <2>1, <2>4, StoppingIsLatest DEF TypeOK
    <3>2. finished[latest]
      BY <2>1, <2>4, <3>1 DEF StopInv
    <3>3. QED
      BY <3>1, <3>2 DEF ConnInv, Lingering
  <2>5. AtOnce'
    BY <1>now, <2>1, <2>2, <2>4 DEF AtOnce
  <2>6. QED
    BY <1>then, <2>3, <2>5
<1>27. ASSUME NEW p \in Aborters, Abort(p) PROVE LingerInv'
  BY <1>27, <1>same DEF Abort, AtRest
<1>28. ASSUME NEW p \in Aborters, AbortTearsDown(p) PROVE LingerInv'
  BY <1>28, <1>same DEF AbortTearsDown, AtRest
<1>29. ASSUME NEW p \in Aborters, AbortSettles(p) PROVE LingerInv'
  <2>1. ~Undisturbed
    BY <1>29 DEF AbortSettles, Undisturbed
  <2>2. UNCHANGED <<latest, consumer, start>>
    BY <1>29 DEF AbortSettles
  <2>3. \A m \in Sessions : Lingering(m)' => Lingering(m)
    BY <2>2 DEF Lingering
  <2>4. Before'
    BY <1>before, <2>2, <2>3
  <2>5. AtOnce'
    BY <1>now, <2>1 DEF AtOnce
  <2>6. QED
    BY <1>then, <2>4, <2>5
<1>30. CASE UNCHANGED vars
  BY <1>30, <1>same DEF vars, AtRest
<1>stall. ASSUME NEW n \in Sessions, Stalls(n) PROVE LingerInv'
  BY <1>stall, Stalling, <1>same DEF AtRest
<1>31. QED
  BY <1>1, <1>2, <1>3, <1>4, <1>5, <1>6, <1>7, <1>8, <1>9, <1>10, <1>11, <1>12, <1>13,
     <1>14, <1>15, <1>16, <1>17, <1>18, <1>19, <1>20, <1>21, <1>22, <1>23, <1>24, <1>25,
     <1>26, <1>27, <1>28, <1>29, <1>30, <1>stall DEF Stalls, Next, Moves, Transport, Starting, Consuming,
     Stopping, Aborting

LEMMA TextStays == ASSUME TypeOK, SessionInv, ConnInv, LingerInv, TextInv, [Next]_<<world, vars>>
                   PROVE  TextInv'
<1> USE DEF callVars, textVars
<1> DEFINE Text(m) == ~conn[m].complained =>
             /\ applied[m] + Len(conn[m].inbox) = conn[m].sent
             /\ \A i \in DOMAIN conn[m].inbox : conn[m].inbox[i] = Fresh(applied[m] + i)
           Counter(m) == m = latest /\ ~conn[m].complained => last = applied[m]
<1>world. NobodyLingers' <=> NobodyLingers
  BY DEF Next, vars, NobodyLingers
<1> SUFFICES ASSUME NobodyLingers PROVE \A m \in Sessions : (Text(m) /\ Counter(m))'
  BY <1>world DEF TextInv
<1>now. \A m \in Sessions : Text(m) /\ Counter(m)
  BY DEF TextInv
<1>types. ASSUME NEW m \in Sessions
          PROVE  conn[m] \in Conn /\ applied[m] \in Nat /\ m \in Nat /\ m >= 1
  BY Bounds DEF TypeOK
<1> DEFINE All == \A m \in Sessions : Text(m) /\ Counter(m)
<1>same. ASSUME NEW m \in Sessions, conn'[m].inbox = conn[m].inbox,
                conn'[m].sent = conn[m].sent, conn'[m].complained = conn[m].complained,
                UNCHANGED <<applied, last, latest>>
         PROVE  (Text(m) /\ Counter(m))'
  BY <1>same, <1>now
<1>goes. ASSUME UNCHANGED <<applied, last, latest>>, \A m \in Sessions : Goes(m) PROVE All'
  BY <1>goes, <1>same DEF Goes
\* Only the connection of n changes.
<1>one. ASSUME NEW n \in Sessions, Others(n), UNCHANGED <<applied, last, latest>>,
               (Text(n) /\ Counter(n))'
        PROVE  All'
  BY <1>one, <1>same DEF Others
<1> HIDE DEF Text, Counter
<1>1. CASE Start
  <2> DEFINE n == latest + 1
  <2>1. n \in Sessions
    BY <1>1, Bounds DEF Start, TypeOK
  <2>2. start[n] = "none"
    BY <2>1, Bounds DEF SessionInv, TypeOK
  <2>3. applied[n] = 0
    BY <2>1, <2>2 DEF SessionInv
  <2>4. latest' = n /\ last' = 0 /\ conn' = conn /\ applied' = applied
    BY <1>1 DEF Start, ResetComposer
  <2> HIDE DEF n
  <2>5. \A m \in Sessions : Text(m)'
    BY <1>now, <2>4 DEF Text
  <2>6. \A m \in Sessions : Counter(m)'
    BY <2>1, <2>3, <2>4 DEF Counter
  <2>7. QED
    BY <2>5, <2>6
<1>2. CASE Stop
  <2>1. \A m \in Sessions : Goes(m)
    BY <1>2 DEF Stop, Goes
  <2>2. QED
    BY <1>2, <2>1, <1>goes DEF Stop
<1>3. CASE Quit
  <2>1. \A m \in Sessions : Goes(m)
    BY <1>3 DEF Quit, Goes
  <2>2. QED
    BY <1>3, <2>1, <1>goes DEF Quit
<1>4. ASSUME NEW n \in Sessions, ServerSends(n) PROVE All'
  <2> DEFINE event == Fresh(conn[n].sent + 1)
  <2>1. /\ Others(n) /\ conn'[n].inbox = Append(conn[n].inbox, event)
        /\ conn'[n].sent = conn[n].sent + 1
        /\ conn'[n].complained = conn[n].complained
    BY <1>4, Sending
  <2>2. UNCHANGED <<applied, last, latest>>
    BY <1>4 DEF ServerSends
  <2>3. conn[n].inbox \in Seq(Event) /\ conn[n].sent \in Nat /\ applied[n] \in Nat
    BY <1>types, ConnTypes
  <2>4. Counter(n)'
    BY <1>now, <2>1, <2>2 DEF Counter
  <2>5. ASSUME ~conn[n].complained
        PROVE  /\ applied[n] + Len(conn'[n].inbox) = conn'[n].sent
               /\ \A i \in DOMAIN conn'[n].inbox : conn'[n].inbox[i] = Fresh(applied[n] + i)
    <3> DEFINE q == conn[n].inbox
    <3>1. applied[n] + Len(q) = conn[n].sent
          /\ \A i \in DOMAIN q : q[i] = Fresh(applied[n] + i)
      BY <1>now, <2>5 DEF Text
    <3>2. Len(q) \in Nat /\ applied[n] + (Len(q) + 1) = conn[n].sent + 1
      BY <2>3, <3>1
    <3>3. event = Fresh(applied[n] + (Len(q) + 1))
      BY <3>2
    <3>4. conn'[n].inbox = Append(q, event) /\ q \in Seq(Event)
      BY <2>1, <2>3
    <3> HIDE DEF q, event
    <3>5. Len(conn'[n].inbox) = Len(q) + 1 /\ DOMAIN conn'[n].inbox = 1 .. Len(q) + 1
          /\ conn'[n].inbox[Len(q) + 1] = event
          /\ \A i \in 1 .. Len(q) : conn'[n].inbox[i] = q[i] /\ i \in DOMAIN q
      BY <3>4
    <3>6. QED
      BY <2>1, <3>1, <3>2, <3>3, <3>5
  <2>6. Text(n)'
    BY <2>1, <2>2, <2>5 DEF Text
  <2>7. QED
    BY <1>one, <2>1, <2>2, <2>4, <2>6
<1>5. ASSUME NEW n \in Sessions, ServerCloses(n) PROVE All'
  <2>1. /\ Others(n) /\ conn'[n].inbox = conn[n].inbox /\ conn'[n].sent = conn[n].sent
        /\ conn'[n].complained = conn[n].complained
    BY <1>5, Linking DEF ServerCloses
  <2>2. QED
    BY <1>5, <1>one, <1>same, <2>1 DEF ServerCloses
<1>6. ASSUME NEW n \in Sessions, LinkDrops(n) PROVE All'
  <2>1. \A m \in Sessions : Goes(m)
    BY <1>6, Linking DEF LinkDrops, Serving, Goes, Others
  <2>2. QED
    BY <1>6, <2>1, <1>goes DEF LinkDrops
<1>7. ASSUME NEW n \in Sessions, NEW fatal \in BOOLEAN, ServerComplains(n, fatal) PROVE All'
  <2>1. Others(n) /\ conn'[n].complained
    BY <1>7, Complaining
  <2>2. (Text(n) /\ Counter(n))' /\ UNCHANGED <<applied, last, latest>>
    BY <1>7, <2>1 DEF ServerComplains, Text, Counter
  <2>3. QED
    BY <1>one, <2>1, <2>2
<1>8. ASSUME NEW n \in Sessions, Dial(n) PROVE All'
  <2>1. /\ Others(n) /\ conn'[n].inbox = conn[n].inbox /\ conn'[n].sent = conn[n].sent
        /\ conn'[n].complained = conn[n].complained
    BY <1>8, Linking DEF Dial
  <2>2. QED
    BY <1>8, <1>one, <1>same, <2>1 DEF Dial
<1>9. ASSUME NEW n \in Sessions, NotReady(n) PROVE All'
  <2>1. \A m \in Sessions : Goes(m)
    BY <1>9, Closing DEF NotReady, TypeOK
  <2>2. QED
    BY <1>9, <2>1, <1>goes DEF NotReady
<1>10. ASSUME NEW n \in Sessions, Ready(n) PROVE All'
  <2>1. \A m \in Sessions : Goes(m)
    BY <1>10 DEF Ready, Goes
  <2>2. QED
    BY <1>10, <2>1, <1>goes DEF Ready
<1>11. ASSUME NEW n \in Sessions, OpenMicrophone(n) PROVE All'
  <2>1. \A m \in Sessions : Goes(m)
    BY <1>11 DEF OpenMicrophone, Goes
  <2>2. QED
    BY <1>11, <2>1, <1>goes DEF OpenMicrophone
<1>12. ASSUME NEW n \in Sessions, NoMicrophone(n) PROVE All'
  <2>1. \A m \in Sessions : Goes(m)
    BY <1>12, Closing DEF NoMicrophone, TypeOK
  <2>2. QED
    BY <1>12, <2>1, <1>goes DEF NoMicrophone
<1>13. ASSUME NEW n \in Sessions, Listen(n) PROVE All'
  <2>1. \A m \in Sessions : Goes(m)
    BY <1>13 DEF Listen, Goes
  <2>2. QED
    BY <1>13, <2>1, <1>goes DEF Listen
<1>14. ASSUME NEW n \in Sessions, WatchFocus(n) PROVE All'
  <2>1. \A m \in Sessions : Goes(m)
    BY <1>14 DEF WatchFocus, Goes
  <2>2. QED
    BY <1>14, <2>1, <1>goes DEF WatchFocus
<1>15. ASSUME NEW n \in Sessions, ConsumeTranscript(n) PROVE All'
  <2>1. /\ Others(n) /\ conn'[n].sent = conn[n].sent
        /\ conn'[n].complained = conn[n].complained
        /\ Head(conn[n].inbox) = conn[n].inbox[1] /\ 1 \in DOMAIN conn[n].inbox
        /\ Len(conn'[n].inbox) = Len(conn[n].inbox) - 1
        /\ \A i \in DOMAIN conn'[n].inbox :
             i + 1 \in DOMAIN conn[n].inbox /\ conn'[n].inbox[i] = conn[n].inbox[i + 1]
    BY <1>15, Reading DEF ConsumeTranscript
  <2>2. /\ conn[n].inbox[1].kind = "transcript" /\ consumer[n].at = "running" /\ latest' = latest
        /\ \A m \in Sessions : m # n => applied'[m] = applied[m]
    BY <1>15, <2>1 DEF ConsumeTranscript, TypeOK
  <2>3. n = latest
    <3>1. start[n] \in {"opened", "listening", "done"}
      BY <2>1, <2>2 DEF ConnInv
    <3>2. n <= latest
      BY <1>types, <3>1, Bounds DEF SessionInv
    <3>3. ~(n < latest)
      BY <2>2, <3>1 DEF LingerInv, Lingering
    <3>4. QED
      BY <1>types, <3>2, <3>3, Bounds
  <2>4. \A m \in Sessions : m # n => (Text(m) /\ Counter(m))'
    BY <1>now, <2>1, <2>2, <2>3 DEF Text, Counter, Others
  <2>5. CASE conn[n].complained
    BY <2>1, <2>4, <2>5 DEF Text, Counter
  <2>6. CASE ~conn[n].complained
    <3>1. applied[n] + Len(conn[n].inbox) = conn[n].sent
          /\ (\A i \in DOMAIN conn[n].inbox : conn[n].inbox[i] = Fresh(applied[n] + i))
          /\ last = applied[n]
      BY <1>now, <2>3, <2>6 DEF Text, Counter
    <3>2. Head(conn[n].inbox).revision = applied[n] + 1
      <4>1. Head(conn[n].inbox) = Fresh(applied[n] + 1)
        BY <2>1, <3>1
      <4>2. QED
        BY <4>1 DEF Fresh
    <3>3. last' = applied[n] + 1 /\ applied'[n] = applied[n] + 1
      BY <1>15, <1>types, <3>1, <3>2 DEF ConsumeTranscript, TypeOK
    <3>4. conn[n].inbox \in Seq(Event) /\ conn'[n].inbox \in Seq(Event) /\ applied[n] \in Nat
          /\ conn[n].sent \in Nat
      <4>1. conn'[n] \in Conn
        BY <1>15, Reading DEF ConsumeTranscript
      <4>2. QED
        BY <1>types, <4>1, ConnTypes
    <3>5. (applied[n] + 1) + Len(conn'[n].inbox) = conn'[n].sent
      BY <2>1, <3>1, <3>4
    <3>6. ASSUME NEW i \in DOMAIN conn'[n].inbox
          PROVE  conn'[n].inbox[i] = Fresh((applied[n] + 1) + i)
      <4>1. i \in Int
        <5>1. DOMAIN conn'[n].inbox = 1 .. Len(conn'[n].inbox)
          BY <3>4
        <5>2. QED
          BY <5>1
      <4>same. \A a \in Nat, b \in Int : a + (b + 1) = (a + 1) + b
        OBVIOUS
      <4>2. conn'[n].inbox[i] = Fresh(applied[n] + (i + 1))
        BY <2>1, <3>1
      <4>3. QED
        BY <3>4, <4>1, <4>same, <4>2
    <3>7. (Text(n) /\ Counter(n))'
      BY <2>1, <2>3, <3>3, <3>5, <3>6 DEF Text, Counter
    <3>8. QED
      BY <2>4, <3>7
  <2>7. QED
    BY <2>5, <2>6
<1>16. ASSUME NEW n \in Sessions, ConsumeError(n) PROVE All'
  <2>1. /\ Others(n) /\ conn'[n].sent = conn[n].sent
        /\ conn'[n].complained = conn[n].complained
        /\ Head(conn[n].inbox) = conn[n].inbox[1] /\ 1 \in DOMAIN conn[n].inbox
        /\ Len(conn'[n].inbox) = Len(conn[n].inbox) - 1
        /\ \A i \in DOMAIN conn'[n].inbox :
             i + 1 \in DOMAIN conn[n].inbox /\ conn'[n].inbox[i] = conn[n].inbox[i + 1]
    BY <1>16, Reading DEF ConsumeError
  <2>2. conn[n].inbox[1].kind = "error" /\ UNCHANGED <<applied, last, latest>>
    BY <1>16, <2>1 DEF ConsumeError
  <2>3. conn[n].complained
    BY <2>1, <2>2 DEF ConnInv
  <2>4. (Text(n) /\ Counter(n))'
    BY <2>1, <2>3 DEF Text, Counter
  <2>5. QED
    BY <1>one, <2>1, <2>2, <2>4
<1>17. ASSUME NEW n \in Sessions, ReportError(n) PROVE All'
  <2>1. \A m \in Sessions : Goes(m)
    BY <1>17 DEF ReportError, Goes
  <2>2. QED
    BY <1>17, <2>1, <1>goes DEF ReportError
<1>18. ASSUME NEW n \in Sessions, ConsumeEnd(n) PROVE All'
  <2>1. \A m \in Sessions : Goes(m)
    BY <1>18 DEF ConsumeEnd, Goes
  <2>2. QED
    BY <1>18, <2>1, <1>goes DEF ConsumeEnd
<1>19. ASSUME NEW n \in Sessions, PollFocus(n) PROVE All'
  <2>1. \A m \in Sessions : Goes(m)
    BY <1>19 DEF PollFocus, Goes
  <2>2. QED
    BY <1>19, <2>1, <1>goes DEF PollFocus
<1>20. ASSUME NEW k \in 1 .. Len(stops), StopMicrophone(k) PROVE All'
  <2>1. \A m \in Sessions : Goes(m)
    BY <1>20 DEF StopMicrophone, Goes
  <2>2. QED
    BY <1>20, <2>1, <1>goes DEF StopMicrophone
<1>21. ASSUME NEW k \in 1 .. Len(stops), SendStop(k) PROVE All'
  <2>1. stops[k] \in StopCall
    BY DEF TypeOK
  <2>2. stops[k].session \in Sessions
    BY <1>21, <2>1 DEF SendStop, StopCall
  <2>3. \A m \in Sessions : Goes(m)
    BY <1>21, <2>2, Asking DEF SendStop
  <2>4. QED
    BY <1>21, <2>3, <1>goes DEF SendStop
<1>22. ASSUME NEW k \in 1 .. Len(stops), SendStopFails(k) PROVE All'
  <2>1. \A m \in Sessions : Goes(m)
    BY <1>22, Closing DEF SendStopFails, TypeOK
  <2>2. QED
    BY <1>22, <2>1, <1>goes DEF SendStopFails
<1>23. ASSUME NEW k \in 1 .. Len(stops), StopFinished(k) PROVE All'
  <2>1. \A m \in Sessions : Goes(m)
    BY <1>23 DEF StopFinished, Goes
  <2>2. QED
    BY <1>23, <2>1, <1>goes DEF StopFinished
<1>24. ASSUME NEW k \in 1 .. Len(stops), StopTimesOut(k) PROVE All'
  <2>1. \A m \in Sessions : Goes(m)
    BY <1>24, Closing DEF StopTimesOut, TypeOK
  <2>2. QED
    BY <1>24, <2>1, <1>goes DEF StopTimesOut
<1>25. ASSUME NEW k \in 1 .. Len(stops), StopCancels(k) PROVE All'
  <2>1. \A m \in Sessions : Goes(m)
    BY <1>25 DEF StopCancels, Goes
  <2>2. QED
    BY <1>25, <2>1, <1>goes DEF StopCancels
<1>26. ASSUME NEW k \in 1 .. Len(stops), FinishStop(k) PROVE All'
  <2>1. \A m \in Sessions : Goes(m)
    BY <1>26, Closing DEF FinishStop, TypeOK
  <2>2. QED
    BY <1>26, <2>1, <1>goes DEF FinishStop
<1>27. ASSUME NEW p \in Aborters, Abort(p) PROVE All'
  <2>1. \A m \in Sessions : Goes(m)
    BY <1>27 DEF Abort, Goes
  <2>2. QED
    BY <1>27, <2>1, <1>goes DEF Abort
<1>28. ASSUME NEW p \in Aborters, AbortTearsDown(p) PROVE All'
  <2>1. \A m \in Sessions : Goes(m)
    BY <1>28, Closing DEF AbortTearsDown, TypeOK
  <2>2. QED
    BY <1>28, <2>1, <1>goes DEF AbortTearsDown
<1>29. ASSUME NEW p \in Aborters, AbortSettles(p) PROVE All'
  <2>1. \A m \in Sessions : Goes(m)
    BY <1>29 DEF AbortSettles, Goes
  <2>2. QED
    BY <1>29, <2>1, <1>goes DEF AbortSettles
<1>30. CASE UNCHANGED vars
  <2>1. \A m \in Sessions : Goes(m)
    BY <1>30 DEF vars, Goes
  <2>2. QED
    BY <1>30, <2>1, <1>goes DEF vars
<1>stall. ASSUME NEW n \in Sessions, Stalls(n) PROVE All'
  BY <1>stall, Stalling, <1>goes
<1>31. QED
  BY <1>1, <1>2, <1>3, <1>4, <1>5, <1>6, <1>7, <1>8, <1>9, <1>10, <1>11, <1>12, <1>13,
     <1>14, <1>15, <1>16, <1>17, <1>18, <1>19, <1>20, <1>21, <1>22, <1>23, <1>24, <1>25,
     <1>26, <1>27, <1>28, <1>29, <1>30, <1>stall DEF Stalls, Next, Moves, Transport, Starting, Consuming,
     Stopping, Aborting

\* Only a Stop that finishes and an Abort that settles are done with a session.
LEMMA Ending ==
    ASSUME [Next]_<<world, vars>>
    PROVE  \/ over' = over
           \/ \E k \in 1 .. Len(stops) : FinishStop(k)
           \/ \E p \in Aborters : AbortSettles(p)
  BY ZenonT(60)
  DEF Next, Moves, Transport, Starting, Consuming, Stopping, Aborting, vars, textVars, callVars,
   Start, Stop, Quit, ServerSends, ServerCloses, LinkDrops, PeerStalls,
     PeerReadsAgain, ServerComplains, Dial, NotReady,
   Ready, OpenMicrophone, NoMicrophone, Listen, WatchFocus, ConsumeTranscript, ConsumeError,
   ReportError, ConsumeEnd, PollFocus, StopMicrophone, SendStop, SendStopFails, StopFinished,
   StopTimesOut, StopCancels, Abort, AbortTearsDown

\* Only the consumer of a session applies its transcripts.
LEMMA Applying ==
    ASSUME TypeOK, [Next]_<<world, vars>>, NEW n \in Sessions, applied'[n] # applied[n]
    PROVE  ConsumeTranscript(n)
<1>1. \/ applied' = applied
      \/ \E m \in Sessions : ConsumeTranscript(m)
  BY ZenonT(60)
  DEF Next, Moves, Transport, Starting, Consuming, Stopping, Aborting, vars, textVars, callVars,
     Start, Stop, Quit, ServerSends, ServerCloses, LinkDrops, PeerStalls,
     PeerReadsAgain, ServerComplains, Dial, NotReady,
     Ready, OpenMicrophone, NoMicrophone, Listen, WatchFocus, ConsumeError, ReportError,
     ConsumeEnd, PollFocus, StopMicrophone, SendStop, SendStopFails, StopFinished,
     StopTimesOut, StopCancels, FinishStop, Abort, AbortTearsDown, AbortSettles
<1>2. PICK m \in Sessions : ConsumeTranscript(m)
  BY <1>1
<1>3. applied' = applied \/ applied' = [applied EXCEPT ![m] = @ + 1]
  BY <1>2 DEF ConsumeTranscript
<1>4. m = n
  BY <1>3 DEF TypeOK
<1>5. QED
  BY <1>2, <1>4

LEMMA OverStays == ASSUME TypeOK, SessionInv, StopInv, CalmInv, QuietInv, OverInv,
                          [Next]_<<world, vars>>
                   PROVE  OverInv'
<1> SUFFICES ASSUME Undisturbed', "timeout" \notin world'.faults, NEW n \in Sessions, n \in over'
             PROVE  finished'[n]
  BY DEF OverInv
<1>1. Undisturbed /\ "timeout" \notin world.faults
  BY Disturbing DEF Next, vars
<1>2. finished[n] => finished'[n]
  BY Lasting
<1>3. CASE n \in over
  BY <1>1, <1>2, <1>3 DEF OverInv
<1>4. ASSUME NEW k \in 1 .. Len(stops), FinishStop(k), n \notin over PROVE finished'[n]
  <2>1. stops[k].at = "finishing" /\ n = stops[k].session
    BY <1>4 DEF FinishStop
  <2>2. stops[k].of = n
    BY <1>1, <2>1, StoppingIsLatest
  <2>3. k \in DOMAIN stops
    BY DEF TypeOK
  <2>4. finished[stops[k].of]
    BY <1>1, <2>1, <2>3 DEF StopInv
  <2>5. QED
    BY <1>2, <2>2, <2>4
<1>5. ASSUME NEW p \in Aborters, AbortSettles(p) PROVE FALSE
  <2>1. aborts'[p].at = "done"
    BY <1>5 DEF AbortSettles, TypeOK, AbortCall
  <2>2. QED
    BY <2>1 DEF Undisturbed
<1>6. QED
  BY <1>3, <1>4, <1>5, Ending

-----------------------------------------------------------------------------
LEMMA InvStays == ASSUME IInv, [Next]_<<world, vars>> PROVE IInv'
BY TypesStay, SessionStays, ConnStays, StopStays, CalmStays, QuietStays, LingerStays,
   TextStays, OverStays
   DEF IInv

(* The inductive invariant: types, where each session, connection and Stop  *)
(* is, what each state of the controller means while no Abort comes, and    *)
(* where the transcripts are.                                               *)
THEOREM Invariance == Spec => []IInv
<1>1. Init => IInv
  BY InitHolds
<1>2. IInv /\ [Next]_<<world, vars>> => IInv'
  BY InvStays
<1>3. QED
  BY <1>1, <1>2, PTL DEF Spec

(* Listening means a session to talk to and a microphone delivering to it,  *)
(* and at rest the microphone is off: Start, Stop and fail in controller.go. *)
THEOREM ListeningIsServed == Spec => []ListeningHasASession
<1>1. IInv => ListeningHasASession
  <2> SUFFICES ASSUME IInv, Undisturbed
               PROVE  /\ state = "Listening" => session # NoSession /\ mic = session
                      /\ mic # NoSession => ~AtRest
    BY DEF ListeningHasASession, AtRest
  <2>1. RestInv /\ ListeningInv /\ NoSession \notin Sessions
    BY Bounds DEF IInv, CalmInv
  <2>2. QED
    BY <2>1 DEF RestInv, ListeningInv
<1>2. QED
  BY <1>1, Invariance, PTL

(* Never two open connections: Start, Stop and fail in controller.go.       *)
THEOREM NeverTwoSessions == Spec => []OneSessionAtATime
<1>1. IInv => OneSessionAtATime
  <2> SUFFICES ASSUME IInv, WatchersAreQuiet
               PROVE  Cardinality({n \in Sessions : conn[n].link = "open"}) <= 1
    BY DEF OneSessionAtATime
  <2> DEFINE open == {n \in Sessions : conn[n].link = "open"}
  <2>1. open \subseteq {latest}
    BY DEF IInv, QuietInv
  <2>2. Cardinality({latest}) = 1 /\ IsFiniteSet({latest})
    BY FS_Singleton
  <2>3. Cardinality(open) <= Cardinality({latest})
    BY <2>1, <2>2, FS_Subset
  <2>4. QED
    BY <2>2, <2>3
<1>2. QED
  BY <1>1, Invariance, PTL

(* When a Stop is about to finish, and the server has closed as asked and   *)
(* complained of nothing, all it sent has been applied: Stop and consume in *)
(* controller.go, Reset in composer.go.                                     *)
THEOREM StopsApplyEverything == Spec => []StopAppliesEverything
<1>1. IInv => StopAppliesEverything
  <2> SUFFICES ASSUME IInv, NobodyLingers, NEW k \in 1 .. Len(stops),
                      stops[k].clean, ~conn[stops[k].of].complained
               PROVE  applied[stops[k].of] = conn[stops[k].of].sent
    BY DEF StopAppliesEverything
  <2> DEFINE n == stops[k].of
  <2>1. k \in DOMAIN stops /\ stops[k] \in StopCall
    BY DEF IInv, TypeOK
  <2>2. n \in Sessions
    BY <2>1 DEF StopCall
  <2>3. finished[n] /\ conn[n].link = "closed"
    BY <2>1 DEF IInv, StopInv
  <2>4. ~conn[n].complained
    OBVIOUS
  <2> HIDE DEF n
  <2>5. conn[n].inbox = <<>>
    BY <2>2, <2>3, <2>4 DEF IInv, ConnInv
  <2>6. applied[n] + Len(conn[n].inbox) = conn[n].sent
    BY <2>2, <2>4 DEF IInv, TextInv
  <2>7. applied[n] \in Nat /\ Len(<<>>) = 0
    BY <2>2 DEF IInv, TypeOK
  <2>8. applied[n] = conn[n].sent
    BY <2>5, <2>6, <2>7
  <2>9. QED
    BY <2>8 DEF n
<1>2. QED
  BY <1>1, Invariance, PTL

(* A session that a Stop is done with types nothing any more, as long as no *)
(* Abort comes and no Stop gives up: consume and Stop in controller.go.     *)
THEOREM NothingIsTypedOnceOver == Spec => NothingTypedOnceOver
<1>1. IInv /\ [Next]_<<world, vars>> =>
        [\A n \in Sessions :
            applied'[n] # applied[n] /\ Undisturbed /\ "timeout" \notin world.faults =>
                n \notin over]_applied
  <2> SUFFICES ASSUME IInv, [Next]_<<world, vars>>, NEW n \in Sessions, applied'[n] # applied[n],
                      Undisturbed, "timeout" \notin world.faults, n \in over
               PROVE  FALSE
    OBVIOUS
  <2>1. consumer[n].at = "running"
    BY Applying DEF IInv, ConsumeTranscript
  <2>2. finished[n]
    BY DEF IInv, OverInv
  <2>3. QED
    BY <2>1, <2>2 DEF IInv, ConnInv
<1>2. QED
  BY <1>1, Invariance, PTL DEF Spec, NothingTypedOnceOver

-----------------------------------------------------------------------------
(* The composer.                                                            *)

\* Texts.
Str == Seq(Char)
ComposerRecord ==
    [utterance : Nat, committed : Str, last : Nat, composing : BOOLEAN, wrote : BOOLEAN,
     abandoned : Nat, preview : BOOLEAN, marked : Str, screen : Str, fuse : Nat,
     failed : BOOLEAN, jams : Nat]
TranscriptRecord ==
    [utterance : Nat, revision : Nat, stable : Str, partial : Str, final : BOOLEAN]

(* Types of the composer, the keyboard and the transcripts: composer.go.    *)
ComposerTypes ==
    /\ composer \in ComposerRecord
    /\ sent \in TranscriptRecord
    /\ shown \in TranscriptRecord
    /\ base \in Str
    /\ torn \subseteq Nat
    /\ stranded \in Nat
    /\ ended \subseteq {"dropped", "finished"}

\* The provisional tail is what the screen ends in, and there is one only while composing;
\* an utterance that is open and not composing is one whose drop failed.
Below(c, kept) == c.screen = kept \o c.marked
TailInv ==
    /\ \E kept \in Str : Below(composer, kept)
    /\ ~composer.composing => composer.marked = NoText
    /\ ~composer.composing => composer.utterance \in {NoUtterance, stranded}
    /\ composer.composing => composer.utterance # NoUtterance
    /\ composer.utterance = NoUtterance => composer.committed = NoText

\* What an utterance under way has written: below its tail stands what it committed, and
\* once its latest transcript is rendered, all of that.  Only a final whose separator did
\* not arrive leaves it unable to tell whether it wrote anything.
UtteranceInv ==
    composer.composing /\ composer.utterance # stranded =>
        /\ Below(composer, base \o composer.committed)
        /\ \/ composer.wrote <=> composer.committed # NoText
           \/ sent.final /\ composer.last = sent.revision
        /\ composer.last = sent.revision =>
              /\ composer.committed = shown.stable
              /\ composer.marked = IF composer.preview THEN shown.partial ELSE NoText

\* The composer is at the last transcript or before it, and does not compose what it abandoned.
OrderInv ==
    /\ composer.last <= sent.revision
    /\ composer.abandoned <= sent.utterance
    /\ stranded <= sent.utterance
    /\ composer.composing =>
          composer.utterance = sent.utterance /\ composer.utterance # composer.abandoned
    /\ sent.final => sent.partial = NoText
    /\ sent.revision > 0 => sent.utterance # NoUtterance

\* Of the utterances torn down, one at most may still be spoken of, and it is abandoned or
\* stranded.
TornInv ==
    /\ ended = {} => torn = {}
    /\ \A utterance \in torn :
          /\ utterance # NoUtterance
          /\ utterance <= sent.utterance
          /\ utterance = sent.utterance /\ ended # {"dropped", "finished"} =>
                utterance \in {composer.abandoned, stranded}

ComposerInv == ComposerTypes /\ TailInv /\ UtteranceInv /\ OrderInv /\ TornInv

-----------------------------------------------------------------------------
(* Texts.                                                                   *)

LEMMA SomeTexts == NoText \in Str /\ <<Space>> \in Str /\ OwnText \in Str /\ Len(NoText) = 0
  BY TextsAssumption DEF NoText, Str

LEMMA JoinedTexts ==
    ASSUME NEW s \in Str, NEW t \in Str
    PROVE  /\ s \o t \in Str /\ Len(s) \in Nat /\ Len(s \o t) = Len(s) + Len(t)
           /\ SubSeq(s \o t, 1, Len(s)) = s
           /\ IsPrefix(s, s \o t)
           /\ s \o NoText = s
<1>1. /\ s \o t \in Seq(Char) /\ Len(s) \in Nat /\ Len(t) \in Nat
      /\ Len(s \o t) = Len(s) + Len(t)
      /\ \A i \in 1 .. Len(s) : (s \o t)[i] = s[i]
  BY ConcatProperties, LenProperties DEF Str
<1>2. /\ SubSeq(s \o t, 1, Len(s)) \in Seq(Char)
      /\ Len(SubSeq(s \o t, 1, Len(s))) = Len(s)
      /\ \A i \in 1 .. Len(s) : SubSeq(s \o t, 1, Len(s))[i] = (s \o t)[i]
  BY <1>1
<1>3. SubSeq(s \o t, 1, Len(s)) = s
  BY <1>1, <1>2, SeqEqual DEF Str
<1>4. SubSeq(s, 1, Len(s)) = s /\ s \o NoText = s
  BY SubSeqFull, ConcatEmptySeq DEF Str, NoText
<1>5. QED
  BY <1>1, <1>3, <1>4 DEF Str, IsPrefix

LEMMA RejoinedTexts ==
    ASSUME NEW s \in Str, NEW t \in Str, NEW u \in Str
    PROVE  (s \o t) \o u = s \o (t \o u)
  BY ConcatAssociative DEF Str

LEMMA SplitText ==
    ASSUME NEW s \in Str, NEW t \in Str, IsPrefix(s, t)
    PROVE  /\ Suffix(t, s) \in Str /\ t = s \o Suffix(t, s)
           /\ Len(Suffix(t, s)) = Len(t) - Len(s) /\ Len(s) <= Len(t)
           /\ Suffix(t, s) = NoText <=> t = s
<1>1. Len(s) \in Nat /\ Len(t) \in Nat /\ Len(s) <= Len(t)
  BY LenProperties DEF Str, IsPrefix
<1>2. SubSeq(t, 1, Len(s)) = s
  BY SubSeqFull DEF Str, IsPrefix
<1>3. SubSeq(t, 1, Len(s)) \o SubSeq(t, Len(s) + 1, Len(t)) = SubSeq(t, 1, Len(t))
  <2>1. 1 \in 1 .. Len(t) + 1 /\ Len(s) \in (1 - 1) .. Len(t) /\ Len(t) \in Len(s) .. Len(t)
    BY <1>1
  <2>2. QED
    BY <2>1, ConcatAdjacentSubSeq DEF Str
<1>4. SubSeq(t, 1, Len(t)) = t
  BY SubSeqFull DEF Str
<1>5. Suffix(t, s) \in Str /\ Len(Suffix(t, s)) = Len(t) - Len(s)
  BY <1>1 DEF Suffix, Str
<1>6. t = s \o Suffix(t, s)
  BY <1>2, <1>3, <1>4 DEF Suffix
<1>7. Suffix(t, s) = NoText <=> t = s
  BY <1>5, <1>6, ConcatEqualIffEmpty DEF Str, NoText
<1>8. QED
  BY <1>1, <1>5, <1>6, <1>7

\* Two texts have a longest common prefix: lengths are bounded, so there is a least gap.
LEMMA SharedText ==
    ASSUME NEW s \in Str, NEW t \in Str
    PROVE  LET shared == LongestCommonPrefix({s, t})
           IN  shared \in Str /\ IsPrefix(shared, s) /\ IsPrefix(shared, t)
<1> DEFINE Common == CommonPrefixes({s, t})
           Gaps == {Len(s) - Len(prefix) : prefix \in Common}
<1>1. \A prefix \in Common : prefix \in Str /\ IsPrefix(prefix, s) /\ IsPrefix(prefix, t)
  <2>1. \A text \in {s, t} : \A prefix \in Prefixes(text) : prefix \in Str
    BY DEF Prefixes, Str
  <2>2. QED
    BY <2>1 DEF CommonPrefixes
<1>2. \A prefix \in Common : Len(prefix) \in Nat /\ Len(prefix) <= Len(s)
  BY <1>1, LenProperties DEF IsPrefix, Str
<1>3. <<>> \in Common
  <2>1. <<>> \in Prefixes(s)
    <3>1. SubSeq(s, 1, 0) = <<>> /\ 0 \in 0 .. Len(s)
      BY LenProperties, SubSeqEmpty DEF Str
    <3>2. QED
      BY <3>1 DEF Prefixes
  <2>2. \A text \in {s, t} : IsPrefix(<<>>, text)
    <3>1. \A text \in {s, t} : SubSeq(text, 1, 0) = <<>>
      BY SubSeqEmpty
    <3>2. Len(<<>>) = 0 /\ SubSeq(<<>>, 1, 0) = <<>> /\ Len(s) >= 0 /\ Len(t) >= 0
      BY SubSeqEmpty, LenProperties DEF Str
    <3>3. QED
      BY <3>1, <3>2 DEF IsPrefix
  <2>3. QED
    BY <2>1, <2>2 DEF CommonPrefixes
<1>4. Len(s) \in Nat
  BY LenProperties DEF Str
<1> HIDE DEF Common
<1>5. Gaps \subseteq Nat /\ Gaps # {}
  BY <1>2, <1>3, <1>4
<1>6. PICK least \in Gaps : \A gap \in Gaps : ~(<<gap, least>> \in OpToRel(<, Nat))
  BY <1>5, NatLessThanWellFounded, WFMin
<1>7. \A gap \in Gaps : ~(gap < least)
  BY <1>5, <1>6 DEF OpToRel
<1>8. PICK longest \in Common : least = Len(s) - Len(longest)
  BY <1>6
<1>9. \A other \in Common : Len(other) <= Len(longest)
  <2>1. SUFFICES ASSUME NEW other \in Common
                 PROVE  Len(other) <= Len(longest)
    OBVIOUS
  <2>2. ~(Len(s) - Len(other) < Len(s) - Len(longest))
    BY <1>7, <1>8
  <2>3. QED
    BY <1>2, <1>4, <2>2
<1>10. LongestCommonPrefix({s, t}) \in Common
  BY <1>8, <1>9 DEF LongestCommonPrefix, Common
<1>11. QED
  BY <1>1, <1>10

-----------------------------------------------------------------------------
(* What a call shows when it delivers all its keys, or none of them.        *)

\* The composer but for what it shows and what becomes of the keys.
Same(r, c) ==
    /\ r.utterance = c.utterance /\ r.committed = c.committed /\ r.last = c.last
    /\ r.composing = c.composing /\ r.wrote = c.wrote /\ r.abandoned = c.abandoned
    /\ r.preview = c.preview
Shows(r, c, screen, marked) ==
    r \in ComposerRecord /\ r.screen = screen /\ r.marked = marked /\ Same(r, c)
\* What arrives of a text.
Came(r, text) == IF r.failed THEN NoText ELSE text

LEMMA ScreenChanges ==
    ASSUME NEW c \in ComposerRecord, NEW screen \in Str
    PROVE  LET r == [c EXCEPT !.screen = screen] IN
           Shows(r, c, screen, c.marked) /\ r.failed = c.failed
  BY DEF ComposerRecord, Shows, Same

LEMMA MarkChanges ==
    ASSUME NEW c \in ComposerRecord, NEW marked \in Str
    PROVE  LET r == [c EXCEPT !.marked = marked] IN
           Shows(r, c, c.screen, marked) /\ r.failed = c.failed
  BY DEF ComposerRecord, Shows, Same

LEMMA KeysArrive ==
    ASSUME WholeCalls, NEW c \in ComposerRecord, ~c.failed, NEW count \in Nat
    PROVE  LET p == Press(c, count) IN
           /\ Shows(p, c, c.screen, c.marked)
           /\ Delivered(c, count) = IF p.failed THEN 0 ELSE count
<1> DEFINE p == Press(c, count)
<1>1. c.fuse \in Nat /\ c.jams \in Nat
  BY DEF ComposerRecord
<1>2. CASE count <= 0 \/ c.fuse = MaxKeys
  <2>1. p = c
    BY <1>2 DEF Press
  <2>2. Delivered(c, count) = count
    BY <1>2 DEF Delivered, Arrives
  <2>3. QED
    BY <2>1, <2>2 DEF Shows, Same
<1>3. CASE ~(count <= 0 \/ c.fuse = MaxKeys) /\ Arrives(c, count)
  <2>1. p = [c EXCEPT !.fuse = c.fuse - count]
    BY <1>3 DEF Press
  <2>2. Delivered(c, count) = count
    BY <1>3 DEF Delivered
  <2>3. c.fuse - count \in Nat
    BY <1>1, <1>3 DEF Arrives
  <2> HIDE DEF p
  <2>4. p \in ComposerRecord /\ p.failed = c.failed
    BY <2>1, <2>3 DEF ComposerRecord
  <2>5. Same(p, c) /\ p.screen = c.screen /\ p.marked = c.marked
    BY <2>1 DEF ComposerRecord, Same
  <2>6. QED
    BY <2>2, <2>4, <2>5 DEF Shows, p
<1>4. CASE ~(count <= 0 \/ c.fuse = MaxKeys) /\ ~Arrives(c, count)
  <2>1. p = [c EXCEPT !.failed = TRUE, !.jams = c.jams + 1]
    BY <1>4 DEF Press
  <2>2. Delivered(c, count) = 0
    BY <1>4 DEF Delivered
  <2>3. c.jams + 1 \in Nat
    BY <1>1
  <2> HIDE DEF p
  <2>4. p \in ComposerRecord /\ p.failed
    BY <2>1, <2>3 DEF ComposerRecord
  <2>5. Same(p, c) /\ p.screen = c.screen /\ p.marked = c.marked
    BY <2>1 DEF ComposerRecord, Same
  <2>6. QED
    BY <2>2, <2>4, <2>5 DEF Shows, p
<1>5. QED
  BY <1>2, <1>3, <1>4

LEMMA Typing ==
    ASSUME WholeCalls, NEW c \in ComposerRecord, ~c.failed, NEW text \in Str
    PROVE  LET r == TypeText(c, text) IN
           Shows(r, c, c.screen \o Came(r, text), c.marked)
<1> DEFINE p == Press(c, Len(text))
           came == SubSeq(text, 1, Delivered(c, Len(text)))
           r == TypeText(c, text)
<1>1. Len(text) \in Nat /\ SubSeq(text, 1, Len(text)) = text /\ SubSeq(text, 1, 0) = NoText
  BY SubSeqFull, SubSeqEmpty, LenProperties DEF Str, NoText
<1>2. /\ Shows(p, c, c.screen, c.marked)
      /\ Delivered(c, Len(text)) = IF p.failed THEN 0 ELSE Len(text)
  BY <1>1, KeysArrive
<1>3. r = [p EXCEPT !.screen = c.screen \o came]
  BY <1>2 DEF TypeText, Shows
<1> HIDE DEF p
<1>4. came = Came(p, text)
  BY <1>1, <1>2 DEF Came
<1>5. c.screen \in Str /\ came \in Str
  BY <1>4, SomeTexts DEF ComposerRecord, Came
<1> HIDE DEF came, r
<1>6. c.screen \o came \in Str
  BY <1>5, JoinedTexts
<1>7. Shows(r, p, c.screen \o came, p.marked) /\ r.failed = p.failed
  BY <1>2, <1>3, <1>6, ScreenChanges DEF Shows
<1>8. Came(r, text) = came
  BY <1>4, <1>7 DEF Came
<1>9. QED
  BY <1>2, <1>7, <1>8 DEF Shows, Same, r

LEMMA Erasing ==
    ASSUME WholeCalls, NEW c \in ComposerRecord, ~c.failed, NEW kept \in Str, NEW rest \in Str,
           c.screen = kept \o rest
    PROVE  LET r == Backspace(c, Len(rest)) IN
           Shows(r, c, IF r.failed THEN c.screen ELSE kept, c.marked)
<1> DEFINE p == Press(c, Len(rest))
           left == SubSeq(c.screen, 1, Len(c.screen) - Delivered(c, Len(rest)))
           r == Backspace(c, Len(rest))
<1>1. /\ Len(kept) \in Nat /\ Len(rest) \in Nat /\ Len(c.screen) = Len(kept) + Len(rest)
      /\ SubSeq(c.screen, 1, Len(kept)) = kept /\ SubSeq(c.screen, 1, Len(c.screen)) = c.screen
      /\ c.screen \in Str
  <2>1. c.screen \in Str
    BY DEF ComposerRecord
  <2>2. SubSeq(c.screen, 1, Len(c.screen)) = c.screen
    BY <2>1, SubSeqFull DEF Str
  <2>3. QED
    BY <2>1, <2>2, JoinedTexts
<1>2. /\ Shows(p, c, c.screen, c.marked)
      /\ Delivered(c, Len(rest)) = IF p.failed THEN 0 ELSE Len(rest)
  BY <1>1, KeysArrive
<1>3. r = [p EXCEPT !.screen = left]
  BY <1>2 DEF Backspace, Shows
<1> HIDE DEF p
<1>4. left = IF p.failed THEN c.screen ELSE kept
  <2>1. CASE p.failed
    BY <1>1, <1>2, <2>1
  <2>2. CASE ~p.failed
    <3>1. Len(c.screen) - Delivered(c, Len(rest)) = Len(kept)
      BY <1>1, <1>2, <2>2
    <3>2. QED
      BY <1>1, <2>2, <3>1
  <2>3. QED
    BY <2>1, <2>2
<1> HIDE DEF left, r
<1>5. left \in Str
  BY <1>1, <1>4
<1>6. Shows(r, p, left, p.marked) /\ r.failed = p.failed
  BY <1>2, <1>3, <1>5, ScreenChanges DEF Shows
<1>7. QED
  BY <1>2, <1>4, <1>6 DEF Shows, Same, r

LEMMA Committing ==
    ASSUME WholeCalls, NEW c \in ComposerRecord, ~c.failed, NEW kept \in Str, Below(c, kept),
           NEW text \in Str
    PROVE  LET r == CommitText(c, text) IN
           /\ r \in ComposerRecord /\ Same(r, c)
           /\ Below(r, kept \o Came(r, text))
           /\ r.marked \in {c.marked, NoText}
           /\ ~r.failed => r.marked = NoText
<1> DEFINE erased == Backspace(c, Len(c.marked))
           unmarked == [erased EXCEPT !.marked = NoText]
           r == CommitText(c, text)
<1>1. c.marked \in Str
  BY DEF ComposerRecord
<1>2. Shows(erased, c, IF erased.failed THEN c.screen ELSE kept, c.marked)
  BY <1>1, Erasing DEF Below
<1>3. r = IF erased.failed THEN erased ELSE TypeText(unmarked, text)
  BY DEF CommitText
<1> HIDE DEF erased, r
<1>4. CASE erased.failed
  <2>1. Below(r, kept \o NoText) /\ Came(r, text) = NoText
    BY <1>2, <1>3, <1>4, JoinedTexts DEF Below, Shows, Came
  <2>2. QED
    BY <1>2, <1>3, <1>4, <2>1 DEF Shows, r
<1>5. CASE ~erased.failed
  <2>1. Shows(unmarked, erased, erased.screen, NoText) /\ unmarked.failed = erased.failed
    BY <1>2, MarkChanges, SomeTexts DEF Shows
  <2> HIDE DEF unmarked
  <2>2. /\ unmarked \in ComposerRecord /\ ~unmarked.failed
        /\ unmarked.screen = kept /\ unmarked.marked = NoText
    BY <1>2, <1>5, <2>1 DEF Shows
  <2>3. r = TypeText(unmarked, text)
    BY <1>3, <1>5
  <2>4. Shows(r, unmarked, kept \o Came(r, text), NoText)
    BY <2>2, <2>3, Typing
  <2>5. (kept \o Came(r, text)) \o NoText = kept \o Came(r, text)
    BY JoinedTexts, SomeTexts DEF Came
  <2>6. Below(r, kept \o Came(r, text))
    BY <2>4, <2>5 DEF Below, Shows
  <2>7. QED
    BY <1>2, <2>1, <2>4, <2>6 DEF Shows, Same, r
<1>6. QED
  BY <1>4, <1>5

LEMMA Marking ==
    ASSUME WholeCalls, NEW c \in ComposerRecord, ~c.failed, NEW kept \in Str, Below(c, kept),
           NEW text \in Str
    PROVE  LET r == SetMarkedText(c, text) IN
           /\ r \in ComposerRecord /\ Same(r, c)
           /\ Below(r, kept)
           /\ ~r.failed => r.marked = text
<1> DEFINE shared == LongestCommonPrefix({c.marked, text})
           erased == Backspace(c, Len(c.marked) - Len(shared))
           typed == TypeText(erased, Suffix(text, shared))
           r == SetMarkedText(c, text)
<1>1. c.marked \in Str
  BY DEF ComposerRecord
<1>2. shared \in Str /\ IsPrefix(shared, c.marked) /\ IsPrefix(shared, text)
  BY <1>1, SharedText
<1>3. r = IF erased.failed THEN erased
          ELSE [typed EXCEPT !.marked = IF typed.failed THEN shared ELSE text]
  BY DEF SetMarkedText
<1> HIDE DEF shared, r
<1> DEFINE rest == Suffix(c.marked, shared)
           more == Suffix(text, shared)
<1>4. /\ rest \in Str /\ c.marked = shared \o rest /\ Len(rest) = Len(c.marked) - Len(shared)
      /\ more \in Str /\ text = shared \o more /\ typed = TypeText(erased, more)
  BY <1>1, <1>2, SplitText
<1> HIDE DEF rest, more
<1>5. kept \o shared \in Str /\ c.screen = (kept \o shared) \o rest
  <2>1. c.screen = kept \o c.marked
    BY DEF Below
  <2>2. kept \o shared \in Str
    BY <1>2, JoinedTexts
  <2>0. shared \in Str /\ rest \in Str
    BY <1>2, <1>4
  <2>3. (kept \o shared) \o rest = kept \o (shared \o rest)
    BY <2>0, RejoinedTexts
  <2>4. QED
    BY <1>4, <2>1, <2>2, <2>3
<1>6. Shows(erased, c, IF erased.failed THEN c.screen ELSE kept \o shared, c.marked)
  BY <1>4, <1>5, Erasing
<1> HIDE DEF erased
<1>7. CASE erased.failed
  <2>1. Below(erased, kept)
    BY <1>6, <1>7 DEF Below, Shows
  <2>2. QED
    BY <1>3, <1>6, <1>7, <2>1 DEF Shows, r
<1>8. CASE ~erased.failed
  <2>1. erased \in ComposerRecord /\ erased.screen = kept \o shared
    BY <1>6, <1>8 DEF Shows
  <2>2. Shows(typed, erased, (kept \o shared) \o Came(typed, more), erased.marked)
    BY <1>4, <1>8, <2>1, Typing
  <2> HIDE DEF typed
  <2> DEFINE marked == IF typed.failed THEN shared ELSE text
  <2>3. marked \in Str /\ r = [typed EXCEPT !.marked = marked]
    BY <1>2, <1>3, <1>8
  <2>4. (kept \o shared) \o Came(typed, more) = kept \o marked
    <3>1. CASE typed.failed
      BY <1>5, <3>1, JoinedTexts DEF Came
    <3>2. CASE ~typed.failed
      <4>1. shared \in Str /\ more \in Str
        BY <1>2, <1>4
      <4>2. (kept \o shared) \o more = kept \o (shared \o more)
        BY <4>1, RejoinedTexts
      <4>3. QED
        BY <1>4, <3>2, <4>2 DEF Came
    <3>3. QED
      BY <3>1, <3>2
  <2> HIDE DEF marked
  <2>5. Shows(r, typed, typed.screen, marked) /\ r.failed = typed.failed
    BY <2>2, <2>3, MarkChanges DEF Shows
  <2>6. Below(r, kept)
    BY <2>2, <2>4, <2>5 DEF Below, Shows
  <2>7. QED
    BY <1>6, <2>2, <2>5, <2>6 DEF Shows, Same, marked, r
<1>9. QED
  BY <1>7, <1>8

-----------------------------------------------------------------------------
(* The operations of keystroke.go and composer.go.                          *)

\* There is a tail only during a composition.
Ordered(c) == ~c.composing => c.marked = NoText

LEMMA Beginning ==
    ASSUME NEW c \in ComposerRecord, Ordered(c)
    PROVE  LET r == BeginComposition(c) IN
           /\ r \in ComposerRecord /\ r.composing
           /\ r.screen = c.screen /\ r.marked = c.marked
           /\ r.utterance = c.utterance /\ r.committed = c.committed /\ r.last = c.last
           /\ r.wrote = c.wrote /\ r.abandoned = c.abandoned /\ r.preview = c.preview
           /\ r.failed = c.failed
<1>1. CASE c.composing
  BY <1>1 DEF BeginComposition
<1>2. CASE ~c.composing
  <2> DEFINE r == [c EXCEPT !.composing = TRUE, !.marked = NoText]
  <2>1. BeginComposition(c) = r /\ c.marked = NoText
    BY <1>2 DEF BeginComposition, Ordered
  <2>2. r \in ComposerRecord /\ r.composing /\ r.screen = c.screen /\ r.marked = NoText
    BY SomeTexts DEF ComposerRecord
  <2>3. r.utterance = c.utterance /\ r.committed = c.committed /\ r.last = c.last
    BY DEF ComposerRecord
  <2>4. /\ r.wrote = c.wrote /\ r.abandoned = c.abandoned /\ r.preview = c.preview
        /\ r.failed = c.failed
    BY DEF ComposerRecord
  <2> HIDE DEF r
  <2>5. QED
    BY <2>1, <2>2, <2>3, <2>4
<1>3. QED
  BY <1>1, <1>2

LEMMA EndingComposition ==
    ASSUME NEW c \in ComposerRecord, Ordered(c)
    PROVE  LET r == EndComposition(c) IN
           /\ r \in ComposerRecord /\ ~r.composing
           /\ r.screen = c.screen /\ r.marked = NoText
           /\ r.utterance = c.utterance /\ r.committed = c.committed /\ r.last = c.last
           /\ r.wrote = c.wrote /\ r.abandoned = c.abandoned /\ r.preview = c.preview
           /\ r.failed = c.failed
<1>1. CASE ~c.composing
  BY <1>1 DEF EndComposition, Ordered
<1>2. CASE c.composing
  <2> DEFINE r == [c EXCEPT !.composing = FALSE, !.marked = NoText]
  <2>1. EndComposition(c) = r
    BY <1>2 DEF EndComposition
  <2>2. r \in ComposerRecord /\ ~r.composing /\ r.screen = c.screen /\ r.marked = NoText
    BY SomeTexts DEF ComposerRecord
  <2>3. r.utterance = c.utterance /\ r.committed = c.committed /\ r.last = c.last
    BY DEF ComposerRecord
  <2>4. /\ r.wrote = c.wrote /\ r.abandoned = c.abandoned /\ r.preview = c.preview
        /\ r.failed = c.failed
    BY DEF ComposerRecord
  <2> HIDE DEF r
  <2>5. QED
    BY <2>1, <2>2, <2>3, <2>4
<1>3. QED
  BY <1>1, <1>2


LEMMA Cancelling ==
    ASSUME WholeCalls, NEW c \in ComposerRecord, ~c.failed, Ordered(c), NEW kept \in Str,
           Below(c, kept)
    PROVE  LET r == CancelComposition(c) IN
           /\ r \in ComposerRecord /\ ~r.composing /\ r.marked = NoText
           /\ r.screen = IF r.failed THEN c.screen ELSE kept
           /\ r.utterance = c.utterance /\ r.committed = c.committed /\ r.last = c.last
           /\ r.wrote = c.wrote /\ r.abandoned = c.abandoned /\ r.preview = c.preview
<1>1. CASE ~c.composing
  <2>1. c.marked = NoText /\ c.screen = kept
    BY <1>1, JoinedTexts, SomeTexts DEF Ordered, Below
  <2>2. QED
    BY <1>1, <2>1 DEF CancelComposition
<1>2. CASE c.composing
  <2> DEFINE ended1 == EndComposition(c)
             r == Backspace(ended1, Len(c.marked))
  <2>1. /\ ended1 \in ComposerRecord /\ ~ended1.composing
        /\ ended1.screen = c.screen /\ ended1.marked = NoText
        /\ ended1.utterance = c.utterance /\ ended1.committed = c.committed
        /\ ended1.last = c.last /\ ended1.wrote = c.wrote /\ ended1.abandoned = c.abandoned
        /\ ended1.preview = c.preview /\ ended1.failed = c.failed
    BY EndingComposition
  <2>2. CancelComposition(c) = r
    BY <1>2 DEF CancelComposition, EndComposition
  <2> HIDE DEF ended1
  <2>3. c.marked \in Str /\ ended1.screen = kept \o c.marked
    BY <2>1 DEF ComposerRecord, Below
  <2>4. Shows(r, ended1, IF r.failed THEN c.screen ELSE kept, NoText)
    BY <2>1, <2>3, Erasing
  <2> HIDE DEF r
  <2>5. QED
    BY <2>1, <2>2, <2>4 DEF Shows, Same
<1>3. QED
  BY <1>1, <1>2

LEMMA Opening ==
    ASSUME NEW c \in ComposerRecord, Ordered(c), NEW event \in TranscriptRecord,
           event.utterance # c.utterance
    PROVE  LET r == NewUtterance(c, event) IN
           /\ r \in ComposerRecord /\ ~r.composing /\ r.screen = c.screen /\ r.marked = NoText
           /\ r.utterance = event.utterance /\ r.committed = NoText /\ r.last = c.last
           /\ ~r.wrote /\ r.abandoned = c.abandoned /\ r.preview = c.preview
           /\ r.failed = c.failed
<1> DEFINE e == EndComposition(c)
           r == [e EXCEPT !.utterance = event.utterance, !.committed = NoText, !.wrote = FALSE]
<1>1. /\ e \in ComposerRecord /\ ~e.composing /\ e.screen = c.screen /\ e.marked = NoText
      /\ e.last = c.last /\ e.abandoned = c.abandoned /\ e.preview = c.preview
      /\ e.failed = c.failed
  BY EndingComposition
<1>2. NewUtterance(c, event) = r
  BY DEF NewUtterance
<1> HIDE DEF e
<1>3. event.utterance \in Nat
  BY DEF TranscriptRecord
<1>4. r \in ComposerRecord
  BY <1>1, <1>3, SomeTexts DEF ComposerRecord
<1>5. r.utterance = event.utterance /\ r.committed = NoText /\ ~r.wrote
  BY <1>1 DEF ComposerRecord
<1>6. r.composing = e.composing /\ r.screen = e.screen /\ r.marked = e.marked
  BY <1>1 DEF ComposerRecord
<1>7. r.last = e.last /\ r.abandoned = e.abandoned /\ r.preview = e.preview /\ r.failed = e.failed
  BY <1>1 DEF ComposerRecord
<1> HIDE DEF r
<1>8. QED
  BY <1>1, <1>2, <1>4, <1>5, <1>6, <1>7

\* The space after an utterance that wrote something, unless it ends in one.
Gap(c) == IF c.wrote /\ ~EndsInSpace(c.committed) THEN <<Space>> ELSE NoText


LEMMA Separating ==
    ASSUME WholeCalls, NEW c \in ComposerRecord, ~c.failed, c.marked = NoText
    PROVE  LET r == Separate(c) IN
           /\ r \in ComposerRecord /\ ~r.wrote
           /\ r.screen = c.screen \o Came(r, Gap(c)) /\ r.marked = NoText
           /\ r.utterance = c.utterance /\ r.committed = c.committed /\ r.last = c.last
           /\ r.composing = c.composing /\ r.abandoned = c.abandoned /\ r.preview = c.preview
<1> DEFINE w == [c EXCEPT !.wrote = FALSE]
           r == Separate(c)
<1>1. w \in ComposerRecord /\ ~w.wrote /\ w.screen = c.screen /\ w.marked = NoText /\ ~w.failed
  BY DEF ComposerRecord
<1>2. /\ w.utterance = c.utterance /\ w.committed = c.committed /\ w.last = c.last
      /\ w.composing = c.composing /\ w.abandoned = c.abandoned /\ w.preview = c.preview
  BY DEF ComposerRecord
<1>3. r = IF ~c.wrote THEN c ELSE IF EndsInSpace(c.committed) THEN w
          ELSE CommitText(w, <<Space>>)
  BY DEF Separate
<1> HIDE DEF w, r
<1>4. c.screen \in Str /\ c.screen \o NoText = c.screen
  BY JoinedTexts, SomeTexts DEF ComposerRecord
<1>5. CASE ~c.wrote \/ EndsInSpace(c.committed)
  <2>1. Gap(c) = NoText
    BY <1>5 DEF Gap
  <2>2. Came(r, Gap(c)) = NoText
    BY <2>1 DEF Came
  <2>3. QED
    BY <1>1, <1>2, <1>3, <1>4, <1>5, <2>2 DEF r
<1>6. CASE c.wrote /\ ~EndsInSpace(c.committed)
  <2>1. Gap(c) = <<Space>> /\ r = CommitText(w, <<Space>>)
    BY <1>3, <1>6 DEF Gap
  <2>2. Below(w, c.screen)
    BY <1>1, <1>4 DEF Below
  <2>3. /\ r \in ComposerRecord /\ Same(r, w) /\ Below(r, c.screen \o Came(r, <<Space>>))
        /\ r.marked \in {w.marked, NoText}
    BY <1>1, <1>4, <2>1, <2>2, Committing, SomeTexts
  <2>4. r.marked = NoText /\ c.screen \o Came(r, <<Space>>) \in Str
    BY <1>1, <1>4, <2>3, SomeTexts, JoinedTexts DEF Came
  <2>5. r.screen = c.screen \o Came(r, Gap(c))
    BY <2>1, <2>3, <2>4, JoinedTexts DEF Below
  <2>6. QED
    BY <1>1, <1>2, <2>3, <2>4, <2>5 DEF Same, r
<1>7. QED
  BY <1>5, <1>6

\* A text written below the tail, and what is committed and known of it.
Writes(r, c, kept, came) ==
    /\ Below(r, kept \o came)
    /\ r.committed = c.committed \o came
    /\ r.wrote <=> c.wrote \/ came # NoText

\* Rendered, up to the point where what became stable is committed.
Stabilised(begun, delta, stable) ==
    LET typed == IF delta = NoText THEN begun ELSE CommitText(begun, delta)
    IN  IF typed.failed \/ delta = NoText THEN typed
        ELSE [typed EXCEPT !.committed = stable, !.wrote = TRUE]

\* A stable text is what was committed and what is new of it.
Adds(c, delta, stable) == stable = c.committed \o delta

LEMMA Stabilising ==
    ASSUME WholeCalls, NEW c \in ComposerRecord, ~c.failed, NEW kept \in Str, Below(c, kept),
           NEW stable \in Str, NEW delta \in Str, Adds(c, delta, stable)
    PROVE  LET r == Stabilised(c, delta, stable) IN
           /\ r \in ComposerRecord /\ Writes(r, c, kept, Came(r, delta))
           /\ r.utterance = c.utterance /\ r.last = c.last
           /\ r.composing = c.composing /\ r.abandoned = c.abandoned /\ r.preview = c.preview
<1> DEFINE r == Stabilised(c, delta, stable)
           typed == CommitText(c, delta)
           noted == [typed EXCEPT !.committed = stable, !.wrote = TRUE]
<1>1. c.committed \o NoText = c.committed /\ kept \o NoText = kept /\ kept \o delta \in Str
  BY JoinedTexts, SomeTexts DEF ComposerRecord
<1>2. CASE delta = NoText
  <2>1. r = c
    BY <1>2 DEF Stabilised
  <2>2. Came(c, delta) = NoText
    BY <1>2 DEF Came
  <2>3. Writes(c, c, kept, NoText)
    BY <1>1 DEF Writes
  <2>4. QED
    BY <2>1, <2>2, <2>3
<1>3. CASE delta # NoText
  <2>1. /\ typed \in ComposerRecord /\ Same(typed, c)
        /\ Below(typed, kept \o Came(typed, delta))
    BY Committing
  <2>2. r = IF typed.failed THEN typed ELSE noted
    BY <1>3 DEF Stabilised
  <2> HIDE DEF typed, r
  <2>3. CASE typed.failed
    <3>1. r = typed /\ Came(r, delta) = NoText
      BY <2>2, <2>3 DEF Came
    <3>2. Writes(r, c, kept, NoText)
      BY <1>1, <2>1, <3>1 DEF Writes, Same
    <3>3. QED
      BY <2>1, <3>1, <3>2 DEF Same, r
  <2>4. CASE ~typed.failed
    <3>1. noted \in ComposerRecord /\ noted.committed = stable /\ noted.wrote
      BY <2>1 DEF ComposerRecord
    <3>2. /\ noted.screen = typed.screen /\ noted.marked = typed.marked
          /\ noted.failed = typed.failed
      BY <2>1 DEF ComposerRecord
    <3>3. /\ noted.utterance = typed.utterance /\ noted.last = typed.last
          /\ noted.composing = typed.composing
      BY <2>1 DEF ComposerRecord
    <3>4. noted.abandoned = typed.abandoned /\ noted.preview = typed.preview
      BY <2>1 DEF ComposerRecord
    <3> HIDE DEF noted
    <3>5. r = noted /\ Came(r, delta) = delta /\ Came(typed, delta) = delta
      BY <2>2, <2>4, <3>2 DEF Came
    <3>6. Writes(noted, c, kept, delta)
      BY <1>3, <2>1, <3>1, <3>2, <3>5 DEF Writes, Below, Adds
    <3>7. QED
      BY <2>1, <3>1, <3>3, <3>4, <3>5, <3>6 DEF Same, r
  <2>5. QED
    BY <2>3, <2>4
<1>4. QED
  BY <1>2, <1>3

\* What a transcript adds to what is committed, and what it shows after that.
Added(c, event) == Suffix(event.stable, c.committed)
Provisional(c, event) == IF c.preview THEN event.partial ELSE NoText

\* After an error nothing is pressed.
LEMMA Stopped ==
    ASSUME NEW c \in ComposerRecord, c.failed, NEW text
    PROVE  LET r == SetMarkedText(c, text) IN
           r.failed /\ Shows(r, c, c.screen, c.marked)
<1> DEFINE count == Len(c.marked) - Len(LongestCommonPrefix({c.marked, text}))
           r == Backspace(c, count)
<1>1. SetMarkedText(c, text) = r
  BY DEF SetMarkedText
<1> HIDE DEF count
<1>2. Press(c, count) = c /\ Delivered(c, count) = 0
  BY DEF Press, Delivered
<1>3. c.screen \in Seq(Char)
  BY DEF ComposerRecord, Str
<1>4. SubSeq(c.screen, 1, Len(c.screen) - 0) = c.screen
  BY <1>3, SubSeqFull, LenProperties
<1>5. r = [c EXCEPT !.screen = c.screen]
  BY <1>2, <1>4 DEF Backspace
<1> HIDE DEF r
<1>6. Shows(r, c, c.screen, c.marked) /\ r.failed = c.failed
  BY <1>3, <1>5, ScreenChanges DEF Str
<1>7. QED
  BY <1>1, <1>6

LEMMA Rendering ==
    ASSUME WholeCalls, NEW c \in ComposerRecord, ~c.failed, Ordered(c), NEW kept \in Str,
           Below(c, kept), NEW event \in TranscriptRecord, IsPrefix(c.committed, event.stable)
    PROVE  LET r == Rendered(c, event) IN
           /\ r \in ComposerRecord /\ r.composing
           /\ r.utterance = c.utterance /\ r.abandoned = c.abandoned /\ r.preview = c.preview
           /\ \E came \in {NoText, Added(c, event)} :
                 Writes(r, c, kept, came) /\ (~r.failed => came = Added(c, event))
           /\ ~r.failed => r.marked = Provisional(c, event) /\ r.last = event.revision
           /\ r.failed => r.last = c.last
<1> DEFINE begun == BeginComposition(c)
           delta == Added(c, event)
           stabilised == Stabilised(begun, delta, event.stable)
           marked == SetMarkedText(stabilised, Provisional(c, event))
           seen == [marked EXCEPT !.last = event.revision]
           r == Rendered(c, event)
<1>1. /\ event.stable \in Str /\ event.partial \in Str /\ event.revision \in Nat
      /\ c.committed \in Str
  BY DEF TranscriptRecord, ComposerRecord
<1>2. delta \in Str /\ event.stable = c.committed \o delta
  BY <1>1, SplitText DEF Added
<1>3. /\ begun \in ComposerRecord /\ begun.composing /\ begun.screen = c.screen
      /\ begun.marked = c.marked /\ begun.utterance = c.utterance
      /\ begun.committed = c.committed /\ begun.last = c.last /\ begun.wrote = c.wrote
      /\ begun.abandoned = c.abandoned /\ begun.preview = c.preview /\ ~begun.failed
  BY Beginning
<1>4. r = IF marked.failed THEN marked ELSE seen
  BY <1>3 DEF Rendered, Stabilised, Added, Provisional
<1> HIDE DEF begun, delta, r
<1>5. Below(begun, kept) /\ Adds(begun, delta, event.stable)
  BY <1>2, <1>3 DEF Below, Adds
<1>6. /\ stabilised \in ComposerRecord
      /\ Writes(stabilised, begun, kept, Came(stabilised, delta))
      /\ stabilised.utterance = begun.utterance /\ stabilised.last = begun.last
      /\ stabilised.composing = begun.composing
      /\ stabilised.abandoned = begun.abandoned /\ stabilised.preview = begun.preview
  <2>1. event.stable \in Str /\ delta \in Str /\ begun \in ComposerRecord /\ ~begun.failed
    BY <1>1, <1>2, <1>3
  <2>2. QED
    BY <1>5, <2>1, Stabilising
<1> HIDE DEF stabilised
<1> DEFINE came == Came(stabilised, delta)
<1>7. came \in {NoText, delta} /\ kept \o came \in Str /\ Below(stabilised, kept \o came)
  BY <1>2, <1>6, JoinedTexts, SomeTexts DEF Came, Writes
<1>8. Provisional(c, event) \in Str
  BY <1>1, SomeTexts DEF Provisional
<1>9. /\ marked \in ComposerRecord /\ Same(marked, stabilised) /\ Below(marked, kept \o came)
      /\ ~marked.failed => marked.marked = Provisional(c, event) /\ ~stabilised.failed
  <2>1. CASE stabilised.failed
    BY <1>6, <1>7, <2>1, Stopped DEF Shows, Below
  <2>2. CASE ~stabilised.failed
    <3> HIDE DEF came
    <3>1. QED
      BY <1>6, <1>7, <1>8, <2>2, Marking
  <2>3. QED
    BY <2>1, <2>2
<1> HIDE DEF marked
<1>10. ~marked.failed => came = delta
  BY <1>9 DEF Came
<1> HIDE DEF came
<1>11. Writes(marked, c, kept, came)
  BY <1>3, <1>6, <1>9 DEF Writes, Same, came
<1>12. seen \in ComposerRecord /\ seen.last = event.revision
  BY <1>1, <1>9 DEF ComposerRecord
<1>13. seen.screen = marked.screen /\ seen.marked = marked.marked /\ seen.failed = marked.failed
  BY <1>9 DEF ComposerRecord
<1>14. /\ seen.utterance = marked.utterance /\ seen.committed = marked.committed
       /\ seen.composing = marked.composing /\ seen.wrote = marked.wrote
  BY <1>9 DEF ComposerRecord
<1>15. seen.abandoned = marked.abandoned /\ seen.preview = marked.preview
  BY <1>9 DEF ComposerRecord
<1> HIDE DEF seen
<1>16. Writes(seen, c, kept, came)
  BY <1>11, <1>13, <1>14 DEF Writes, Below
<1>17. CASE marked.failed
  <2>1. r = marked
    BY <1>4, <1>17
  <2>2. QED
    BY <1>3, <1>6, <1>7, <1>9, <1>11, <1>17, <2>1 DEF Same, r, delta
<1>18. CASE ~marked.failed
  <2>1. r = seen
    BY <1>4, <1>18
  <2>2. QED
    BY <1>3, <1>6, <1>7, <1>9, <1>10, <1>12, <1>13, <1>14, <1>15, <1>16, <1>18, <2>1
    DEF Same, r, delta
<1>19. QED
  BY <1>17, <1>18

LEMMA Sealing ==
    ASSUME WholeCalls, NEW c \in ComposerRecord, ~c.failed, c.marked = NoText
    PROVE  LET r == Sealed(c) IN
           /\ r \in ComposerRecord
           /\ r.screen = c.screen \o Came(r, Gap(c)) /\ r.marked = NoText
           /\ r.last = c.last /\ r.abandoned = c.abandoned /\ r.preview = c.preview
           /\ ~r.failed => ~r.composing /\ r.utterance = NoUtterance /\ r.committed = NoText
           /\ r.failed => /\ r.composing = c.composing /\ r.utterance = c.utterance
                          /\ r.committed = c.committed
<1> DEFINE s == Separate(c)
           e == EndComposition(s)
           sealed == [e EXCEPT !.utterance = NoUtterance, !.committed = NoText]
           r == Sealed(c)
<1>1. /\ s \in ComposerRecord /\ s.screen = c.screen \o Came(s, Gap(c)) /\ s.marked = NoText
      /\ s.last = c.last /\ s.abandoned = c.abandoned /\ s.preview = c.preview
      /\ s.composing = c.composing /\ s.utterance = c.utterance /\ s.committed = c.committed
  BY Separating
<1>2. r = IF s.failed THEN s ELSE sealed
  BY DEF Sealed
<1> HIDE DEF s, r
<1>3. /\ e \in ComposerRecord /\ ~e.composing /\ e.screen = s.screen /\ e.marked = NoText
      /\ e.last = s.last /\ e.abandoned = s.abandoned /\ e.preview = s.preview
      /\ e.failed = s.failed
  BY <1>1, EndingComposition DEF Ordered
<1> HIDE DEF e
<1>4. sealed \in ComposerRecord /\ sealed.utterance = NoUtterance /\ sealed.committed = NoText
  BY <1>3, SomeTexts DEF ComposerRecord, NoUtterance
<1>5. /\ sealed.screen = e.screen /\ sealed.marked = e.marked /\ sealed.composing = e.composing
      /\ sealed.failed = e.failed
  BY <1>3 DEF ComposerRecord
<1>6. sealed.last = e.last /\ sealed.abandoned = e.abandoned /\ sealed.preview = e.preview
  BY <1>3 DEF ComposerRecord
<1> HIDE DEF sealed
<1>7. CASE s.failed
  BY <1>1, <1>2, <1>7 DEF r
<1>8. CASE ~s.failed
  <2>1. r = sealed /\ Came(r, Gap(c)) = Came(s, Gap(c))
    BY <1>2, <1>3, <1>5, <1>8 DEF Came
  <2>2. QED
    BY <1>1, <1>3, <1>4, <1>5, <1>6, <1>8, <2>1 DEF r
<1>9. QED
  BY <1>7, <1>8

LEMMA Refusing ==
    ASSUME WholeCalls, NEW c \in ComposerRecord, ~c.failed, Ordered(c), NEW kept \in Str,
           Below(c, kept), NEW event \in TranscriptRecord
    PROVE  LET r == Refused(c, event) IN
           /\ r \in ComposerRecord /\ ~r.composing /\ r.screen \in {kept, c.screen}
           /\ r.marked = NoText
           /\ r.utterance = NoUtterance /\ r.committed = NoText /\ r.last = event.revision
           /\ r.abandoned = event.utterance
<1> DEFINE e == CancelComposition(c)
           r == [e EXCEPT !.abandoned = event.utterance, !.committed = NoText,
                          !.utterance = NoUtterance, !.last = event.revision, !.failed = TRUE]
<1>1. e \in ComposerRecord /\ ~e.composing /\ e.screen \in {kept, c.screen} /\ e.marked = NoText
  BY Cancelling
<1>2. Refused(c, event) = r
  BY DEF Refused
<1> HIDE DEF e
<1>3. event.utterance \in Nat /\ event.revision \in Nat
  BY DEF TranscriptRecord
<1>4. r \in ComposerRecord
  BY <1>1, <1>3, SomeTexts DEF ComposerRecord, NoUtterance
<1>5. /\ r.utterance = NoUtterance /\ r.committed = NoText /\ r.last = event.revision
      /\ r.abandoned = event.utterance
  BY <1>1 DEF ComposerRecord
<1>6. r.screen = e.screen /\ r.marked = e.marked /\ r.composing = e.composing
  BY <1>1 DEF ComposerRecord
<1> HIDE DEF r
<1>7. QED
  BY <1>1, <1>2, <1>4, <1>5, <1>6

LEMMA Dropping ==
    ASSUME WholeCalls, NEW c \in ComposerRecord, ~c.failed, c.composing, NEW kept \in Str,
           Below(c, kept)
    PROVE  LET r == Dropped(c) IN
           /\ r \in ComposerRecord /\ ~r.composing /\ r.marked = NoText /\ r.last = c.last
           /\ ~r.failed => /\ r.screen = kept /\ r.abandoned = c.utterance
                           /\ r.utterance = NoUtterance /\ r.committed = NoText
           /\ r.failed => /\ r.screen = c.screen /\ r.abandoned = c.abandoned
                          /\ r.utterance = c.utterance /\ r.committed = c.committed
<1> DEFINE e == CancelComposition(c)
           dropped == [e EXCEPT !.abandoned = c.utterance, !.utterance = NoUtterance,
                                !.committed = NoText]
           r == Dropped(c)
<1>1. /\ e \in ComposerRecord /\ ~e.composing /\ e.marked = NoText
      /\ e.screen = IF e.failed THEN c.screen ELSE kept
      /\ e.utterance = c.utterance /\ e.committed = c.committed /\ e.last = c.last
      /\ e.abandoned = c.abandoned
  BY Cancelling DEF Ordered
<1>2. r = IF e.failed THEN e ELSE dropped
  BY DEF Dropped
<1> HIDE DEF e, r
<1>3. c.utterance \in Nat
  BY DEF ComposerRecord
<1>4. dropped \in ComposerRecord
  BY <1>1, <1>3, SomeTexts DEF ComposerRecord, NoUtterance
<1>5. dropped.utterance = NoUtterance /\ dropped.committed = NoText /\ dropped.abandoned = c.utterance
  BY <1>1 DEF ComposerRecord
<1>6. /\ dropped.screen = e.screen /\ dropped.marked = e.marked
      /\ dropped.composing = e.composing
  BY <1>1 DEF ComposerRecord
<1>7. dropped.last = e.last /\ dropped.failed = e.failed
  BY <1>1 DEF ComposerRecord
<1> HIDE DEF dropped
<1>8. CASE e.failed
  BY <1>1, <1>2, <1>8 DEF r
<1>9. CASE ~e.failed
  BY <1>1, <1>2, <1>4, <1>5, <1>6, <1>7, <1>9 DEF r
<1>10. QED
  BY <1>8, <1>9

LEMMA Finishing ==
    ASSUME WholeCalls, NEW c \in ComposerRecord, ~c.failed, Ordered(c)
    PROVE  LET r == Finished(c) IN
           /\ r \in ComposerRecord /\ ~r.composing
           /\ r.screen = c.screen \o Came(r, Gap(c)) /\ r.marked = NoText
           /\ r.utterance = NoUtterance /\ r.committed = NoText /\ r.last = c.last
           /\ r.abandoned = c.utterance
<1> DEFINE e == EndComposition(c)
           s == Separate(e)
           r == [s EXCEPT !.abandoned = c.utterance, !.utterance = NoUtterance,
                          !.committed = NoText]
<1>1. /\ e \in ComposerRecord /\ ~e.composing /\ e.screen = c.screen /\ e.marked = NoText
      /\ e.last = c.last /\ ~e.failed /\ e.wrote = c.wrote /\ e.committed = c.committed
  BY EndingComposition
<1>2. Finished(c) = r
  BY DEF Finished
<1> HIDE DEF e
<1>3. Gap(e) = Gap(c)
  BY <1>1 DEF Gap
<1>4. /\ s \in ComposerRecord /\ ~s.composing /\ s.screen = e.screen \o Came(s, Gap(e))
      /\ s.marked = NoText /\ s.last = e.last
  BY <1>1, Separating
<1> HIDE DEF s
<1>5. c.utterance \in Nat
  BY DEF ComposerRecord
<1>6. r \in ComposerRecord
  BY <1>4, <1>5, SomeTexts DEF ComposerRecord, NoUtterance
<1>7. r.utterance = NoUtterance /\ r.committed = NoText /\ r.abandoned = c.utterance
  BY <1>4 DEF ComposerRecord
<1>8. r.screen = s.screen /\ r.marked = s.marked /\ r.composing = s.composing
  BY <1>4 DEF ComposerRecord
<1>9. r.last = s.last /\ r.failed = s.failed
  BY <1>4 DEF ComposerRecord
<1> HIDE DEF r
<1>10. Came(r, Gap(c)) = Came(s, Gap(e))
  BY <1>3, <1>9 DEF Came
<1>11. QED
  BY <1>1, <1>2, <1>4, <1>6, <1>7, <1>8, <1>9, <1>10

-----------------------------------------------------------------------------
(* A transcript.                                                            *)

LEMMA Settling ==
    ASSUME NEW c \in ComposerRecord
    PROVE  LET r == Settled(c) IN
           /\ r \in ComposerRecord
           /\ r.screen = c.screen /\ r.marked = c.marked /\ Same(r, c) /\ r.failed = c.failed
<1> DEFINE r == Settled(c)
<1>1. r = [c EXCEPT !.fuse = MaxKeys] /\ MaxKeys \in Nat
  BY FusesAssumption DEF Settled
<1> HIDE DEF r
<1>2. r \in ComposerRecord /\ r.screen = c.screen /\ r.marked = c.marked /\ r.failed = c.failed
  BY <1>1 DEF ComposerRecord
<1>3. Same(r, c)
  BY <1>1 DEF ComposerRecord, Same
<1>4. QED
  BY <1>2, <1>3 DEF r

LEMMA Arming ==
    ASSUME ComposerTypes, NEW fuse \in FusesNow
    PROVE  LET c == Armed(fuse) IN
           /\ c \in ComposerRecord /\ ~c.failed
           /\ c.screen = composer.screen /\ c.marked = composer.marked
           /\ c.utterance = composer.utterance /\ c.committed = composer.committed
           /\ c.last = composer.last /\ c.composing = composer.composing
           /\ c.wrote = composer.wrote /\ c.abandoned = composer.abandoned
           /\ c.preview = composer.preview
<1> DEFINE c == Armed(fuse)
<1>0. fuse \in Nat
  <2>1. MaxKeys \in Nat /\ fuse \in {MaxKeys} \cup Fuses
    BY FusesAssumption DEF FusesNow
  <2>2. QED
    BY <2>1, FusesAssumption
<1>1. composer \in ComposerRecord /\ c = [composer EXCEPT !.failed = FALSE, !.fuse = fuse]
  BY DEF ComposerTypes, Armed
<1> HIDE DEF c
<1>2. c \in ComposerRecord /\ ~c.failed
  BY <1>0, <1>1 DEF ComposerRecord
<1>3. c.screen = composer.screen /\ c.marked = composer.marked
  BY <1>1 DEF ComposerRecord
<1>4. /\ c.utterance = composer.utterance /\ c.committed = composer.committed
      /\ c.last = composer.last
  BY <1>1 DEF ComposerRecord
<1>5. /\ c.composing = composer.composing /\ c.wrote = composer.wrote
      /\ c.abandoned = composer.abandoned /\ c.preview = composer.preview
  BY <1>1 DEF ComposerRecord
<1> USE DEF c
<1>6. QED
  BY <1>2, <1>3, <1>4, <1>5

LEMMA KeptText ==
    ASSUME NEW c \in ComposerRecord, NEW kept \in Str, Below(c, kept)
    PROVE  Kept(c) = kept
<1>1. /\ Len(kept) \in Nat /\ Len(c.marked) \in Nat
      /\ Len(c.screen) = Len(kept) + Len(c.marked)
      /\ SubSeq(c.screen, 1, Len(kept)) = kept
  <2>1. c.marked \in Str /\ c.screen = kept \o c.marked
    BY DEF Below, ComposerRecord
  <2>2. QED
    BY <2>1, JoinedTexts
<1>2. Len(c.screen) - Len(c.marked) = Len(kept)
  BY <1>1
<1>3. QED
  BY <1>1, <1>2 DEF Kept

\* The screen an utterance is written after.
Ground(event) == IF event.utterance # composer.utterance THEN composer.screen ELSE base
\* What is kept of the screen is kept, and more is written after it.
Grows(r) == \E kept \in Str, more \in Str : Below(composer, kept) /\ Below(r, kept \o more)


\* A transcript to act on: later than what was rendered, not of an utterance already gone by,
\* of the one under way only when that has no final yet, and of one torn down only when
\* that is abandoned or stranded.
Timely(event) ==
    /\ event \in TranscriptRecord /\ event.utterance # NoUtterance
    /\ event.revision > composer.last
    /\ event.utterance >= sent.utterance
    /\ event.final => event.partial = NoText
    /\ sent.final /\ composer.last = sent.revision => event.utterance # composer.utterance
    /\ event.utterance = composer.abandoned => ~composer.composing
    /\ ended # {"dropped", "finished"} /\ event.utterance \in torn =>
           event.utterance \in {composer.abandoned, stranded}

\* The utterance of a transcript is opened, if it is not the one under way.
LEMMA Opened ==
    ASSUME ComposerInv, NEW fuse \in FusesNow, NEW event, Timely(event)
    PROVE  LET open == NewUtterance(Armed(fuse), event) IN
           /\ open \in ComposerRecord /\ ~open.failed /\ Ordered(open)
           /\ open.utterance = event.utterance /\ open.last = composer.last
           /\ open.abandoned = composer.abandoned /\ open.preview = composer.preview
           /\ open.committed = NewUtterance(composer, event).committed
           /\ event.utterance # stranded =>
                  /\ Below(open, Ground(event) \o open.committed)
                  /\ open.wrote <=> open.committed # NoText
           /\ Ground(event) \in Str
           /\ Grows(open)
<1> DEFINE c == Armed(fuse)
           open == NewUtterance(c, event)
<1>1. /\ c \in ComposerRecord /\ ~c.failed
      /\ c.screen = composer.screen /\ c.marked = composer.marked
      /\ c.utterance = composer.utterance /\ c.committed = composer.committed
      /\ c.last = composer.last /\ c.composing = composer.composing
      /\ c.wrote = composer.wrote /\ c.abandoned = composer.abandoned
      /\ c.preview = composer.preview
  BY Arming DEF ComposerInv
<1> HIDE DEF c
<1>2. composer \in ComposerRecord /\ base \in Str /\ composer.screen \in Str
  BY DEF ComposerInv, ComposerTypes, ComposerRecord
<1>3. Ordered(c) /\ Ordered(composer)
  BY <1>1 DEF ComposerInv, TailInv, Ordered
<1>4. PICK kept \in Str : Below(composer, kept)
  BY DEF ComposerInv, TailInv
<1>0. event \in TranscriptRecord
  BY DEF Timely
<1>5. CASE event.utterance = composer.utterance
  <2>1. open = c /\ NewUtterance(composer, event) = composer /\ Ground(event) = base
    BY <1>1, <1>5 DEF NewUtterance, Ground
  <2>2. event.utterance # stranded => composer.composing
    BY <1>5 DEF ComposerInv, TailInv, Timely
  <2>3. event.utterance # stranded =>
            /\ Below(composer, base \o composer.committed)
            /\ composer.wrote <=> composer.committed # NoText
    BY <1>5, <2>2 DEF ComposerInv, UtteranceInv, Timely
  <2>4. event.utterance # stranded => Below(c, base \o c.committed)
    BY <1>1, <2>3 DEF Below
  <2>5. Below(c, kept \o NoText) /\ NoText \in Str
    BY <1>1, <1>4, JoinedTexts, SomeTexts DEF Below
  <2>6. Grows(c)
    BY <1>4, <2>5 DEF Grows
  <2> HIDE DEF open
  <2>7. QED
    BY <1>1, <1>2, <1>3, <1>5, <2>1, <2>3, <2>4, <2>6 DEF open, c
<1>6. CASE event.utterance # composer.utterance
  <2>1. /\ open \in ComposerRecord /\ ~open.composing /\ open.screen = c.screen
        /\ open.marked = NoText /\ open.utterance = event.utterance /\ open.committed = NoText
        /\ open.last = c.last /\ ~open.wrote /\ open.abandoned = c.abandoned
        /\ open.preview = c.preview /\ open.failed = c.failed
    BY <1>0, <1>1, <1>3, <1>6, Opening
  <2>2. NewUtterance(composer, event).committed = NoText
    BY <1>0, <1>2, <1>3, <1>6, Opening
  <2>3. Ground(event) = composer.screen
    BY <1>6 DEF Ground
  <2> HIDE DEF open
  <2>4. (composer.screen \o NoText) \o NoText = composer.screen /\ composer.screen \o NoText \in Str
    BY <1>2, JoinedTexts, SomeTexts
  <2>5. Below(open, Ground(event) \o open.committed)
    BY <1>1, <2>1, <2>3, <2>4 DEF Below
  <2>6. Below(open, kept \o composer.marked) /\ composer.marked \in Str
    BY <1>1, <1>2, <1>4, <2>1, <2>4, JoinedTexts, SomeTexts DEF Below, ComposerRecord
  <2>7. Grows(open)
    BY <1>4, <2>6 DEF Grows
  <2>8. QED
    BY <1>1, <1>2, <2>1, <2>2, <2>3, <2>5, <2>7 DEF open, c, Ordered
<1>7. QED
  BY <1>5, <1>6

\* Steps of texts that grow, one after the other.
LEMMA GrowingOn ==
    ASSUME NEW c, Grows(c), NEW r,
           \A kept \in Str : Below(c, kept) => \E more \in Str : Below(r, kept \o more)
    PROVE  Grows(r)
<1>1. PICK kept \in Str, first \in Str : Below(composer, kept) /\ Below(c, kept \o first)
  BY DEF Grows
<1>2. kept \o first \in Str
  BY JoinedTexts
<1>3. PICK more \in Str : Below(r, (kept \o first) \o more)
  BY <1>1, <1>2
<1>4. (kept \o first) \o more = kept \o (first \o more) /\ first \o more \in Str
  BY RejoinedTexts, JoinedTexts
<1>5. QED
  BY <1>1, <1>3, <1>4 DEF Grows

\* An accepted transcript is rendered, or as much of it as arrives.
LEMMA Accepting ==
    ASSUME WholeCalls, ComposerInv, NEW fuse \in FusesNow, NEW event, Timely(event),
           IsPrefix(NewUtterance(composer, event).committed, event.stable)
    PROVE  LET r == Rendered(NewUtterance(Armed(fuse), event), event) IN
           /\ r \in ComposerRecord /\ r.composing
           /\ r.utterance = event.utterance
           /\ r.abandoned = composer.abandoned /\ r.preview = composer.preview
           /\ ~r.failed => /\ r.committed = event.stable /\ r.last = event.revision
                           /\ r.marked = Provisional(composer, event)
           /\ r.failed => r.last = composer.last
           /\ event.utterance # stranded =>
                  /\ Below(r, Ground(event) \o r.committed)
                  /\ r.wrote <=> r.committed # NoText
           /\ Ground(event) \in Str
           /\ Grows(r)
<1> DEFINE open == NewUtterance(Armed(fuse), event)
           r == Rendered(open, event)
           ground == Ground(event)
           delta == Added(open, event)
<1>0. event \in TranscriptRecord
  BY DEF Timely
<1>1. /\ open \in ComposerRecord /\ ~open.failed /\ Ordered(open)
      /\ open.utterance = event.utterance /\ open.last = composer.last
      /\ open.abandoned = composer.abandoned /\ open.preview = composer.preview
      /\ open.committed = NewUtterance(composer, event).committed
      /\ event.utterance # stranded =>
             /\ Below(open, ground \o open.committed)
             /\ open.wrote <=> open.committed # NoText
      /\ ground \in Str
      /\ Grows(open)
  BY Opened
<1>2. IsPrefix(open.committed, event.stable)
  BY <1>1
<1> HIDE DEF open, ground
<1>3. open.committed \in Str /\ event.stable \in Str
  BY <1>0, <1>1 DEF ComposerRecord, TranscriptRecord
<1>4. delta \in Str /\ event.stable = open.committed \o delta
  BY <1>2, <1>3, SplitText DEF Added
<1> HIDE DEF delta
<1>5. ASSUME NEW kept \in Str, Below(open, kept)
      PROVE  /\ r \in ComposerRecord /\ r.composing
             /\ r.utterance = open.utterance /\ r.abandoned = open.abandoned
             /\ r.preview = open.preview
             /\ \E came \in {NoText, delta} :
                   Writes(r, open, kept, came) /\ (~r.failed => came = delta)
             /\ ~r.failed => r.marked = Provisional(open, event) /\ r.last = event.revision
             /\ r.failed => r.last = open.last
  BY <1>0, <1>1, <1>2, <1>5, Rendering DEF delta
<1> HIDE DEF r
<1>6. PICK first \in Str : Below(open, first)
  BY <1>1, JoinedTexts DEF Grows
<1>7. /\ r \in ComposerRecord /\ r.composing
      /\ r.utterance = open.utterance /\ r.abandoned = open.abandoned
      /\ r.preview = open.preview
      /\ ~r.failed => r.marked = Provisional(open, event) /\ r.last = event.revision
      /\ r.failed => r.last = open.last
  BY <1>5, <1>6
<1>8. ~r.failed => r.committed = event.stable
  <2>1. PICK came : Writes(r, open, first, came) /\ (~r.failed => came = delta)
    BY <1>5, <1>6
  <2>2. QED
    BY <1>4, <2>1 DEF Writes
<1>9. event.utterance # stranded =>
          Below(r, ground \o r.committed) /\ (r.wrote <=> r.committed # NoText)
  <2> SUFFICES ASSUME event.utterance # stranded
               PROVE  Below(r, ground \o r.committed) /\ (r.wrote <=> r.committed # NoText)
    OBVIOUS
  <2>1. Below(open, ground \o open.committed) /\ ground \o open.committed \in Str
    BY <1>1, <1>3, JoinedTexts
  <2>2. PICK came \in {NoText, delta} : Writes(r, open, ground \o open.committed, came)
    BY <1>5, <2>1
  <2>3. came \in Str /\ ground \in Str /\ open.committed \in Str
    BY <1>1, <1>3, <1>4, SomeTexts
  <2>4. (ground \o open.committed) \o came = ground \o (open.committed \o came)
    BY <2>3, RejoinedTexts
  <2>5. Below(r, ground \o r.committed)
    BY <2>2, <2>4 DEF Writes
  <2>6. open.committed \o came # NoText <=> open.committed # NoText \/ came # NoText
    BY <1>3, <2>3, ConcatEqualIffEmpty DEF Str, NoText
  <2>7. r.wrote <=> r.committed # NoText
    BY <1>1, <2>2, <2>6 DEF Writes
  <2> QED
    BY <2>5, <2>7
<1>10. Provisional(open, event) = Provisional(composer, event)
  BY <1>1 DEF Provisional
<1>11. ASSUME NEW kept \in Str, Below(open, kept)
       PROVE  \E more \in Str : Below(r, kept \o more)
  <2>1. PICK came \in {NoText, delta} : Writes(r, open, kept, came)
    BY <1>5, <1>11
  <2>2. came \in Str
    BY <1>4, SomeTexts
  <2> QED
    BY <2>1, <2>2 DEF Writes
<1>12. Grows(r)
  BY <1>1, <1>11, GrowingOn
<1>13. QED
  BY <1>1, <1>7, <1>8, <1>9, <1>10, <1>12 DEF open, r, ground

LEMMA WhatIsSent ==
    ASSUME ComposerInv, NEW event \in Transcripts, MaySend(event)
    PROVE  Timely(event)
<1>1. sent \in TranscriptRecord /\ composer \in ComposerRecord /\ stranded \in Nat
  BY DEF ComposerInv, ComposerTypes
<1>2. /\ sent.utterance \in Nat /\ sent.revision \in Nat /\ composer.abandoned \in Nat
      /\ composer.last \in Nat
  BY <1>1 DEF TranscriptRecord, ComposerRecord
<1>3. /\ event.utterance \in 1 .. MaxUtterance /\ event.stable \in Str /\ event.partial \in Str
      /\ event.final \in BOOLEAN /\ event.revision = sent.revision + 1
  BY TextsAssumption DEF Transcripts, MaySend, Str
<1>4. event.utterance \in Nat /\ event.utterance # NoUtterance
  BY <1>3, LengthsAssumption DEF NoUtterance
<1>5. event \in TranscriptRecord
  <2>1. event = [utterance |-> event.utterance, revision |-> event.revision,
                 stable |-> event.stable, partial |-> event.partial, final |-> event.final]
    BY DEF Transcripts
  <2>2. event.revision \in Nat
    BY <1>2, <1>3
  <2>3. QED
    BY <1>3, <1>4, <2>1, <2>2 DEF TranscriptRecord
<1>6. /\ event.utterance >= sent.utterance /\ (event.final => event.partial = NoText)
      /\ sent.final => event.utterance > sent.utterance
  BY <1>2, <1>4 DEF MaySend
<1>7. event.revision > composer.last
  BY <1>2, <1>3 DEF ComposerInv, OrderInv
<1>8. event.utterance = composer.abandoned => event.utterance = sent.utterance
  BY <1>2, <1>4, <1>6 DEF ComposerInv, OrderInv
<1>9. event.utterance = composer.abandoned => ~composer.composing
  BY <1>8 DEF ComposerInv, OrderInv
<1>10. event.utterance \in torn => event.utterance = sent.utterance
  BY <1>2, <1>4, <1>6 DEF ComposerInv, TornInv
<1>11. ended # {"dropped", "finished"} /\ event.utterance \in torn =>
           event.utterance \in {composer.abandoned, stranded}
  BY <1>10 DEF ComposerInv, TornInv
<1>12. composer.utterance <= sent.utterance
  <2>1. composer.utterance \in {NoUtterance, stranded, sent.utterance} /\ stranded <= sent.utterance
    BY DEF ComposerInv, TailInv, OrderInv
  <2>2. QED
    BY <1>1, <1>2, <2>1 DEF NoUtterance
<1>13. sent.final => event.utterance # composer.utterance
  <2>1. composer.utterance \in Nat
    BY <1>1 DEF ComposerRecord
  <2>2. QED
    BY <1>2, <1>4, <1>6, <1>12, <2>1
<1>14. QED
  BY <1>4, <1>5, <1>6, <1>7, <1>9, <1>11, <1>13 DEF Timely

\* The last transcript again, when it has not been rendered yet.
LEMMA WhatIsSentAgain ==
    ASSUME ComposerInv, sent.revision > composer.last
    PROVE  Timely(sent)
<1>1. sent \in TranscriptRecord /\ composer \in ComposerRecord
  BY DEF ComposerInv, ComposerTypes
<1>2. sent.utterance \in Nat /\ sent.revision \in Nat /\ composer.last \in Nat
  BY <1>1 DEF TranscriptRecord, ComposerRecord
<1>3. sent.utterance # NoUtterance /\ composer.last # sent.revision /\ sent.utterance >= sent.utterance
  BY <1>2 DEF ComposerInv, OrderInv
<1>4. sent.utterance = composer.abandoned => ~composer.composing
  BY DEF ComposerInv, OrderInv
<1>5. ended # {"dropped", "finished"} /\ sent.utterance \in torn =>
          sent.utterance \in {composer.abandoned, stranded}
  BY DEF ComposerInv, TornInv
<1>6. sent.final => sent.partial = NoText
  BY DEF ComposerInv, OrderInv
<1>7. QED
  BY <1>1, <1>3, <1>4, <1>5, <1>6 DEF Timely

\* What the composer makes of a new transcript, the three ways it may go.
LEMMA Ignored ==
    ASSUME ComposerInv, NEW fuse \in FusesNow, NEW event, Timely(event),
           event.utterance = composer.abandoned
    PROVE  LET r == Applied(Armed(fuse), event) IN
           /\ r \in ComposerRecord
           /\ r.screen = composer.screen /\ r.marked = composer.marked
           /\ r.utterance = composer.utterance /\ r.committed = composer.committed
           /\ r.last = event.revision /\ r.composing = composer.composing
           /\ r.abandoned = composer.abandoned
<1> DEFINE c == Armed(fuse)
           r == [c EXCEPT !.last = event.revision]
<1>1. /\ c \in ComposerRecord
      /\ c.screen = composer.screen /\ c.marked = composer.marked
      /\ c.utterance = composer.utterance /\ c.committed = composer.committed
      /\ c.last = composer.last /\ c.composing = composer.composing
      /\ c.abandoned = composer.abandoned
  BY Arming DEF ComposerInv
<1> HIDE DEF c
<1>2. event.revision \in Nat /\ c.last \in Nat /\ event.revision > c.last
  BY <1>1 DEF TranscriptRecord, ComposerRecord, Timely
<1>3. Applied(c, event) = r
  BY <1>1, <1>2 DEF Applied
<1>4. r \in ComposerRecord /\ r.last = event.revision
  BY <1>1, <1>2 DEF ComposerRecord
<1>5. r.screen = c.screen /\ r.marked = c.marked /\ r.composing = c.composing
  BY <1>1 DEF ComposerRecord
<1>6. r.utterance = c.utterance /\ r.committed = c.committed /\ r.abandoned = c.abandoned
  BY <1>1 DEF ComposerRecord
<1> HIDE DEF r
<1>7. QED
  BY <1>1, <1>3, <1>4, <1>5, <1>6 DEF c

LEMMA AppliedIs ==
    ASSUME ComposerInv, NEW fuse \in FusesNow, NEW event, Timely(event),
           event.utterance # composer.abandoned
    PROVE  LET open == NewUtterance(Armed(fuse), event)
               r == Rendered(open, event)
               fits == IsPrefix(NewUtterance(composer, event).committed, event.stable)
           IN  /\ ~fits => Applied(Armed(fuse), event) = Refused(open, event)
               /\ fits => Applied(Armed(fuse), event) =
                              IF r.failed \/ ~event.final THEN r ELSE Sealed(r)
               /\ Accepted(event) <=> fits
<1> DEFINE c == Armed(fuse)
           open == NewUtterance(c, event)
           r == Rendered(open, event)
           fits == IsPrefix(NewUtterance(composer, event).committed, event.stable)
<1>1. c.last = composer.last /\ c.abandoned = composer.abandoned /\ composer.last \in Nat
  BY Arming DEF ComposerInv, ComposerTypes, ComposerRecord
<1>2. open.committed = NewUtterance(composer, event).committed
  BY Opened
<1>4. event.revision \in Nat /\ event.revision > composer.last
  BY DEF TranscriptRecord, Timely
<1>5. Accepted(event) <=> fits
  BY <1>4 DEF Accepted
<1> HIDE DEF c
<1>6. Applied(c, event) = IF ~IsPrefix(open.committed, event.stable) THEN Refused(open, event)
                          ELSE IF r.failed \/ ~event.final THEN r ELSE Sealed(r)
  BY <1>1, <1>4 DEF Applied
<1>7. fits <=> IsPrefix(open.committed, event.stable)
  BY <1>2
<1> HIDE DEF open, r, fits
<1>8. /\ ~fits => Applied(c, event) = Refused(open, event)
      /\ fits => Applied(c, event) = IF r.failed \/ ~event.final THEN r ELSE Sealed(r)
  BY <1>6, <1>7
<1>9. QED
  BY <1>5, <1>8 DEF c, open, r, fits

-----------------------------------------------------------------------------
(* The actions.                                                             *)

\* The action formulas of the two properties of Composer that are about one step.
SealedOnce ==
    shown' # shown /\ shown'.final /\ ~composer'.failed /\ shown'.utterance # stranded =>
        LET gap == IF shown'.stable = NoText \/ EndsInSpace(shown'.stable) THEN NoText ELSE <<Space>>
        IN  composer'.screen = base' \o shown'.stable \o gap /\ ~composer'.composing
Silence ==
    sent' # sent /\ sent'.utterance \in torn \ {stranded} => composer'.screen = composer.screen
Keeps == ComposerInv' /\ Grows(composer') /\ SealedOnce /\ Silence

LEMMA Growth ==
    ASSUME NEW r, NEW s, Grows(r), s.screen = r.screen, s.marked = r.marked
    PROVE  Grows(s) /\ \E kept \in Str : Below(s, kept)
<1>1. PICK kept \in Str, more \in Str : Below(composer, kept) /\ Below(r, kept \o more)
  BY DEF Grows
<1>2. Below(s, kept \o more) /\ kept \o more \in Str
  BY <1>1, JoinedTexts DEF Below
<1>3. QED
  BY <1>1, <1>2 DEF Grows

\* What was on screen below the tail stays, whether the tail is kept or not.
LEMMA TailKept ==
    ASSUME ComposerInv, NEW r, r.marked = NoText, NEW more \in Str,
           r.screen = composer.screen \o more
    PROVE  Grows(r)
<1>1. PICK kept \in Str : Below(composer, kept)
  BY DEF ComposerInv, TailInv
<1>2. composer.screen \in Str /\ composer.marked \in Str
  BY DEF ComposerInv, ComposerTypes, ComposerRecord
<1>3. r.screen = (kept \o composer.marked) \o more
  BY <1>1 DEF Below
<1>4. r.screen = kept \o (composer.marked \o more)
  BY <1>2, <1>3, RejoinedTexts
<1>5. composer.marked \o more \in Str
  BY <1>2, JoinedTexts
<1>6. r.screen \in Str
  BY <1>2, JoinedTexts
<1>7. Below(r, kept \o (composer.marked \o more))
  BY <1>4, <1>6, JoinedTexts DEF Below
<1> QED
  BY <1>1, <1>5, <1>7 DEF Grows

LEMMA TailUnchanged ==
    ASSUME ComposerInv, NEW r, r.marked = composer.marked, r.screen = composer.screen
    PROVE  Grows(r)
<1>1. PICK kept \in Str : Below(composer, kept)
  BY DEF ComposerInv, TailInv
<1>2. Below(r, kept \o NoText)
  BY <1>1, JoinedTexts, SomeTexts DEF Below
<1> QED
  BY <1>1, <1>2, SomeTexts DEF Grows

\* Whatever becomes of a transcript, it is now the last one, and the order holds.
LEMMA Ordering ==
    ASSUME ComposerInv, NEW event, Timely(event), sent' = event,
           UNCHANGED <<torn, stranded, ended>>, ended # {"dropped", "finished"},
           composer' \in ComposerRecord, shown' \in TranscriptRecord, base' \in Str,
           composer'.last \in {composer.last, event.revision},
           composer'.abandoned \in {composer.abandoned, event.utterance},
           composer'.composing =>
               composer'.utterance = event.utterance /\ event.utterance # composer'.abandoned,
           event.utterance \in torn => event.utterance \in {composer'.abandoned, stranded}
    PROVE  ComposerTypes' /\ OrderInv' /\ TornInv'
<1>1. /\ event \in TranscriptRecord /\ event.utterance # NoUtterance
      /\ event.revision > composer.last /\ event.utterance >= sent.utterance
      /\ event.final => event.partial = NoText
  BY DEF Timely
<1>2. /\ torn \subseteq Nat /\ stranded \in Nat /\ ended \subseteq {"dropped", "finished"}
      /\ sent.utterance \in Nat /\ composer.abandoned \in Nat /\ composer.last \in Nat
  BY DEF ComposerInv, ComposerTypes, TranscriptRecord, ComposerRecord
<1>3. event.utterance \in Nat /\ event.revision \in Nat
  BY <1>1 DEF TranscriptRecord
<1>4. ComposerTypes'
  BY <1>1, <1>2 DEF ComposerTypes
<1>5. OrderInv'
  <2>1. composer'.last <= event.revision
    BY <1>1, <1>2, <1>3
  <2>2. composer.abandoned <= sent.utterance /\ stranded <= sent.utterance
    BY DEF ComposerInv, OrderInv
  <2>3. composer'.abandoned <= event.utterance /\ stranded <= event.utterance
    BY <1>1, <1>2, <1>3, <2>2
  <2>4. QED
    BY <1>1, <2>1, <2>3 DEF OrderInv
<1>6. TornInv'
  <2>1. ended = {} => torn = {}
    BY DEF ComposerInv, TornInv
  <2>2. ASSUME NEW utterance \in torn
        PROVE  utterance # NoUtterance /\ utterance <= event.utterance
    <3>1. utterance # NoUtterance /\ utterance <= sent.utterance /\ utterance \in Nat
      BY <1>2 DEF ComposerInv, TornInv
    <3>2. QED
      BY <1>1, <1>2, <1>3, <3>1
  <2>3. QED
    BY <2>1, <2>2 DEF TornInv
<1>7. QED
  BY <1>4, <1>5, <1>6

\* A transcript of the abandoned utterance only counts as seen.
LEMMA IgnoredKeeps ==
    ASSUME ComposerInv, NEW fuse \in FusesNow, NEW event, Timely(event), Apply(event, fuse),
           sent' = event, ended # {"dropped", "finished"}, event.utterance = composer.abandoned
    PROVE  Keeps
<1> DEFINE r == Applied(Armed(fuse), event)
<1>1. /\ event \in TranscriptRecord /\ event.revision > composer.last
      /\ event.utterance # NoUtterance
      /\ ~composer.composing
  BY DEF Timely
<1>2. /\ r \in ComposerRecord
      /\ r.screen = composer.screen /\ r.marked = composer.marked
      /\ r.utterance = composer.utterance /\ r.committed = composer.committed
      /\ r.last = event.revision /\ r.composing = composer.composing
      /\ r.abandoned = composer.abandoned
  BY Ignored
<1> HIDE DEF r
<1>3. /\ composer' = Settled(r) /\ sent' = event /\ shown' = shown /\ base' = base
      /\ torn' = torn /\ stranded' = stranded /\ ended' = ended
  BY DEF Apply, Accepted, r
<1>4. /\ composer' \in ComposerRecord
      /\ composer'.screen = r.screen /\ composer'.marked = r.marked /\ Same(composer', r)
  BY <1>2, <1>3, Settling
<1>5. /\ ~composer'.composing /\ composer'.last = event.revision
      /\ composer'.utterance = composer.utterance /\ composer'.committed = composer.committed
      /\ composer'.abandoned = event.utterance
      /\ composer'.screen = composer.screen /\ composer'.marked = composer.marked
  BY <1>1, <1>2, <1>4 DEF Same
<1>6. shown \in TranscriptRecord /\ base \in Str
  BY DEF ComposerInv, ComposerTypes
<1>7. ComposerTypes' /\ OrderInv' /\ TornInv'
  BY <1>3, <1>4, <1>5, <1>6, Ordering
<1>8. TailInv' /\ UtteranceInv'
  BY <1>1, <1>3, <1>5 DEF ComposerInv, TailInv, UtteranceInv, Below
<1>9. Grows(composer')
  BY <1>5, TailUnchanged
<1>10. SealedOnce /\ Silence
  BY <1>3, <1>5 DEF SealedOnce, Silence
<1> QED
  BY <1>7, <1>8, <1>9, <1>10 DEF Keeps, ComposerInv

\* A transcript that changes committed text takes down the tail.
LEMMA RefusedKeeps ==
    ASSUME WholeCalls, ComposerInv, NEW fuse \in FusesNow, NEW event, Timely(event),
           Apply(event, fuse), sent' = event, ended # {"dropped", "finished"},
           event.utterance # composer.abandoned,
           ~IsPrefix(NewUtterance(composer, event).committed, event.stable)
    PROVE  Keeps
<1> DEFINE open == NewUtterance(Armed(fuse), event)
           r == Refused(open, event)
<1>1. event \in TranscriptRecord /\ event.utterance \notin torn \ {stranded}
  BY DEF Timely
<1>2. Applied(Armed(fuse), event) = r /\ ~Accepted(event)
  BY AppliedIs
<1>3. open \in ComposerRecord /\ ~open.failed /\ Ordered(open) /\ Grows(open)
  BY Opened
<1> HIDE DEF open
<1>4. ASSUME NEW kept \in Str, Below(open, kept)
      PROVE  /\ r \in ComposerRecord /\ ~r.composing /\ r.screen \in {kept, open.screen}
             /\ r.marked = NoText
             /\ r.utterance = NoUtterance /\ r.committed = NoText /\ r.last = event.revision
             /\ r.abandoned = event.utterance
  BY <1>1, <1>3, <1>4, Refusing
<1>5. \E kept \in Str : Below(open, kept)
  BY <1>3, JoinedTexts DEF Grows
<1> HIDE DEF r
<1>6. ASSUME NEW kept \in Str, Below(open, kept)
      PROVE  \E more \in Str : Below(r, kept \o more)
  <2>1. open.screen = kept \o open.marked /\ open.marked \in Str /\ open.screen \in Str
    BY <1>3, <1>6 DEF Below, ComposerRecord
  <2>2. kept \o NoText = kept /\ open.screen \o NoText = open.screen
    BY <2>1, JoinedTexts
  <2>3. CASE r.screen = kept
    BY <1>4, <1>6, <2>2, <2>3, SomeTexts DEF Below
  <2>4. CASE r.screen = open.screen
    <3>1. Below(r, kept \o open.marked)
      BY <1>4, <1>6, <2>1, <2>2, <2>4 DEF Below
    <3>2. QED
      BY <2>1, <3>1
  <2> QED
    BY <1>4, <1>6, <2>3, <2>4
<1>7. Grows(r)
  BY <1>3, <1>6, GrowingOn
<1>8. /\ r \in ComposerRecord /\ ~r.composing /\ r.marked = NoText
      /\ r.utterance = NoUtterance /\ r.committed = NoText /\ r.last = event.revision
      /\ r.abandoned = event.utterance
  BY <1>4, <1>5
<1>9. /\ composer' = Settled(r) /\ sent' = event /\ shown' = shown /\ base' = base
      /\ torn' = torn /\ stranded' = stranded /\ ended' = ended
  BY <1>2 DEF Apply
<1>10. /\ composer' \in ComposerRecord
       /\ composer'.screen = r.screen /\ composer'.marked = r.marked /\ Same(composer', r)
  BY <1>8, <1>9, Settling
<1>11. Grows(composer') /\ \E kept \in Str : Below(composer', kept)
  BY <1>7, <1>10, Growth
<1>12. /\ ~composer'.composing /\ composer'.last = event.revision /\ composer'.marked = NoText
       /\ composer'.utterance = NoUtterance /\ composer'.committed = NoText
       /\ composer'.abandoned = event.utterance
  BY <1>8, <1>10 DEF Same
<1>13. shown \in TranscriptRecord /\ base \in Str
  BY DEF ComposerInv, ComposerTypes
<1>14. ComposerTypes' /\ OrderInv' /\ TornInv'
  BY <1>9, <1>10, <1>12, <1>13, Ordering
<1>15. TailInv' /\ UtteranceInv'
  BY <1>11, <1>12 DEF TailInv, UtteranceInv
<1>16. SealedOnce /\ Silence
  BY <1>1, <1>9 DEF SealedOnce, Silence
<1> QED
  BY <1>11, <1>14, <1>15, <1>16 DEF Keeps, ComposerInv

\* An accepted transcript that is not final, or does not all arrive, leaves its utterance
\* under way.
LEMMA RenderedKeeps ==
    ASSUME WholeCalls, ComposerInv, NEW fuse \in FusesNow, NEW event, Timely(event),
           Apply(event, fuse), sent' = event, ended # {"dropped", "finished"},
           event.utterance # composer.abandoned,
           IsPrefix(NewUtterance(composer, event).committed, event.stable),
           ~Rendered(NewUtterance(Armed(fuse), event), event).failed => ~event.final
    PROVE  Keeps
<1> DEFINE r == Rendered(NewUtterance(Armed(fuse), event), event)
           ground == Ground(event)
<1>1. /\ event \in TranscriptRecord /\ event.utterance \notin torn \ {stranded}
      /\ event.utterance # NoUtterance
      /\ event.revision > composer.last
  BY DEF Timely
<1>2. Applied(Armed(fuse), event) = r /\ Accepted(event)
  BY AppliedIs
<1>3. /\ r \in ComposerRecord /\ r.composing
      /\ r.utterance = event.utterance
      /\ r.abandoned = composer.abandoned /\ r.preview = composer.preview
      /\ ~r.failed => /\ r.committed = event.stable /\ r.last = event.revision
                      /\ r.marked = Provisional(composer, event)
      /\ r.failed => r.last = composer.last
      /\ event.utterance # stranded =>
             /\ Below(r, ground \o r.committed)
             /\ r.wrote <=> r.committed # NoText
      /\ ground \in Str
      /\ Grows(r)
  BY Accepting
<1>4. ~r.failed => ~event.final
  OBVIOUS
<1> HIDE DEF r
<1>5. /\ composer' = Settled(r) /\ sent' = event /\ shown' = event /\ base' = ground
      /\ torn' = torn /\ stranded' = stranded /\ ended' = ended
  BY <1>2 DEF Apply, Ground
<1> HIDE DEF ground
<1>6. /\ composer' \in ComposerRecord /\ composer'.failed = r.failed
      /\ composer'.screen = r.screen /\ composer'.marked = r.marked /\ Same(composer', r)
  BY <1>3, <1>5, Settling
<1>7. Grows(composer') /\ \E kept \in Str : Below(composer', kept)
  BY <1>3, <1>6, Growth
<1>8. ComposerTypes' /\ OrderInv' /\ TornInv'
  <2>1. /\ composer'.last \in {composer.last, event.revision}
        /\ composer'.abandoned = composer.abandoned
        /\ composer'.utterance = event.utterance
    BY <1>3, <1>6 DEF Same
  <2>2. event.utterance \in torn => event.utterance \in {composer'.abandoned, stranded}
    BY <1>1
  <2> QED
    BY <1>1, <1>3, <1>5, <1>6, <2>1, <2>2, Ordering
<1>9. TailInv'
  BY <1>1, <1>3, <1>6, <1>7 DEF TailInv, Same
<1>10. UtteranceInv'
  <2>1. event.utterance # stranded =>
            /\ Below(composer', base' \o composer'.committed)
            /\ composer'.wrote <=> composer'.committed # NoText
    BY <1>3, <1>5, <1>6 DEF Below, Same
  <2>2. composer'.last = event.revision => ~r.failed
    <3>1. event.revision \in Nat /\ composer.last \in Nat
      BY <1>1 DEF TranscriptRecord, ComposerInv, ComposerTypes, ComposerRecord
    <3> QED
      BY <1>1, <1>3, <1>6, <3>1 DEF Same
  <2>3. composer'.last = event.revision =>
            /\ composer'.committed = event.stable
            /\ composer'.marked = IF composer'.preview THEN event.partial ELSE NoText
    BY <1>3, <1>6, <2>2 DEF Same, Provisional
  <2>4. composer'.utterance = event.utterance
    BY <1>3, <1>6 DEF Same
  <2> QED
    BY <1>5, <2>1, <2>3, <2>4 DEF UtteranceInv
<1>11. SealedOnce /\ Silence
  BY <1>1, <1>4, <1>5, <1>6 DEF SealedOnce, Silence
<1> QED
  BY <1>7, <1>8, <1>9, <1>10, <1>11 DEF Keeps, ComposerInv

\* A final one ends it: no tail, and a space after what it wrote, if that arrives.
LEMMA SealedKeeps ==
    ASSUME WholeCalls, ComposerInv, NEW fuse \in FusesNow, NEW event, Timely(event),
           Apply(event, fuse), sent' = event, ended # {"dropped", "finished"},
           event.utterance # composer.abandoned,
           IsPrefix(NewUtterance(composer, event).committed, event.stable), event.final,
           ~Rendered(NewUtterance(Armed(fuse), event), event).failed
    PROVE  Keeps
<1> DEFINE rendered == Rendered(NewUtterance(Armed(fuse), event), event)
           r == Sealed(rendered)
           ground == Ground(event)
           gap == Gap(rendered)
<1>1. /\ event \in TranscriptRecord /\ event.utterance \notin torn \ {stranded}
      /\ event.utterance # NoUtterance
      /\ event.partial = NoText
  BY DEF Timely
<1>2. Applied(Armed(fuse), event) = r /\ Accepted(event)
  BY AppliedIs
<1>3. /\ rendered \in ComposerRecord /\ ~rendered.failed /\ rendered.composing
      /\ rendered.utterance = event.utterance
      /\ rendered.abandoned = composer.abandoned /\ rendered.preview = composer.preview
      /\ rendered.committed = event.stable /\ rendered.last = event.revision
      /\ rendered.marked = Provisional(composer, event)
      /\ event.utterance # stranded =>
             /\ Below(rendered, ground \o event.stable)
             /\ rendered.wrote <=> event.stable # NoText
      /\ ground \in Str
      /\ Grows(rendered)
  BY Accepting
<1> HIDE DEF rendered
<1>4. rendered.marked = NoText
  BY <1>1, <1>3 DEF Provisional
<1> DEFINE came == Came(r, gap)
<1>5. /\ r \in ComposerRecord
      /\ r.screen = rendered.screen \o came /\ r.marked = NoText
      /\ r.last = rendered.last /\ r.abandoned = rendered.abandoned
      /\ r.preview = rendered.preview
      /\ ~r.failed => ~r.composing /\ r.utterance = NoUtterance /\ r.committed = NoText
      /\ r.failed => /\ r.composing = rendered.composing /\ r.utterance = rendered.utterance
                     /\ r.committed = rendered.committed
  BY <1>3, <1>4, Sealing
<1> HIDE DEF r
<1>6. /\ composer' = Settled(r) /\ sent' = event /\ shown' = event /\ base' = ground
      /\ torn' = torn /\ stranded' = stranded /\ ended' = ended
  BY <1>2 DEF Apply, Ground
<1> HIDE DEF ground
<1>7. /\ composer' \in ComposerRecord /\ composer'.failed = r.failed
      /\ composer'.screen = r.screen /\ composer'.marked = r.marked /\ Same(composer', r)
  BY <1>5, <1>6, Settling
<1>8. event.stable \in Str /\ ground \o event.stable \in Str /\ came \in Str
  BY <1>1, <1>3, JoinedTexts, SomeTexts DEF TranscriptRecord, Gap, Came
<1>9. event.utterance # stranded =>
          /\ rendered.screen = ground \o event.stable
          /\ gap = IF event.stable = NoText \/ EndsInSpace(event.stable) THEN NoText ELSE <<Space>>
  BY <1>3, <1>4, <1>8, JoinedTexts DEF Below, Gap
<1>10. ~r.failed => came = gap
  BY DEF Came
<1>11. r.failed => came = NoText
  BY DEF Came
<1> HIDE DEF gap, came
<1>12. ASSUME NEW kept \in Str, Below(rendered, kept)
       PROVE  \E more \in Str : Below(r, kept \o more)
  <2>1. rendered.screen = kept /\ kept \o came \in Str
    BY <1>4, <1>8, <1>12, JoinedTexts DEF Below
  <2>2. Below(r, kept \o came)
    BY <1>5, <2>1, JoinedTexts DEF Below
  <2> QED
    BY <1>8, <2>2
<1>13. Grows(r)
  BY <1>3, <1>12, GrowingOn
<1>14. Grows(composer') /\ \E kept \in Str : Below(composer', kept)
  BY <1>7, <1>13, Growth
<1>15. ComposerTypes' /\ OrderInv' /\ TornInv'
  <2>1. /\ composer'.last = event.revision /\ composer'.abandoned = composer.abandoned
        /\ composer'.composing => composer'.utterance = event.utterance
    BY <1>3, <1>5, <1>7 DEF Same
  <2>2. event.utterance \in torn => event.utterance \in {composer'.abandoned, stranded}
    BY <1>1
  <2> QED
    BY <1>1, <1>3, <1>6, <1>7, <2>1, <2>2, Ordering
<1>16. TailInv'
  BY <1>1, <1>3, <1>5, <1>7, <1>14 DEF TailInv, Same
<1>17. UtteranceInv'
  <2> SUFFICES ASSUME composer'.composing, composer'.utterance # stranded
               PROVE  /\ Below(composer', base' \o composer'.committed)
                      /\ composer'.committed = event.stable /\ composer'.marked = NoText
    <3>1. composer'.last = event.revision
      BY <1>3, <1>5, <1>7 DEF Same
    <3> QED
      BY <1>1, <1>6, <3>1 DEF UtteranceInv
  <2>1. /\ r.failed /\ composer'.utterance = event.utterance
        /\ composer'.committed = event.stable /\ composer'.marked = NoText
    BY <1>3, <1>5, <1>7 DEF Same
  <2>2. composer'.screen = (ground \o event.stable) \o NoText
    BY <1>5, <1>7, <1>9, <1>11, <2>1
  <2> QED
    BY <1>6, <2>1, <2>2 DEF Below
<1>18. SealedOnce
  <2> SUFFICES ASSUME ~composer'.failed, event.utterance # stranded
               PROVE  /\ composer'.screen = ground \o event.stable \o gap
                      /\ ~composer'.composing
    BY <1>6, <1>9 DEF SealedOnce
  <2> QED
    BY <1>5, <1>7, <1>9, <1>10 DEF Same
<1>19. Silence
  BY <1>1, <1>6 DEF Silence
<1> QED
  BY <1>14, <1>15, <1>16, <1>17, <1>18, <1>19 DEF Keeps, ComposerInv

LEMMA TimelyKeeps ==
    ASSUME WholeCalls, ComposerInv, NEW fuse \in FusesNow, NEW event, Timely(event),
           Apply(event, fuse), sent' = event, ended # {"dropped", "finished"}
    PROVE  Keeps
  BY IgnoredKeeps, RefusedKeeps, RenderedKeeps, SealedKeeps

LEMMA ReceiveKeeps ==
    ASSUME WholeCalls, ComposerInv, Receive
    PROVE  Keeps
<1>1. PICK event \in Transcripts, fuse \in FusesNow :
          MaySend(event) /\ Apply(event, fuse) /\ sent' = event
  BY DEF Receive
<1>2. ended # {"dropped", "finished"}
  BY DEF Receive
<1>3. Timely(event)
  BY <1>1, WhatIsSent
<1> QED
  BY <1>1, <1>2, <1>3, TimelyKeeps

\* A transcript that was rendered before changes nothing.
LEMMA StaleKeeps ==
    ASSUME ComposerInv, NEW fuse \in FusesNow, Apply(sent, fuse), UNCHANGED sent,
           ~(sent.revision > composer.last)
    PROVE  Keeps
<1> DEFINE r == Armed(fuse)
<1>1. sent \in TranscriptRecord /\ composer \in ComposerRecord
  BY DEF ComposerInv, ComposerTypes
<1>2. /\ r \in ComposerRecord
      /\ r.screen = composer.screen /\ r.marked = composer.marked
      /\ r.utterance = composer.utterance /\ r.committed = composer.committed
      /\ r.last = composer.last /\ r.composing = composer.composing
      /\ r.wrote = composer.wrote /\ r.abandoned = composer.abandoned
      /\ r.preview = composer.preview
  BY Arming DEF ComposerInv
<1> HIDE DEF r
<1>3. sent.revision \in Nat /\ r.last \in Nat /\ sent.revision <= r.last
  BY <1>1, <1>2 DEF TranscriptRecord, ComposerRecord
<1>4. Applied(r, sent) = r
  BY <1>3 DEF Applied
<1>5. /\ composer' = Settled(r) /\ sent' = sent /\ shown' = shown /\ base' = base
      /\ torn' = torn /\ stranded' = stranded /\ ended' = ended
  BY <1>4 DEF Apply, Accepted, r
<1>6. /\ composer' \in ComposerRecord
      /\ composer'.screen = composer.screen /\ composer'.marked = composer.marked
      /\ Same(composer', composer)
  BY <1>2, <1>5, Settling DEF Same
<1>7. ComposerTypes'
  BY <1>5, <1>6 DEF ComposerInv, ComposerTypes
<1>8. TailInv' /\ UtteranceInv'
  BY <1>5, <1>6 DEF ComposerInv, TailInv, UtteranceInv, Below, Same
<1>9. OrderInv' /\ TornInv'
  BY <1>5, <1>6 DEF ComposerInv, OrderInv, TornInv, Same
<1>10. Grows(composer')
  BY <1>6, TailUnchanged
<1> QED
  BY <1>5, <1>7, <1>8, <1>9, <1>10 DEF Keeps, SealedOnce, Silence, ComposerInv

LEMMA RedeliverKeeps ==
    ASSUME WholeCalls, ComposerInv, Redeliver
    PROVE  Keeps
<1>1. PICK fuse \in FusesNow : Apply(sent, fuse)
  BY DEF Redeliver
<1>2. ended # {"dropped", "finished"} /\ sent' = sent
  BY DEF Redeliver
<1>3. CASE sent.revision > composer.last
  BY <1>1, <1>2, <1>3, WhatIsSentAgain, TimelyKeeps
<1>4. CASE ~(sent.revision > composer.last)
  BY <1>1, <1>2, <1>4, StaleKeeps
<1> QED
  BY <1>3, <1>4

\* Text is torn down: nothing is composing, and the utterance is not spoken of again.
LEMMA TornKeeps ==
    ASSUME ComposerInv, composer' \in ComposerRecord,
           UNCHANGED <<sent, shown, base>>, ~composer'.composing, composer'.marked = NoText,
           composer'.utterance \in {NoUtterance, stranded'},
           composer'.utterance = NoUtterance => composer'.committed = NoText,
           composer'.last = composer.last,
           composer'.abandoned \in {composer.utterance, composer.abandoned},
           stranded' \in {composer.utterance, stranded},
           torn' = torn \cup ({composer.utterance} \ {NoUtterance}),
           ended' \subseteq {"dropped", "finished"}, ended' # {},
           \A utterance \in torn' :
              utterance = sent.utterance /\ ended' # {"dropped", "finished"} =>
                  utterance \in {composer'.abandoned, stranded'},
           Grows(composer')
    PROVE  Keeps
<1>1. /\ sent \in TranscriptRecord /\ composer \in ComposerRecord /\ torn \subseteq Nat
      /\ stranded \in Nat /\ composer.utterance \in Nat
  BY DEF ComposerInv, ComposerTypes, ComposerRecord
<1>2. composer.utterance \in {NoUtterance, sent.utterance, stranded}
  BY DEF ComposerInv, OrderInv, TailInv
<1>3. NoUtterance <= sent.utterance /\ sent.utterance \in Nat
  BY <1>1 DEF TranscriptRecord, NoUtterance
<1>4. composer.abandoned <= sent.utterance /\ stranded <= sent.utterance
  BY DEF ComposerInv, OrderInv
<1>5. composer.utterance <= sent.utterance
  BY <1>2, <1>3, <1>4
<1>6. ComposerTypes'
  BY <1>1 DEF ComposerInv, ComposerTypes
<1>7. \E kept \in Str : Below(composer', kept)
  BY Growth
<1>8. TailInv' /\ UtteranceInv'
  BY <1>7 DEF TailInv, UtteranceInv
<1>9. OrderInv'
  BY <1>4, <1>5 DEF ComposerInv, OrderInv
<1>10. \A utterance \in torn' : utterance # NoUtterance /\ utterance <= sent.utterance
  <2>1. \A utterance \in torn : utterance # NoUtterance /\ utterance <= sent.utterance
    BY DEF ComposerInv, TornInv
  <2> QED
    BY <1>5, <2>1
<1>11. TornInv'
  BY <1>10 DEF TornInv
<1> QED
  BY <1>6, <1>8, <1>9, <1>11 DEF Keeps, SealedOnce, Silence, ComposerInv

LEMMA DropPartialKeeps ==
    ASSUME WholeCalls, ComposerInv, DropPartial
    PROVE  Keeps
<1>0. PICK fuse \in FusesNow : composer' = Settled(Dropped(Armed(fuse)))
  BY DEF DropPartial
<1> DEFINE c == Armed(fuse)
           r == Dropped(c)
<1>1. composer' = Settled(r)
  BY <1>0
<1>2. /\ c \in ComposerRecord /\ ~c.failed
      /\ c.screen = composer.screen /\ c.marked = composer.marked
      /\ c.utterance = composer.utterance /\ c.committed = composer.committed
      /\ c.last = composer.last /\ c.composing = composer.composing
      /\ c.abandoned = composer.abandoned
  BY Arming DEF ComposerInv
<1> HIDE DEF c
<1>3. PICK kept \in Str : Below(composer, kept)
  BY DEF ComposerInv, TailInv
<1>4. Below(c, kept)
  BY <1>2, <1>3 DEF Below
<1>5. /\ torn' = torn \cup ({composer.utterance} \ {NoUtterance})
      /\ stranded' = IF composer'.failed THEN composer.utterance ELSE stranded
      /\ ended' = ended \cup {"dropped"} /\ ended \subseteq {"dropped", "finished"}
      /\ UNCHANGED <<sent, shown, base>>
  BY DEF DropPartial, ComposerInv, ComposerTypes
<1>6. \A utterance \in torn : utterance = sent.utterance /\ ended' # {"dropped", "finished"} =>
          utterance \in {composer.abandoned, stranded}
  BY <1>5 DEF ComposerInv, TornInv
<1>7. CASE composer.composing
  <2>1. /\ r \in ComposerRecord /\ ~r.composing /\ r.marked = NoText /\ r.last = c.last
        /\ ~r.failed => /\ r.screen = kept /\ r.abandoned = c.utterance
                        /\ r.utterance = NoUtterance /\ r.committed = NoText
        /\ r.failed => /\ r.screen = c.screen /\ r.abandoned = c.abandoned
                       /\ r.utterance = c.utterance /\ r.committed = c.committed
    BY <1>2, <1>4, <1>7, Dropping
  <2> HIDE DEF r
  <2>2. /\ composer' \in ComposerRecord /\ composer'.failed = r.failed
        /\ composer'.screen = r.screen /\ composer'.marked = r.marked /\ Same(composer', r)
    BY <1>1, <2>1, Settling
  <2>3. composer.utterance = sent.utterance /\ composer.utterance # NoUtterance
    BY <1>7 DEF ComposerInv, OrderInv, TailInv
  <2>4. CASE ~r.failed
    <3>1. /\ composer'.screen = kept /\ composer'.marked = NoText
          /\ ~composer'.composing /\ composer'.last = composer.last
          /\ composer'.abandoned = composer.utterance /\ stranded' = stranded
          /\ composer'.utterance = NoUtterance /\ composer'.committed = NoText
      BY <1>2, <1>5, <2>1, <2>2, <2>4 DEF Same
    <3>2. Below(composer', kept \o NoText)
      BY <3>1, JoinedTexts, SomeTexts DEF Below
    <3>3. Grows(composer')
      BY <1>3, <3>2, SomeTexts DEF Grows
    <3>4. \A utterance \in torn' :
             utterance = sent.utterance /\ ended' # {"dropped", "finished"} =>
                 utterance \in {composer'.abandoned, stranded'}
      BY <2>3, <3>1
    <3> QED
      BY <1>5, <2>2, <3>1, <3>3, <3>4, TornKeeps
  <2>5. CASE r.failed
    <3>1. /\ composer'.screen = composer.screen /\ composer'.marked = NoText
          /\ ~composer'.composing /\ composer'.last = composer.last
          /\ composer'.abandoned = composer.abandoned /\ stranded' = composer.utterance
          /\ composer'.utterance = composer.utterance
      BY <1>2, <1>5, <2>1, <2>2, <2>5 DEF Same
    <3>2. composer.screen \o NoText = composer.screen
      BY JoinedTexts DEF ComposerInv, ComposerTypes, ComposerRecord
    <3>3. Grows(composer')
      BY <3>1, <3>2, SomeTexts, TailKept
    <3>4. \A utterance \in torn' :
             utterance = sent.utterance /\ ended' # {"dropped", "finished"} =>
                 utterance \in {composer'.abandoned, stranded'}
      BY <2>3, <3>1
    <3> QED
      BY <1>5, <2>2, <2>3, <3>1, <3>3, <3>4, TornKeeps
  <2> QED
    BY <2>4, <2>5
<1>8. CASE ~composer.composing
  <2>1. r = c
    BY <1>2, <1>8 DEF Dropped
  <2> HIDE DEF r
  <2>2. /\ composer' \in ComposerRecord /\ ~composer'.failed
        /\ composer'.screen = composer.screen /\ composer'.marked = composer.marked
        /\ ~composer'.composing /\ composer'.last = composer.last
        /\ composer'.utterance = composer.utterance /\ composer'.committed = composer.committed
        /\ composer'.abandoned = composer.abandoned
    BY <1>1, <1>2, <1>8, <2>1, Settling DEF Same
  <2>3. /\ composer.marked = NoText /\ composer.utterance \in {NoUtterance, stranded}
        /\ composer.utterance = NoUtterance => composer.committed = NoText
    BY <1>8 DEF ComposerInv, TailInv
  <2>4. stranded' = stranded
    BY <1>5, <2>2
  <2>5. \A utterance \in torn' :
           utterance = sent.utterance /\ ended' # {"dropped", "finished"} =>
               utterance \in {composer.abandoned, stranded}
    BY <1>5, <1>6, <2>3
  <2>6. Grows(composer')
    BY <2>2, TailUnchanged
  <2> QED
    BY <1>5, <2>2, <2>3, <2>4, <2>5, <2>6, TornKeeps
<1> QED
  BY <1>7, <1>8

LEMMA FinishKeeps ==
    ASSUME WholeCalls, ComposerInv, Finish
    PROVE  Keeps
<1>0. PICK fuse \in FusesNow : composer' = Settled(Finished(Armed(fuse)))
  BY DEF Finish
<1> DEFINE c == Armed(fuse)
           r == Finished(c)
           came == Came(r, Gap(c))
<1>1. composer' = Settled(r)
  BY <1>0
<1>2. /\ c \in ComposerRecord /\ ~c.failed
      /\ c.screen = composer.screen /\ c.marked = composer.marked
      /\ c.utterance = composer.utterance /\ c.last = composer.last
      /\ c.composing = composer.composing
  BY Arming DEF ComposerInv
<1> HIDE DEF c
<1>3. Ordered(c)
  BY <1>2 DEF Ordered, ComposerInv, TailInv
<1>4. /\ r \in ComposerRecord /\ ~r.composing
      /\ r.screen = composer.screen \o came /\ r.marked = NoText
      /\ r.utterance = NoUtterance /\ r.committed = NoText /\ r.last = composer.last
      /\ r.abandoned = composer.utterance
  BY <1>2, <1>3, Finishing
<1>5. came \in Str
  BY SomeTexts DEF Gap, Came
<1> HIDE DEF r, came
<1>6. /\ composer' \in ComposerRecord /\ ~composer'.composing
      /\ composer'.screen = composer.screen \o came /\ composer'.marked = NoText
      /\ composer'.utterance = NoUtterance /\ composer'.committed = NoText
      /\ composer'.last = composer.last /\ composer'.abandoned = composer.utterance
  BY <1>1, <1>4, Settling DEF Same
<1>7. /\ torn' = torn \cup ({composer.utterance} \ {NoUtterance})
      /\ ended' = ended \cup {"finished"} /\ ended \subseteq {"dropped", "finished"}
      /\ "finished" \notin ended
      /\ UNCHANGED <<sent, shown, base, stranded>>
  BY DEF Finish, ComposerInv, ComposerTypes
<1>8. Grows(composer')
  BY <1>5, <1>6, TailKept
<1>9. ended' # {"dropped", "finished"} => torn = {}
  BY <1>7 DEF ComposerInv, TornInv
<1>10. \A utterance \in torn' :
          utterance = sent.utterance /\ ended' # {"dropped", "finished"} =>
              utterance \in {composer'.abandoned, stranded'}
  BY <1>6, <1>7, <1>9
<1> QED
  BY <1>6, <1>7, <1>8, <1>10, TornKeeps

LEMMA ResetKeeps ==
    ASSUME ComposerInv, Reset
    PROVE  Keeps
<1> DEFINE r == Cleared(composer)
<1>1. composer \in ComposerRecord /\ MaxKeys \in Nat
  BY FusesAssumption DEF ComposerInv, ComposerTypes
<1>2. /\ r \in ComposerRecord /\ ~r.composing
      /\ r.screen = composer.screen /\ r.marked = NoText /\ r.utterance = NoUtterance
      /\ r.committed = NoText /\ r.last = 0 /\ r.abandoned = NoUtterance
  BY <1>1, SomeTexts DEF Cleared, FreshComposer, ComposerRecord, NoUtterance
<1>3. /\ composer' = r /\ sent' = NoTranscript /\ shown' = NoTranscript
      /\ base' = composer.screen /\ torn' = {} /\ stranded' = NoUtterance /\ ended' = {}
  BY DEF Reset
<1> HIDE DEF r
<1>4. NoTranscript \in TranscriptRecord /\ NoUtterance \in Nat
  BY SomeTexts DEF NoTranscript, TranscriptRecord, NoUtterance
<1>5. ComposerTypes'
  BY <1>1, <1>2, <1>3, <1>4 DEF ComposerTypes, ComposerRecord
<1>6. Below(r, r.screen) /\ r.screen \in Str
  BY <1>2, JoinedTexts DEF Below, ComposerRecord
<1>7. TailInv' /\ UtteranceInv'
  BY <1>2, <1>3, <1>6 DEF TailInv, UtteranceInv
<1>8. OrderInv' /\ TornInv'
  BY <1>2, <1>3 DEF OrderInv, TornInv, NoTranscript, NoUtterance
<1>9. r.screen = composer.screen \o NoText
  BY <1>1, <1>2, JoinedTexts DEF ComposerRecord
<1>10. Grows(r)
  BY <1>2, <1>9, SomeTexts, TailKept
<1>11. SealedOnce /\ Silence
  BY <1>3 DEF SealedOnce, Silence, NoTranscript, ComposerInv, TornInv
<1> QED
  BY <1>3, <1>5, <1>7, <1>8, <1>10, <1>11 DEF Keeps, ComposerInv

LEMMA SetLivePreviewKeeps ==
    ASSUME ComposerInv, SetLivePreview
    PROVE  Keeps
<1> DEFINE r == [composer EXCEPT !.preview = ~@]
<1>1. composer \in ComposerRecord
  BY DEF ComposerInv, ComposerTypes
<1>2. /\ r \in ComposerRecord
      /\ r.screen = composer.screen /\ r.marked = composer.marked
      /\ r.utterance = composer.utterance /\ r.committed = composer.committed
      /\ r.last = composer.last /\ r.composing = composer.composing
      /\ r.abandoned = composer.abandoned
  BY <1>1 DEF ComposerRecord
<1>3. /\ composer' = r /\ ~composer.composing
      /\ UNCHANGED <<sent, shown, base, torn, stranded, ended>>
  BY DEF SetLivePreview
<1> HIDE DEF r
<1>4. ComposerTypes'
  BY <1>2, <1>3 DEF ComposerInv, ComposerTypes
<1>5. TailInv' /\ UtteranceInv'
  BY <1>2, <1>3 DEF ComposerInv, TailInv, UtteranceInv, Below
<1>6. OrderInv' /\ TornInv'
  BY <1>2, <1>3 DEF ComposerInv, OrderInv, TornInv
<1>7. Grows(r)
  BY <1>2, TailUnchanged
<1> QED
  BY <1>3, <1>4, <1>5, <1>6, <1>7 DEF Keeps, SealedOnce, Silence, ComposerInv

LEMMA ComposerInitHolds ==
    ASSUME ComposerInit
    PROVE  ComposerInv
<1>1. PICK preview \in BOOLEAN : composer = FreshComposer(OwnText, preview)
  BY DEF ComposerInit
<1>2. /\ sent = NoTranscript /\ shown = NoTranscript /\ base = OwnText
      /\ torn = {} /\ stranded = NoUtterance /\ ended = {}
  BY DEF ComposerInit
<1>3. /\ composer \in ComposerRecord /\ ~composer.composing
      /\ composer.screen = OwnText /\ composer.marked = NoText
      /\ composer.utterance = NoUtterance /\ composer.committed = NoText
      /\ composer.last = 0 /\ composer.abandoned = NoUtterance
  BY <1>1, SomeTexts, FusesAssumption DEF FreshComposer, ComposerRecord, NoUtterance
<1>4. NoTranscript \in TranscriptRecord /\ NoUtterance \in Nat
  BY SomeTexts DEF NoTranscript, TranscriptRecord, NoUtterance
<1>5. ComposerTypes
  BY <1>2, <1>3, <1>4, SomeTexts DEF ComposerTypes
<1>6. Below(composer, OwnText)
  BY <1>3, SomeTexts, JoinedTexts DEF Below
<1>7. TailInv /\ UtteranceInv
  BY <1>3, <1>6, SomeTexts DEF TailInv, UtteranceInv
<1>8. OrderInv /\ TornInv
  BY <1>2, <1>3 DEF OrderInv, TornInv, NoTranscript, NoUtterance
<1> QED
  BY <1>5, <1>7, <1>8 DEF ComposerInv

LEMMA ComposerNextKeeps ==
    ASSUME WholeCalls, ComposerInv, [ComposerNext]_composerVars
    PROVE  Keeps
<1>1. CASE Receive
  BY <1>1, ReceiveKeeps
<1>2. CASE Redeliver
  BY <1>2, RedeliverKeeps
<1>3. CASE DropPartial
  BY <1>3, DropPartialKeeps
<1>4. CASE Finish
  BY <1>4, FinishKeeps
<1>5. CASE Reset
  BY <1>5, ResetKeeps
<1>6. CASE SetLivePreview
  BY <1>6, SetLivePreviewKeeps
<1>7. CASE UNCHANGED composerVars
  <2>1. Grows(composer)
    BY TailUnchanged
  <2>2. UNCHANGED <<composer, sent, shown, base, torn, stranded, ended>>
    BY <1>7 DEF composerVars
  <2> QED
    BY <2>1, <2>2
    DEF Keeps, SealedOnce, Silence, ComposerInv, ComposerTypes, TailInv, UtteranceInv, OrderInv, TornInv
<1> QED
  BY <1>1, <1>2, <1>3, <1>4, <1>5, <1>6, <1>7 DEF ComposerNext

-----------------------------------------------------------------------------
(* The theorems.  All but the first are properties of Composer.  They hold  *)
(* however often SendInput refuses a call and whichever calls those are, as *)
(* long as a refused call delivers nothing, which is what a window that     *)
(* runs as administrator does to it.  A call that delivers some of its      *)
(* backspaces breaks them: keystroke.go:52 then counts a tail that is no    *)
(* longer there.                                                            *)

(* However transcripts arrive, whichever calls are refused and whatever     *)
(* ends a session, the provisional tail is exactly what the screen ends in, *)
(* an utterance under way has its committed text above it, and every        *)
(* utterance torn down is abandoned or stranded while it may still be       *)
(* spoken of: Composer.Apply, DropPartial, Finish and Reset.                *)
THEOREM ComposerInvariance ==
    ASSUME WholeCalls
    PROVE  ComposerSpec => []ComposerInv
<1>1. ComposerInv /\ [ComposerNext]_composerVars => ComposerInv'
  BY ComposerNextKeeps DEF Keeps
<1> QED
  BY <1>1, ComposerInitHolds, PTL DEF ComposerSpec

(* While an utterance is under way and its last transcript is rendered, the *)
(* screen is what stood there, then its stable text once, then the latest   *)
(* partial if the preview is on, for texts of any length, any number of     *)
(* sessions and any failures before: Composer.Apply.                        *)
THEOREM TheScreenShowsTheHypothesis ==
    ASSUME WholeCalls
    PROVE  ComposerSpec => []ScreenShowsTheHypothesis
<1>1. ComposerInv => ScreenShowsTheHypothesis
  BY DEF ComposerInv, UtteranceInv, TailInv, Below, ScreenShowsTheHypothesis
<1> QED
  BY <1>1, ComposerInvariance, PTL

(* No step takes back a character that was committed, or the user's own:    *)
(* "committed text is already in the user's document", composer.go:42, and  *)
(* "rather than backspacing over the user's own text", keystroke.go:60.     *)
THEOREM KeptTextStays ==
    ASSUME WholeCalls
    PROVE  ComposerSpec => KeptTextIsAppendOnly
<1>1. ComposerInv /\ [ComposerNext]_composerVars => [IsPrefix(Kept(composer), Kept(composer'))]_composer
  <2> SUFFICES ASSUME ComposerInv, [ComposerNext]_composerVars
               PROVE  IsPrefix(Kept(composer), Kept(composer'))
    OBVIOUS
  <2>1. Grows(composer') /\ ComposerInv'
    BY ComposerNextKeeps DEF Keeps
  <2>2. PICK kept \in Str, more \in Str : Below(composer, kept) /\ Below(composer', kept \o more)
    BY <2>1 DEF Grows
  <2>3. composer \in ComposerRecord /\ composer' \in ComposerRecord
    BY <2>1 DEF ComposerInv, ComposerTypes
  <2>4. kept \o more \in Str /\ IsPrefix(kept, kept \o more)
    BY JoinedTexts
  <2>5. Kept(composer) = kept /\ Kept(composer') = kept \o more
    BY <2>2, <2>3, <2>4, KeptText
  <2> QED
    BY <2>4, <2>5
<1> QED
  BY <1>1, ComposerInvariance, PTL DEF ComposerSpec, KeptTextIsAppendOnly

(* A final transcript leaves its stable text on screen once, one space      *)
(* after it if it wrote any and did not end in one: separateLocked.         *)
THEOREM AFinalSealsOnce ==
    ASSUME WholeCalls
    PROVE  ComposerSpec => FinalSealsOnce
<1>1. ComposerInv /\ [ComposerNext]_composerVars => [SealedOnce]_composerVars
  BY ComposerNextKeeps DEF Keeps
<1> QED
  BY <1>1, ComposerInvariance, PTL DEF ComposerSpec, FinalSealsOnce, SealedOnce

(* The late transcripts of an utterance that was dropped or finished type   *)
(* nothing, unless its tail could not be taken down: Composer.abandoned,    *)
(* composer.go:84.                                                          *)
THEOREM TheTornDownTypeNothing ==
    ASSUME WholeCalls
    PROVE  ComposerSpec => TornDownStaysDown
<1>1. ComposerInv /\ [ComposerNext]_composerVars => [Silence]_composerVars
  BY ComposerNextKeeps DEF Keeps
<1> QED
  BY <1>1, ComposerInvariance, PTL DEF ComposerSpec, TornDownStaysDown, Silence
=============================================================================
