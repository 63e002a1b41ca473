--------------------------- MODULE EndpointProofs ---------------------------
(***************************************************************************)
(* The limiter, the executor and the end of a session, for any number of   *)
(* connections, sessions and events.                                       *)
(***************************************************************************)
EXTENDS Endpoint, FiniteSetTheorems, TLAPS

Places == {"none", "handshake", "bye", "over"} \cup InSession
Peers == {"talking", "silent", "gone"}
Reasons == {"error", "idle_timeout", "client_stop", "exception"}
Conn == [at : Places, peer : Peers, open : BOOLEAN, slot : BOOLEAN, reason : Reasons]
Waiting == {"pass", "final"}
Tasks == {"none", "idle", "dead", "cancelled"} \cup Waiting
Session == [task : Tasks, undecoded : BOOLEAN, flush : {"no", "asked", "done"}, late : BOOLEAN,
            events : Nat, writer : BOOLEAN]

(* Types of the state: websocket.py, limits.py and state.py.                *)
TypeOK ==
    /\ conn \in [Connections -> Conn]
    /\ session \in [Connections -> Session]
    /\ active \in Nat
    /\ queued \in Seq(Connections)
    /\ running \in SUBSET Connections
    /\ server \in {"serving", "draining", "stopping", "stopped"}

\* The limiter counts the handlers in a session, which are the ones with a slot.
SlotsInv ==
    /\ active = Cardinality(Holders)
    /\ active <= MaxSessions
    /\ \A c \in Connections : conn[c].slot <=> c \in Holders

\* Only a handler in a session has a task, until it is cancelled.
LiveInv ==
    \A c \in Connections :
        /\ Live(c) => conn[c].at \in InSession \ {"releasing"}
        /\ conn[c].at \in {"none", "handshake"} => session[c].task = "none" /\ session[c].flush = "no"

\* A pass in the queue has its task waiting and no thread, and is there once; one with a
\* thread was submitted by its task, which waits or was cancelled.
PoolInv ==
    /\ \A i \in 1..Len(queued) : session[queued[i]].task \in Waiting /\ queued[i] \notin running
    /\ \A i, j \in 1..Len(queued) : queued[i] = queued[j] => i = j
    /\ \A c \in running : session[c].task \in Waiting \cup {"cancelled"}

\* A flush that was answered in time left nothing to decode; a client that stopped and
\* stayed had its flush answered.
FlushInv ==
    \A c \in Connections :
        /\ session[c].task = "final" => session[c].flush # "no" /\ ~session[c].undecoded
        /\ session[c].flush = "done" /\ ~session[c].late =>
              /\ session[c].task \notin Waiting
              /\ session[c].task = "idle" => ~session[c].undecoded
        /\ conn[c].at \in {"draining", "closing", "releasing", "bye"}
              /\ conn[c].open /\ conn[c].reason = "client_stop" => session[c].flush = "done"

\* NothingIsLeftUnsent from the end of the drain on.
SentInv ==
    \A c \in Connections :
        /\ conn[c].at \in {"closing", "releasing", "bye"} /\ conn[c].open
        /\ conn[c].reason = "client_stop"
        /\ ~session[c].late /\ conn[c].peer # "silent"
        => session[c].events = 0

IInv == setup \in Setups /\ TypeOK /\ SlotsInv /\ LiveInv /\ PoolInv /\ FlushInv /\ SentInv

-----------------------------------------------------------------------------
LEMMA Limits == ASSUME setup \in Setups PROVE MaxSessions \in Nat \ {0} /\ MaxEvents \in Nat
BY SetupsAssumption DEF MaxSessions, MaxEvents

LEMMA WithoutLoses == ASSUME NEW S, NEW q \in Seq(S), NEW c
  PROVE  \/ Without(q, c) = q /\ \A i \in 1..Len(q) : q[i] # c
         \/ \E k \in 1..Len(q) :
               /\ q[k] = c
               /\ Without(q, c) \in Seq(S)
               /\ Len(Without(q, c)) = Len(q) - 1
               /\ \A j \in 1..Len(q) - 1 : Without(q, c)[j] = q[IF j < k THEN j ELSE j + 1]
<1> DEFINE places == {i \in DOMAIN q : q[i] = c}
           k == CHOOSE i \in places : TRUE
<1>1. CASE places = {}
  BY <1>1 DEF Without
<1>2. CASE places # {}
  <2>1. k \in 1..Len(q) /\ q[k] = c
    BY <1>2
  <2>2. Without(q, c) = RemoveAt(q, k)
    BY <1>2 DEF Without
  <2> HIDE DEF k, places
  <2> DEFINE front == SubSeq(q, 1, k - 1)
             rest == SubSeq(q, k + 1, Len(q))
  <2>3. front \in Seq(S) /\ Len(front) = k - 1 /\ \A j \in 1..k - 1 : front[j] = q[j]
    BY <2>1
  <2>4. rest \in Seq(S) /\ Len(rest) = Len(q) - k /\ \A j \in 1..Len(q) - k : rest[j] = q[k + j]
    BY <2>1
  <2> HIDE DEF front, rest
  <2>5. front \o rest \in Seq(S) /\ Len(front \o rest) = Len(q) - 1
    <3>1. front \o rest \in Seq(S)
      BY <2>3, <2>4
    <3>2. Len(front \o rest) = Len(front) + Len(rest)
      BY <2>3, <2>4, SMTT(30)
    <3>3. QED
      BY <2>1, <2>3, <2>4, <3>1, <3>2
  <2>6. ASSUME NEW j \in 1..Len(q) - 1 PROVE (front \o rest)[j] = q[IF j < k THEN j ELSE j + 1]
    <3>1. CASE j < k
      BY <2>1, <2>3, <2>4, <3>1
    <3>2. CASE ~(j < k)
      <4>1. (front \o rest)[j] = rest[j - Len(front)]
        <5>1. j \in Nat /\ j > Len(front) /\ j <= Len(front) + Len(rest)
          BY <2>1, <2>3, <2>4, <3>2
        <5>2. QED
          BY <2>3, <2>4, <5>1
      <4>2. j - (k - 1) \in 1..Len(q) - k /\ k + (j - (k - 1)) = j + 1
        BY <2>1, <3>2
      <4>3. QED
        BY <2>3, <2>4, <3>2, <4>1, <4>2
    <3>3. QED
      BY <3>1, <3>2
  <2>7. RemoveAt(q, k) = front \o rest
    BY DEF RemoveAt, front, rest
  <2>8. QED
    BY <2>1, <2>2, <2>5, <2>6, <2>7
<1>3. QED
  BY <1>1, <1>2

LEMMA WithoutIsASequence == ASSUME NEW S, NEW q \in Seq(S), NEW c PROVE Without(q, c) \in Seq(S)
BY WithoutLoses

-----------------------------------------------------------------------------
LEMMA InitHolds == ASSUME Init PROVE IInv
<1>1. TypeOK
  BY
     DEF Init, TypeOK, Conn, Session, Places, Tasks, Waiting, Peers, Reasons, InSession,
         NoSession
<1>2. Holders = {}
  BY DEF Init, Holders, InSession
<1>3. SlotsInv
  <2>1. MaxSessions \in Nat \ {0}
    BY Limits DEF Init
  <2>2. QED
    BY <1>2, <2>1, FS_EmptySet DEF Init, SlotsInv, InSession
<1>4. setup \in Setups /\ LiveInv /\ PoolInv /\ FlushInv /\ SentInv
  BY DEF Init, LiveInv, PoolInv, FlushInv, SentInv, Live, NoSession, Waiting
<1>5. QED
  BY <1>1, <1>3, <1>4 DEF IInv

LEMMA ConnFields == ASSUME NEW k \in Conn, NEW there \in Places, NEW answer \in BOOLEAN,
                          NEW peer \in Peers, NEW reason \in Reasons
  PROVE  /\ [k EXCEPT !.at = there] \in Conn
         /\ [k EXCEPT !.open = answer] \in Conn
         /\ [k EXCEPT !.slot = answer] \in Conn
         /\ [k EXCEPT !.peer = peer] \in Conn
         /\ [k EXCEPT !.reason = reason] \in Conn
<1> USE DEF Conn
<1>1. [k EXCEPT !.at = there] \in Conn
  OBVIOUS
<1>2. [k EXCEPT !.open = answer] \in Conn
  OBVIOUS
<1>3. [k EXCEPT !.slot = answer] \in Conn
  OBVIOUS
<1>4. [k EXCEPT !.peer = peer] \in Conn
  OBVIOUS
<1>5. [k EXCEPT !.reason = reason] \in Conn
  OBVIOUS
<1> HIDE DEF Conn
<1>6. QED
  BY <1>1, <1>2, <1>3, <1>4, <1>5

LEMMA HandlersEnd == ASSUME NEW k \in Conn, NEW there \in Places, NEW reason \in Reasons
  PROVE Ends(k, reason) \in Conn /\ FailWith(k, there) \in Conn
<1>1. ASSUME NEW r \in Reasons PROVE Ends(k, r) \in Conn
  <2> DEFINE drains == [k EXCEPT !.at = "draining"]
  <2>1. drains \in Conn
    BY ConnFields DEF Places, InSession, Peers
  <2> HIDE DEF drains
  <2>2. [drains EXCEPT !.reason = r] \in Conn
    BY <2>1, ConnFields DEF Places, Peers
  <2>3. QED
    BY <2>2 DEF Ends, drains
<1>2. FailWith(k, there) \in Conn
  <2> DEFINE closed == [k EXCEPT !.open = FALSE]
  <2>1. closed \in Conn
    BY ConnFields DEF Reasons, Peers
  <2> HIDE DEF closed
  <2>2. [closed EXCEPT !.at = there] \in Conn
    BY <2>1, ConnFields DEF Reasons, Peers
  <2>3. QED
    BY <2>2 DEF FailWith, closed
<1>3. QED
  BY <1>1, <1>2

LEMMA HandlersFlush == ASSUME NEW k \in Conn PROVE Flushed(k) \in Conn
<1>1. "client_stop" \in Reasons /\ "reading" \in Places
  BY DEF Reasons, Places, InSession
<1>2. [k EXCEPT !.at = "reading"] \in Conn
  BY <1>1, ConnFields DEF Peers
<1>3. QED
  BY <1>1, <1>2, HandlersEnd DEF Flushed

LEMMA SessionFields == ASSUME NEW s \in Session, NEW task \in Tasks, NEW answer \in BOOLEAN,
                             NEW flush \in {"no", "asked", "done"}, NEW n \in Nat
  PROVE  /\ [s EXCEPT !.task = task] \in Session
         /\ [s EXCEPT !.undecoded = answer] \in Session
         /\ [s EXCEPT !.flush = flush] \in Session
         /\ [s EXCEPT !.late = answer] \in Session
         /\ [s EXCEPT !.events = n] \in Session
         /\ [s EXCEPT !.writer = answer] \in Session
<1> USE DEF Session
<1>1. [s EXCEPT !.task = task] \in Session
  OBVIOUS
<1>2. [s EXCEPT !.undecoded = answer] \in Session
  OBVIOUS
<1>3. [s EXCEPT !.flush = flush] \in Session
  OBVIOUS
<1>4. [s EXCEPT !.late = answer] \in Session
  OBVIOUS
<1>5. [s EXCEPT !.events = n] \in Session
  OBVIOUS
<1>6. [s EXCEPT !.writer = answer] \in Session
  OBVIOUS
<1> HIDE DEF Session
<1>7. QED
  BY <1>1, <1>2, <1>3, <1>4, <1>5, <1>6

\* What a step does to the types when it changes one connection and one session.
LEMMA OneChanges == ASSUME TypeOK, NEW c \in Connections, NEW k \in Conn, NEW s \in Session,
                          conn' = conn \/ conn' = [conn EXCEPT ![c] = k],
                          session' = session \/ session' = [session EXCEPT ![c] = s]
  PROVE conn' \in [Connections -> Conn] /\ session' \in [Connections -> Session]
BY DEF TypeOK

LEMMA TypesStay == ASSUME TypeOK, [Act]_vars PROVE TypeOK'
<1> USE DEF TypeOK
<1> HIDE DEF Conn, Session
<1>types. ASSUME NEW c \in Connections 
        PROVE  /\ conn[c] \in Conn /\ session[c] \in Session
               /\ session[c].events \in Nat /\ session[c].events + 1 \in Nat
               /\ session[c].flush \in {"no", "asked", "done"}
  BY DEF Session
<1>1. ASSUME NEW c \in Connections, PeerLeaves(c) PROVE TypeOK'
  <2>1. PICK p \in {"silent", "gone"} : conn' = [conn EXCEPT ![c].peer = p]
    BY <1>1 DEF PeerLeaves
  <2>2. [conn[c] EXCEPT !.peer = p] \in Conn
    BY <1>types, ConnFields DEF Places, Reasons, Peers
  <2>3. QED
    BY <1>1, <2>1, <2>2 DEF PeerLeaves, pool
<1>2. ASSUME NEW c \in Connections, Accept(c) PROVE TypeOK'
  <2> DEFINE accepted == [conn[c] EXCEPT !.at = "handshake"]
  <2>1. accepted \in Conn
    BY <1>types, ConnFields DEF Places, InSession, Peers, Reasons
  <2>2. conn' = [conn EXCEPT ![c] = accepted]
    BY <1>2 DEF Accept, Step
  <2> HIDE DEF accepted
  <2>3. conn' \in [Connections -> Conn] /\ session' \in [Connections -> Session]
    BY <1>2, <1>types, <2>1, <2>2, OneChanges DEF Accept
  <2>4. QED
    BY <1>2, <2>3 DEF Accept, pool
<1>3. ASSUME NEW c \in Connections, Audio(c) PROVE TypeOK'
  <2> DEFINE heard == [session[c] EXCEPT !.undecoded = TRUE]
  <2>1. heard \in Session
    BY <1>types, SessionFields DEF Tasks, Waiting
  <2>2. session' = [session EXCEPT ![c] = heard]
    BY <1>3 DEF Audio
  <2> HIDE DEF heard
  <2>3. conn' \in [Connections -> Conn] /\ session' \in [Connections -> Session]
    BY <1>3, <1>types, <2>1, <2>2, OneChanges DEF Audio
  <2>4. QED
    BY <1>3, <2>3 DEF Audio, pool
<1>4. ASSUME NEW c \in Connections, BadMessage(c) PROVE TypeOK'
  <2>1. Ends(FailWith(conn[c], "reading"), "error") \in Conn
    BY <1>types, HandlersEnd DEF Places, InSession, Reasons
  <2>2. conn' = [conn EXCEPT ![c] = Ends(FailWith(conn[c], "reading"), "error")]
    BY <1>4 DEF BadMessage
  <2>3. conn' \in [Connections -> Conn] /\ session' \in [Connections -> Session]
    BY <1>4, <1>types, <2>1, <2>2, OneChanges DEF BadMessage
  <2>4. QED
    BY <1>4, <2>3 DEF BadMessage, pool
<1>5. ASSUME NEW c \in Connections, Raises(c) PROVE TypeOK'
  <2>1. Ends(conn[c], "exception") \in Conn
    BY <1>types, HandlersEnd DEF Places, InSession, Reasons
  <2>2. conn' = [conn EXCEPT ![c] = Ends(conn[c], "exception")]
    BY <1>5 DEF Raises
  <2>3. conn' \in [Connections -> Conn] /\ session' \in [Connections -> Session]
    BY <1>5, <1>types, <2>1, <2>2, OneChanges DEF Raises
  <2>4. QED
    BY <1>5, <2>3 DEF Raises, pool
<1>6. ASSUME NEW c \in Connections, HandshakeFails(c) PROVE TypeOK'
  <2>1. FailWith(conn[c], "over") \in Conn
    BY <1>types, HandlersEnd DEF Places, InSession, Reasons
  <2>2. conn' = [conn EXCEPT ![c] = FailWith(conn[c], "over")]
    BY <1>6 DEF HandshakeFails
  <2>3. conn' \in [Connections -> Conn] /\ session' \in [Connections -> Session]
    BY <1>6, <1>types, <2>1, <2>2, OneChanges DEF HandshakeFails
  <2>4. QED
    BY <1>6, <2>3 DEF HandshakeFails, pool
<1>7. ASSUME NEW c \in Connections, Rejected(c) PROVE TypeOK'
  <2>1. FailWith(conn[c], "over") \in Conn
    BY <1>types, HandlersEnd DEF Places, InSession, Reasons
  <2>2. conn' = [conn EXCEPT ![c] = FailWith(conn[c], "over")]
    BY <1>7 DEF Rejected
  <2>3. conn' \in [Connections -> Conn] /\ session' \in [Connections -> Session]
    BY <1>7, <1>types, <2>1, <2>2, OneChanges DEF Rejected
  <2>4. QED
    BY <1>7, <2>3 DEF Rejected, pool
<1>8. ASSUME NEW c \in Connections, Admitted(c) PROVE TypeOK'
  <2> DEFINE slotted == [conn[c] EXCEPT !.slot = TRUE]
  <2>1. slotted \in Conn
    BY <1>types, ConnFields DEF Places, InSession, Peers, Reasons
  <2> DEFINE ready == [slotted EXCEPT !.at = "ready"]
  <2>2. ready \in Conn
    BY <2>1, ConnFields DEF Places, InSession, Peers, Reasons
  <2>3. conn' = [conn EXCEPT ![c] = ready]
    BY <1>8 DEF Admitted, Step
  <2> HIDE DEF slotted, ready
  <2> DEFINE idle == [session[c] EXCEPT !.task = "idle"]
  <2>4. idle \in Session
    BY <1>types, SessionFields DEF Tasks, Waiting
  <2>5. session' = [session EXCEPT ![c] = idle]
    BY <1>8 DEF Admitted
  <2> HIDE DEF idle
  <2>6. conn' \in [Connections -> Conn] /\ session' \in [Connections -> Session]
    BY <1>types, <2>2, <2>3, <2>4, <2>5, OneChanges
  <2>7. QED
    BY <1>8, <2>6 DEF Admitted, pool
<1>9. ASSUME NEW c \in Connections, Begin(c) PROVE TypeOK'
  <2> DEFINE reading == [conn[c] EXCEPT !.at = "reading"]
  <2>1. reading \in Conn
    BY <1>types, ConnFields DEF Places, InSession, Peers, Reasons
  <2>2. conn' = [conn EXCEPT ![c] = reading]
    BY <1>9 DEF Begin, Step
  <2> HIDE DEF reading
  <2> DEFINE written == [session[c] EXCEPT !.writer = TRUE]
  <2>3. written \in Session
    BY <1>types, SessionFields DEF Tasks, Waiting
  <2>4. session' = [session EXCEPT ![c] = written]
    BY <1>9 DEF Begin
  <2> HIDE DEF written
  <2>5. conn' \in [Connections -> Conn] /\ session' \in [Connections -> Session]
    BY <1>types, <2>1, <2>2, <2>3, <2>4, OneChanges
  <2>6. QED
    BY <1>9, <2>5 DEF Begin, pool
<1>10. ASSUME NEW c \in Connections, Idle(c) PROVE TypeOK'
  <2>1. Ends(FailWith(conn[c], "reading"), "idle_timeout") \in Conn
    BY <1>types, HandlersEnd DEF Places, InSession, Reasons
  <2>2. conn' = [conn EXCEPT ![c] = Ends(FailWith(conn[c], "reading"), "idle_timeout")]
    BY <1>10 DEF Idle
  <2>3. conn' \in [Connections -> Conn] /\ session' \in [Connections -> Session]
    BY <1>10, <1>types, <2>1, <2>2, OneChanges DEF Idle
  <2>4. QED
    BY <1>10, <2>3 DEF Idle, pool
<1>11. ASSUME NEW c \in Connections, Disconnected(c) PROVE TypeOK'
  <2>1. Ends([conn[c] EXCEPT !.open = FALSE], "client_stop") \in Conn
    BY <1>types, ConnFields, HandlersEnd DEF Places, InSession, Reasons, Peers
  <2>2. conn' = [conn EXCEPT ![c] = Ends([conn[c] EXCEPT !.open = FALSE], "client_stop")]
    BY <1>11 DEF Disconnected
  <2>3. conn' \in [Connections -> Conn] /\ session' \in [Connections -> Session]
    BY <1>11, <1>types, <2>1, <2>2, OneChanges DEF Disconnected
  <2>4. QED
    BY <1>11, <2>3 DEF Disconnected, pool
<1>12. ASSUME NEW c \in Connections, FlushAnswered(c) PROVE TypeOK'
  <2>1. Flushed(conn[c]) \in Conn
    BY <1>types, HandlersFlush
  <2>2. conn' = [conn EXCEPT ![c] = Flushed(conn[c])]
    BY <1>12 DEF FlushAnswered
  <2>3. conn' \in [Connections -> Conn] /\ session' \in [Connections -> Session]
    BY <1>12, <1>types, <2>1, <2>2, OneChanges DEF FlushAnswered
  <2>4. QED
    BY <1>12, <2>3 DEF FlushAnswered, pool
<1>13. ASSUME NEW c \in Connections, FlushTimesOut(c) PROVE TypeOK'
  <2>1. Flushed(conn[c]) \in Conn
    BY <1>types, HandlersFlush
  <2>2. conn' = [conn EXCEPT ![c] = Flushed(conn[c])]
    BY <1>13 DEF FlushTimesOut
  <2> DEFINE answered == [session[c] EXCEPT !.flush = "done"]
  <2>3. answered \in Session
    BY <1>types, SessionFields DEF Tasks, Waiting
  <2> DEFINE late == [answered EXCEPT !.late = TRUE]
  <2>4. late \in Session
    BY <2>3, SessionFields DEF Tasks, Waiting
  <2> DEFINE told == [late EXCEPT !.events = session[c].events + 1]
  <2>5. told \in Session
    BY <1>types, <2>4, SessionFields DEF Tasks, Waiting
  <2>6. session' = [session EXCEPT ![c] = told]
    BY <1>13 DEF FlushTimesOut
  <2> HIDE DEF answered, late, told
  <2>7. conn' \in [Connections -> Conn] /\ session' \in [Connections -> Session]
    BY <1>types, <2>1, <2>2, <2>5, <2>6, OneChanges
  <2>8. QED
    BY <1>13, <2>7 DEF FlushTimesOut, pool
<1>14. ASSUME NEW c \in Connections, Drained(c) PROVE TypeOK'
  <2> DEFINE closing == [conn[c] EXCEPT !.at = "closing"]
  <2>1. closing \in Conn
    BY <1>types, ConnFields DEF Places, InSession, Peers, Reasons
  <2>2. conn' = [conn EXCEPT ![c] = closing]
    BY <1>14 DEF Drained, Step
  <2> HIDE DEF closing
  <2> DEFINE unwritten == [session[c] EXCEPT !.writer = FALSE]
  <2>3. unwritten \in Session
    BY <1>types, SessionFields DEF Tasks, Waiting
  <2>4. session' = [session EXCEPT ![c] = unwritten]
    BY <1>14 DEF Drained
  <2> HIDE DEF unwritten
  <2>5. conn' \in [Connections -> Conn] /\ session' \in [Connections -> Session]
    BY <1>types, <2>1, <2>2, <2>3, <2>4, OneChanges
  <2>6. QED
    BY <1>14, <2>5 DEF Drained, pool
<1>15. ASSUME NEW c \in Connections, Close(c) PROVE TypeOK'
  <2> DEFINE releasing == [conn[c] EXCEPT !.at = "releasing"]
  <2>1. releasing \in Conn
    BY <1>types, ConnFields DEF Places, InSession, Peers, Reasons
  <2>2. conn' = [conn EXCEPT ![c] = releasing]
    BY <1>15 DEF Close, Step
  <2> HIDE DEF releasing
  <2> DEFINE cancelled == [session[c] EXCEPT !.task = "cancelled"]
  <2>3. cancelled \in Session
    BY <1>types, SessionFields DEF Tasks, Waiting
  <2> DEFINE closed == [cancelled EXCEPT !.undecoded = FALSE]
  <2>4. closed \in Session
    BY <2>3, SessionFields DEF Tasks, Waiting
  <2>5. session' = [session EXCEPT ![c] = closed]
    BY <1>15 DEF Close
  <2> HIDE DEF cancelled, closed
  <2>6. conn' \in [Connections -> Conn] /\ session' \in [Connections -> Session]
    BY <1>types, <2>1, <2>2, <2>4, <2>5, OneChanges
  <2>7. QED
    BY <1>15, <2>6, WithoutIsASequence DEF Close, pool
<1>16. ASSUME NEW c \in Connections, Finish(c) PROVE TypeOK'
  <2> DEFINE k == IF conn[c].reason = "exception" THEN FailWith(conn[c], "bye") ELSE conn[c]
  <2>1. k \in Conn
    BY <1>types, HandlersEnd DEF Places, Reasons
  <2> HIDE DEF k
  <2> DEFINE leaving == [k EXCEPT !.at = "bye"]
  <2>2. leaving \in Conn
    BY <2>1, ConnFields DEF Places, Reasons, Peers
  <2> HIDE DEF leaving
  <2> DEFINE left == [leaving EXCEPT !.slot = ~Release(c)]
  <2>3. left \in Conn
    BY <2>2, ConnFields DEF Places, Reasons, Peers
  <2>4. conn' = [conn EXCEPT ![c] = left]
    BY <1>16 DEF Finish, k, leaving
  <2>5. active' \in Nat
    BY <1>16 DEF Finish
  <2> HIDE DEF left
  <2>6. QED
    BY <1>16, <2>3, <2>4, <2>5 DEF Finish, pool
<1>17. ASSUME NEW c \in Connections, Goodbye(c) PROVE TypeOK'
  <2> DEFINE over == [FailWith(conn[c], "over") EXCEPT !.reason = "error"]
             left == [NoSession EXCEPT !.task = "cancelled"]
  <2>1. FailWith(conn[c], "over") \in Conn
    BY <1>types, HandlersEnd DEF Places, Reasons
  <2>2. over \in Conn
    BY <2>1, ConnFields DEF Places, Reasons, Peers
  <2>3. NoSession \in Session
    BY DEF NoSession, Session, Tasks
  <2>4. left \in Session
    BY <2>3, SessionFields DEF Tasks
  <2> HIDE DEF over, left
  <2>5. QED
    BY <1>17, <2>2, <2>4 DEF Goodbye, pool, over, left
<1>18. ASSUME NEW c \in Connections, Submit(c) PROVE TypeOK'
  <2> DEFINE decoded == [session[c] EXCEPT !.undecoded = FALSE]
  <2>1. decoded \in Session
    BY <1>types, SessionFields DEF Tasks, Waiting
  <2> DEFINE waiting == [decoded EXCEPT !.task = IF session[c].flush = "no" THEN "pass" ELSE "final"]
  <2>2. waiting \in Session
    BY <2>1, SessionFields DEF Tasks, Waiting
  <2>3. session' = [session EXCEPT ![c] = waiting]
    BY <1>18 DEF Submit
  <2> HIDE DEF decoded, waiting
  <2>4. conn' \in [Connections -> Conn] /\ session' \in [Connections -> Session]
    BY <1>18, <1>types, <2>2, <2>3, OneChanges DEF Submit
  <2>5. QED
    BY <1>18, <2>4 DEF Submit, pool
<1>19. ASSUME NEW c \in Connections, NothingToDecode(c) PROVE TypeOK'
  <2> DEFINE answered == [session[c] EXCEPT !.flush = "done"]
  <2>1. answered \in Session
    BY <1>types, SessionFields DEF Tasks, Waiting
  <2>2. session' = [session EXCEPT ![c] = answered]
    BY <1>19 DEF NothingToDecode
  <2> HIDE DEF answered
  <2>3. conn' \in [Connections -> Conn] /\ session' \in [Connections -> Session]
    BY <1>19, <1>types, <2>1, <2>2, OneChanges DEF NothingToDecode
  <2>4. QED
    BY <1>19, <2>3 DEF NothingToDecode, pool
<1>20. ASSUME NEW c \in Connections, TaskDies(c) PROVE TypeOK'
  <2> DEFINE dead == [session[c] EXCEPT !.task = "dead"]
  <2>1. dead \in Session
    BY <1>types, SessionFields DEF Tasks, Waiting
  <2> DEFINE answered == [dead EXCEPT !.flush = "done"]
  <2>2. answered \in Session
    BY <2>1, SessionFields DEF Tasks, Waiting
  <2> DEFINE told == [answered EXCEPT !.events = session[c].events + 1]
  <2>3. told \in Session
    BY <1>types, <2>2, SessionFields DEF Tasks, Waiting
  <2>4. session' = [session EXCEPT ![c] = told]
    BY <1>20 DEF TaskDies
  <2> HIDE DEF dead, answered, told
  <2>5. conn' \in [Connections -> Conn] /\ session' \in [Connections -> Session]
    BY <1>20, <1>types, <2>3, <2>4, OneChanges DEF TaskDies
  <2>6. QED
    BY <1>20, <2>5 DEF TaskDies, pool
<1>21. ASSUME NEW c \in Connections, PassEnds(c) PROVE TypeOK'
  <2>1. ASSUME NEW flush \in {"no", "asked", "done"}, NEW new \in {0, 1},
               session' = [session EXCEPT ![c].task = "idle", ![c].flush = flush,
                                          ![c].events = session[c].events + new]
        PROVE  session' \in [Connections -> Session]
    <3> DEFINE idle == [session[c] EXCEPT !.task = "idle"]
    <3>0. session[c].events + new \in Nat
      BY <1>types
    <3>1. idle \in Session
      BY <1>types, SessionFields DEF Tasks
    <3> DEFINE answered == [idle EXCEPT !.flush = flush]
    <3>2. answered \in Session
      BY <3>1, SessionFields DEF Tasks
    <3> DEFINE told == [answered EXCEPT !.events = session[c].events + new]
    <3>3. told \in Session
      BY <3>0, <3>2, SessionFields DEF Tasks
    <3>4. session' = [session EXCEPT ![c] = told]
      BY <2>1
    <3> HIDE DEF told
    <3>5. QED
      BY <3>3, <3>4
  <2>2. CASE session[c].task \notin {"pass", "final"}
    BY <1>21, <2>2 DEF PassEnds
  <2>3. CASE session[c].task = "pass"
    <3>1. PICK new \in {0, 1} :
              session' = [session EXCEPT ![c].task = "idle",
                                         ![c].events = session[c].events + new]
      BY <1>21, <2>3 DEF PassEnds
    <3> DEFINE idle == [session[c] EXCEPT !.task = "idle"]
               told == [idle EXCEPT !.events = session[c].events + new]
    <3>0. session[c].events + new \in Nat
      BY <1>types
    <3>2. idle \in Session
      BY <1>types, SessionFields DEF Tasks
    <3>3. told \in Session
      BY <3>0, <3>2, SessionFields DEF Tasks
    <3>4. session' = [session EXCEPT ![c] = told]
      BY <3>1
    <3> HIDE DEF told
    <3>5. QED
      BY <1>21, <3>3, <3>4 DEF PassEnds
  <2>4. CASE session[c].task = "final"
    BY <1>21, <2>1, <2>4 DEF PassEnds
  <2>5. QED
    BY <1>21, <2>2, <2>3, <2>4 DEF PassEnds
<1>22. ASSUME NEW c \in Connections, Write(c) PROVE TypeOK'
  <2>1. session[c].events - 1 \in Nat
    BY <1>22, <1>types DEF Write
  <2>2. [session[c] EXCEPT !.events = session[c].events - 1] \in Session
    BY <1>22, <1>types, <2>1, SessionFields DEF Write, Tasks
  <2>3. QED
    BY <1>22, <2>2 DEF Write, pool
<1>23. ASSUME NEW c \in Connections, NEW last \in BOOLEAN, Flush(c, last) PROVE TypeOK'
  <2> DEFINE asking == [conn[c] EXCEPT !.at = IF last THEN "stopping" ELSE "flushing"]
  <2>1. asking \in Conn
    BY <1>types, ConnFields DEF Places, InSession, Peers, Reasons
  <2>2. conn' = [conn EXCEPT ![c] = asking]
    BY <1>23 DEF Flush, Step
  <2> HIDE DEF asking
  <2> DEFINE asked == [session[c] EXCEPT !.flush = IF session[c].flush = "no" THEN "asked" ELSE session[c].flush]
  <2>3. asked \in Session
    BY <1>types, SessionFields DEF Tasks, Waiting
  <2>4. session' = [session EXCEPT ![c] = asked]
    BY <1>23 DEF Flush
  <2> HIDE DEF asked
  <2>5. conn' \in [Connections -> Conn] /\ session' \in [Connections -> Session]
    BY <1>types, <2>1, <2>2, <2>3, <2>4, OneChanges
  <2>6. QED
    BY <1>23, <2>5 DEF Flush, pool
<1>24. CASE ThreadTakes
  BY <1>24 DEF ThreadTakes, pool
<1>25. CASE Drop
  BY <1>25 DEF Drop, pool
<1>26. CASE Shutdown
  BY <1>26 DEF Shutdown, pool
<1>27. CASE Stopped
  BY <1>27 DEF Stopped, pool
<1>28. CASE UNCHANGED vars
  BY <1>28 DEF vars
<1>29. QED
  BY <1>1, <1>2, <1>3, <1>4, <1>5, <1>6, <1>7, <1>8, <1>9, <1>10, <1>11, <1>12, <1>13,
     <1>14, <1>15, <1>16, <1>17, <1>18, <1>19, <1>20, <1>21, <1>22, <1>23, <1>24, <1>25,
     <1>26, <1>27, <1>28 DEF Act, HandlerStep, TaskStep

-----------------------------------------------------------------------------
(* The limiter.                                                             *)

LEMMA SlotsStay ==
    ASSUME setup \in Setups, setup' = setup, TypeOK, SlotsInv, [Act]_vars
    PROVE  SlotsInv'
<1> USE DEF TypeOK
<1> DEFINE kept == /\ active' = active
                   /\ \A c \in Connections : /\ conn'[c].at \in InSession <=> conn[c].at \in InSession
                                             /\ conn'[c].slot = conn[c].slot
<1>limit. MaxSessions' = MaxSessions /\ MaxSessions \in Nat \ {0}
  BY Limits DEF MaxSessions
<1>kept. ASSUME kept PROVE SlotsInv'
  <2>1. Holders' = Holders
    BY <1>kept DEF Holders
  <2>2. QED
    BY <1>kept, <1>limit, <2>1 DEF SlotsInv
<1>finite. IsFiniteSet(Holders)
  BY FS_Subset, ConnectionsAssumption DEF Holders
<1> HIDE DEF kept
<1>1. ASSUME NEW c \in Connections, PeerLeaves(c) PROVE SlotsInv'
  <2>1. kept
    BY <1>1 DEF PeerLeaves, kept, Conn, InSession, pool, At, Step, FailWith, Ends
  <2>2. QED
    BY <2>1, <1>kept
<1>2. ASSUME NEW c \in Connections, Accept(c) PROVE SlotsInv'
  <2>1. kept
    BY <1>2 DEF Accept, kept, Conn, InSession, pool, At, Step, FailWith, Ends
  <2>2. QED
    BY <2>1, <1>kept
<1>3. ASSUME NEW c \in Connections, Audio(c) PROVE SlotsInv'
  BY <1>3, <1>kept DEF kept, Audio, pool
<1>4. ASSUME NEW c \in Connections, BadMessage(c) PROVE SlotsInv'
  <2>1. kept
    BY <1>4 DEF BadMessage, kept, Conn, InSession, pool, At, Step, FailWith, Ends
  <2>2. QED
    BY <2>1, <1>kept
<1>5. ASSUME NEW c \in Connections, Raises(c) PROVE SlotsInv'
  <2>1. kept
    BY <1>5 DEF Raises, kept, Conn, InSession, pool, At, Step, FailWith, Ends
  <2>2. QED
    BY <2>1, <1>kept
<1>6. ASSUME NEW c \in Connections, HandshakeFails(c) PROVE SlotsInv'
  <2>1. kept
    BY <1>6 DEF HandshakeFails, kept, Conn, InSession, pool, At, Step, FailWith, Ends
  <2>2. QED
    BY <2>1, <1>kept
<1>7. ASSUME NEW c \in Connections, Rejected(c) PROVE SlotsInv'
  <2>1. kept
    BY <1>7 DEF Rejected, kept, Conn, InSession, pool, At, Step, FailWith, Ends
  <2>2. QED
    BY <2>1, <1>kept
<1>8. ASSUME NEW c \in Connections, Admitted(c) PROVE SlotsInv'
  <2>1. active' = active + 1 /\ active + 1 <= MaxSessions /\ At(c, "handshake")
        /\ conn' = [conn EXCEPT ![c].slot = TRUE, ![c].at = "ready"]
    BY <1>8, <1>limit DEF Admitted, Busy
  <2>2. c \notin Holders
    BY <2>1 DEF Holders, At, InSession
  <2>3. Holders' = Holders \cup {c}
    BY <2>1 DEF Holders, InSession, Conn
  <2>4. Cardinality(Holders') = Cardinality(Holders) + 1
    BY <1>finite, <2>2, <2>3, FS_AddElement
  <2>5. \A d \in Connections : conn'[d].slot <=> d \in Holders'
    BY <2>1, <2>3 DEF SlotsInv, Conn
  <2>6. QED
    BY <1>limit, <2>1, <2>4, <2>5 DEF SlotsInv
<1>9. ASSUME NEW c \in Connections, Begin(c) PROVE SlotsInv'
  <2>1. kept
    BY <1>9 DEF Begin, kept, Conn, InSession, pool, At, Step, FailWith, Ends
  <2>2. QED
    BY <2>1, <1>kept
<1>10. ASSUME NEW c \in Connections, Idle(c) PROVE SlotsInv'
  <2>1. kept
    BY <1>10 DEF Idle, kept, Conn, InSession, pool, At, Step, FailWith, Ends
  <2>2. QED
    BY <2>1, <1>kept
<1>11. ASSUME NEW c \in Connections, Disconnected(c) PROVE SlotsInv'
  <2>1. kept
    BY <1>11 DEF Disconnected, kept, Conn, InSession, pool, At, Step, FailWith, Ends
  <2>2. QED
    BY <2>1, <1>kept
<1>12. ASSUME NEW c \in Connections, FlushAnswered(c) PROVE SlotsInv'
  <2>1. kept
    BY <1>12
       DEF FlushAnswered, kept, Conn, InSession, pool, At, Step, FailWith, Ends, Flushed
  <2>2. QED
    BY <2>1, <1>kept
<1>13. ASSUME NEW c \in Connections, FlushTimesOut(c) PROVE SlotsInv'
  <2>1. kept
    BY <1>13
       DEF FlushTimesOut, kept, Conn, InSession, pool, At, Step, FailWith, Ends, Flushed
  <2>2. QED
    BY <2>1, <1>kept
<1>14. ASSUME NEW c \in Connections, Drained(c) PROVE SlotsInv'
  <2>1. kept
    BY <1>14 DEF Drained, kept, Conn, InSession, pool, At, Step, FailWith, Ends
  <2>2. QED
    BY <2>1, <1>kept
<1>15. ASSUME NEW c \in Connections, Close(c) PROVE SlotsInv'
  <2>1. kept
    BY <1>15 DEF Close, kept, Conn, InSession, pool, At, Step, FailWith, Ends
  <2>2. QED
    BY <2>1, <1>kept
<1>16. ASSUME NEW c \in Connections, Finish(c) PROVE SlotsInv'
  <2>1. c \in Holders /\ conn[c].slot
    BY <1>16 DEF Finish, At, Holders, InSession, SlotsInv
  <2>2. Cardinality(Holders) # 0 /\ Cardinality(Holders) \in Nat
    BY <1>finite, <2>1, FS_EmptySet, FS_CardinalityType
  <2>3. active' = active - 1
    BY <1>16, <2>1, <2>2 DEF Finish, Release, SlotsInv
  <2> DEFINE k == IF conn[c].reason = "exception" THEN FailWith(conn[c], "bye") ELSE conn[c]
             left == [k EXCEPT !.at = "bye", !.slot = FALSE]
  <2>4. conn' = [conn EXCEPT ![c] = left]
    BY <1>16, <2>1 DEF Finish, Release
  <2>5. left.at = "bye" /\ ~left.slot
    BY DEF FailWith, Conn
  <2> HIDE DEF left
  <2>6. Holders' = Holders \ {c}
    BY <2>4, <2>5 DEF Holders, InSession
  <2>7. Cardinality(Holders') = Cardinality(Holders) - 1
    BY <1>finite, <2>1, <2>6, FS_RemoveElement
  <2>8. \A d \in Connections : conn'[d].slot <=> d \in Holders'
    BY <2>4, <2>5, <2>6 DEF SlotsInv
  <2>9. QED
    BY <2>2, <2>3, <2>7, <2>8, <1>limit DEF SlotsInv
<1>17. ASSUME NEW c \in Connections, Goodbye(c) PROVE SlotsInv'
  <2>1. kept
    BY <1>17 DEF Goodbye, kept, Conn, InSession, pool, At, Step, FailWith, Ends
  <2>2. QED
    BY <2>1, <1>kept
<1>18. ASSUME NEW c \in Connections, Submit(c) PROVE SlotsInv'
  BY <1>18, <1>kept DEF kept, Submit, pool
<1>19. ASSUME NEW c \in Connections, NothingToDecode(c) PROVE SlotsInv'
  BY <1>19, <1>kept DEF kept, NothingToDecode, pool
<1>20. ASSUME NEW c \in Connections, TaskDies(c) PROVE SlotsInv'
  BY <1>20, <1>kept DEF kept, TaskDies, pool
<1>21. ASSUME NEW c \in Connections, PassEnds(c) PROVE SlotsInv'
  BY <1>21, <1>kept DEF kept, PassEnds, pool
<1>22. ASSUME NEW c \in Connections, Write(c) PROVE SlotsInv'
  BY <1>22, <1>kept DEF kept, Write, pool
<1>23. ASSUME NEW c \in Connections, NEW last \in BOOLEAN, Flush(c, last) PROVE SlotsInv'
  <2>1. kept
    BY <1>23 DEF Flush, kept, Conn, InSession, pool, At, Step, FailWith, Ends
  <2>2. QED
    BY <2>1, <1>kept
<1>24. CASE ThreadTakes
  BY <1>24, <1>kept DEF kept, ThreadTakes, pool
<1>25. CASE Drop
  BY <1>25, <1>kept DEF kept, Drop, pool
<1>26. CASE Shutdown
  BY <1>26, <1>kept DEF kept, Shutdown, pool
<1>27. CASE Stopped
  BY <1>27, <1>kept DEF kept, Stopped, pool
<1>28. CASE UNCHANGED vars
  BY <1>28, <1>kept DEF kept, vars
<1>29. QED
  BY <1>1, <1>2, <1>3, <1>4, <1>5, <1>6, <1>7, <1>8, <1>9, <1>10, <1>11, <1>12, <1>13,
     <1>14, <1>15, <1>16, <1>17, <1>18, <1>19, <1>20, <1>21, <1>22, <1>23, <1>24, <1>25,
     <1>26, <1>27, <1>28 DEF Act, HandlerStep, TaskStep

-----------------------------------------------------------------------------
(* The tasks, the executor's queue and the flushes.                         *)

LEMMA LiveStays == ASSUME TypeOK, LiveInv, [Act]_vars PROVE LiveInv'
<1> USE DEF TypeOK
<1> USE DEF LiveInv, Live, Conn, Session, InSession, pool, At, Step, FailWith, Ends, NoSession
<1>1. ASSUME NEW c \in Connections, PeerLeaves(c) PROVE LiveInv'
  BY <1>1 DEF PeerLeaves
<1>2. ASSUME NEW c \in Connections, Accept(c) PROVE LiveInv'
  BY <1>2 DEF Accept
<1>3. ASSUME NEW c \in Connections, Audio(c) PROVE LiveInv'
  BY <1>3 DEF Audio
<1>4. ASSUME NEW c \in Connections, BadMessage(c) PROVE LiveInv'
  BY <1>4 DEF BadMessage
<1>5. ASSUME NEW c \in Connections, Raises(c) PROVE LiveInv'
  BY <1>5 DEF Raises
<1>6. ASSUME NEW c \in Connections, HandshakeFails(c) PROVE LiveInv'
  BY <1>6 DEF HandshakeFails
<1>7. ASSUME NEW c \in Connections, Rejected(c) PROVE LiveInv'
  BY <1>7 DEF Rejected
<1>8. ASSUME NEW c \in Connections, Admitted(c) PROVE LiveInv'
  BY <1>8 DEF Admitted
<1>9. ASSUME NEW c \in Connections, Begin(c) PROVE LiveInv'
  BY <1>9 DEF Begin
<1>10. ASSUME NEW c \in Connections, Idle(c) PROVE LiveInv'
  BY <1>10 DEF Idle
<1>11. ASSUME NEW c \in Connections, Disconnected(c) PROVE LiveInv'
  BY <1>11 DEF Disconnected
<1>12. ASSUME NEW c \in Connections, FlushAnswered(c) PROVE LiveInv'
  BY <1>12 DEF FlushAnswered, Flushed
<1>13. ASSUME NEW c \in Connections, FlushTimesOut(c) PROVE LiveInv'
  BY <1>13 DEF FlushTimesOut, Flushed
<1>14. ASSUME NEW c \in Connections, Drained(c) PROVE LiveInv'
  BY <1>14 DEF Drained
<1>15. ASSUME NEW c \in Connections, Close(c) PROVE LiveInv'
  BY <1>15 DEF Close
<1>16. ASSUME NEW c \in Connections, Finish(c) PROVE LiveInv'
  BY <1>16 DEF Finish
<1>17. ASSUME NEW c \in Connections, Goodbye(c) PROVE LiveInv'
  BY <1>17 DEF Goodbye
<1>18. ASSUME NEW c \in Connections, Submit(c) PROVE LiveInv'
  BY <1>18 DEF Submit
<1>19. ASSUME NEW c \in Connections, NothingToDecode(c) PROVE LiveInv'
  BY <1>19 DEF NothingToDecode
<1>20. ASSUME NEW c \in Connections, TaskDies(c) PROVE LiveInv'
  BY <1>20 DEF TaskDies
<1>21. ASSUME NEW c \in Connections, PassEnds(c) PROVE LiveInv'
  <2>1. /\ \/ session[c].task \in Waiting /\ session'[c].task = "idle"
           \/ session'[c] = session[c]
        /\ conn' = conn /\ \A d \in Connections \ {c} : session'[d] = session[d]
    BY <1>21 DEF PassEnds, Waiting
  <2>2. session[c].task \in Waiting => Live(c) /\ session[c].task # "none"
    BY DEF Waiting
  <2> HIDE DEF Session, Conn, InSession
  <2>3. QED
    BY <2>1, <2>2
<1>22. ASSUME NEW c \in Connections, Write(c) PROVE LiveInv'
  BY <1>22 DEF Write
<1>23. ASSUME NEW c \in Connections, NEW last \in BOOLEAN, Flush(c, last) PROVE LiveInv'
  BY <1>23 DEF Flush
<1>24. CASE ThreadTakes
  BY <1>24 DEF ThreadTakes
<1>25. CASE Drop
  BY <1>25 DEF Drop
<1>26. CASE Shutdown
  BY <1>26 DEF Shutdown
<1>27. CASE Stopped
  BY <1>27 DEF Stopped
<1>28. CASE UNCHANGED vars
  BY <1>28 DEF vars
<1>29. QED
  BY <1>1, <1>2, <1>3, <1>4, <1>5, <1>6, <1>7, <1>8, <1>9, <1>10, <1>11, <1>12, <1>13,
     <1>14, <1>15, <1>16, <1>17, <1>18, <1>19, <1>20, <1>21, <1>22, <1>23, <1>24, <1>25,
     <1>26, <1>27, <1>28 DEF Act, HandlerStep, TaskStep

LEMMA FlushStays == ASSUME TypeOK, LiveInv, FlushInv, [Act]_vars PROVE FlushInv'
<1> USE DEF TypeOK
<1> USE DEF FlushInv, LiveInv, Live, Waiting, Conn, Session, InSession, pool, At, Step, FailWith, Ends, NoSession
<1>1. ASSUME NEW c \in Connections, PeerLeaves(c) PROVE FlushInv'
  BY <1>1 DEF PeerLeaves
<1>2. ASSUME NEW c \in Connections, Accept(c) PROVE FlushInv'
  BY <1>2 DEF Accept
<1>3. ASSUME NEW c \in Connections, Audio(c) PROVE FlushInv'
  BY <1>3 DEF Audio
<1>4. ASSUME NEW c \in Connections, BadMessage(c) PROVE FlushInv'
  BY <1>4 DEF BadMessage
<1>5. ASSUME NEW c \in Connections, Raises(c) PROVE FlushInv'
  BY <1>5 DEF Raises
<1>6. ASSUME NEW c \in Connections, HandshakeFails(c) PROVE FlushInv'
  BY <1>6 DEF HandshakeFails
<1>7. ASSUME NEW c \in Connections, Rejected(c) PROVE FlushInv'
  BY <1>7 DEF Rejected
<1>8. ASSUME NEW c \in Connections, Admitted(c) PROVE FlushInv'
  BY <1>8 DEF Admitted
<1>9. ASSUME NEW c \in Connections, Begin(c) PROVE FlushInv'
  BY <1>9 DEF Begin
<1>10. ASSUME NEW c \in Connections, Idle(c) PROVE FlushInv'
  BY <1>10 DEF Idle
<1>11. ASSUME NEW c \in Connections, Disconnected(c) PROVE FlushInv'
  BY <1>11 DEF Disconnected
<1>12. ASSUME NEW c \in Connections, FlushAnswered(c) PROVE FlushInv'
  BY <1>12 DEF FlushAnswered, Flushed
<1>13. ASSUME NEW c \in Connections, FlushTimesOut(c) PROVE FlushInv'
  BY <1>13 DEF FlushTimesOut, Flushed
<1>14. ASSUME NEW c \in Connections, Drained(c) PROVE FlushInv'
  BY <1>14 DEF Drained
<1>15. ASSUME NEW c \in Connections, Close(c) PROVE FlushInv'
  BY <1>15 DEF Close
<1>16. ASSUME NEW c \in Connections, Finish(c) PROVE FlushInv'
  BY <1>16 DEF Finish
<1>17. ASSUME NEW c \in Connections, Goodbye(c) PROVE FlushInv'
  BY <1>17 DEF Goodbye
<1>18. ASSUME NEW c \in Connections, Submit(c) PROVE FlushInv'
  BY <1>18 DEF Submit
<1>19. ASSUME NEW c \in Connections, NothingToDecode(c) PROVE FlushInv'
  BY <1>19 DEF NothingToDecode
<1>20. ASSUME NEW c \in Connections, TaskDies(c) PROVE FlushInv'
  BY <1>20 DEF TaskDies
<1>21. ASSUME NEW c \in Connections, PassEnds(c) PROVE FlushInv'
  <2>1. CASE session[c].task \notin Waiting
    BY <1>21, <2>1 DEF PassEnds, FlushInv, LiveInv, Live, Waiting, Conn, Waiting
  <2>2. CASE session[c].task = "pass"
    <3>1. PICK new \in {0, 1} :
              session' = [session EXCEPT ![c].task = "idle", ![c].events = session[c].events + new]
      BY <1>21, <2>2 DEF PassEnds
    <3>2. session[c].flush = "done" => session[c].late
      BY <2>2 DEF FlushInv, Waiting
    <3>3. QED
      BY <1>21, <3>1, <3>2 DEF PassEnds, Session, FlushInv, LiveInv, Live, Waiting, Conn
  <2>3. CASE session[c].task = "final"
    <3> HIDE DEF FlushInv, Session, InSession, NoSession, FailWith, Ends
    <3>1. session' = [session EXCEPT ![c].task = "idle", ![c].flush = "done",
                                     ![c].events = session[c].events + 1]
      BY <1>21, <2>3 DEF PassEnds
    <3>2. /\ session'[c].flush = "done" /\ session'[c].task = "idle"
          /\ session'[c].undecoded = session[c].undecoded /\ session'[c].late = session[c].late
      BY <3>1 DEF Session
    <3>3. \A d \in Connections \ {c} : session'[d] = session[d]
      BY <3>1
    <3>4. conn' = conn
      BY <1>21 DEF PassEnds
    <3>5. ~session[c].undecoded /\ session[c].flush # "no"
      BY <2>3 DEF FlushInv
    <3>6. session[c].flush = "done" => session[c].late
      BY <2>3 DEF FlushInv, Waiting
    <3>7. QED
      BY <2>3, <3>2, <3>3, <3>4, <3>5, <3>6 DEF FlushInv, LiveInv, Live, Waiting, Conn
  <2>4. QED
    BY <2>1, <2>2, <2>3 DEF Waiting
<1>22. ASSUME NEW c \in Connections, Write(c) PROVE FlushInv'
  BY <1>22 DEF Write
<1>23. ASSUME NEW c \in Connections, NEW last \in BOOLEAN, Flush(c, last) PROVE FlushInv'
  BY <1>23 DEF Flush
<1>24. CASE ThreadTakes
  BY <1>24 DEF ThreadTakes
<1>25. CASE Drop
  BY <1>25 DEF Drop
<1>26. CASE Shutdown
  BY <1>26 DEF Shutdown
<1>27. CASE Stopped
  BY <1>27 DEF Stopped
<1>28. CASE UNCHANGED vars
  BY <1>28 DEF vars
<1>29. QED
  BY <1>1, <1>2, <1>3, <1>4, <1>5, <1>6, <1>7, <1>8, <1>9, <1>10, <1>11, <1>12, <1>13,
     <1>14, <1>15, <1>16, <1>17, <1>18, <1>19, <1>20, <1>21, <1>22, <1>23, <1>24, <1>25,
     <1>26, <1>27, <1>28 DEF Act, HandlerStep, TaskStep

LEMMA SentStays == ASSUME TypeOK, FlushInv, SentInv, [Act]_vars PROVE SentInv'
<1> USE DEF TypeOK
<1> USE DEF FlushInv, SentInv, Waiting, Conn, Session, InSession, pool, At, Step, FailWith, Ends, NoSession
<1>1. ASSUME NEW c \in Connections, PeerLeaves(c) PROVE SentInv'
  BY <1>1 DEF PeerLeaves
<1>2. ASSUME NEW c \in Connections, Accept(c) PROVE SentInv'
  BY <1>2 DEF Accept
<1>3. ASSUME NEW c \in Connections, Audio(c) PROVE SentInv'
  BY <1>3 DEF Audio
<1>4. ASSUME NEW c \in Connections, BadMessage(c) PROVE SentInv'
  BY <1>4 DEF BadMessage
<1>5. ASSUME NEW c \in Connections, Raises(c) PROVE SentInv'
  BY <1>5 DEF Raises
<1>6. ASSUME NEW c \in Connections, HandshakeFails(c) PROVE SentInv'
  BY <1>6 DEF HandshakeFails
<1>7. ASSUME NEW c \in Connections, Rejected(c) PROVE SentInv'
  BY <1>7 DEF Rejected
<1>8. ASSUME NEW c \in Connections, Admitted(c) PROVE SentInv'
  BY <1>8 DEF Admitted
<1>9. ASSUME NEW c \in Connections, Begin(c) PROVE SentInv'
  BY <1>9 DEF Begin
<1>10. ASSUME NEW c \in Connections, Idle(c) PROVE SentInv'
  BY <1>10 DEF Idle
<1>11. ASSUME NEW c \in Connections, Disconnected(c) PROVE SentInv'
  BY <1>11 DEF Disconnected
<1>12. ASSUME NEW c \in Connections, FlushAnswered(c) PROVE SentInv'
  BY <1>12 DEF FlushAnswered, Flushed
<1>13. ASSUME NEW c \in Connections, FlushTimesOut(c) PROVE SentInv'
  BY <1>13 DEF FlushTimesOut, Flushed
<1>14. ASSUME NEW c \in Connections, Drained(c) PROVE SentInv'
  <2>1. session[c].events = 0 \/ conn[c].peer = "silent"
    BY <1>14 DEF Drained, Drain
  <2>2. QED
    BY <1>14, <2>1 DEF Drained, Step, SentInv, Conn, Session
<1>15. ASSUME NEW c \in Connections, Close(c) PROVE SentInv'
  BY <1>15 DEF Close
<1>16. ASSUME NEW c \in Connections, Finish(c) PROVE SentInv'
  BY <1>16 DEF Finish
<1>17. ASSUME NEW c \in Connections, Goodbye(c) PROVE SentInv'
  BY <1>17 DEF Goodbye
<1>18. ASSUME NEW c \in Connections, Submit(c) PROVE SentInv'
  BY <1>18 DEF Submit
<1>19. ASSUME NEW c \in Connections, NothingToDecode(c) PROVE SentInv'
  BY <1>19 DEF NothingToDecode
<1>20. ASSUME NEW c \in Connections, TaskDies(c) PROVE SentInv'
  BY <1>20 DEF TaskDies
<1>21. ASSUME NEW c \in Connections, PassEnds(c) PROVE SentInv'
  <2>1. CASE session[c].task \notin Waiting
    BY <1>21, <2>1 DEF PassEnds, SentInv, FlushInv, Waiting, Conn, Waiting
  <2>2. CASE session[c].task = "pass"
    <3>1. PICK new \in {0, 1} :
              session' = [session EXCEPT ![c].task = "idle", ![c].events = session[c].events + new]
      BY <1>21, <2>2 DEF PassEnds
    <3>2. session[c].flush = "done" => session[c].late
      BY <2>2 DEF FlushInv, Waiting
    <3>3. QED
      BY <1>21, <3>1, <3>2 DEF PassEnds, Session, SentInv, FlushInv, Waiting, Conn
  <2>3. CASE session[c].task = "final"
    <3> HIDE DEF FlushInv, Session, InSession, NoSession, FailWith, Ends
    <3>1. session' = [session EXCEPT ![c].task = "idle", ![c].flush = "done",
                                     ![c].events = session[c].events + 1]
      BY <1>21, <2>3 DEF PassEnds
    <3>2. /\ session'[c].flush = "done" /\ session'[c].task = "idle"
          /\ session'[c].undecoded = session[c].undecoded /\ session'[c].late = session[c].late
      BY <3>1 DEF Session
    <3>3. \A d \in Connections \ {c} : session'[d] = session[d]
      BY <3>1
    <3>4. conn' = conn
      BY <1>21 DEF PassEnds
    <3>5. ~session[c].undecoded /\ session[c].flush # "no"
      BY <2>3 DEF FlushInv
    <3>6. session[c].flush = "done" => session[c].late
      BY <2>3 DEF FlushInv, Waiting
    <3>7. /\ conn[c].at \in {"closing", "releasing", "bye"} /\ conn[c].open
          /\ conn[c].reason = "client_stop"
          => session[c].late
      BY <3>6 DEF FlushInv
    <3> HIDE DEF SentInv, Conn
    <3>8. QED
      BY <3>2, <3>3, <3>4, <3>7 DEF SentInv
  <2>4. QED
    BY <2>1, <2>2, <2>3 DEF Waiting
<1>22. ASSUME NEW c \in Connections, Write(c) PROVE SentInv'
  BY <1>22 DEF Write
<1>23. ASSUME NEW c \in Connections, NEW last \in BOOLEAN, Flush(c, last) PROVE SentInv'
  BY <1>23 DEF Flush
<1>24. CASE ThreadTakes
  BY <1>24 DEF ThreadTakes
<1>25. CASE Drop
  BY <1>25 DEF Drop
<1>26. CASE Shutdown
  BY <1>26 DEF Shutdown
<1>27. CASE Stopped
  BY <1>27 DEF Stopped
<1>28. CASE UNCHANGED vars
  BY <1>28 DEF vars
<1>29. QED
  BY <1>1, <1>2, <1>3, <1>4, <1>5, <1>6, <1>7, <1>8, <1>9, <1>10, <1>11, <1>12, <1>13,
     <1>14, <1>15, <1>16, <1>17, <1>18, <1>19, <1>20, <1>21, <1>22, <1>23, <1>24, <1>25,
     <1>26, <1>27, <1>28 DEF Act, HandlerStep, TaskStep

\* Nobody's task stops to wait, and the queue and the threads are left alone.
LEMMA PoolStays == ASSUME TypeOK, LiveInv, PoolInv, [Act]_vars PROVE PoolInv'
<1> USE DEF TypeOK
<1>pass. \A i \in 1..Len(queued) : queued[i] \in Connections
  OBVIOUS
<1> USE DEF PoolInv, LiveInv, Live, Waiting, Conn, Session, InSession, pool, At, Step, FailWith, Ends, NoSession
<1>1. ASSUME NEW c \in Connections, PeerLeaves(c) PROVE PoolInv'
  BY <1>1 DEF PeerLeaves
<1>2. ASSUME NEW c \in Connections, Accept(c) PROVE PoolInv'
  BY <1>2 DEF Accept
<1>3. ASSUME NEW c \in Connections, Audio(c) PROVE PoolInv'
  BY <1>3 DEF Audio
<1>4. ASSUME NEW c \in Connections, BadMessage(c) PROVE PoolInv'
  BY <1>4 DEF BadMessage
<1>5. ASSUME NEW c \in Connections, Raises(c) PROVE PoolInv'
  BY <1>5 DEF Raises
<1>6. ASSUME NEW c \in Connections, HandshakeFails(c) PROVE PoolInv'
  BY <1>6 DEF HandshakeFails
<1>7. ASSUME NEW c \in Connections, Rejected(c) PROVE PoolInv'
  BY <1>7 DEF Rejected
<1>8. ASSUME NEW c \in Connections, Admitted(c) PROVE PoolInv'
  BY <1>8 DEF Admitted
<1>9. ASSUME NEW c \in Connections, Begin(c) PROVE PoolInv'
  BY <1>9 DEF Begin
<1>10. ASSUME NEW c \in Connections, Idle(c) PROVE PoolInv'
  BY <1>10 DEF Idle
<1>11. ASSUME NEW c \in Connections, Disconnected(c) PROVE PoolInv'
  BY <1>11 DEF Disconnected
<1>12. ASSUME NEW c \in Connections, FlushAnswered(c) PROVE PoolInv'
  BY <1>12 DEF FlushAnswered, Flushed
<1>13. ASSUME NEW c \in Connections, FlushTimesOut(c) PROVE PoolInv'
  BY <1>13 DEF FlushTimesOut, Flushed
<1>14. ASSUME NEW c \in Connections, Drained(c) PROVE PoolInv'
  BY <1>14 DEF Drained
<1>15. ASSUME NEW c \in Connections, Close(c) PROVE PoolInv'
  <2> HIDE DEF PoolInv, LiveInv, Live, Session, Conn, InSession, NoSession, Waiting
  <2>1. /\ session'[c].task = "cancelled" /\ running' = running /\ queued' = Without(queued, c)
        /\ \A d \in Connections \ {c} : session'[d] = session[d]
    BY <1>15 DEF Close, Session
  <2>2. CASE Without(queued, c) = queued /\ \A i \in 1..Len(queued) : queued[i] # c
    BY <1>pass, <2>1, <2>2 DEF PoolInv
  <2>3. ASSUME NEW k \in 1..Len(queued), queued[k] = c, Len(queued') = Len(queued) - 1,
               \A j \in 1..Len(queued) - 1 : queued'[j] = queued[IF j < k THEN j ELSE j + 1]
        PROVE  PoolInv'
    <3> DEFINE old(j) == IF j < k THEN j ELSE j + 1
    <3>1. \A j \in 1..Len(queued') : /\ old(j) \in 1..Len(queued) /\ old(j) # k
                                     /\ queued'[j] = queued[old(j)]
      BY <2>3
    <3>2. \A i, j \in 1..Len(queued') : old(i) = old(j) => i = j
      BY <2>3
    <3> HIDE DEF old
    <3>3. \A j \in 1..Len(queued') : queued'[j] # c /\ queued'[j] \in Connections
      BY <1>pass, <2>3, <3>1 DEF PoolInv
    <3>4. \A j \in 1..Len(queued') : session'[queued'[j]].task \in Waiting /\ queued'[j] \notin running
      BY <2>1, <3>1, <3>3 DEF PoolInv
    <3>5. \A i, j \in 1..Len(queued') : queued'[i] = queued'[j] => i = j
      BY <3>1, <3>2 DEF PoolInv
    <3>6. QED
      BY <2>1, <3>4, <3>5 DEF PoolInv
  <2>4. \/ Without(queued, c) = queued /\ \A i \in 1..Len(queued) : queued[i] # c
        \/ \E k \in 1..Len(queued) :
             /\ queued[k] = c
             /\ Len(Without(queued, c)) = Len(queued) - 1
             /\ \A j \in 1..Len(queued) - 1 :
                  Without(queued, c)[j] = queued[IF j < k THEN j ELSE j + 1]
    BY WithoutLoses
  <2>5. ASSUME NEW k \in 1..Len(queued), queued[k] = c,
               Len(Without(queued, c)) = Len(queued) - 1,
               \A j \in 1..Len(queued) - 1 :
                  Without(queued, c)[j] = queued[IF j < k THEN j ELSE j + 1]
        PROVE  PoolInv'
    BY <2>1, <2>3, <2>5
  <2>6. QED
    BY <2>2, <2>4, <2>5
<1>16. ASSUME NEW c \in Connections, Finish(c) PROVE PoolInv'
  BY <1>16 DEF Finish
<1>17. ASSUME NEW c \in Connections, Goodbye(c) PROVE PoolInv'
  <2>1. session[c].task \notin Waiting
    BY <1>17 DEF Goodbye, At, LiveInv, Live, InSession, Waiting
  <2>2. session'[c].task = "cancelled"
    BY <1>17 DEF Goodbye, NoSession
  <2>3. \A d \in Connections \ {c} : session'[d] = session[d]
    BY <1>17 DEF Goodbye
  <2>4. QED
    BY <1>17, <1>pass, <2>1, <2>2, <2>3 DEF Goodbye, pool, PoolInv
<1>18. ASSUME NEW c \in Connections, Submit(c) PROVE PoolInv'
  <2> HIDE DEF PoolInv, LiveInv, Live, Conn, InSession, NoSession
  <2>1. /\ session[c].task = "idle" /\ session'[c].task \in Waiting
        /\ \A d \in Connections \ {c} : session'[d] = session[d]
        /\ running' = running /\ queued' = Append(queued, c)
    BY <1>18 DEF Submit
  <2>2. /\ Len(queued') = Len(queued) + 1 /\ queued'[Len(queued) + 1] = c
        /\ \A i \in 1..Len(queued) : queued'[i] = queued[i]
    BY <2>1
  <2>3. c \notin running /\ \A i \in 1..Len(queued) : queued[i] # c
    BY <2>1 DEF PoolInv
  <2> HIDE DEF Session, Waiting
  <2>4. \A d \in Connections : session[d].task \in Waiting => session'[d].task \in Waiting
    BY <2>1
  <2>5. QED
    BY <1>pass, <2>1, <2>2, <2>3, <2>4 DEF PoolInv
<1>19. ASSUME NEW c \in Connections, NothingToDecode(c) PROVE PoolInv'
  BY <1>19 DEF NothingToDecode
<1>20. ASSUME NEW c \in Connections, TaskDies(c) PROVE PoolInv'
  BY <1>20 DEF TaskDies
<1>21. ASSUME NEW c \in Connections, PassEnds(c) PROVE PoolInv'
  BY <1>21 DEF PassEnds
<1>22. ASSUME NEW c \in Connections, Write(c) PROVE PoolInv'
  BY <1>22 DEF Write
<1>23. ASSUME NEW c \in Connections, NEW last \in BOOLEAN, Flush(c, last) PROVE PoolInv'
  BY <1>23 DEF Flush
<1>24. CASE ThreadTakes
  BY <1>24 DEF ThreadTakes
<1>25. CASE Drop
  BY <1>25 DEF Drop
<1>26. CASE Shutdown
  BY <1>26 DEF Shutdown
<1>27. CASE Stopped
  BY <1>27 DEF Stopped
<1>28. CASE UNCHANGED vars
  BY <1>28 DEF vars
<1>29. QED
  BY <1>1, <1>2, <1>3, <1>4, <1>5, <1>6, <1>7, <1>8, <1>9, <1>10, <1>11, <1>12, <1>13,
     <1>14, <1>15, <1>16, <1>17, <1>18, <1>19, <1>20, <1>21, <1>22, <1>23, <1>24, <1>25,
     <1>26, <1>27, <1>28 DEF Act, HandlerStep, TaskStep

-----------------------------------------------------------------------------
(***************************************************************************)
(* The types, the limiter, the queue and the flushes hold from the start,   *)
(* however sessions end: websocket.py, limits.py, state.py.                 *)
(***************************************************************************)
THEOREM Invariance == Spec => []IInv
<1>1. IInv /\ [Next]_<<setup, vars>> => IInv'
  <2> SUFFICES ASSUME IInv, [Next]_<<setup, vars>> PROVE IInv'
    OBVIOUS
  <2>1. setup' = setup /\ [Act]_vars
    BY DEF Next
  <2>2. QED
    BY <2>1, TypesStay, SlotsStay, LiveStays, PoolStays, FlushStays, SentStays DEF IInv
<1>2. QED
  BY InitHolds, <1>1, PTL DEF Spec

(***************************************************************************)
(* The limiter counts the handlers in a session, never more than it may,    *)
(* and only they have a task: try_acquire and release of limits.py, and     *)
(* the finally of websocket.py's dictation.                                 *)
(***************************************************************************)
THEOREM LimiterIsExact == Spec => []CapacityHolds
<1>1. IInv => CapacityHolds
  BY DEF IInv, SlotsInv, LiveInv, CapacityHolds, Holders
<1>2. QED
  BY <1>1, Invariance, PTL

(***************************************************************************)
(* With a thread per admissible session a pass waits for one only while a   *)
(* pass nobody waits for has it.  For otherwise the sessions of the passes  *)
(* with a thread, and the one of the pass in front, were one too many.      *)
(* state.py: ThreadPoolExecutor(max_workers=limits.max_sessions).           *)
(***************************************************************************)
THEOREM AThreadForEveryPass == Spec => []PassWaitsForAbandonedOnes
<1>1. ASSUME IInv PROVE PassWaitsForAbandonedOnes
  <2> SUFFICES ASSUME queued # <<>>, ~(Cardinality(running) < Workers),
                      \A d \in running : Live(d)
               PROVE  FALSE
    BY DEF PassWaitsForAbandonedOnes
  <2> DEFINE c == queued[1]
             served == running \cup {c}
  <2>1. c \in Connections /\ session[c].task \in Waiting /\ c \notin running
    BY <1>1 DEF IInv, TypeOK, PoolInv
  <2>2. running \subseteq Connections /\ served \subseteq Holders
    BY <1>1, <2>1 DEF IInv, TypeOK, LiveInv, Live, Holders, Waiting
  <2>3. IsFiniteSet(Holders) /\ IsFiniteSet(running)
    BY <2>2, FS_Subset, ConnectionsAssumption DEF Holders
  <2>4. Cardinality(served) = Cardinality(running) + 1 /\ Cardinality(running) \in Nat
    BY <2>1, <2>3, FS_AddElement, FS_CardinalityType
  <2>5. Cardinality(served) <= Cardinality(Holders) /\ Cardinality(Holders) <= MaxSessions
    BY <1>1, <2>2, <2>3, FS_Subset DEF IInv, SlotsInv
  <2>6. Cardinality(Holders) \in Nat
    BY <2>3, FS_CardinalityType
  <2>7. QED
    BY <1>1, <2>4, <2>5, <2>6, Limits DEF IInv, Workers
<1>2. QED
  BY <1>1, Invariance, PTL

(***************************************************************************)
(* A client that stops and stays is sent every event before closed, unless  *)
(* the flush was given up or it takes nothing: websocket.py's _drain waits  *)
(* for a queue that nothing adds to any more.                               *)
(***************************************************************************)
THEOREM EveryEventIsSent == Spec => []NothingIsLeftUnsent
<1>1. IInv => NothingIsLeftUnsent
  BY DEF IInv, SentInv, NothingIsLeftUnsent, At
<1>2. QED
  BY <1>1, Invariance, PTL
=============================================================================
