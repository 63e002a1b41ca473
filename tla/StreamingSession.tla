-------------------------- MODULE StreamingSession --------------------------
(***************************************************************************)
(* server/app/streaming/session.py with the reader and the writer of       *)
(* server/app/api/websocket.py: three asyncio tasks over one session.      *)
(*                                                                         *)
(* asyncio runs a task without interruption up to an await that suspends,  *)
(* so an action here is a stretch of code between two such awaits: the     *)
(* reader's receive() and flush(), the decode task's wake.wait() and its   *)
(* run_in_executor calls, the writer's get().  Putting on the unbounded    *)
(* event queue never suspends.  Audio is counted in units of one frame;    *)
(* texts are token lists (module Agreement).  A definition introduced as a *)
(* mutant is not part of the model: it is the mistake that, put in place   *)
(* of the definition below it, must break a property.                      *)
(***************************************************************************)
EXTENDS Agreement

CONSTANTS
    Setups,          \* the configurations a session may be opened with:
                     \*   texts   what the accurate decoder may read in a window, other than nothing
                     \*   drafts  the same for the draft decoder; {} when none is configured
                     \*   window  streaming.max_window_seconds
    ChunkUnits,      \* streaming.chunk_ms: new audio worth an incremental pass
    SilenceUnits,    \* streaming.silence_ms: trailing silence that ends an utterance
    MinSpeechUnits,  \* streaming.min_speech_ms
    MaxUtterance,    \* streaming.max_utterance_seconds
    RetryUnits,      \* the 2.0 s a failed compaction waits for
    MaxPushes        \* bound on the frames a client sends

ASSUME SetupsAssumption == \A s \in Setups :
    /\ \A text \in s.texts \cup s.drafts : text \in Text \ {<<>>} /\ IsTokenized(text)
    /\ s.window \in 1 .. MaxUtterance
ASSUME UnitsAssumption ==
    /\ {ChunkUnits, SilenceUnits, MaxUtterance, RetryUnits} \subseteq Nat \ {0}
    /\ MinSpeechUnits \in Nat
    /\ MaxPushes \in Nat

VARIABLES
    setup,           \* the configuration of this session; it never changes
    audio,           \* AudioBuffer and SilenceTracker
    utterance,       \* the text state of the utterance in progress
    task,            \* the decode task: where it is suspended, and what it handed out
    wake,            \* _wake
    flushRequested,  \* _flush_requested
    flushDone,       \* _flush_done
    timedOut,        \* some flush gave up waiting
    reader,          \* the websocket reader
    events,          \* the event queue
    wire,            \* the last transcript the writer has sent
    pushed           \* frames accepted so far

audioVars == <<audio, pushed>>
flushVars == <<flushRequested, flushDone, timedOut>>
vars == <<audio, pushed, utterance, task, wake, flushRequested, flushDone,
          timedOut, reader, events, wire>>

Texts == setup.texts
DraftTexts == setup.drafts
MaxWindow == setup.window
HasDraft == DraftTexts # {}
NoText == <<>>

\* carried is history: it shows what a revision left over, which no pass has read again.
Transcript(index, revision, stable, partial, final) ==
    [kind |-> "transcript", utterance |-> index, revision |-> revision,
     stable |-> stable, partial |-> partial, final |-> final, carried |-> FALSE]

Error(code) == [kind |-> "error", code |-> code]

-----------------------------------------------------------------------------
(* Audio: the buffer as speech flags, how much of it a pass has covered    *)
(* (decoded), how much of it the accurate decoder has covered (read), and  *)
(* the silence at the end of what was pushed.  The tracker's timeline and  *)
(* the buffer are always reset together and trimmed from the front, so the *)
(* speech in the window is the speech in the buffer.                       *)

NoAudio == [buffer |-> <<>>, decoded |-> 0, read |-> 0, trailing |-> 0]

SpeechIn(buffer) == Cardinality({i \in 1 .. Len(buffer) : buffer[i]})

WorthDecoding(a) == SpeechIn(a.buffer) > 0 /\ SpeechIn(a.buffer) >= MinSpeechUnits

Minus(m, n) == IF m >= n THEN m - n ELSE 0
Least(m, n) == IF m <= n THEN m ELSE n
Most(m, n) == IF m >= n THEN m ELSE n

PushedOnto(a, speech) ==
    [a EXCEPT !.buffer = Append(@, speech),
              !.trailing = IF speech THEN 0 ELSE @ + 1]

TrimBefore(a, units) ==
    LET drop == Least(units, Len(a.buffer))
    IN  [a EXCEPT !.buffer = Beyond(@, drop),
                  !.decoded = Minus(@, drop),
                  !.read = Minus(@, drop)]

KeepTail(a, units) ==
    LET drop == Minus(Len(a.buffer), units)
    IN  [a EXCEPT !.buffer = Beyond(@, drop),
                  !.decoded = Len(a.buffer) - drop,
                  !.read = Minus(@, drop)]

\* snapshot() and mark_decoded() for a pass of the given decoder.
HandedOut(a, accurate) ==
    [a EXCEPT !.decoded = Len(a.buffer),
              !.read = IF accurate THEN Len(a.buffer) ELSE @]

\* "Nothing worth decoding yet": only a short pre-roll is kept.
PreRoll(a) ==
    IF Len(a.buffer) > 2 * SilenceUnits THEN KeepTail(a, SilenceUnits) ELSE a

-----------------------------------------------------------------------------
(* The text of the utterance in progress; out collects the transcripts of  *)
(* the current step, which go to the queue when the step ends.             *)

NewUtterance(index, revision) ==
    [index |-> index, revision |-> revision, agreement |-> Fresh,
     hypothesis |-> NoText, prefix |-> NoText, shown |-> <<>>, retryAt |-> 0,
     out |-> <<>>]

\* Mutant: a transcript that commits nothing new is suppressed, final or not.
EmitCommits(u, stable, partial, final) ==
    IF u.shown # <<>> /\ u.shown[1] = stable
    THEN u
    ELSE [u EXCEPT !.revision = @ + 1,
                   !.shown = <<stable, partial>>,
                   !.out = Append(@, Transcript(u.index, u.revision + 1, stable, partial, final))]

\* _emit: shown is _last_emitted, empty for None.
Emit(u, stable, partial, final) ==
    IF ~final /\ u.shown = <<stable, partial>>
    THEN u
    ELSE [u EXCEPT !.revision = @ + 1,
                   !.shown = <<stable, partial>>,
                   !.out = Append(@, Transcript(u.index, u.revision + 1, stable, partial, final))]

\* _emit of what a revision left over; _last_emitted is None.
EmitCarried(u, stable, partial) ==
    [u EXCEPT !.revision = @ + 1,
              !.shown = <<stable, partial>>,
              !.out = Append(@, [Transcript(u.index, u.revision + 1, stable, partial, FALSE)
                                   EXCEPT !.carried = TRUE])]

\* _start_new_utterance's id.  Mutant: the old one.
SameIndex(u) == u.index
NextIndex(u) == u.index + 1

\* A fresh utterance id, as both conflict paths open one.
Rotated(u) ==
    [u EXCEPT !.index = NextIndex(u), !.prefix = NoText, !.agreement = Fresh, !.shown = <<>>]

\* _close_utterance
Closed(u, text) ==
    LET outcome == CommitAll(u.agreement, text)
        typed == u.agreement.committed
        reopened == Rotated(Emit(u, u.prefix \o typed, NoText, TRUE))
        rest == RemainderAfter(typed, text)
        sealed == CommitAll(Fresh, rest)
    IN  IF u.prefix \o text = NoText THEN u
        ELSE IF ~outcome.conflict
        THEN Emit([u EXCEPT !.agreement = outcome.agreement],
                  u.prefix \o outcome.stable, NoText, TRUE)
        ELSE IF rest = NoText THEN reopened
        ELSE Emit([reopened EXCEPT !.agreement = sealed.agreement], sealed.stable, NoText, TRUE)

(***************************************************************************)
(* The window text an utterance is closed with: the last pass, or what was *)
(* shown before it; with a draft decoder only the accurate pass counts.    *)
(* Mutants: what was shown is forgotten; a draft is committed.             *)
(***************************************************************************)
WindowForgotten(u, text) == IF text # NoText THEN text ELSE u.agreement.committed
WindowDrafted(u, text) == IF text # NoText THEN text ELSE u.hypothesis
LastWindow(u, text) ==
    LET latest == IF text # NoText THEN text ELSE u.hypothesis
    IN  IF HasDraft THEN text
        ELSE IF latest # NoText THEN latest ELSE u.agreement.committed

\* _finalize from its decode on, _reset_utterance included; text is NoText
\* when there was no decode, it failed, or it read nothing.
Finalized(u, text) ==
    LET closed == Closed(IF HasDraft THEN [u EXCEPT !.agreement = Fresh] ELSE u,
                         LastWindow(u, text))
    IN  [NewUtterance(NextIndex(closed), closed.revision) EXCEPT !.out = closed.out]

-----------------------------------------------------------------------------
(* The decode task.  task.at is where it is suspended: "wake" in           *)
(* wake.wait(), "incremental", "compact" or "final" in run_in_executor,    *)
(* "cancelled" after aclose.  task.window is the length of the snapshot    *)
(* handed to the decoder, task.cause why an utterance is being finalized.  *)

Suspended(at, window, cause) == [at |-> at, window |-> window, cause |-> cause]
Waiting == Suspended("wake", 0, "none")
Decoding == task.at \in {"incremental", "compact", "final"}

\* The step's transcripts go to the queue behind what it reported first.
Publish(u, reports) ==
    /\ utterance' = [u EXCEPT !.out = <<>>]
    /\ events' = events \o reports \o u.out

\* Whether a last pass of the accurate decoder is due.  Mutant: not over
\* audio the draft decoder has covered.
LeftToCover(a) == WorthDecoding(a) /\ Len(a.buffer) > a.decoded
LeftToRead(a) == WorthDecoding(a) /\ (HasDraft \/ Len(a.buffer) > a.decoded)

\* _reset_utterance's buffer.reset(), which takes what was pushed meanwhile too.
ResetAudio == audio' = NoAudio

(***************************************************************************)
(* _finalize up to its decode: the accurate model runs unless every sample *)
(* was already read by it.  Without a decode the whole of it is one step.  *)
(***************************************************************************)
BeginFinalize(a, cause, reports) ==
    IF LeftToRead(a)
    THEN /\ task' = Suspended("final", Len(a.buffer), cause)
         /\ audio' = HandedOut(a, TRUE)
         /\ events' = events \o reports
         /\ UNCHANGED <<utterance, flushDone>>
    ELSE /\ task' = Waiting
         /\ ResetAudio
         /\ Publish(Finalized(utterance, NoText), reports)
         /\ flushDone' = (flushDone \/ flushRequested)

\* _step, run by the decode task when it has been woken.
Awake == task.at = "wake" /\ wake /\ wake' = FALSE

StepNothingToDecode ==
    /\ Awake
    /\ ~WorthDecoding(audio)
    /\ IF flushRequested
       THEN BeginFinalize(PreRoll(audio), "flush", <<>>)
       ELSE audio' = PreRoll(audio) /\ UNCHANGED <<task, utterance, events, flushDone>>
    /\ UNCHANGED <<flushRequested, timedOut, reader, wire, pushed>>

StepTooLong ==
    /\ Awake
    /\ WorthDecoding(audio)
    /\ Len(audio.buffer) >= MaxUtterance
    /\ BeginFinalize(audio, "too_long", <<Error("utterance_too_long")>>)
    /\ UNCHANGED <<flushRequested, timedOut, reader, wire, pushed>>

StepFlush ==
    /\ Awake
    /\ WorthDecoding(audio)
    /\ Len(audio.buffer) < MaxUtterance
    /\ flushRequested
    /\ BeginFinalize(audio, "flush", <<>>)
    /\ UNCHANGED <<flushRequested, timedOut, reader, wire, pushed>>

StepSilence ==
    /\ Awake
    /\ WorthDecoding(audio)
    /\ Len(audio.buffer) < MaxUtterance
    /\ ~flushRequested
    /\ audio.trailing >= SilenceUnits
    /\ BeginFinalize(audio, "silence", <<>>)
    /\ UNCHANGED <<flushRequested, timedOut, reader, wire, pushed>>

StepIncremental ==
    /\ Awake
    /\ WorthDecoding(audio)
    /\ Len(audio.buffer) < MaxUtterance
    /\ ~flushRequested
    /\ audio.trailing < SilenceUnits
    /\ IF Len(audio.buffer) - audio.decoded >= ChunkUnits
       THEN /\ task' = Suspended("incremental", Len(audio.buffer), "none")
            /\ audio' = HandedOut(audio, ~HasDraft)
       ELSE UNCHANGED <<task, audio>>
    /\ UNCHANGED <<utterance, events, flushVars, reader, wire, pushed>>

(***************************************************************************)
(* The finalizing decode returns.  Whatever was pushed while it ran goes   *)
(* with the buffer it is reset with.  A flush that arrived meanwhile is    *)
(* served here only when the cause was the length; after a silence the     *)
(* wake it left behind brings the task back.                               *)
(***************************************************************************)
FinishFinalize(text, reports) ==
    /\ task.at = "final"
    /\ task' = Waiting
    /\ ResetAudio
    /\ Publish(Finalized(utterance, text), reports)
    /\ flushDone' = (flushDone \/ task.cause = "flush" \/ (task.cause = "too_long" /\ flushRequested))
    /\ UNCHANGED <<wake, flushRequested, timedOut, reader, wire, pushed>>

FinalDecoded == \E text \in Texts \cup {NoText} : FinishFinalize(text, <<>>)
FinalDecodeFails == FinishFinalize(NoText, <<Error("inference_failed")>>)

\* A pass that failed or read nothing changes nothing else.
NothingRead(reports) ==
    /\ task.at = "incremental"
    /\ task' = Waiting
    /\ events' = events \o reports
    /\ UNCHANGED <<audio, utterance, wake, flushVars, reader, wire, pushed>>

IncrementalReadsNothing == NothingRead(<<>>)
IncrementalFails == NothingRead(<<Error("inference_failed")>>)

(***************************************************************************)
(* Where the decoder's word timings say the committed text ends; 0 when    *)
(* there is no cut: a backend that reports no timings, a revision with     *)
(* fewer characters than the text it is matched against, or a word that    *)
(* ends in the first 0.1 s.                                                *)
(***************************************************************************)
Cuts == 0 .. task.window

\* Single model, the new hypothesis agrees with what is committed.
IncrementalExtends(text) ==
    LET outcome == UpdateAgreement(utterance.agreement, text)
        shown == Emit([utterance EXCEPT !.hypothesis = text, !.agreement = outcome.agreement],
                      utterance.prefix \o outcome.stable, outcome.partial, FALSE)
        mayTrim == Len(audio.buffer) >= MaxWindow /\ outcome.agreement.committed # NoText
    IN  /\ ~outcome.conflict
        /\ \E cut \in IF mayTrim THEN Cuts ELSE {0} :
              IF cut = 0
              THEN /\ Publish(shown, <<>>)
                   /\ UNCHANGED audio
              ELSE /\ Publish([shown EXCEPT !.prefix = @ \o outcome.agreement.committed,
                                            !.agreement = Fresh,
                                            !.hypothesis = NoText], <<>>)
                   /\ audio' = TrimBefore(audio, cut)
        /\ task' = Waiting

\* _close_utterance over the committed text itself, which extends what is committed,
\* except that a weld in it reads as fewer words and so as a revision.
ClosedAsTyped(u) ==
    LET sealed == Emit(u, u.prefix \o u.agreement.committed, NoText, TRUE)
    IN  IF HasWeld(u.agreement.committed) THEN Rotated(sealed) ELSE sealed

\* Single model, the decoder revised committed words: close and reopen.
IncrementalContradicts(text) ==
    LET outcome == UpdateAgreement(utterance.agreement, text)
        typed == outcome.agreement.committed
        closed == ClosedAsTyped([utterance EXCEPT !.agreement = outcome.agreement])
        fresh == [Rotated(closed) EXCEPT !.hypothesis = NoText]
        again == UpdateAgreement(Fresh, RemainderAfter(typed, text))
    IN  /\ outcome.conflict
        /\ \E cut \in Cuts :
              IF cut > 0
              THEN /\ Publish(fresh, <<>>)
                   /\ audio' = TrimBefore(audio, cut)
              ELSE /\ Publish(EmitCarried([fresh EXCEPT !.agreement = again.agreement],
                                          again.stable, again.partial), <<>>)
                   /\ UNCHANGED audio
        /\ task' = Waiting

IncrementalDecoded ==
    /\ ~HasDraft
    /\ task.at = "incremental"
    /\ \E text \in Texts : IncrementalExtends(text) \/ IncrementalContradicts(text)
    /\ UNCHANGED <<wake, flushVars, reader, wire, pushed>>

\* Draft model: its text is only ever the partial; a long window is compacted.
DraftDecoded ==
    /\ HasDraft
    /\ task.at = "incremental"
    /\ \E text \in DraftTexts :
          LET outcome == UpdateAgreement(utterance.agreement, text)
              settled == IF outcome.conflict THEN UpdateAgreement(Fresh, text) ELSE outcome
          IN  Publish(Emit([utterance EXCEPT !.hypothesis = text, !.agreement = settled.agreement],
                           utterance.prefix, text, FALSE), <<>>)
    /\ IF Len(audio.buffer) >= Most(MaxWindow, utterance.retryAt)
       THEN /\ task' = Suspended("compact", Len(audio.buffer), "none")
            /\ audio' = [audio EXCEPT !.read = Len(audio.buffer)]
       ELSE task' = Waiting /\ UNCHANGED audio
    /\ UNCHANGED <<wake, flushVars, reader, wire, pushed>>

\* The accurate reading of all but the tail becomes the committed prefix.
CompactionCommits ==
    /\ task.at = "compact"
    /\ \E text \in Texts, cut \in 1 .. Minus(task.window, Most(SilenceUnits, 2 * ChunkUnits)) :
          LET prefix == utterance.prefix \o [text EXCEPT ![Len(text)].gap = 1]
          IN  /\ Publish(Emit([utterance EXCEPT !.prefix = prefix, !.agreement = Fresh,
                                                !.hypothesis = NoText, !.retryAt = 0],
                              prefix, NoText, FALSE), <<>>)
              /\ audio' = TrimBefore(audio, cut)
    /\ task' = Waiting
    /\ UNCHANGED <<wake, flushVars, reader, wire, pushed>>

\* No safe boundary, or the decode failed: wait for the window to grow.
CompactionFindsNoBoundary ==
    /\ task.at = "compact"
    /\ \E reports \in {<<>>, <<Error("inference_failed")>>} :
          Publish([utterance EXCEPT !.retryAt = task.window + RetryUnits], reports)
    /\ task' = Waiting
    /\ UNCHANGED <<audio, wake, flushVars, reader, wire, pushed>>

-----------------------------------------------------------------------------
(* The reader.  It awaits flush() inline, so it reads nothing meanwhile.   *)

Closing == reader = "closed"

AcceptsAudio == reader = "reading" /\ ~flushRequested

\* Audio after a flush is ignored, so it is not an action.
PushAudio(speech) ==
    /\ AcceptsAudio
    /\ pushed < MaxPushes
    /\ pushed' = pushed + 1
    /\ audio' = PushedOnto(audio, speech)
    /\ wake' = TRUE
    /\ UNCHANGED <<utterance, task, flushVars, reader, events, wire>>

\* flush and stop; both request the flush, once.
RequestFlush(command) ==
    /\ reader = "reading"
    /\ reader' = command
    /\ flushRequested' = TRUE
    /\ wake' = (wake \/ ~flushRequested)
    /\ UNCHANGED <<audioVars, utterance, task, flushDone, timedOut, events, wire>>

FlushReturns ==
    /\ reader \in {"flush", "stop"}
    /\ flushDone
    /\ reader' = IF reader = "flush" THEN "reading" ELSE "draining"
    /\ UNCHANGED <<audioVars, utterance, task, wake, flushVars, events, wire>>

\* Mutant: flush() waits without a limit.
StillTakesLonger == FALSE
TakesTooLong == Decoding

(***************************************************************************)
(* 30 s passed.  Only a decode takes that long: the task does everything   *)
(* else between two turns of the event loop.                               *)
(***************************************************************************)
FlushTimesOut ==
    /\ reader \in {"flush", "stop"}
    /\ ~flushDone
    /\ TakesTooLong
    /\ flushDone' = TRUE
    /\ timedOut' = TRUE
    /\ events' = Append(events, Error("inference_failed"))
    /\ UNCHANGED <<audioVars, utterance, task, wake, flushRequested, reader, wire>>

\* A disconnect, the idle timeout or a fatal client mistake ends the reader.
ReaderEnds ==
    /\ reader = "reading"
    /\ reader' = "draining"
    /\ UNCHANGED <<audioVars, utterance, task, wake, flushVars, events, wire>>

\* _pump's finally and aclose: the writer is cancelled once the queue is empty
\* or 2 s have passed, and the decode task with it.
Close ==
    /\ reader = "draining"
    /\ reader' = "closed"
    /\ task' = Suspended("cancelled", 0, "none")
    /\ audio' = NoAudio
    /\ wake' = TRUE
    /\ UNCHANGED <<utterance, flushVars, events, wire, pushed>>

\* The writer sends the oldest event.
Write ==
    /\ ~Closing
    /\ events # <<>>
    /\ events' = Tail(events)
    /\ wire' = IF Head(events).kind = "transcript" THEN Head(events) ELSE wire
    /\ UNCHANGED <<audioVars, utterance, task, wake, flushVars, reader>>

-----------------------------------------------------------------------------
Init ==
    /\ setup \in Setups
    /\ audio = NoAudio
    /\ utterance = NewUtterance(0, 0)
    /\ task = Waiting
    /\ wake = FALSE
    /\ flushRequested = FALSE
    /\ flushDone = FALSE
    /\ timedOut = FALSE
    /\ reader = "reading"
    /\ events = <<>>
    /\ wire = Transcript(0, 0, NoText, NoText, FALSE)
    /\ pushed = 0

Step == StepNothingToDecode \/ StepTooLong \/ StepFlush \/ StepSilence \/ StepIncremental

DecodeReturns ==
    \/ FinalDecoded \/ FinalDecodeFails
    \/ IncrementalReadsNothing \/ IncrementalFails \/ IncrementalDecoded
    \/ DraftDecoded \/ CompactionCommits \/ CompactionFindsNoBoundary

Reader ==
    \/ \E speech \in BOOLEAN : PushAudio(speech)
    \/ \E command \in {"flush", "stop"} : RequestFlush(command)
    \/ FlushReturns \/ FlushTimesOut \/ ReaderEnds \/ Close

Next == (Step \/ DecodeReturns \/ Reader \/ Write) /\ UNCHANGED setup

Spec == Init /\ [][Next]_<<setup, vars>>

\* asyncio runs every ready task, and its timers fire; a decode may hang, and a
\* client may go on sending nothing.
Fairness == /\ WF_vars(Step)
            /\ WF_vars(FlushReturns)
            /\ WF_vars(FlushTimesOut)
            /\ WF_vars(Close)

FairSpec == Spec /\ Fairness
=============================================================================
