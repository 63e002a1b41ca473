------------------------- MODULE SessionProperties -------------------------
(***************************************************************************)
(* What a streaming session owes its client.                               *)
(***************************************************************************)
EXTENDS StreamingSession

(* The transcripts on the wire are a protocol v1 stream, whitespace apart: *)
(* revisions rise, a final is the last of its utterance, and the committed *)
(* characters of an utterance, through trims, welds and revisions, are     *)
(* only ever added to.                                                     *)
Stream == INSTANCE TranscriptStream WITH
    last <- [utterance |-> wire.utterance, revision |-> wire.revision,
             letters |-> WordsOf(wire.stable), final |-> wire.final]

DeliversAStream == Stream!Spec

(* protocol.md, invariant 1, to the letter: an earlier stable of the same  *)
(* utterance is a prefix of a later one, whitespace included.              *)
StableIsAppendOnly ==
    [][ wire'.utterance = wire.utterance => IsTextPrefix(wire.stable, wire'.stable) ]_wire

\* The words the accurate decoder may read.
AccurateWords == UNION {{text[i].word : i \in DOMAIN text} : text \in Texts}

(* protocol.md, invariant 4, and local drafting's contract: a word only     *)
(* the draft decoder read never becomes stable.                            *)
OnlyAccurateTextIsStable ==
    \A i \in DOMAIN wire.stable : wire.stable[i].word \in AccurateWords

\* The last transcript on the wire shows text no final transcript has sealed; what a
\* revision left over, and no pass has read again, is not sealed (session.py:309-321).
Unsealed == ~wire.final /\ ~wire.carried /\ wire.stable \o wire.partial # NoText

(* An utterance the client has seen is sealed by a final transcript before *)
(* the next one begins; otherwise its last words are lost or left marked.  *)
(* With a draft decoder an accurate pass that reads nothing seals nothing: *)
(* what was shown was only a draft.                                        *)
ShownUtterancesAreSealed ==
    [][ ~HasDraft /\ wire'.utterance # wire.utterance => ~Unsealed ]_wire

(* protocol.md, `flush`: the server decodes what remains and emits a final *)
(* transcript.  Once a flush was answered in time and the queue is         *)
(* drained, no text is shown that a final transcript has not sealed        *)
(* (drafts and what a revision left over excepted, as above).              *)
FlushDeliversFinal ==
    ~HasDraft /\ flushDone /\ ~timedOut /\ events = <<>> => ~Unsealed

(* Speech leaves the buffer only after the accurate decoder was given it,  *)
(* with two exceptions: a window with too little speech to be worth a      *)
(* pass, and frames that arrived while the finalizing decode was running.  *)
SpeechReachesTheDecoder ==
    [][ reader' # "closed" =>
          \A i \in 1 .. Minus(Len(audio.buffer), Len(audio'.buffer)) :
              audio.buffer[i] =>
                  \/ i <= audio.read
                  \/ ~WorthDecoding(audio)
                  \/ task.at = "final" /\ i > task.window ]_audio

(* Every flush is answered, whether or not a decode ever returns.          *)
FlushIsAnswered == reader \in {"flush", "stop"} ~> reader \notin {"flush", "stop"}
=============================================================================
