-------------------------- MODULE TranscriptStream --------------------------
(***************************************************************************)
(* What protocol v1 promises a client about the transcripts of a session   *)
(* (protocol/v1/protocol.md, Invariants 1 to 3), as the only steps the     *)
(* stream may take.  Committed text is compared without its whitespace.    *)
(***************************************************************************)
EXTENDS Naturals, Sequences, SequencesExt

VARIABLE last   \* the last transcript delivered; revision 0 before the first.  letters is
                \* its stable text without the whitespace

Init == last = [utterance |-> 0, revision |-> 0, letters |-> <<>>, final |-> FALSE]

\* Another transcript of an utterance that is still open only adds to it.
Continue == /\ last'.utterance = last.utterance
            /\ ~last.final
            /\ IsPrefix(last.letters, last'.letters)

\* Utterances are opened in order and never reopened.
Open == last'.utterance > last.utterance

Deliver == /\ last'.revision > last.revision
           /\ Continue \/ Open

Spec == Init /\ [][Deliver]_last
=============================================================================
