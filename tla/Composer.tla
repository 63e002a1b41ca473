------------------------------ MODULE Composer ------------------------------
(***************************************************************************)
(* How a transcript becomes text at the cursor: the Composer of            *)
(* client/internal/input/composer.go over the keystrokeComposer of         *)
(* client/internal/platform/keystroke.go and an operating system that      *)
(* types and backspaces.                                                   *)
(*                                                                         *)
(* Text is a sequence of characters.  screen is what stands before the     *)
(* cursor: the user's own text, then everything dictation typed.  The last *)
(* Len(marked) characters of it are the provisional tail.  A window that   *)
(* runs as administrator takes no input from a process that does not, and  *)
(* SendInput reports an error: fuse is how many keys the current operation *)
(* still gets through, and jams counts the calls that failed.              *)
(* Definitions introduced as mutants are not part of the model: each is a  *)
(* mistake that, made in the definition below it, must break a property.   *)
(***************************************************************************)
EXTENDS Integers, Sequences, SequencesExt

CONSTANTS
    Char,           \* the characters of a text
    Space,          \* the one that is whitespace
    OwnText,        \* what the user's document held before the cursor
    Stables,        \* the stable texts a server may send
    Partials,       \* the partial texts
    Retractions,    \* whether a server may break the append-only rule
    Fuses,          \* the numbers of keys after which an operation may fail
    MaxKeys,        \* more keys than any operation presses: a fuse that never blows
    WholeCalls,     \* whether a call that fails delivers none of its keys, or the first few
    MaxJams,        \* bound on the failures in a session
    MaxUtterance,   \* bound on the utterances of a session
    MaxRevisions    \* bounds on the transcripts of each session, and with that on the sessions

ASSUME TextsAssumption ==
    Space \in Char /\ OwnText \in Seq(Char) /\ Stables \cup Partials \subseteq Seq(Char)
ASSUME FusesAssumption ==
    {MaxKeys, MaxJams} \subseteq Nat /\ Fuses \subseteq 0 .. MaxKeys /\ WholeCalls \in BOOLEAN
ASSUME LengthsAssumption ==
    MaxUtterance \in Nat /\ MaxRevisions \in Seq(Nat) /\ Retractions \in BOOLEAN

VARIABLES
    composer,   \* the fields of Composer and keystrokeComposer, and the screen
    sent,       \* the last transcript the server sent in this session
    shown,      \* the last transcript Apply rendered
    base,       \* the screen below the utterance in progress
    torn,       \* the utterances dropped or finished in this session
    stranded,   \* the utterance whose tail a drop could not take down
    ended,      \* whether the session's text was dropped or finished
    sessions    \* sessions so far

composerVars == <<composer, sent, shown, base, torn, stranded, ended, sessions>>

NoText == <<>>
NoUtterance == 0

NoTranscript ==
    [utterance |-> NoUtterance, revision |-> 0, stable |-> NoText, partial |-> NoText, final |-> FALSE]

FreshComposer(screen, preview) ==
    [utterance |-> NoUtterance, committed |-> NoText, last |-> 0, composing |-> FALSE,
     wrote |-> FALSE, abandoned |-> NoUtterance, preview |-> preview,
     marked |-> NoText, screen |-> screen, fuse |-> MaxKeys, failed |-> FALSE, jams |-> 0]

EndsInSpace(text) == text # NoText /\ Last(text) = Space

\* strings.TrimPrefix, for a text that is one
Suffix(text, prefix) == SubSeq(text, Len(prefix) + 1, Len(text))

\* What is on screen apart from the provisional tail.
Kept(c) == SubSeq(c.screen, 1, Len(c.screen) - Len(c.marked))

-----------------------------------------------------------------------------
(* The operating system.  An operation that failed does nothing more: every *)
(* caller returns on an error.                                              *)

Arrives(c, count) == c.fuse = MaxKeys \/ count <= c.fuse

\* How many of count key presses are delivered, and what becomes of the fuse.
Delivered(c, count) ==
    IF c.failed \/ count <= 0 THEN 0
    ELSE IF Arrives(c, count) THEN count
    ELSE IF WholeCalls THEN 0 ELSE c.fuse

Press(c, count) ==
    IF c.failed \/ count <= 0 \/ c.fuse = MaxKeys THEN c
    ELSE IF Arrives(c, count) THEN [c EXCEPT !.fuse = @ - count]
    ELSE [c EXCEPT !.failed = TRUE, !.jams = @ + 1]

TypeText(c, text) ==
    [Press(c, Len(text)) EXCEPT !.screen = @ \o SubSeq(text, 1, Delivered(c, Len(text)))]

Backspace(c, count) ==
    [Press(c, count) EXCEPT !.screen = SubSeq(@, 1, Len(@) - Delivered(c, count))]

(* keystrokeComposer *)

\* Mutant: what failed to be typed is counted as marked.
SetMarkedTextAnyway(c, text) ==
    LET shared == LongestCommonPrefix({c.marked, text})
        erased == Backspace(c, Len(c.marked) - Len(shared))
        typed == TypeText(erased, Suffix(text, shared))
    IN  IF c.failed \/ erased.failed THEN erased ELSE [typed EXCEPT !.marked = text]

SetMarkedText(c, text) ==
    LET shared == LongestCommonPrefix({c.marked, text})
        erased == Backspace(c, Len(c.marked) - Len(shared))
        typed == TypeText(erased, Suffix(text, shared))
    IN  IF c.failed \/ erased.failed THEN erased
        ELSE [typed EXCEPT !.marked = IF typed.failed THEN shared ELSE text]

CommitText(c, text) ==
    LET erased == Backspace(c, Len(c.marked))
    IN  IF c.failed \/ erased.failed THEN erased
        ELSE TypeText([erased EXCEPT !.marked = NoText], text)

BeginComposition(c) ==
    IF c.composing THEN c ELSE [c EXCEPT !.composing = TRUE, !.marked = NoText]

EndComposition(c) ==
    IF c.composing THEN [c EXCEPT !.composing = FALSE, !.marked = NoText] ELSE c

CancelComposition(c) ==
    IF c.composing
    THEN Backspace([c EXCEPT !.composing = FALSE, !.marked = NoText], Len(c.marked))
    ELSE c

(* Composer *)

\* Mutant: a space also after text that ends in one.
SeparateAlways(c) ==
    IF c.failed \/ ~c.wrote THEN c
    ELSE CommitText([c EXCEPT !.wrote = FALSE], <<Space>>)

Separate(c) ==
    IF c.failed \/ ~c.wrote THEN c
    ELSE IF EndsInSpace(c.committed) THEN [c EXCEPT !.wrote = FALSE]
    ELSE CommitText([c EXCEPT !.wrote = FALSE], <<Space>>)

\* Mutant: the next utterance starts from the committed text of the last.
NewUtteranceKeepsCommitted(c, event) ==
    IF event.utterance = c.utterance THEN c
    ELSE [EndComposition(c) EXCEPT !.utterance = event.utterance, !.wrote = FALSE]

\* The previous utterance's composition ends, its tail kept.
NewUtterance(c, event) ==
    IF event.utterance = c.utterance THEN c
    ELSE [EndComposition(c) EXCEPT !.utterance = event.utterance, !.committed = NoText,
                                   !.wrote = FALSE]

\* ErrStablePrefixChanged: cancel the tail and ignore the utterance from here on.
Refused(c, event) ==
    [CancelComposition(c) EXCEPT !.abandoned = event.utterance, !.committed = NoText,
                                 !.utterance = NoUtterance, !.last = event.revision,
                                 !.failed = TRUE]

\* Commit what became stable, then mark the partial.
Rendered(c, event) ==
    LET begun == BeginComposition(c)
        delta == Suffix(event.stable, c.committed)
        typed == IF delta = NoText THEN begun ELSE CommitText(begun, delta)
        committed == IF typed.failed \/ delta = NoText THEN typed
                     ELSE [typed EXCEPT !.committed = event.stable, !.wrote = TRUE]
        marked == SetMarkedText(committed, IF c.preview THEN event.partial ELSE NoText)
    IN  IF marked.failed THEN marked ELSE [marked EXCEPT !.last = event.revision]

Sealed(c) ==
    LET separated == Separate(c)
    IN  IF separated.failed THEN separated
        ELSE [EndComposition(separated) EXCEPT !.utterance = NoUtterance, !.committed = NoText]

Applied(c, event) ==
    LET open == NewUtterance(c, event)
        rendered == Rendered(open, event)
    IN  IF event.revision <= c.last THEN c
        ELSE IF event.utterance = c.abandoned THEN [c EXCEPT !.last = event.revision]
        ELSE IF ~IsPrefix(open.committed, event.stable) THEN Refused(open, event)
        ELSE IF rendered.failed \/ ~event.final THEN rendered
        ELSE Sealed(rendered)

\* Mutant: the utterance dropped is not abandoned.
DroppedForgets(c) ==
    IF ~c.composing THEN c
    ELSE IF CancelComposition(c).failed THEN CancelComposition(c)
    ELSE [CancelComposition(c) EXCEPT !.utterance = NoUtterance, !.committed = NoText]

Dropped(c) ==
    IF ~c.composing THEN c
    ELSE IF CancelComposition(c).failed THEN CancelComposition(c)
    ELSE [CancelComposition(c) EXCEPT !.abandoned = c.utterance, !.utterance = NoUtterance,
                                      !.committed = NoText]

Finished(c) ==
    [Separate(EndComposition(c)) EXCEPT !.abandoned = c.utterance, !.utterance = NoUtterance,
                                        !.committed = NoText]

Cleared(c) == FreshComposer(c.screen, c.preview)

\* Before an operation: no error yet, and a fuse for it, one that may blow while the
\* bound on failures allows.
Armed(fuse) == [composer EXCEPT !.failed = FALSE, !.fuse = fuse]
FusesNow == {MaxKeys} \cup (IF composer.jams < MaxJams THEN Fuses ELSE {})

\* After one; the fuse belongs to the operation.
Settled(c) == [c EXCEPT !.fuse = MaxKeys]

-----------------------------------------------------------------------------
Transcripts ==
    [utterance : 1 .. MaxUtterance, revision : 1 .. MaxRevisions[sessions],
     stable : Stables, partial : Partials, final : BOOLEAN]

(* What a protocol v1 server may send next; an utterance it left without a  *)
(* final, or text it shortened, are what the real one is known to send too. *)
MaySend(event) ==
    /\ event.revision = sent.revision + 1
    /\ event.final => event.partial = NoText
    /\ \/ /\ event.utterance = sent.utterance
          /\ ~sent.final
          /\ Retractions \/ IsPrefix(sent.stable, event.stable)
       \/ event.utterance > sent.utterance

Accepted(event) ==
    /\ event.revision > composer.last
    /\ event.utterance # composer.abandoned
    /\ IsPrefix(NewUtterance(composer, event).committed, event.stable)

Apply(event, fuse) ==
    /\ composer' = Settled(Applied(Armed(fuse), event))
    /\ shown' = IF Accepted(event) THEN event ELSE shown
    /\ base' = IF Accepted(event) /\ event.utterance # composer.utterance
               THEN composer.screen ELSE base
    /\ UNCHANGED <<torn, stranded, ended, sessions>>

\* Events may still be buffered when the text was dropped or finished, not when both.
Receive ==
    /\ ended # {"dropped", "finished"}
    /\ \E event \in {e \in Transcripts : MaySend(e)}, fuse \in FusesNow :
          Apply(event, fuse) /\ sent' = event

\* A transcript that was already sent arrives again.
Redeliver ==
    /\ sent.revision > 0
    /\ ended # {"dropped", "finished"}
    /\ \E fuse \in FusesNow : Apply(sent, fuse)
    /\ UNCHANGED sent

DropPartial ==
    /\ \E fuse \in FusesNow : composer' = Settled(Dropped(Armed(fuse)))
    /\ torn' = torn \cup ({composer.utterance} \ {NoUtterance})
    /\ stranded' = IF composer'.failed THEN composer.utterance ELSE stranded
    /\ ended' = ended \cup {"dropped"}
    /\ UNCHANGED <<sent, shown, base, sessions>>

\* Once a session, when Stop is done with it.
Finish ==
    /\ "finished" \notin ended
    /\ \E fuse \in FusesNow : composer' = Settled(Finished(Armed(fuse)))
    /\ torn' = torn \cup ({composer.utterance} \ {NoUtterance})
    /\ ended' = ended \cup {"finished"}
    /\ UNCHANGED <<sent, shown, base, stranded, sessions>>

\* The next session begins, and its server numbers from one again.
Reset ==
    /\ ended # {}
    /\ sessions < Len(MaxRevisions)
    /\ composer' = Cleared(composer)
    /\ sent' = NoTranscript
    /\ shown' = NoTranscript
    /\ base' = composer.screen
    /\ torn' = {}
    /\ stranded' = NoUtterance
    /\ ended' = {}
    /\ sessions' = sessions + 1

\* From the settings window, while nothing is being dictated.
SetLivePreview ==
    /\ ended # {} \/ sent = NoTranscript
    /\ ~composer.composing
    /\ composer' = [composer EXCEPT !.preview = ~@]
    /\ UNCHANGED <<sent, shown, base, torn, stranded, ended, sessions>>

ComposerInit ==
    /\ composer \in {FreshComposer(OwnText, preview) : preview \in BOOLEAN}
    /\ sent = NoTranscript
    /\ shown = NoTranscript
    /\ base = OwnText
    /\ torn = {}
    /\ stranded = NoUtterance
    /\ ended = {}
    /\ sessions = 1

ComposerNext == Receive \/ Redeliver \/ DropPartial \/ Finish \/ Reset \/ SetLivePreview

ComposerSpec == ComposerInit /\ [][ComposerNext]_composerVars

-----------------------------------------------------------------------------
(* Text once committed at the cursor, and whatever stood there before, is   *)
(* never taken back: the screen without its provisional tail only grows     *)
(* ("committed text is already in the user's document and cannot be taken   *)
(* back", composer.go:42), after keys that did not arrive too ("the next    *)
(* call fixes it up rather than backspacing over the user's own text",      *)
(* keystroke.go:60).                                                        *)
KeptTextIsAppendOnly == [][IsPrefix(Kept(composer), Kept(composer'))]_composer

(* While an utterance is in progress the screen is what was there, then its *)
(* stable text exactly once, then the latest partial when the preview is    *)
(* on: TestTheUserSeesTheGrowingHypothesisAtEveryStep, in every order.  A   *)
(* transcript that failed half way does no lasting damage: once one is      *)
(* written the screen is right (TestATypingFailureLeavesAConsistentView).   *)
(* The exception is an utterance whose drop failed: DropPartial neither     *)
(* takes its tail down nor abandons it.                                     *)
ScreenShowsTheHypothesis ==
    composer.utterance \notin {NoUtterance, stranded} /\ composer.last = sent.revision =>
        composer.screen = base \o shown.stable \o (IF composer.preview THEN shown.partial ELSE NoText)

(* A final transcript leaves its stable text on screen once, with exactly   *)
(* one space after it if it wrote anything, whatever was shown before and   *)
(* whatever failed on the way.                                              *)
FinalSealsOnce ==
    [][ shown' # shown /\ shown'.final /\ ~composer'.failed /\ shown'.utterance # stranded =>
          LET gap == IF shown'.stable = NoText \/ EndsInSpace(shown'.stable) THEN NoText ELSE <<Space>>
          IN  /\ composer'.screen = base' \o shown'.stable \o gap
              /\ ~composer'.composing ]_composerVars

(* An utterance that was dropped or finished types nothing any more when    *)
(* its late transcripts arrive: its committed characters are already in the *)
(* document (composer.go:84).                                               *)
TornDownStaysDown ==
    [][ sent' # sent /\ sent'.utterance \in torn \ {stranded} =>
             composer'.screen = composer.screen ]_composerVars
=============================================================================
