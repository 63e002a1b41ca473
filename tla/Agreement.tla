----------------------------- MODULE Agreement -----------------------------
(***************************************************************************)
(* The text algebra of server/app/streaming/local_agreement.py.            *)
(*                                                                         *)
(* A text is a string, given as a list of tokens: a token is a word the    *)
(* decoder said and the amount of whitespace that trails it (0: none), so  *)
(* \o is concatenation and equality is equality byte for byte.  A text the *)
(* decoder said has whitespace after every word but the last.  One that    *)
(* the code pieced together may lack it between two words, which are then  *)
(* one word to whoever reads the string: a weld.  The characters inside a  *)
(* word are abstracted to the identity of the word and to its casefolded   *)
(* form.  An agreement is the pair of fields LocalAgreement keeps, and the *)
(* operators below are its methods, as functions from an agreement and a   *)
(* hypothesis to the next agreement and the result.                        *)
(* Definitions introduced as mutants are not part of the model: each is a  *)
(* mistake that, made in the definition below it, must break a property.   *)
(***************************************************************************)
EXTENDS Naturals, Sequences, SequencesExt, FiniteSets

CONSTANTS Word,             \* the words a decoder may produce
          Fold,             \* casefold(): a word to the representative of its case variants
          MaxGap,           \* the widest run of whitespace after a word
          AgreementWindow   \* n of LocalAgreement-n

ASSUME FoldAssumption == Fold \in [Word -> Word]
ASSUME GapAssumption == MaxGap \in Nat \ {0}
ASSUME WindowAssumption == AgreementWindow \in Nat /\ AgreementWindow >= 2

Token == [word : Word, gap : 0 .. MaxGap]
Text == Seq(Token)

\* What str.strip() and tokenize() leave of what a decoder returns.
IsTokenized(text) == \A i \in 1 .. Len(text) : text[i].gap = 0 <=> i = Len(text)

\* Where the words end that a reader of the string sees.
WordEnds(text) == {i \in 1 .. Len(text) : text[i].gap > 0 \/ i = Len(text)}
HasWeld(text) == Cardinality(WordEnds(text)) < Len(text)

WordsOf(text) == [i \in 1 .. Len(text) |-> text[i].word]
FoldedWords(text) == [i \in 1 .. Len(text) |-> Fold[text[i].word]]

\* text[:n], which Python clips at the end of the list.
Clip(text, n) == SubSeq(text, 1, IF n <= Len(text) THEN n ELSE Len(text))

\* text[n:]
Beyond(text, n) == SubSeq(text, n + 1, Len(text))

(***************************************************************************)
(* s is a prefix of t as a string of characters: every token but the last  *)
(* is the same, and the last is the same word with no more whitespace.     *)
(***************************************************************************)
IsTextPrefix(s, t) ==
    \/ s = <<>>
    \/ /\ Len(s) <= Len(t)
       /\ Clip(s, Len(s) - 1) = Clip(t, Len(s) - 1)
       /\ s[Len(s)].word = t[Len(s)].word
       /\ s[Len(s)].gap <= t[Len(s)].gap

-----------------------------------------------------------------------------
\* LocalAgreement.reset()
Fresh == [committed |-> <<>>, history |-> <<>>]

Agreements == [committed : Text, history : Seq(Text)]

\* What the caller gets back, with the agreement as the call leaves it.
Outcome(agreement, stable, partial, conflict) ==
    [agreement |-> agreement, stable |-> stable, partial |-> partial, conflict |-> conflict]

\* remainder_after(): token position is the alignment.  typed is tokenized again, and
\* words that were welded count as one.
RemainderAfter(typed, hypothesis) == Beyond(hypothesis, Cardinality(WordEnds(typed)))

(***************************************************************************)
(* The hypothesis revises words the user already has, case apart.  Equal   *)
(* words have equal casefolded words, so the two nested tests of the code  *)
(* come to this one.                                                       *)
(***************************************************************************)
Contradicts(agreement, hypothesis) ==
    FoldedWords(Clip(hypothesis, Len(agreement.committed))) # FoldedWords(agreement.committed)

\* Mutant: the casing on screen is not kept.
RecasedAway(agreement, hypothesis) == hypothesis

\* The hypothesis, with the casing already on screen kept when only case differs.
Recased(agreement, hypothesis) ==
    LET n == Len(agreement.committed)
    IN  IF WordsOf(Clip(hypothesis, n)) = WordsOf(agreement.committed)
        THEN hypothesis
        ELSE agreement.committed \o Beyond(hypothesis, n)

\* Mutant: the last word of the hypothesis may be committed too.
AgreedLengthsWithLast(tokens, history, n) ==
    {k \in (n + 1) .. Len(tokens) :
        \A i \in 1 .. Len(history) : IsPrefix(SubSeq(tokens, 1, k), history[i])}

(***************************************************************************)
(* The lengths beyond n at which tokens may be committed: every remembered *)
(* hypothesis starts with the same tokens, and the last of them is not the *)
(* one that may still be growing.                                          *)
(***************************************************************************)
AgreedLengths(tokens, history, n) ==
    {k \in (n + 1) .. Len(tokens) :
        /\ tokens[k].gap > 0
        /\ \A i \in 1 .. Len(history) : IsPrefix(SubSeq(tokens, 1, k), history[i])}

LongestAgreed(tokens, history, n) ==
    {k \in AgreedLengths(tokens, history, n) :
        \A j \in AgreedLengths(tokens, history, n) : j <= k}

\* deque(maxlen = window - 1).append
Remember(history, tokens) ==
    LET grown == Append(history, tokens)
    IN  IF Len(grown) > AgreementWindow - 1 THEN Tail(grown) ELSE grown

\* What update() leaves committed once the hypothesis is re-cased.
CommittedBy(agreement, tokens) ==
    LET n == Len(agreement.committed)
        longest == IF Len(agreement.history) >= AgreementWindow - 1
                   THEN LongestAgreed(tokens, agreement.history, n)
                   ELSE {}
    IN  IF longest = {}
        THEN Clip(tokens, n)                    \* re-anchored onto this hypothesis
        ELSE SubSeq(tokens, 1, CHOOSE k \in longest : TRUE)

\* Mutant: the partial is cut at what was committed before the call.
UpdateCutsEarly(agreement, hypothesis) ==
    LET tokens == Recased(agreement, hypothesis)
        committed == CommittedBy(agreement, tokens)
    IN  IF Contradicts(agreement, hypothesis)
        THEN Outcome([agreement EXCEPT !.history = <<hypothesis>>],
                     agreement.committed, <<>>, TRUE)
        ELSE Outcome([committed |-> committed, history |-> Remember(agreement.history, tokens)],
                     committed, Beyond(tokens, Len(agreement.committed)), FALSE)

UpdateAgreement(agreement, hypothesis) ==
    LET tokens == Recased(agreement, hypothesis)
        committed == CommittedBy(agreement, tokens)
    IN  IF Contradicts(agreement, hypothesis)
        THEN Outcome([agreement EXCEPT !.history = <<hypothesis>>],
                     agreement.committed, <<>>, TRUE)
        ELSE Outcome([committed |-> committed, history |-> Remember(agreement.history, tokens)],
                     committed, Beyond(tokens, Len(committed)), FALSE)

CommitAll(agreement, hypothesis) ==
    LET tokens == Recased(agreement, hypothesis)
    IN  IF Contradicts(agreement, hypothesis)
        THEN Outcome(agreement, agreement.committed, <<>>, TRUE)
        ELSE Outcome([committed |-> tokens, history |-> <<>>], tokens, <<>>, FALSE)
=============================================================================
