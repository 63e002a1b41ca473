--------------------------- MODULE LocalAgreement ---------------------------
(***************************************************************************)
(* The LocalAgreement class of server/app/streaming/local_agreement.py as  *)
(* a state machine: any sequence of update, commit_all and reset calls.    *)
(***************************************************************************)
EXTENDS Agreement

CONSTANT Hypotheses   \* the texts the decoder may hand in, already stripped

ASSUME HypothesesAssumption == \A text \in Hypotheses : text \in Text /\ IsTokenized(text)

VARIABLES agreement,  \* _committed and _history
          result,     \* what the last call returned, and which call it was
          heard       \* the hypotheses of the update calls since the history was last emptied

agreementVars == <<agreement, result, heard>>

NoResult == [call |-> "none", stable |-> <<>>, partial |-> <<>>, conflict |-> FALSE]

Result(call, outcome) ==
    [call |-> call, stable |-> outcome.stable,
     partial |-> outcome.partial, conflict |-> outcome.conflict]

AgreementInit ==
    /\ agreement = Fresh
    /\ result = NoResult
    /\ heard = <<>>

\* heard keeps the last n hypotheses: what LocalAgreement-n is a rule about.
Hear(past, hypothesis) ==
    LET grown == Append(past, hypothesis)
    IN  IF Len(grown) > AgreementWindow THEN Tail(grown) ELSE grown

Update(hypothesis) ==
    LET outcome == UpdateAgreement(agreement, hypothesis)
    IN  /\ agreement' = outcome.agreement
        /\ result' = Result("update", outcome)
        /\ heard' = IF outcome.conflict THEN <<hypothesis>> ELSE Hear(heard, hypothesis)

Commit(hypothesis) ==
    LET outcome == CommitAll(agreement, hypothesis)
    IN  /\ agreement' = outcome.agreement
        /\ result' = Result("commit", outcome)
        /\ heard' = IF outcome.conflict THEN heard ELSE <<>>

Reset == /\ agreement' = Fresh
         /\ result' = NoResult
         /\ heard' = <<>>

AgreementNext ==
    \/ \E hypothesis \in Hypotheses : Update(hypothesis) \/ Commit(hypothesis)
    \/ Reset

AgreementSpec == AgreementInit /\ [][AgreementNext]_agreementVars

-----------------------------------------------------------------------------
(* Types: what the two fields of the class may hold. *)
AgreementTypes ==
    /\ agreement \in Agreements
    /\ Len(agreement.history) < AgreementWindow
    /\ result \in [call : {"none", "update", "commit"}, stable : Text,
                   partial : Text, conflict : BOOLEAN]
    /\ heard \in Seq(Text)

(* The words committed for an utterance are never retracted or rewritten,  *)
(* case included: every call but reset() extends them (AgreementResult     *)
(* .stable, "Never shorter than before", read word by word).               *)
WordsNeverRetracted ==
    [][ \/ IsPrefix(WordsOf(agreement.committed), WordsOf(agreement'.committed))
        \/ agreement' = Fresh ]_agreementVars

(* LocalAgreement-n: a word update() newly commits was said by each of the *)
(* last n hypotheses, and a word of more audio can follow it.              *)
CommittedWasAgreed ==
    [][ result'.call = "update" =>
          \A i \in (Len(agreement.committed) + 1) .. Len(agreement'.committed) :
              /\ Len(heard') = AgreementWindow
              /\ \A h \in 1 .. AgreementWindow :
                    /\ Len(heard'[h]) > i - 1
                    /\ Fold[heard'[h][i].word] = Fold[agreement'.committed[i].word]
              /\ Len(heard'[AgreementWindow]) > i ]_agreementVars

\* The same words, case apart.
SameWords(s, t) ==
    Len(s) = Len(t) /\ \A i \in 1 .. Len(s) : Fold[s[i].word] = Fold[t[i].word]

(* update() reports the whole hypothesis: stable followed by partial is    *)
(* the text just heard, byte for byte (AgreementResult), unless it was     *)
(* heard in another case than the user has it.  Then what was committed    *)
(* stays to the byte and the rest is as heard: a committed text that ends  *)
(* without whitespace is welded to the word after it.                      *)
StablePlusPartialIsHypothesis ==
    [][ result'.call = "update" /\ ~result'.conflict =>
          LET said == heard'[Len(heard')]
              told == result'.stable \o result'.partial
          IN  \/ told = said
              \/ /\ SameWords(told, said) /\ WordsOf(told) # WordsOf(said)
                 /\ IsPrefix(agreement.committed, told)
                 /\ Beyond(told, Len(agreement.committed))
                      = Beyond(said, Len(agreement.committed)) ]_agreementVars

(* The history is what was last heard, re-cased and all but the newest of  *)
(* a full window: no hypothesis is remembered twice, skipped or mixed with *)
(* one from before a conflict or a commit.                                 *)
HistoryIsHeard ==
    LET history == agreement.history
    IN  /\ Len(heard) <= AgreementWindow
        /\ Len(history) = IF Len(heard) = AgreementWindow THEN AgreementWindow - 1 ELSE Len(heard)
        /\ \A i \in 1 .. Len(history) :
              SameWords(history[i], heard[Len(heard) - Len(history) + i])
=============================================================================
