---------------------------- MODULE SessionProofs ----------------------------
(***************************************************************************)
(* What LocalAgreement and the streaming session owe a client, for any     *)
(* texts, units of audio and number of frames.  First come the theorems    *)
(* about the text algebra, for every vocabulary, agreement window and set  *)
(* of stripped hypotheses, then the session that is built on it.           *)
(***************************************************************************)
EXTENDS SessionProperties, LocalAgreement, SequenceTheorems, FiniteSetTheorems, TLAPS

-----------------------------------------------------------------------------
(* LocalAgreement.                                                          *)

(* A sequence is a prefix of another exactly when it agrees with it        *)
(* position by position: what common_prefix() computes.                    *)
LEMMA PrefixPointwise ==
    ASSUME NEW S, NEW s \in Seq(S), NEW t \in Seq(S)
    PROVE  IsPrefix(s, t) <=> /\ Len(s) <= Len(t)
                              /\ \A i \in 1 .. Len(s) : s[i] = t[i]
<1>1. ASSUME Len(s) <= Len(t)
      PROVE  /\ SubSeq(t, 1, Len(s)) \in Seq(S)
             /\ Len(SubSeq(t, 1, Len(s))) = Len(s)
             /\ \A i \in 1 .. Len(s) : SubSeq(t, 1, Len(s))[i] = t[i]
  BY <1>1
<1>2. SubSeq(s, 1, Len(s)) = s
  BY SubSeqFull
<1>3. ASSUME Len(s) <= Len(t), \A i \in 1 .. Len(s) : s[i] = t[i]
      PROVE  s = SubSeq(t, 1, Len(s))
  BY <1>1, <1>3, SeqEqual
<1> QED
  BY <1>1, <1>2, <1>3 DEF IsPrefix

(* A token of a text has a word of the vocabulary.                         *)
LEMMA WordAt ==
    ASSUME NEW s \in Text, NEW i \in 1 .. Len(s)
    PROVE  s[i].word \in Word /\ Fold[s[i].word] \in Word
<1>1. s[i] \in Token
  BY DEF Text
<1> QED
  BY <1>1, FoldAssumption DEF Token

(* _words() keeps the number of tokens and drops their whitespace.         *)
LEMMA WordsOfText ==
    ASSUME NEW s \in Text
    PROVE  /\ WordsOf(s) \in Seq(Word)
           /\ Len(WordsOf(s)) = Len(s)
           /\ \A i \in 1 .. Len(s) : WordsOf(s)[i] = s[i].word
<1>1. \A i \in 1 .. Len(s) : s[i].word \in Word
  BY WordAt
<1>2. Len(s) \in Nat
  BY DEF Text
<1> QED
  BY <1>1, <1>2 DEF WordsOf

(* Casefolded words: the same, word by word.                               *)
LEMMA FoldedWordsOfText ==
    ASSUME NEW s \in Text
    PROVE  /\ FoldedWords(s) \in Seq(Word)
           /\ Len(FoldedWords(s)) = Len(s)
           /\ \A i \in 1 .. Len(s) : FoldedWords(s)[i] = Fold[s[i].word]
<1>1. \A i \in 1 .. Len(s) : Fold[s[i].word] \in Word
  BY WordAt
<1>2. Len(s) \in Nat
  BY DEF Text
<1> QED
  BY <1>1, <1>2 DEF FoldedWords

(* text[:n]                                                                *)
LEMMA ClipOfText ==
    ASSUME NEW s \in Text, NEW n \in Nat
    PROVE  /\ Clip(s, n) \in Text
           /\ Len(Clip(s, n)) = (IF n <= Len(s) THEN n ELSE Len(s))
           /\ \A i \in 1 .. Len(Clip(s, n)) : Clip(s, n)[i] = s[i]
  BY DEF Clip, Text

(* text[n:]                                                                *)
LEMMA BeyondOfText ==
    ASSUME NEW s \in Text, NEW n \in Nat
    PROVE  /\ Beyond(s, n) \in Text
           /\ n <= Len(s) => Len(Beyond(s, n)) = Len(s) - n
           /\ \A i \in 1 .. Len(Beyond(s, n)) : Beyond(s, n)[i] = s[n + i]
  BY DEF Beyond, Text

-----------------------------------------------------------------------------
(* When nothing committed is contradicted, the hypothesis has a word for   *)
(* every committed one, the same but for case.                             *)
LEMMA UncontradictedHead ==
    ASSUME NEW a \in Agreements, NEW h \in Text, ~Contradicts(a, h)
    PROVE  /\ Len(a.committed) <= Len(h)
           /\ \A i \in 1 .. Len(a.committed) :
                 Fold[h[i].word] = Fold[a.committed[i].word]
<1> DEFINE c == a.committed
           head == Clip(h, Len(c))
<1>1. c \in Text /\ Len(c) \in Nat
  BY DEF Agreements, Text
<1>2. FoldedWords(head) = FoldedWords(c)
  BY DEF Contradicts
<1>3. /\ head \in Text
      /\ Len(head) = (IF Len(c) <= Len(h) THEN Len(c) ELSE Len(h))
      /\ \A i \in 1 .. Len(head) : head[i] = h[i]
  BY <1>1, ClipOfText
<1>4. Len(head) = Len(c)
  BY <1>1, <1>2, <1>3, FoldedWordsOfText
<1>5. Len(c) <= Len(h)
  BY <1>1, <1>3, <1>4 DEF Text
<1>6. ASSUME NEW i \in 1 .. Len(c)
      PROVE  Fold[h[i].word] = Fold[c[i].word]
  <2>1. FoldedWords(head)[i] = Fold[head[i].word] /\ FoldedWords(c)[i] = Fold[c[i].word]
    BY <1>1, <1>3, <1>4, FoldedWordsOfText
  <2> QED
    BY <2>1, <1>2, <1>3, <1>4
<1> QED
  BY <1>5, <1>6

(* Re-casing keeps the hypothesis as long as it was, says the words on     *)
(* screen as they are on screen, and changes nothing else but case.        *)
LEMMA RecasedText ==
    ASSUME NEW a \in Agreements, NEW h \in Text, ~Contradicts(a, h)
    PROVE  /\ Recased(a, h) \in Text
           /\ Len(Recased(a, h)) = Len(h)
           /\ \A i \in 1 .. Len(a.committed) : Recased(a, h)[i].word = a.committed[i].word
           /\ \A i \in (Len(a.committed) + 1) .. Len(h) : Recased(a, h)[i] = h[i]
           /\ \A i \in 1 .. Len(h) : Fold[Recased(a, h)[i].word] = Fold[h[i].word]
<1> DEFINE c == a.committed
           n == Len(c)
<1>1. c \in Text /\ n \in Nat /\ Len(h) \in Nat
  BY DEF Agreements, Text
<1>2. n <= Len(h) /\ \A i \in 1 .. n : Fold[h[i].word] = Fold[c[i].word]
  BY UncontradictedHead
<1>3. CASE WordsOf(Clip(h, n)) = WordsOf(c)
  <2>1. Recased(a, h) = h
    BY <1>3 DEF Recased
  <2>2. ASSUME NEW i \in 1 .. n PROVE h[i].word = c[i].word
    <3>1. Clip(h, n) \in Text /\ Len(Clip(h, n)) = n /\ Clip(h, n)[i] = h[i]
      BY <1>1, <1>2, ClipOfText
    <3>2. WordsOf(Clip(h, n))[i] = h[i].word
      BY <3>1, WordsOfText
    <3>3. WordsOf(c)[i] = c[i].word
      BY <1>1, WordsOfText
    <3> QED
      BY <3>2, <3>3, <1>3
  <2> QED
    BY <2>1, <2>2
<1>4. CASE WordsOf(Clip(h, n)) # WordsOf(c)
  <2>1. Recased(a, h) = c \o Beyond(h, n)
    BY <1>4 DEF Recased
  <2>2. /\ Beyond(h, n) \in Text
        /\ Len(Beyond(h, n)) = Len(h) - n
        /\ \A i \in 1 .. Len(h) - n : Beyond(h, n)[i] = h[n + i]
    BY <1>1, <1>2, BeyondOfText
  <2>3. /\ Recased(a, h) \in Text
        /\ Len(Recased(a, h)) = Len(h)
        /\ \A i \in 1 .. Len(h) :
              Recased(a, h)[i] = IF i <= n THEN c[i] ELSE Beyond(h, n)[i - n]
    <3> DEFINE b == Beyond(h, n)
    <3>1. c \in Seq(Token) /\ b \in Seq(Token) /\ Len(b) = Len(h) - n
      BY <2>2, <1>1 DEF Text
    <3>2. Recased(a, h) = c \o b
      BY <2>1
    <3> HIDE DEF b, c
    <3>3. /\ c \o b \in Seq(Token)
          /\ Len(c \o b) = Len(c) + Len(b)
          /\ \A i \in 1 .. Len(c) + Len(b) :
                (c \o b)[i] = IF i <= Len(c) THEN c[i] ELSE b[i - Len(c)]
      BY <3>1, ConcatProperties
    <3>4. Len(c) + Len(b) = Len(h)
      BY <3>1, <1>1
    <3> QED
      BY <3>2, <3>3, <3>4 DEF Text, b
  <2>4. ASSUME NEW i \in (n + 1) .. Len(h) PROVE Recased(a, h)[i] = h[i]
    <3>1. i \in 1 .. Len(h) /\ i - n \in 1 .. Len(h) - n /\ ~(i <= n) /\ n + (i - n) = i
      BY <1>1
    <3>2. Recased(a, h)[i] = Beyond(h, n)[i - n]
      BY <2>3, <3>1
    <3>3. Beyond(h, n)[i - n] = h[n + (i - n)]
      BY <2>2, <3>1
    <3> QED
      BY <3>1, <3>2, <3>3
  <2>5. \A i \in 1 .. n : Recased(a, h)[i] = c[i]
    BY <2>3, <1>1, <1>2
  <2>6. \A i \in 1 .. Len(h) : Fold[Recased(a, h)[i].word] = Fold[h[i].word]
    BY <2>4, <2>5, <1>1, <1>2
  <2> QED
    BY <2>3, <2>4, <2>5, <2>6
<1> QED
  BY <1>3, <1>4

(* update() commits a prefix of the hypothesis at least as long as what    *)
(* was committed; what it adds is in every remembered hypothesis, and its  *)
(* last token has whitespace after it.                                     *)
LEMMA CommittedPrefix ==
    ASSUME NEW a \in Agreements, NEW tokens \in Text, Len(a.committed) <= Len(tokens)
    PROVE  \E k \in Len(a.committed) .. Len(tokens) :
              /\ CommittedBy(a, tokens) = SubSeq(tokens, 1, k)
              /\ k > Len(a.committed) =>
                    /\ Len(a.history) >= AgreementWindow - 1
                    /\ tokens[k].gap > 0
                    /\ \A i \in 1 .. Len(a.history) :
                          IsPrefix(SubSeq(tokens, 1, k), a.history[i])
<1> DEFINE n == Len(a.committed)
           longest == IF Len(a.history) >= AgreementWindow - 1
                      THEN LongestAgreed(tokens, a.history, n)
                      ELSE {}
<1>1. n \in Nat /\ Len(tokens) \in Nat
  BY DEF Agreements, Text
<1>2. CASE longest = {}
  <2>1. CommittedBy(a, tokens) = Clip(tokens, n)
    BY <1>2 DEF CommittedBy
  <2>2. Clip(tokens, n) = SubSeq(tokens, 1, n)
    BY DEF Clip
  <2> QED
    BY <2>1, <2>2, <1>1
<1>3. CASE longest # {}
  <2> DEFINE k == CHOOSE j \in longest : TRUE
  <2>1. k \in longest
    BY <1>3
  <2>2. Len(a.history) >= AgreementWindow - 1 /\ k \in LongestAgreed(tokens, a.history, n)
    BY <2>1
  <2>3. k \in AgreedLengths(tokens, a.history, n)
    BY <2>2 DEF LongestAgreed
  <2>4. /\ k \in (n + 1) .. Len(tokens)
        /\ tokens[k].gap > 0
        /\ \A i \in 1 .. Len(a.history) : IsPrefix(SubSeq(tokens, 1, k), a.history[i])
    BY <2>3 DEF AgreedLengths
  <2>5. CommittedBy(a, tokens) = SubSeq(tokens, 1, k)
    BY <1>3 DEF CommittedBy
  <2>6. k \in n .. Len(tokens)
    BY <2>4, <1>1
  <2> QED
    BY <2>2, <2>4, <2>5, <2>6
<1> QED
  BY <1>2, <1>3

(* A commitment of one call extends the words of the one before it.        *)
LEMMA CommitmentExtends ==
    ASSUME NEW a \in Agreements, NEW h \in Text, ~Contradicts(a, h),
           NEW k \in Len(a.committed) .. Len(h)
    PROVE  /\ SubSeq(Recased(a, h), 1, k) \in Text
           /\ IsPrefix(WordsOf(a.committed), WordsOf(SubSeq(Recased(a, h), 1, k)))
<1> DEFINE c == a.committed
           t == SubSeq(Recased(a, h), 1, k)
<1>1. c \in Text /\ Len(c) \in Nat /\ Len(h) \in Nat /\ Len(c) <= k
  BY DEF Agreements, Text
<1>2. /\ Recased(a, h) \in Text
      /\ Len(Recased(a, h)) = Len(h)
      /\ \A i \in 1 .. Len(c) : Recased(a, h)[i].word = c[i].word
  BY RecasedText
<1>3. t \in Text /\ Len(t) = k /\ \A i \in 1 .. k : t[i] = Recased(a, h)[i]
  BY <1>1, <1>2 DEF Text
<1>4. /\ WordsOf(c) \in Seq(Word)
      /\ Len(WordsOf(c)) = Len(c)
      /\ \A i \in 1 .. Len(c) : WordsOf(c)[i] = c[i].word
  BY <1>1, WordsOfText
<1>5. /\ WordsOf(t) \in Seq(Word)
      /\ Len(WordsOf(t)) = k
      /\ \A i \in 1 .. k : WordsOf(t)[i] = t[i].word
  BY <1>3, WordsOfText
<1>6. \A i \in 1 .. Len(c) : WordsOf(c)[i] = WordsOf(t)[i]
  BY <1>1, <1>2, <1>3, <1>4, <1>5
<1> HIDE DEF t, c
<1>7. IsPrefix(WordsOf(c), WordsOf(t))
  <2> DEFINE u == WordsOf(c)
             v == WordsOf(t)
  <2>1. u \in Seq(Word) /\ v \in Seq(Word)
    BY <1>4, <1>5
  <2>2. Len(u) <= Len(v) /\ \A i \in 1 .. Len(u) : u[i] = v[i]
    BY <1>1, <1>4, <1>5, <1>6
  <2> HIDE DEF u, v
  <2>3. IsPrefix(u, v)
    BY <2>1, <2>2, PrefixPointwise
  <2> QED
    BY <2>3 DEF u, v
<1> QED
  BY <1>3, <1>7 DEF t, c

(* deque(maxlen = window - 1): never longer than that, the newest last.    *)
LEMMA RememberedTexts ==
    ASSUME NEW history \in Seq(Text), NEW h \in Text, Len(history) < AgreementWindow
    PROVE  /\ Remember(history, h) \in Seq(Text)
           /\ Len(Remember(history, h)) =
                 (IF Len(history) = AgreementWindow - 1 THEN Len(history) ELSE Len(history) + 1)
           /\ \A i \in 1 .. Len(Remember(history, h)) :
                 Remember(history, h)[i] =
                    IF i = Len(Remember(history, h)) THEN h
                    ELSE history[i + Len(history) + 1 - Len(Remember(history, h))]
<1> DEFINE grown == Append(history, h)
<1>1. /\ grown \in Seq(Text)
      /\ Len(grown) = Len(history) + 1
      /\ \A i \in 1 .. Len(history) : grown[i] = history[i]
      /\ grown[Len(history) + 1] = h
  BY AppendProperties
<1>2. Len(history) \in Nat
  OBVIOUS
<1>3. CASE Len(history) = AgreementWindow - 1
  <2>1. Remember(history, h) = Tail(grown)
    BY <1>1, <1>2, <1>3, WindowAssumption DEF Remember
  <2>2. /\ Tail(grown) \in Seq(Text)
        /\ Len(Tail(grown)) = Len(history)
        /\ \A i \in 1 .. Len(history) : Tail(grown)[i] = grown[i + 1]
    <3> HIDE DEF grown
    <3>1. grown # <<>>
      BY <1>1, <1>2
    <3>2. /\ Tail(grown) \in Seq(Text)
          /\ Len(Tail(grown)) = Len(grown) - 1
          /\ \A i \in 1 .. Len(Tail(grown)) : Tail(grown)[i] = grown[i + 1]
      BY <1>1, <3>1, HeadTailProperties
    <3> QED
      BY <1>1, <1>2, <3>2
  <2> HIDE DEF grown
  <2>3. Len(Remember(history, h)) = Len(history)
    BY <2>1, <2>2
  <2>4. ASSUME NEW i \in 1 .. Len(history)
        PROVE  Remember(history, h)[i] = IF i = Len(history) THEN h ELSE history[i + 1]
    <3>1. Remember(history, h)[i] = grown[i + 1]
      BY <2>1, <2>2
    <3>2. i = Len(history) \/ i + 1 \in 1 .. Len(history)
      BY <1>2
    <3> QED
      BY <1>1, <3>1, <3>2
  <2>5. /\ \A i \in 1 .. Len(history) : i + Len(history) + 1 - Len(history) = i + 1
        /\ Remember(history, h) \in Seq(Text)
    BY <1>2, <2>1, <2>2
  <2> QED
    BY <1>3, <2>3, <2>4, <2>5
<1>4. CASE Len(history) # AgreementWindow - 1
  <2>1. Remember(history, h) = grown
    BY <1>1, <1>2, <1>4, WindowAssumption DEF Remember
  <2> QED
    BY <1>1, <1>2, <1>4, <2>1
<1> QED
  BY <1>3, <1>4

(* The window of heard hypotheses slides the same way, one wider.          *)
LEMMA HeardTexts ==
    ASSUME NEW past \in Seq(Text), NEW h \in Text, Len(past) <= AgreementWindow
    PROVE  /\ Hear(past, h) \in Seq(Text)
           /\ Len(Hear(past, h)) =
                 (IF Len(past) = AgreementWindow THEN Len(past) ELSE Len(past) + 1)
           /\ \A i \in 1 .. Len(Hear(past, h)) :
                 Hear(past, h)[i] =
                    IF i = Len(Hear(past, h)) THEN h
                    ELSE past[i + Len(past) + 1 - Len(Hear(past, h))]
<1> DEFINE grown == Append(past, h)
<1>1. /\ grown \in Seq(Text)
      /\ Len(grown) = Len(past) + 1
      /\ \A i \in 1 .. Len(past) : grown[i] = past[i]
      /\ grown[Len(past) + 1] = h
  BY AppendProperties
<1>2. Len(past) \in Nat
  OBVIOUS
<1>3. CASE Len(past) = AgreementWindow
  <2>1. Hear(past, h) = Tail(grown)
    BY <1>1, <1>2, <1>3, WindowAssumption DEF Hear
  <2>2. /\ Tail(grown) \in Seq(Text)
        /\ Len(Tail(grown)) = Len(past)
        /\ \A i \in 1 .. Len(past) : Tail(grown)[i] = grown[i + 1]
    BY <1>1, <1>2, HeadTailProperties, EmptySeq
  <2> QED
    BY <1>1, <1>2, <1>3, <2>1, <2>2
<1>4. CASE Len(past) # AgreementWindow
  <2>1. Hear(past, h) = grown
    BY <1>1, <1>2, <1>4, WindowAssumption DEF Hear
  <2> QED
    BY <1>1, <1>2, <1>4, <2>1
<1> QED
  BY <1>3, <1>4

(* What update() does with a hypothesis it does not contradict.            *)
LEMMA UpdateOutcome ==
    ASSUME NEW a \in Agreements, NEW h \in Text, ~Contradicts(a, h)
    PROVE  \E k \in Len(a.committed) .. Len(h) :
              /\ UpdateAgreement(a, h) =
                    Outcome([committed |-> SubSeq(Recased(a, h), 1, k),
                             history |-> Remember(a.history, Recased(a, h))],
                            SubSeq(Recased(a, h), 1, k), Beyond(Recased(a, h), k), FALSE)
              /\ k > Len(a.committed) =>
                    /\ Len(a.history) >= AgreementWindow - 1
                    /\ Recased(a, h)[k].gap > 0
                    /\ \A i \in 1 .. Len(a.history) :
                          IsPrefix(SubSeq(Recased(a, h), 1, k), a.history[i])
<1> DEFINE tokens == Recased(a, h)
<1>1. tokens \in Text /\ Len(tokens) = Len(h)
  BY RecasedText
<1>2. Len(a.committed) <= Len(tokens)
  BY <1>1, UncontradictedHead
<1>3. PICK k \in Len(a.committed) .. Len(tokens) :
              /\ CommittedBy(a, tokens) = SubSeq(tokens, 1, k)
              /\ k > Len(a.committed) =>
                    /\ Len(a.history) >= AgreementWindow - 1
                    /\ tokens[k].gap > 0
                    /\ \A i \in 1 .. Len(a.history) :
                          IsPrefix(SubSeq(tokens, 1, k), a.history[i])
  <2> HIDE DEF tokens
  <2> QED
    BY <1>1, <1>2, CommittedPrefix
<1>4. k \in Len(a.committed) .. Len(h) /\ k \in Nat /\ k <= Len(tokens)
  BY <1>1, <1>3 DEF Agreements, Text
<1>5. Len(SubSeq(tokens, 1, k)) = k
  <2> HIDE DEF tokens
  <2> QED
    BY <1>1, <1>4 DEF Text
<1>6. UpdateAgreement(a, h) =
        Outcome([committed |-> SubSeq(tokens, 1, k), history |-> Remember(a.history, tokens)],
                SubSeq(tokens, 1, k), Beyond(tokens, k), FALSE)
  BY <1>3, <1>5 DEF UpdateAgreement
<1> QED
  BY <1>3, <1>4, <1>6

-----------------------------------------------------------------------------
AgreementInv == AgreementTypes /\ HistoryIsHeard

(* The first state of the class satisfies the invariant.                   *)
LEMMA AgreementInitHolds == AgreementInit => AgreementInv
<1> SUFFICES ASSUME AgreementInit PROVE AgreementInv
  OBVIOUS
<1>1. <<>> \in Text /\ <<>> \in Seq(Text)
  BY DEF Text
<1>2. Len(<<>>) = 0
  OBVIOUS
<1> QED
  BY <1>1, <1>2, WindowAssumption
  DEF AgreementInit, AgreementInv, AgreementTypes, HistoryIsHeard, Fresh, NoResult, Agreements

(* update() on a hypothesis that revises committed words.                  *)
LEMMA UpdateContradicted ==
    ASSUME AgreementInv, NEW h \in Hypotheses, Update(h), Contradicts(agreement, h)
    PROVE  AgreementInv' /\ agreement'.committed = agreement.committed
<1>1. h \in Text
  BY HypothesesAssumption
<1>2. agreement \in Agreements /\ agreement.committed \in Text
  BY DEF AgreementInv, AgreementTypes, Agreements
<1>3. /\ agreement' = [agreement EXCEPT !.history = <<h>>]
      /\ result' = [call |-> "update", stable |-> agreement.committed,
                    partial |-> <<>>, conflict |-> TRUE]
      /\ heard' = <<h>>
  BY DEF Update, UpdateAgreement, Outcome, Result
<1>4. <<h>> \in Seq(Text) /\ Len(<<h>>) = 1 /\ <<h>>[1] = h
  BY <1>1
<1>5. /\ agreement' \in Agreements
      /\ agreement'.committed = agreement.committed
      /\ agreement'.history = <<h>>
  BY <1>2, <1>3, <1>4 DEF Agreements
<1>6. AgreementTypes'
  <2>1. <<>> \in Text
    BY DEF Text
  <2> QED
    BY <1>2, <1>3, <1>4, <1>5, <2>1, WindowAssumption DEF AgreementTypes
<1>7. HistoryIsHeard'
  BY <1>3, <1>4, <1>5, WindowAssumption DEF HistoryIsHeard, SameWords
<1> QED
  BY <1>5, <1>6, <1>7 DEF AgreementInv

(* update() on a hypothesis that does not: the next state in full.         *)
LEMMA UpdateEffect ==
    ASSUME AgreementInv, NEW h \in Hypotheses, Update(h), ~Contradicts(agreement, h)
    PROVE  \E k \in Len(agreement.committed) .. Len(h) :
              /\ agreement' = [committed |-> SubSeq(Recased(agreement, h), 1, k),
                               history |-> Remember(agreement.history, Recased(agreement, h))]
              /\ result' = [call |-> "update",
                            stable |-> SubSeq(Recased(agreement, h), 1, k),
                            partial |-> Beyond(Recased(agreement, h), k), conflict |-> FALSE]
              /\ heard' = Hear(heard, h)
              /\ k > Len(agreement.committed) =>
                    /\ Len(agreement.history) >= AgreementWindow - 1
                    /\ Recased(agreement, h)[k].gap > 0
                    /\ \A i \in 1 .. Len(agreement.history) :
                          IsPrefix(SubSeq(Recased(agreement, h), 1, k), agreement.history[i])
<1>1. h \in Text /\ agreement \in Agreements
  BY HypothesesAssumption DEF AgreementInv, AgreementTypes
<1>2. PICK k \in Len(agreement.committed) .. Len(h) :
              /\ UpdateAgreement(agreement, h) =
                    Outcome([committed |-> SubSeq(Recased(agreement, h), 1, k),
                             history |-> Remember(agreement.history, Recased(agreement, h))],
                            SubSeq(Recased(agreement, h), 1, k),
                            Beyond(Recased(agreement, h), k), FALSE)
              /\ k > Len(agreement.committed) =>
                    /\ Len(agreement.history) >= AgreementWindow - 1
                    /\ Recased(agreement, h)[k].gap > 0
                    /\ \A i \in 1 .. Len(agreement.history) :
                          IsPrefix(SubSeq(Recased(agreement, h), 1, k), agreement.history[i])
  BY <1>1, UpdateOutcome
<1>3. /\ agreement' = UpdateAgreement(agreement, h).agreement
      /\ result' = Result("update", UpdateAgreement(agreement, h))
      /\ heard' = IF UpdateAgreement(agreement, h).conflict THEN <<h>> ELSE Hear(heard, h)
  BY DEF Update
<1>4. /\ UpdateAgreement(agreement, h).agreement =
            [committed |-> SubSeq(Recased(agreement, h), 1, k),
             history |-> Remember(agreement.history, Recased(agreement, h))]
      /\ Result("update", UpdateAgreement(agreement, h)) =
            [call |-> "update", stable |-> SubSeq(Recased(agreement, h), 1, k),
             partial |-> Beyond(Recased(agreement, h), k), conflict |-> FALSE]
      /\ UpdateAgreement(agreement, h).conflict = FALSE
  BY <1>2 DEF Outcome, Result
<1>5. /\ agreement' = [committed |-> SubSeq(Recased(agreement, h), 1, k),
                       history |-> Remember(agreement.history, Recased(agreement, h))]
      /\ result' = [call |-> "update", stable |-> SubSeq(Recased(agreement, h), 1, k),
                    partial |-> Beyond(Recased(agreement, h), k), conflict |-> FALSE]
      /\ heard' = Hear(heard, h)
  BY <1>3, <1>4
<1> QED
  BY <1>2, <1>5

(* The invariant holds after such an update, and the words only grow.      *)
LEMMA UpdateUncontradicted ==
    ASSUME AgreementInv, NEW h \in Hypotheses, Update(h), ~Contradicts(agreement, h)
    PROVE  AgreementInv' /\ IsPrefix(WordsOf(agreement.committed), WordsOf(agreement'.committed))
<1> DEFINE tokens == Recased(agreement, h)
           history == agreement.history
<1>1. /\ h \in Text /\ agreement \in Agreements /\ agreement.committed \in Text
      /\ history \in Seq(Text) /\ heard \in Seq(Text)
      /\ Len(history) \in Nat /\ Len(heard) \in Nat /\ Len(h) \in Nat
      /\ Len(agreement.committed) \in Nat
      /\ Len(history) < AgreementWindow /\ Len(heard) <= AgreementWindow
  BY HypothesesAssumption DEF AgreementInv, AgreementTypes, HistoryIsHeard, Agreements, Text
<1>2. PICK k \in Len(agreement.committed) .. Len(h) :
              /\ agreement' = [committed |-> SubSeq(tokens, 1, k),
                               history |-> Remember(history, tokens)]
              /\ result' = [call |-> "update", stable |-> SubSeq(tokens, 1, k),
                            partial |-> Beyond(tokens, k), conflict |-> FALSE]
              /\ heard' = Hear(heard, h)
  BY UpdateEffect
<1>3. /\ tokens \in Text
      /\ Len(tokens) = Len(h)
      /\ \A i \in 1 .. Len(h) : Fold[tokens[i].word] = Fold[h[i].word]
  BY <1>1, RecasedText
<1>4. /\ SubSeq(tokens, 1, k) \in Text
      /\ IsPrefix(WordsOf(agreement.committed), WordsOf(SubSeq(tokens, 1, k)))
  BY <1>1, CommitmentExtends
<1>5. k \in Nat /\ k <= Len(tokens)
  BY <1>1, <1>2, <1>3
<1>6. Beyond(tokens, k) \in Text
  BY <1>3, <1>5, BeyondOfText
<1> DEFINE after == Remember(history, tokens)
           said == Hear(heard, h)
<1>7. /\ after \in Seq(Text)
      /\ Len(after) = (IF Len(history) = AgreementWindow - 1 THEN Len(history) ELSE Len(history) + 1)
      /\ \A i \in 1 .. Len(after) :
            after[i] = IF i = Len(after) THEN tokens ELSE history[i + Len(history) + 1 - Len(after)]
  BY <1>1, <1>3, RememberedTexts
<1>8. /\ said \in Seq(Text)
      /\ Len(said) = (IF Len(heard) = AgreementWindow THEN Len(heard) ELSE Len(heard) + 1)
      /\ \A i \in 1 .. Len(said) :
            said[i] = IF i = Len(said) THEN h ELSE heard[i + Len(heard) + 1 - Len(said)]
  BY <1>1, HeardTexts
<1>9. agreement'.committed = SubSeq(tokens, 1, k) /\ agreement'.history = after /\ heard' = said
  BY <1>2
<1> HIDE DEF after, said
<1>10. AgreementTypes'
  <2>1. agreement' \in Agreements
    BY <1>2, <1>4, <1>7 DEF Agreements, after
  <2>2. result' \in [call : {"none", "update", "commit"}, stable : Text,
                      partial : Text, conflict : BOOLEAN]
    BY <1>2, <1>4, <1>6
  <2>3. Len(after) < AgreementWindow
    BY <1>1, <1>7, WindowAssumption
  <2> QED
    BY <1>8, <1>9, <2>1, <2>2, <2>3 DEF AgreementTypes
<1>11. HistoryIsHeard'
  <2>1. Len(history) = IF Len(heard) = AgreementWindow THEN AgreementWindow - 1 ELSE Len(heard)
    BY DEF AgreementInv, HistoryIsHeard
  <2>2. /\ Len(said) <= AgreementWindow /\ Len(said) \in Nat
        /\ Len(after) = IF Len(said) = AgreementWindow THEN AgreementWindow - 1 ELSE Len(said)
        /\ Len(after) \in 1 .. Len(said)
    BY <1>1, <1>7, <1>8, <2>1, WindowAssumption, SMTT(30)
  <2>3. ASSUME NEW i \in 1 .. Len(after)
        PROVE  SameWords(after[i], said[Len(said) - Len(after) + i])
    <3> DEFINE j == Len(said) - Len(after) + i
    <3>1. j \in 1 .. Len(said)
      BY <2>2
    <3>2. CASE i = Len(after)
      <4>1. j = Len(said)
        BY <3>2, <2>2
      <4>2. after[i] = tokens
        BY <3>2, <1>7
      <4>3. said[j] = h
        BY <3>1, <4>1, <1>8
      <4> QED
        BY <4>2, <4>3, <1>3 DEF SameWords
    <3>3. CASE i # Len(after)
      <4> DEFINE m == i + Len(history) + 1 - Len(after)
      <4>1. j # Len(said) /\ j \in 1 .. Len(said)
        BY <3>1, <3>3, <2>2
      <4>2. after[i] = history[m] /\ said[j] = heard[j + Len(heard) + 1 - Len(said)]
        BY <3>3, <4>1, <1>7, <1>8
      <4>3. /\ m \in 1 .. Len(history)
            /\ j + Len(heard) + 1 - Len(said) = Len(heard) - Len(history) + m
        <5>1. Len(after) = (IF Len(history) = AgreementWindow - 1
                            THEN Len(history) ELSE Len(history) + 1)
          BY <1>7
        <5>2. Len(history) \in Nat /\ Len(heard) \in Nat /\ Len(said) \in Nat /\ Len(after) \in Nat
          BY <1>1, <2>2
        <5>3. i \in Nat /\ 1 <= i /\ i < Len(after)
          BY <3>3, <5>2
        <5> HIDE DEF history
        <5> QED
          BY <5>1, <5>2, <5>3
      <4>4. SameWords(history[m], heard[Len(heard) - Len(history) + m])
        BY <4>3 DEF AgreementInv, HistoryIsHeard
      <4> QED
        BY <4>2, <4>3, <4>4
    <3> QED
      BY <3>2, <3>3
  <2> QED
    BY <1>9, <2>2, <2>3 DEF HistoryIsHeard
<1> QED
  BY <1>4, <1>9, <1>10, <1>11 DEF AgreementInv

(* commit_all(): all of the hypothesis, or nothing at all.                 *)
LEMMA CommitPreserves ==
    ASSUME AgreementInv, NEW h \in Hypotheses, Commit(h)
    PROVE  AgreementInv' /\ IsPrefix(WordsOf(agreement.committed), WordsOf(agreement'.committed))
<1>1. /\ h \in Text /\ agreement \in Agreements /\ agreement.committed \in Text
      /\ heard \in Seq(Text)
  BY HypothesesAssumption DEF AgreementInv, AgreementTypes, Agreements
<1>2. /\ agreement' = CommitAll(agreement, h).agreement
      /\ result' = Result("commit", CommitAll(agreement, h))
      /\ heard' = IF CommitAll(agreement, h).conflict THEN heard ELSE <<>>
  BY DEF Commit
<1>3. <<>> \in Text /\ <<>> \in Seq(Text) /\ Len(<<>>) = 0
  BY DEF Text
<1>4. CASE Contradicts(agreement, h)
  <2>1. /\ agreement' = agreement
        /\ result' = [call |-> "commit", stable |-> agreement.committed,
                      partial |-> <<>>, conflict |-> TRUE]
        /\ heard' = heard
    BY <1>2, <1>4 DEF CommitAll, Outcome, Result
  <2>2. AgreementTypes' /\ HistoryIsHeard'
    <3>1. AgreementTypes'
      BY <1>1, <1>3, <2>1 DEF AgreementInv, AgreementTypes
    <3>2. HistoryIsHeard'
      BY <2>1 DEF AgreementInv, HistoryIsHeard
    <3> QED
      BY <3>1, <3>2
  <2>3. IsPrefix(WordsOf(agreement.committed), WordsOf(agreement.committed))
    BY <1>1, WordsOfText, PrefixPointwise
  <2> QED
    BY <2>1, <2>2, <2>3 DEF AgreementInv
<1>5. CASE ~Contradicts(agreement, h)
  <2> DEFINE tokens == Recased(agreement, h)
  <2>1. /\ agreement' = [committed |-> tokens, history |-> <<>>]
        /\ result' = [call |-> "commit", stable |-> tokens, partial |-> <<>>, conflict |-> FALSE]
        /\ heard' = <<>>
    BY <1>2, <1>5 DEF CommitAll, Outcome, Result
  <2>2. tokens \in Text /\ Len(tokens) = Len(h)
    BY <1>1, <1>5, RecasedText
  <2>3. SubSeq(tokens, 1, Len(h)) = tokens
    <3> HIDE DEF tokens
    <3> QED
      BY <2>2, SubSeqFull DEF Text
  <2>4. Len(h) \in Len(agreement.committed) .. Len(h)
    BY <1>1, <1>5, UncontradictedHead DEF Text
  <2>5. IsPrefix(WordsOf(agreement.committed), WordsOf(tokens))
    BY <1>1, <1>5, <2>3, <2>4, CommitmentExtends
  <2>6. AgreementTypes'
    BY <1>3, <2>1, <2>2, WindowAssumption DEF AgreementTypes, Agreements
  <2>7. HistoryIsHeard'
    BY <1>3, <2>1, WindowAssumption DEF HistoryIsHeard
  <2> QED
    BY <2>1, <2>5, <2>6, <2>7 DEF AgreementInv
<1> QED
  BY <1>4, <1>5

(* reset() returns to the first state.                                     *)
LEMMA ResetPreserves ==
    ASSUME AgreementInv, Reset
    PROVE  AgreementInv' /\ agreement' = Fresh
<1>1. AgreementInit'
  BY DEF Reset, AgreementInit
<1> QED
  BY <1>1, AgreementInitHolds, WindowAssumption
  DEF Reset, AgreementInv, AgreementTypes, HistoryIsHeard, Fresh, NoResult, Agreements, Text

(* Every step of the class keeps the invariant.                            *)
LEMMA AgreementInvStays == AgreementInv /\ [AgreementNext]_agreementVars => AgreementInv'
<1> SUFFICES ASSUME AgreementInv, [AgreementNext]_agreementVars PROVE AgreementInv'
  OBVIOUS
<1>1. ASSUME NEW h \in Hypotheses, Update(h) PROVE AgreementInv'
  BY <1>1, UpdateContradicted, UpdateUncontradicted
<1>2. ASSUME NEW h \in Hypotheses, Commit(h) PROVE AgreementInv'
  BY <1>2, CommitPreserves
<1>3. CASE Reset
  BY <1>3, ResetPreserves
<1>4. CASE UNCHANGED agreementVars
  BY <1>4 DEF agreementVars, AgreementInv, AgreementTypes, HistoryIsHeard, SameWords
<1> QED
  BY <1>1, <1>2, <1>3, <1>4 DEF AgreementNext

(* The invariant holds in every reachable state.                           *)
THEOREM AgreementInvariance == AgreementSpec => []AgreementInv
BY AgreementInitHolds, AgreementInvStays, PTL DEF AgreementSpec

(* The fields of the class always hold what they are declared to hold.     *)
THEOREM AgreementTyping == AgreementSpec => []AgreementTypes
<1>1. AgreementInv => AgreementTypes
  BY DEF AgreementInv
<1> QED
  BY <1>1, AgreementInvariance, PTL

(* What update() reports: the re-cased hypothesis, cut in two.             *)
LEMMA UpdateReports ==
    ASSUME AgreementInv, NEW h \in Hypotheses, Update(h), ~Contradicts(agreement, h)
    PROVE  /\ result'.stable \o result'.partial = Recased(agreement, h)
           /\ heard'[Len(heard')] = h
<1> DEFINE tokens == Recased(agreement, h)
<1>1. /\ h \in Text /\ agreement \in Agreements /\ heard \in Seq(Text)
      /\ Len(agreement.committed) \in Nat /\ Len(heard) <= AgreementWindow
  BY HypothesesAssumption DEF AgreementInv, AgreementTypes, HistoryIsHeard, Agreements, Text
<1>2. PICK k \in Len(agreement.committed) .. Len(h) :
              /\ result' = [call |-> "update", stable |-> SubSeq(tokens, 1, k),
                            partial |-> Beyond(tokens, k), conflict |-> FALSE]
              /\ heard' = Hear(heard, h)
  BY UpdateEffect
<1>3. tokens \in Seq(Token) /\ Len(tokens) = Len(h) /\ k \in Nat /\ k <= Len(tokens)
  BY <1>1, <1>2, RecasedText DEF Text
<1>4. SubSeq(tokens, 1, k) \o Beyond(tokens, k) = tokens
  <2> HIDE DEF tokens
  <2>1. SubSeq(tokens, 1, k) \o SubSeq(tokens, k + 1, Len(tokens)) = SubSeq(tokens, 1, Len(tokens))
    <3>1. /\ 1 \in 1 .. Len(tokens) + 1
          /\ k \in (1 - 1) .. Len(tokens)
          /\ Len(tokens) \in k .. Len(tokens)
      BY <1>3
    <3> QED
      BY <1>3, <3>1, ConcatAdjacentSubSeq
  <2>2. SubSeq(tokens, 1, Len(tokens)) = tokens
    BY <1>3, SubSeqFull
  <2> QED
    BY <2>1, <2>2 DEF Beyond
<1>5. heard'[Len(heard')] = h
  <2>1. /\ heard' \in Seq(Text) /\ Len(heard') \in 1 .. Len(heard')
        /\ \A i \in 1 .. Len(heard') : i = Len(heard') => heard'[i] = h
    BY <1>1, <1>2, HeardTexts, WindowAssumption
  <2> QED
    BY <2>1
<1> QED
  BY <1>2, <1>4, <1>5

(* A hypothesis in another case keeps what was committed and what is new.  *)
LEMMA RecasedKeeps ==
    ASSUME NEW a \in Agreements, NEW h \in Text, ~Contradicts(a, h), Recased(a, h) # h
    PROVE  /\ SameWords(Recased(a, h), h) /\ WordsOf(Recased(a, h)) # WordsOf(h)
           /\ IsPrefix(a.committed, Recased(a, h))
           /\ Beyond(Recased(a, h), Len(a.committed)) = Beyond(h, Len(a.committed))
<1> DEFINE c == a.committed
           n == Len(c)
           rest == Beyond(h, n)
           tokens == Recased(a, h)
<1>1. c \in Text /\ n \in Nat /\ Len(h) \in Nat
  BY DEF Agreements, Text
<1>2. n <= Len(h)
  BY UncontradictedHead
<1>3. WordsOf(Clip(h, n)) # WordsOf(c) /\ tokens = c \o rest
  BY DEF Recased
<1>4. rest \in Text /\ Len(rest) = Len(h) - n
      /\ \A i \in 1 .. Len(rest) : rest[i] = h[n + i]
  BY <1>1, <1>2, BeyondOfText
<1>5. tokens \in Text /\ Len(tokens) = Len(h)
      /\ \A i \in 1 .. Len(h) : Fold[tokens[i].word] = Fold[h[i].word]
  BY RecasedText
<1> HIDE DEF rest, tokens
<1>6. /\ \A i \in 1 .. n : tokens[i] = c[i]
      /\ \A i \in 1 .. Len(rest) : tokens[n + i] = rest[i]
  BY <1>1, <1>3, <1>4 DEF Text
<1>7. SameWords(tokens, h)
  BY <1>5 DEF SameWords
<1>8. IsPrefix(c, tokens)
  BY <1>1, <1>2, <1>5, <1>6, PrefixPointwise DEF Text
<1>9. Beyond(tokens, n) = rest
  <2>1. /\ Beyond(tokens, n) \in Text /\ Len(Beyond(tokens, n)) = Len(rest)
        /\ \A i \in 1 .. Len(rest) : Beyond(tokens, n)[i] = rest[i]
    <3> DEFINE tail == Beyond(tokens, n)
    <3>1. /\ tail \in Text /\ Len(tail) = Len(tokens) - n
          /\ \A i \in 1 .. Len(tail) : tail[i] = tokens[n + i]
      BY <1>1, <1>2, <1>5, BeyondOfText
    <3> HIDE DEF tail
    <3>2. Len(tail) = Len(rest) /\ \A i \in 1 .. Len(rest) : tail[i] = rest[i]
      BY <1>4, <1>5, <1>6, <3>1
    <3> QED
      BY <3>1, <3>2 DEF tail
  <2> QED
    BY <1>4, <2>1, SeqEqual DEF Text
<1>10. ASSUME WordsOf(tokens) = WordsOf(h) PROVE FALSE
  <2>1. Clip(h, n) \in Text /\ Len(Clip(h, n)) = n /\ \A i \in 1 .. n : Clip(h, n)[i] = h[i]
    BY <1>1, <1>2, ClipOfText
  <2>2. ASSUME NEW i \in 1 .. n PROVE Clip(h, n)[i].word = c[i].word
    <3>1. i \in 1 .. Len(h) /\ tokens[i].word = h[i].word
      BY <1>1, <1>2, <1>5, <1>10, WordsOfText
    <3> QED
      BY <1>6, <2>1, <3>1
  <2>3. WordsOf(Clip(h, n)) = WordsOf(c)
    BY <2>1, <2>2 DEF WordsOf
  <2> QED
    BY <1>3, <2>3
<1> QED
  BY <1>7, <1>8, <1>9, <1>10 DEF rest, tokens

(* stable + partial is the hypothesis after every update(), to the byte,   *)
(* or, when it came in another case, what the user has and the rest as     *)
(* heard: no word is swallowed or invented between decoder and client.     *)
THEOREM StableAndPartialReconstruct == AgreementSpec => StablePlusPartialIsHypothesis
<1> DEFINE said == heard'[Len(heard')]
           told == result'.stable \o result'.partial
           Reported == \/ told = said
                       \/ /\ SameWords(told, said) /\ WordsOf(told) # WordsOf(said)
                          /\ IsPrefix(agreement.committed, told)
                          /\ Beyond(told, Len(agreement.committed))
                               = Beyond(said, Len(agreement.committed))
<1>1. AgreementInv /\ [AgreementNext]_agreementVars =>
        [result'.call = "update" /\ ~result'.conflict => Reported]_agreementVars
  <2> SUFFICES ASSUME AgreementInv, AgreementNext, result'.call = "update", ~result'.conflict
               PROVE  Reported
    OBVIOUS
  <2>1. PICK h \in Hypotheses : Update(h)
    <3>1. ASSUME NEW h \in Hypotheses, Commit(h) PROVE result'.call = "commit"
      BY <3>1 DEF Commit, Result
    <3>2. CASE Reset
      BY <3>2 DEF Reset, NoResult
    <3> QED
      BY <3>1, <3>2 DEF AgreementNext
  <2>2. ~Contradicts(agreement, h)
    BY <2>1 DEF Update, Result, UpdateAgreement, Outcome
  <2>3. told = Recased(agreement, h) /\ said = h
    BY <2>1, <2>2, UpdateReports
  <2>4. agreement \in Agreements /\ h \in Text
    BY HypothesesAssumption DEF AgreementInv, AgreementTypes
  <2> HIDE DEF told, said
  <2> QED
    BY <2>2, <2>3, <2>4, RecasedKeeps
<1> QED
  BY <1>1, AgreementInvariance, PTL DEF AgreementSpec, StablePlusPartialIsHypothesis

(* The history is the hypotheses last heard: what the rule is applied to.  *)
THEOREM HistoryFollowsTheDecoder == AgreementSpec => []HistoryIsHeard
<1>1. AgreementInv => HistoryIsHeard
  BY DEF AgreementInv
<1> QED
  BY <1>1, AgreementInvariance, PTL

(* No call but reset() takes back or rewrites a committed word.            *)
THEOREM CommittedWordsStay == AgreementSpec => WordsNeverRetracted
<1> DEFINE Grows == IsPrefix(WordsOf(agreement.committed), WordsOf(agreement'.committed))
<1>1. AgreementInv /\ [AgreementNext]_agreementVars => [Grows \/ agreement' = Fresh]_agreementVars
  <2> SUFFICES ASSUME AgreementInv, AgreementNext PROVE Grows \/ agreement' = Fresh
    OBVIOUS
  <2>1. ASSUME NEW h \in Hypotheses, Update(h), Contradicts(agreement, h) PROVE Grows
    <3>1. agreement'.committed = agreement.committed
      BY <2>1, UpdateContradicted
    <3>2. agreement.committed \in Text
      BY DEF AgreementInv, AgreementTypes, Agreements
    <3> QED
      BY <3>1, <3>2, WordsOfText, PrefixPointwise
  <2>2. ASSUME NEW h \in Hypotheses, Update(h), ~Contradicts(agreement, h) PROVE Grows
    BY <2>2, UpdateUncontradicted
  <2>3. ASSUME NEW h \in Hypotheses, Commit(h) PROVE Grows
    BY <2>3, CommitPreserves
  <2>4. CASE Reset
    BY <2>4, ResetPreserves
  <2> HIDE DEF Grows
  <2> QED
    BY <2>1, <2>2, <2>3, <2>4 DEF AgreementNext
<1> QED
  BY <1>1, AgreementInvariance, PTL DEF AgreementSpec, WordsNeverRetracted

-----------------------------------------------------------------------------
\* The conclusion of CommittedWasAgreed for the word at one position.
AgreedAt(i) ==
    /\ Len(heard') = AgreementWindow
    /\ \A h \in 1 .. AgreementWindow :
          /\ Len(heard'[h]) > i - 1
          /\ Fold[heard'[h][i].word] = Fold[agreement'.committed[i].word]
    /\ Len(heard'[AgreementWindow]) > i

(* What an uncontradicted update() adds was in every remembered            *)
(* hypothesis, so in each of the last n heard.                             *)
LEMMA NewWordsWereAgreed ==
    ASSUME AgreementInv, NEW h \in Hypotheses, Update(h), ~Contradicts(agreement, h),
           NEW i \in (Len(agreement.committed) + 1) .. Len(agreement'.committed)
    PROVE  AgreedAt(i)
<1> DEFINE tokens == Recased(agreement, h)
           history == agreement.history
           n == Len(agreement.committed)
           W == AgreementWindow
<1>1. /\ h \in Text /\ agreement \in Agreements /\ history \in Seq(Text) /\ heard \in Seq(Text)
      /\ n \in Nat /\ Len(h) \in Nat /\ Len(heard) \in Nat /\ Len(history) \in Nat
      /\ Len(heard) <= W /\ Len(history) < W
  BY HypothesesAssumption DEF AgreementInv, AgreementTypes, HistoryIsHeard, Agreements, Text
<1>2. PICK k \in n .. Len(h) :
              /\ agreement' = [committed |-> SubSeq(tokens, 1, k),
                               history |-> Remember(history, tokens)]
              /\ heard' = Hear(heard, h)
              /\ k > n =>
                    /\ Len(history) >= W - 1
                    /\ tokens[k].gap > 0
                    /\ \A j \in 1 .. Len(history) : IsPrefix(SubSeq(tokens, 1, k), history[j])
  BY UpdateEffect
<1>3. /\ tokens \in Text
      /\ Len(tokens) = Len(h)
      /\ \A j \in (n + 1) .. Len(h) : tokens[j] = h[j]
      /\ \A j \in 1 .. Len(h) : Fold[tokens[j].word] = Fold[h[j].word]
  BY <1>1, RecasedText
<1> DEFINE agreed == SubSeq(tokens, 1, k)
<1>4. /\ agreed \in Text
      /\ Len(agreed) = k
      /\ \A j \in 1 .. k : agreed[j] = tokens[j]
  <2> HIDE DEF tokens
  <2> QED
    BY <1>1, <1>2, <1>3 DEF Text
<1>5. agreement'.committed = agreed
  BY <1>2
<1> HIDE DEF tokens, agreed
<1>6. /\ i \in (n + 1) .. k /\ k > n /\ i \in 1 .. k /\ k \in 1 .. Len(h)
  BY <1>1, <1>2, <1>4, <1>5
<1>7. Len(history) = W - 1 /\ Len(heard) \in {W - 1, W} /\ W - 1 \in Nat
  <2>1. Len(history) >= W - 1
    BY <1>2, <1>6
  <2>2. Len(history) = IF Len(heard) = W THEN W - 1 ELSE Len(heard)
    BY DEF AgreementInv, HistoryIsHeard
  <2> QED
    BY <1>1, <2>1, <2>2, WindowAssumption
<1> DEFINE said == Hear(heard, h)
<1>8. /\ Len(said) = (IF Len(heard) = W THEN Len(heard) ELSE Len(heard) + 1)
      /\ \A j \in 1 .. Len(said) :
            said[j] = IF j = Len(said) THEN h ELSE heard[j + Len(heard) + 1 - Len(said)]
  BY <1>1, HeardTexts
<1>9. heard' = said
  BY <1>2
<1> HIDE DEF said
<1>10. Len(said) = W /\ said[W] = h
  <2>1. Len(said) = (IF Len(heard) = W THEN Len(heard) ELSE Len(heard) + 1)
    BY <1>8
  <2>2. Len(said) = W
    BY <1>7, <2>1, WindowAssumption
  <2>3. W \in 1 .. Len(said)
    BY <2>2, WindowAssumption
  <2>4. said[W] = h
    BY <1>8, <2>2, <2>3
  <2> QED
    BY <2>2, <2>4
<1>11. ASSUME NEW j \in 1 .. W - 1
       PROVE  Len(said[j]) > i - 1 /\ Fold[said[j][i].word] = Fold[agreed[i].word]
  <2>1. j \in 1 .. Len(said) /\ j # Len(said) /\ j \in 1 .. Len(history)
    BY <1>7, <1>10
  <2>2. said[j] = heard[j + Len(heard) + 1 - W]
    BY <1>8, <1>10, <2>1
  <2>3. j + Len(heard) + 1 - W = Len(heard) - Len(history) + j
    BY <1>1, <1>7, WindowAssumption
  <2>4. SameWords(history[j], said[j])
    BY <2>1, <2>2, <2>3 DEF AgreementInv, HistoryIsHeard
  <2>5. IsPrefix(agreed, history[j])
    BY <1>2, <1>6, <2>1 DEF agreed
  <2>6. history[j] \in Seq(Token) /\ agreed \in Seq(Token) /\ Len(history[j]) \in Nat
    <3>1. history[j] \in Text
      BY <1>1, <2>1
    <3>2. history[j] \in Seq(Token)
      BY <3>1 DEF Text
    <3>3. Len(history[j]) \in Nat
      BY <3>2
    <3>4. agreed \in Seq(Token)
      BY <1>4 DEF Text
    <3> QED
      BY <3>2, <3>3, <3>4
  <2>7. Len(agreed) <= Len(history[j]) /\ \A m \in 1 .. Len(agreed) : agreed[m] = history[j][m]
    BY <2>5, <2>6, PrefixPointwise
  <2>8. i \in 1 .. Len(history[j]) /\ history[j][i] = agreed[i]
    BY <1>4, <1>6, <2>6, <2>7
  <2>9. Len(history[j]) = Len(said[j]) /\ Fold[history[j][i].word] = Fold[said[j][i].word]
    BY <2>4, <2>8 DEF SameWords
  <2> QED
    BY <2>8, <2>9
<1>12. Len(h) > i - 1 /\ Fold[h[i].word] = Fold[agreed[i].word]
  <2>1. i \in 1 .. Len(h)
    BY <1>1, <1>6
  <2>2. agreed[i] = tokens[i]
    BY <1>4, <1>6
  <2> QED
    BY <1>3, <2>1, <2>2
<1>13. Len(h) > i
  <2>1. k # Len(h)
    <3> SUFFICES ASSUME k = Len(h) PROVE FALSE
      OBVIOUS
    <3>1. tokens[k] = h[k] /\ tokens[k].gap > 0
      BY <1>2, <1>3, <1>6
    <3>2. h # <<>>
      BY <1>6
    <3>3. h[Len(h)].gap = 0
      <4>1. IsTokenized(h) /\ Len(h) \in 1 .. Len(h)
        BY <1>1, <1>6, HypothesesAssumption
      <4> QED
        BY <4>1 DEF IsTokenized
    <3> QED
      BY <3>1, <3>3
  <2> QED
    BY <1>1, <1>6, <2>1
<1> QED
  <2>1. ASSUME NEW j \in 1 .. W
        PROVE  Len(said[j]) > i - 1 /\ Fold[said[j][i].word] = Fold[agreed[i].word]
    <3>1. CASE j = W
      BY <1>10, <1>12, <3>1
    <3>2. CASE j # W
      <4>1. j \in 1 .. W - 1
        BY <3>2, WindowAssumption
      <4> QED
        BY <4>1, <1>11
    <3> QED
      BY <3>1, <3>2
  <2> QED
    BY <1>5, <1>9, <1>10, <1>13, <2>1 DEF AgreedAt

(* LocalAgreement-n: a word is committed by update() only after each of    *)
(* the last n hypotheses said it, and never the word still being spoken.   *)
THEOREM OnlyAgreedWordsAreCommitted == AgreementSpec => CommittedWasAgreed
<1> DEFINE Agreed == result'.call = "update" =>
                       \A i \in (Len(agreement.committed) + 1) .. Len(agreement'.committed) :
                          AgreedAt(i)
<1>1. AgreementInv /\ [AgreementNext]_agreementVars => [Agreed]_agreementVars
  <2> SUFFICES ASSUME AgreementInv, AgreementNext PROVE Agreed
    OBVIOUS
  <2>1. ASSUME NEW h \in Hypotheses, Update(h), Contradicts(agreement, h) PROVE Agreed
    <3>1. agreement'.committed = agreement.committed
      BY <2>1, UpdateContradicted
    <3>2. Len(agreement.committed) \in Nat
      BY DEF AgreementInv, AgreementTypes, Agreements, Text
    <3> QED
      BY <3>1, <3>2
  <2>2. ASSUME NEW h \in Hypotheses, Update(h), ~Contradicts(agreement, h) PROVE Agreed
    BY <2>2, NewWordsWereAgreed
  <2>3. ASSUME NEW h \in Hypotheses, Commit(h) PROVE Agreed
    <3>1. result'.call = "commit"
      BY <2>3 DEF Commit, Result
    <3> QED
      BY <3>1
  <2>4. CASE Reset
    BY <2>4 DEF Reset, NoResult
  <2> HIDE DEF Agreed
  <2> QED
    BY <2>1, <2>2, <2>3, <2>4 DEF AgreementNext
<1>2. Agreed <=> (result'.call = "update" =>
          \A i \in (Len(agreement.committed) + 1) .. Len(agreement'.committed) :
              /\ Len(heard') = AgreementWindow
              /\ \A h \in 1 .. AgreementWindow :
                    /\ Len(heard'[h]) > i - 1
                    /\ Fold[heard'[h][i].word] = Fold[agreement'.committed[i].word]
              /\ Len(heard'[AgreementWindow]) > i)
  BY DEF AgreedAt
<1> QED
  BY <1>1, <1>2, AgreementInvariance, PTL DEF AgreementSpec, CommittedWasAgreed

-----------------------------------------------------------------------------
(* The session.                                                             *)

TranscriptEvent == [kind : {"transcript"}, utterance : Nat, revision : Nat,
                    stable : Text, partial : Text, final : BOOLEAN, carried : BOOLEAN]
ErrorEvent == [kind : {"error"}, code : {"utterance_too_long", "inference_failed"}]
Event == TranscriptEvent \cup ErrorEvent
Audio == [buffer : Seq(BOOLEAN), decoded : Nat, read : Nat, trailing : Nat]
Utterance == [index : Nat, revision : Nat, agreement : Agreements, hypothesis : Text,
              prefix : Text, shown : Seq(Text), retryAt : Nat, out : Seq(TranscriptEvent)]
Task == [at : {"wake", "incremental", "compact", "final", "cancelled"}, window : Nat,
         cause : {"none", "flush", "too_long", "silence"}]

(* Types of the state: session.py, buffer.py and websocket.py.              *)
TypeOK ==
    /\ setup \in Setups
    /\ audio \in Audio
    /\ utterance \in Utterance
    /\ Len(utterance.agreement.history) < AgreementWindow
    /\ utterance.out = <<>>
    /\ task \in Task
    /\ wake \in BOOLEAN
    /\ flushRequested \in BOOLEAN
    /\ flushDone \in BOOLEAN
    /\ timedOut \in BOOLEAN
    /\ reader \in {"reading", "flush", "stop", "draining", "closed"}
    /\ events \in Seq(Event)
    /\ wire \in TranscriptEvent
    /\ pushed \in Nat

\* What has been sent and what is about to be.
Sent == <<wire>> \o events
IsTranscript(e) == e.kind = "transcript"

\* A transcript as TranscriptStream sees it, and where the utterance in progress is in
\* that stream.
Entries == [utterance : Nat, revision : Nat, letters : Seq(Word), final : BOOLEAN]
Entry(t) == [utterance |-> t.utterance, revision |-> t.revision,
             letters |-> WordsOf(t.stable), final |-> t.final]
Settled(u) == u.prefix \o (IF HasDraft THEN NoText ELSE u.agreement.committed)
Mark(u) == [utterance |-> u.index, revision |-> u.revision,
            letters |-> WordsOf(Settled(u)), final |-> FALSE]

AtMost(s, t) ==
    /\ s.revision <= t.revision
    /\ \/ s.utterance < t.utterance
       \/ s.utterance = t.utterance /\ ~s.final /\ IsPrefix(s.letters, t.letters)
Follows(s, t) == AtMost(s, t) /\ s.revision < t.revision

\* The transcripts of q are a stream, and m may go on with it.
Ordered(q, m) ==
    /\ \A i \in DOMAIN q : IsTranscript(q[i]) => AtMost(Entry(q[i]), m)
    /\ \A i, j \in DOMAIN q :
          i < j /\ IsTranscript(q[i]) /\ IsTranscript(q[j]) => Follows(Entry(q[i]), Entry(q[j]))

\* Every word of the text is one the accurate decoder read.
Accurate(text) == \A i \in DOMAIN text : text[i].word \in AccurateWords

\* Every transcript of q that shows something not yet final is followed by the final one of
\* its utterance before another begins, or is of an utterance that can still be sealed.
Shows(t) == IsTranscript(t) /\ ~t.final /\ ~t.carried /\ t.stable \o t.partial # NoText
Seals(t, n) == IsTranscript(t) /\ t.final /\ t.utterance = n
Sealing(q, open) ==
    /\ \A i \in DOMAIN q : Shows(q[i]) =>
          \/ q[i].utterance \in open
          \/ \E k \in DOMAIN q : k > i /\ Seals(q[k], q[i].utterance)
    /\ \A i, j \in DOMAIN q :
          i < j /\ Shows(q[i]) /\ IsTranscript(q[j]) /\ q[j].utterance # q[i].utterance =>
            \E k \in DOMAIN q : i < k /\ k < j /\ Seals(q[k], q[i].utterance)

\* The utterance has something to seal.
Pending(u) == u.prefix \o LastWindow(u, NoText) # NoText
Open(u) == {n \in {u.index} : Pending(u)}
\* No transcript of q has a word only the draft decoder read, nor has what u may say next.
Spoken(q) == \A i \in DOMAIN q : IsTranscript(q[i]) => Accurate(q[i].stable)

Reads(u) == /\ Accurate(u.prefix)
            /\ ~HasDraft => Accurate(u.hypothesis) /\ Accurate(u.agreement.committed)

\* A LocalAgreement with no more hypotheses than it keeps.
Proper(a) == a \in Agreements /\ Len(a.history) < AgreementWindow

\* The stream b with what u adds to it keeps every promise.
Good(b, u) ==
    /\ b \in Seq(Event) /\ u \in Utterance /\ Proper(u.agreement)
    /\ Reads(u)
    /\ Ordered(b \o u.out, Mark(u))
    /\ Spoken(b \o u.out)
    /\ ~HasDraft => Sealing(b \o u.out, Open(u))

\* What the decode task knows of the audio.
AudioInv ==
    /\ audio.decoded <= Len(audio.buffer)
    /\ task.at = "compact" => HasDraft
    /\ Decoding => task.window <= Len(audio.buffer)
    /\ task.at \in {"compact", "final"} \/ (task.at = "incremental" /\ ~HasDraft) =>
          task.window <= audio.read
    /\ ~HasDraft /\ WorthDecoding(audio) /\ audio.decoded = Len(audio.buffer) =>
          audio.read >= Len(audio.buffer)

\* Once a flush was answered in time nothing is left.
DoneInv ==
    /\ flushDone \/ task.cause = "flush" \/ reader \in {"flush", "stop"} => flushRequested
    /\ flushDone /\ ~timedOut =>
          /\ audio.buffer = <<>>
          /\ ~Decoding
          /\ ~Pending(utterance)

IInv == TypeOK /\ Good(Sent, utterance) /\ AudioInv /\ DoneInv

-----------------------------------------------------------------------------
(* Prefixes and texts.                                                      *)

LEMMA PrefixReflexive == ASSUME NEW S, NEW s \in Seq(S) PROVE IsPrefix(s, s)
  BY PrefixPointwise

LEMMA PrefixTransitive ==
    ASSUME NEW S, NEW r \in Seq(S), NEW s \in Seq(S), NEW t \in Seq(S),
           IsPrefix(r, s), IsPrefix(s, t)
    PROVE  IsPrefix(r, t)
<1>1. Len(r) \in Nat /\ Len(s) \in Nat /\ Len(t) \in Nat
  OBVIOUS
<1>2. Len(r) <= Len(s) /\ \A i \in 1 .. Len(r) : r[i] = s[i]
  BY PrefixPointwise
<1>3. Len(s) <= Len(t) /\ \A i \in 1 .. Len(s) : s[i] = t[i]
  BY PrefixPointwise
<1>4. Len(r) <= Len(t) /\ \A i \in 1 .. Len(r) : r[i] = t[i]
  BY <1>1, <1>2, <1>3
<1>5. QED
  BY <1>4, PrefixPointwise

LEMMA Joined ==
    ASSUME NEW S, NEW s \in Seq(S), NEW t \in Seq(S)
    PROVE  /\ s \o t \in Seq(S)
           /\ Len(s \o t) = Len(s) + Len(t)
           /\ \A i \in 1 .. Len(s) : (s \o t)[i] = s[i]
           /\ \A i \in 1 .. Len(t) : (s \o t)[Len(s) + i] = t[i]
           /\ s \o t = <<>> <=> s = <<>> /\ t = <<>>
  OBVIOUS

LEMMA NothingJoined ==
    ASSUME NEW S, NEW s \in Seq(S)
    PROVE  s \o <<>> = s /\ <<>> \o s = s
  OBVIOUS

LEMMA EmptyText == NoText \in Text /\ Len(NoText) = 0
  BY DEF NoText, Text

(* More words after the same text.                                          *)
LEMMA WordsGrow ==
    ASSUME NEW p \in Text, NEW s \in Text, NEW t \in Text,
           IsPrefix(WordsOf(s), WordsOf(t))
    PROVE  IsPrefix(WordsOf(p \o s), WordsOf(p \o t))
<1>1. p \o s \in Text /\ p \o t \in Text
  BY DEF Text
<1>2. Len(p) \in Nat /\ Len(s) \in Nat /\ Len(t) \in Nat
  BY DEF Text
<1>3. Len(s) <= Len(t) /\ \A i \in 1 .. Len(s) : s[i].word = t[i].word
  <2>1. /\ Len(WordsOf(s)) <= Len(WordsOf(t))
        /\ \A i \in 1 .. Len(WordsOf(s)) : WordsOf(s)[i] = WordsOf(t)[i]
    BY WordsOfText, PrefixPointwise
  <2>2. QED
    BY <1>2, <2>1, WordsOfText
<1> DEFINE ps == p \o s
           pt == p \o t
<1>4. /\ ps \in Text /\ Len(ps) = Len(p) + Len(s)
      /\ \A i \in 1 .. Len(p) : ps[i] = p[i]
      /\ \A i \in 1 .. Len(s) : ps[Len(p) + i] = s[i]
  BY Joined DEF Text
<1>5. /\ pt \in Text /\ Len(pt) = Len(p) + Len(t)
      /\ \A i \in 1 .. Len(p) : pt[i] = p[i]
      /\ \A i \in 1 .. Len(t) : pt[Len(p) + i] = t[i]
  BY Joined DEF Text
<1> HIDE DEF ps, pt
<1>6. ASSUME NEW i \in 1 .. Len(ps) PROVE ps[i].word = pt[i].word
  <2>1. CASE i <= Len(p)
    BY <1>2, <1>4, <1>5, <2>1
  <2>2. CASE i > Len(p)
    <3>1. PICK j \in 1 .. Len(s) : i = Len(p) + j
      <4>1. i - Len(p) \in 1 .. Len(s) /\ i = Len(p) + (i - Len(p))
        BY <1>2, <1>4, <2>2
      <4>2. QED
        BY <4>1
    <3>2. j \in 1 .. Len(t)
      BY <1>2, <1>3
    <3>3. ps[i] = s[j] /\ pt[i] = t[j]
      BY <1>4, <1>5, <3>1, <3>2
    <3>4. QED
      BY <1>3, <3>3
  <2>3. i \in Nat
    BY <1>2, <1>4
  <2>4. QED
    BY <1>2, <2>1, <2>2, <2>3
<1>7. /\ WordsOf(ps) \in Seq(Word) /\ Len(WordsOf(ps)) = Len(ps)
      /\ \A i \in 1 .. Len(ps) : WordsOf(ps)[i] = ps[i].word
  BY <1>4, WordsOfText
<1>8. /\ WordsOf(pt) \in Seq(Word) /\ Len(WordsOf(pt)) = Len(pt)
      /\ \A i \in 1 .. Len(pt) : WordsOf(pt)[i] = pt[i].word
  BY <1>5, WordsOfText
<1>9. Len(WordsOf(ps)) <= Len(WordsOf(pt))
  BY <1>2, <1>3, <1>4, <1>5, <1>7, <1>8
<1>10. ASSUME NEW i \in 1 .. Len(WordsOf(ps)) PROVE WordsOf(ps)[i] = WordsOf(pt)[i]
  <2>1. i \in 1 .. Len(ps) /\ i \in 1 .. Len(pt)
    BY <1>2, <1>3, <1>4, <1>5, <1>7
  <2>2. QED
    BY <1>6, <1>7, <1>8, <2>1
<1>11. IsPrefix(WordsOf(ps), WordsOf(pt))
  BY <1>7, <1>8, <1>9, <1>10, PrefixPointwise
<1>12. QED
  BY <1>11 DEF ps, pt

LEMMA NothingIsAPrefix ==
    ASSUME NEW t \in Text
    PROVE  IsPrefix(WordsOf(NoText), WordsOf(t))
<1>1. WordsOf(NoText) \in Seq(Word) /\ Len(WordsOf(NoText)) = 0
  BY WordsOfText, EmptyText
<1>2. WordsOf(t) \in Seq(Word) /\ Len(WordsOf(t)) \in Nat
  BY WordsOfText DEF Text
<1> DEFINE none == WordsOf(NoText)
           words == WordsOf(t)
<1>3. none \in Seq(Word) /\ words \in Seq(Word) /\ Len(none) <= Len(words)
      /\ \A i \in 1 .. Len(none) : none[i] = words[i]
  BY <1>1, <1>2
<1> HIDE DEF none, words
<1>4. IsPrefix(none, words)
  BY <1>3, PrefixPointwise
<1>5. QED
  BY <1>4 DEF none, words

LEMMA WordsAppended ==
    ASSUME NEW p \in Text, NEW t \in Text
    PROVE  IsPrefix(WordsOf(p), WordsOf(p \o t))
<1>1. IsPrefix(WordsOf(NoText), WordsOf(t))
  BY NothingIsAPrefix
<1>2. p \o NoText = p
  BY DEF Text, NoText
<1>3. QED
  BY <1>1, <1>2, WordsGrow, EmptyText

LEMMA SameWordsPrefix ==
    ASSUME NEW s \in Text
    PROVE  IsPrefix(WordsOf(s), WordsOf(s))
<1>1. WordsOf(s) \in Seq(Word)
  BY WordsOfText
<1>2. QED
  BY <1>1, PrefixReflexive

LEMMA AccurateJoined ==
    ASSUME NEW s \in Text, NEW t \in Text, Accurate(s), Accurate(t)
    PROVE  Accurate(s \o t)
<1>1. Len(s) \in Nat /\ Len(t) \in Nat /\ Len(s \o t) = Len(s) + Len(t)
      /\ DOMAIN s = 1 .. Len(s) /\ DOMAIN t = 1 .. Len(t) /\ DOMAIN (s \o t) = 1 .. Len(s \o t)
  BY DEF Text
<1>2. ASSUME NEW i \in DOMAIN (s \o t) PROVE (s \o t)[i].word \in AccurateWords
  <2>1. CASE i <= Len(s)
    <3>1. (s \o t)[i] = s[i] /\ i \in DOMAIN s
      BY <1>1, <2>1 DEF Text
    <3>2. QED
      BY <3>1 DEF Accurate
  <2>2. CASE i > Len(s)
    <3>1. (s \o t)[i] = t[i - Len(s)] /\ i - Len(s) \in DOMAIN t
      BY <1>1, <2>2 DEF Text
    <3>2. QED
      BY <3>1 DEF Accurate
  <2>3. QED
    BY <1>1, <2>1, <2>2
<1>3. QED
  BY <1>2 DEF Accurate

LEMMA AccurateTexts ==
    ASSUME NEW text \in Texts
    PROVE  Accurate(text)
  BY DEF Accurate, AccurateWords

LEMMA AccurateNothing == Accurate(NoText)
  BY DEF Accurate, NoText

-----------------------------------------------------------------------------
(* The calls of LocalAgreement.                                             *)

LEMMA FreshIsProper ==
    /\ Proper(Fresh) /\ Fresh.committed = NoText
    /\ \A h \in Text : ~Contradicts(Fresh, h) /\ Recased(Fresh, h) = h
<1>1. Fresh \in Agreements /\ Fresh.committed = NoText /\ Fresh.history = <<>>
  BY DEF Fresh, Agreements, Text, NoText
<1>2. Proper(Fresh)
  BY <1>1, WindowAssumption DEF Proper
<1>3. ASSUME NEW h \in Text PROVE Clip(h, 0) = NoText
  <2>1. Clip(h, 0) \in Text /\ Len(h) \in Nat
    BY ClipOfText DEF Text
  <2>2. Len(Clip(h, 0)) = 0
    BY <2>1, ClipOfText
  <2>3. QED
    BY <2>1, <2>2 DEF NoText, Text
<1>4. QED
  BY <1>1, <1>2, <1>3, EmptyText DEF Contradicts, Recased

\* Re-casing brings in no word that was neither heard nor on screen.
LEMMA RecasedAccurately ==
    ASSUME NEW a \in Agreements, NEW h \in Text, ~Contradicts(a, h),
           Accurate(a.committed), Accurate(h)
    PROVE  Accurate(Recased(a, h))
<1> DEFINE r == Recased(a, h)
<1>1. /\ r \in Text /\ Len(r) = Len(h)
      /\ \A i \in 1 .. Len(a.committed) : r[i].word = a.committed[i].word
      /\ \A i \in (Len(a.committed) + 1) .. Len(h) : r[i] = h[i]
  BY RecasedText
<1>2. Len(a.committed) \in Nat /\ Len(h) \in Nat /\ DOMAIN r = 1 .. Len(h)
      /\ DOMAIN h = 1 .. Len(h) /\ DOMAIN a.committed = 1 .. Len(a.committed)
  BY <1>1 DEF Agreements, Text
<1> HIDE DEF r
<1>3. ASSUME NEW i \in DOMAIN r PROVE r[i].word \in AccurateWords
  <2>1. CASE i <= Len(a.committed)
    BY <1>1, <1>2, <2>1 DEF Accurate
  <2>2. CASE i > Len(a.committed)
    BY <1>1, <1>2, <2>2 DEF Accurate
  <2>3. QED
    BY <1>2, <2>1, <2>2
<1>4. QED
  BY <1>3 DEF Accurate, r

(* update(): stable is what is committed then, and it goes on from what was *)
(* committed before; a conflict leaves that alone.                          *)
LEMMA Updated ==
    ASSUME NEW a, Proper(a), NEW h \in Text
    PROVE  LET o == UpdateAgreement(a, h)
           IN  /\ Proper(o.agreement)
               /\ o.stable = o.agreement.committed
               /\ o.partial \in Text
               /\ IsPrefix(WordsOf(a.committed), WordsOf(o.agreement.committed))
               /\ o.conflict => o.agreement.committed = a.committed /\ a.committed # NoText
               /\ Accurate(a.committed) /\ Accurate(h) => Accurate(o.agreement.committed)
<1> DEFINE o == UpdateAgreement(a, h)
<1>1. a \in Agreements /\ a.committed \in Text /\ a.history \in Seq(Text)
      /\ Len(a.history) < AgreementWindow
  BY DEF Proper, Agreements
<1>2. CASE Contradicts(a, h)
  <2>1. /\ o.agreement = [a EXCEPT !.history = <<h>>] /\ o.stable = a.committed
        /\ o.partial = <<>> /\ o.conflict = TRUE
    BY <1>2 DEF UpdateAgreement, Outcome
  <2>2. <<h>> \in Seq(Text) /\ Len(<<h>>) = 1
    OBVIOUS
  <2>3. o.agreement.committed = a.committed /\ o.agreement.history = <<h>>
        /\ o.agreement \in Agreements
    BY <1>1, <2>1, <2>2 DEF Agreements
  <2>4. Proper(o.agreement)
    BY <2>2, <2>3, WindowAssumption DEF Proper
  <2>5. a.committed # NoText
    <3> SUFFICES ASSUME a.committed = NoText PROVE FALSE
      OBVIOUS
    <3>1. Len(a.committed) = 0
      BY EmptyText
    <3>2. Clip(h, 0) \in Text /\ Len(Clip(h, 0)) = 0
      BY ClipOfText DEF Text
    <3>3. Clip(h, 0) = NoText
      BY <3>2 DEF Text, NoText
    <3>4. QED
      BY <1>2, <3>1, <3>3 DEF Contradicts
  <2>6. IsPrefix(WordsOf(a.committed), WordsOf(a.committed))
    BY <1>1, SameWordsPrefix
  <2>7. QED
    BY <2>1, <2>3, <2>4, <2>5, <2>6, EmptyText DEF NoText
<1>3. CASE ~Contradicts(a, h)
  <2> DEFINE tokens == Recased(a, h)
  <2>1. PICK k \in Len(a.committed) .. Len(h) :
          o = Outcome([committed |-> SubSeq(tokens, 1, k),
                       history |-> Remember(a.history, tokens)],
                      SubSeq(tokens, 1, k), Beyond(tokens, k), FALSE)
    BY <1>1, <1>3, UpdateOutcome
  <2>2. /\ o.agreement.committed = SubSeq(tokens, 1, k)
        /\ o.agreement.history = Remember(a.history, tokens)
        /\ o.agreement = [committed |-> SubSeq(tokens, 1, k),
                          history |-> Remember(a.history, tokens)]
        /\ o.stable = SubSeq(tokens, 1, k) /\ o.partial = Beyond(tokens, k)
        /\ o.conflict = FALSE
    BY <2>1 DEF Outcome
  <2>3. tokens \in Text /\ Len(tokens) = Len(h)
    BY <1>1, <1>3, RecasedText
  <2>4. /\ SubSeq(tokens, 1, k) \in Text
        /\ IsPrefix(WordsOf(a.committed), WordsOf(SubSeq(tokens, 1, k)))
    BY <1>1, <1>3, CommitmentExtends
  <2>5. k \in Nat /\ Len(h) \in Nat /\ k <= Len(h)
    BY <1>1 DEF Text
  <2>6. Beyond(tokens, k) \in Text
    BY <2>3, <2>5, BeyondOfText
  <2>7. Remember(a.history, tokens) \in Seq(Text)
        /\ Len(Remember(a.history, tokens)) < AgreementWindow
    <3> HIDE DEF tokens
    <3>1. /\ Remember(a.history, tokens) \in Seq(Text)
          /\ Len(Remember(a.history, tokens)) =
               (IF Len(a.history) = AgreementWindow - 1 THEN Len(a.history) ELSE Len(a.history) + 1)
      BY <1>1, <2>3, RememberedTexts
    <3>2. Len(a.history) \in Nat
      BY <1>1
    <3>3. QED
      BY <1>1, <3>1, <3>2, WindowAssumption
  <2>8. Proper(o.agreement)
    <3> HIDE DEF tokens, o
    <3>1. o.agreement \in Agreements
      BY <2>2, <2>4, <2>7 DEF Agreements
    <3>2. QED
      BY <2>2, <2>7, <3>1 DEF Proper
  <2>9. ASSUME Accurate(a.committed), Accurate(h) PROVE Accurate(o.agreement.committed)
    <3>1. Accurate(tokens)
      BY <1>1, <1>3, <2>9, RecasedAccurately
    <3> HIDE DEF tokens, o
    <3>2. \A i \in DOMAIN SubSeq(tokens, 1, k) :
             i \in DOMAIN tokens /\ SubSeq(tokens, 1, k)[i] = tokens[i]
      BY <2>3, <2>5 DEF Text
    <3>3. QED
      BY <2>2, <3>1, <3>2 DEF Accurate
  <2> HIDE DEF tokens, o
  <2>10. QED
    BY <2>2, <2>4, <2>6, <2>8, <2>9 DEF o
<1>4. QED
  BY <1>2, <1>3

(* commit_all(): all of the hypothesis, or nothing at all.                  *)
LEMMA Committed ==
    ASSUME NEW a, Proper(a), NEW h \in Text
    PROVE  LET o == CommitAll(a, h)
           IN  /\ Proper(o.agreement)
               /\ ~o.conflict => /\ o.stable = o.agreement.committed
                                 /\ IsPrefix(WordsOf(a.committed), WordsOf(o.stable))
                                 /\ h # NoText => o.stable # NoText
                                 /\ Accurate(a.committed) /\ Accurate(h) => Accurate(o.stable)
               /\ o.stable \in Text
               /\ a = Fresh => ~o.conflict /\ o.stable = h
<1> DEFINE o == CommitAll(a, h)
<1>1. a \in Agreements /\ a.committed \in Text
  BY DEF Proper, Agreements
<1>2. CASE Contradicts(a, h)
  <2>1. o.agreement = a /\ o.stable = a.committed /\ o.conflict = TRUE
    BY <1>2 DEF CommitAll, Outcome
  <2>2. a # Fresh
    BY <1>2, FreshIsProper
  <2>3. QED
    BY <1>1, <2>1, <2>2
<1>3. CASE ~Contradicts(a, h)
  <2> DEFINE tokens == Recased(a, h)
  <2>1. o.agreement = [committed |-> tokens, history |-> <<>>] /\ o.stable = tokens
        /\ o.conflict = FALSE
    BY <1>3 DEF CommitAll, Outcome
  <2>2. tokens \in Text /\ Len(tokens) = Len(h)
    BY <1>1, <1>3, RecasedText
  <2>3. o.agreement.committed = tokens /\ Proper(o.agreement)
    <3> HIDE DEF tokens
    <3>1. <<>> \in Seq(Text) /\ Len(<<>>) = 0
      OBVIOUS
    <3>2. QED
      BY <2>1, <2>2, <3>1, WindowAssumption DEF Proper, Agreements
  <2>4. IsPrefix(WordsOf(a.committed), WordsOf(tokens))
    <3>1. SubSeq(tokens, 1, Len(h)) = tokens
      <4> HIDE DEF tokens
      <4>1. QED
        BY <2>2, SubSeqFull DEF Text
    <3>2. Len(h) \in Len(a.committed) .. Len(h)
      BY <1>1, <1>3, UncontradictedHead DEF Text
    <3>3. QED
      BY <1>1, <1>3, <3>1, <3>2, CommitmentExtends
  <2>5. h # NoText => tokens # NoText
    <3> HIDE DEF tokens
    <3>1. QED
      BY <2>2 DEF NoText, Text
  <2>6. Accurate(a.committed) /\ Accurate(h) => Accurate(tokens)
    BY <1>1, <1>3, RecasedAccurately
  <2>7. a = Fresh => tokens = h
    BY FreshIsProper
  <2> HIDE DEF tokens, o
  <2>8. QED
    BY <2>1, <2>2, <2>3, <2>4, <2>5, <2>6, <2>7 DEF o
<1>4. QED
  BY <1>2, <1>3

-----------------------------------------------------------------------------
(* The stream, one event at a time.                                         *)

LEMMA EntryTypes ==
    ASSUME NEW t \in TranscriptEvent
    PROVE  /\ Entry(t) \in Entries
           /\ Entry(t).utterance = t.utterance /\ Entry(t).revision = t.revision
           /\ Entry(t).letters = WordsOf(t.stable) /\ Entry(t).final = t.final
           /\ IsTranscript(t)
<1>1. t.stable \in Text /\ t.utterance \in Nat /\ t.revision \in Nat /\ t.final \in BOOLEAN
      /\ t.kind = "transcript"
  BY DEF TranscriptEvent
<1>2. WordsOf(t.stable) \in Seq(Word)
  BY <1>1, WordsOfText
<1>3. QED
  BY <1>1, <1>2 DEF Entry, Entries, IsTranscript

LEMMA SettledText == ASSUME NEW u \in Utterance PROVE Settled(u) \in Text
<1>1. u.prefix \in Text /\ u.agreement.committed \in Text /\ NoText \in Text
  BY EmptyText DEF Utterance, Agreements
<1>2. QED
  BY <1>1 DEF Settled, Text

LEMMA MarkTypes ==
    ASSUME NEW u \in Utterance
    PROVE  /\ Mark(u) \in Entries
           /\ Mark(u).utterance = u.index /\ Mark(u).revision = u.revision
           /\ Mark(u).letters = WordsOf(Settled(u)) /\ Mark(u).final = FALSE
<1>1. u.index \in Nat /\ u.revision \in Nat
  BY DEF Utterance
<1>2. WordsOf(Settled(u)) \in Seq(Word)
  BY SettledText, WordsOfText
<1>3. QED
  BY <1>1, <1>2 DEF Mark, Entries

LEMMA AtMostTransitive ==
    ASSUME NEW r \in Entries, NEW s \in Entries, NEW t \in Entries, AtMost(r, s), AtMost(s, t)
    PROVE  /\ AtMost(r, t)
           /\ r.revision < s.revision \/ s.revision < t.revision => Follows(r, t)
<1>1. /\ r.utterance \in Nat /\ s.utterance \in Nat /\ t.utterance \in Nat
      /\ r.revision \in Nat /\ s.revision \in Nat /\ t.revision \in Nat
      /\ r.letters \in Seq(Word) /\ s.letters \in Seq(Word) /\ t.letters \in Seq(Word)
  BY DEF Entries
<1>2. IsPrefix(r.letters, s.letters) /\ IsPrefix(s.letters, t.letters) => IsPrefix(r.letters, t.letters)
  BY <1>1, PrefixTransitive
<1>3. r.revision <= t.revision
      /\ (r.revision < s.revision \/ s.revision < t.revision => r.revision < t.revision)
  BY <1>1 DEF AtMost
<1>4. \/ r.utterance < t.utterance
      \/ r.utterance = t.utterance /\ ~r.final /\ IsPrefix(r.letters, t.letters)
  BY <1>1, <1>2 DEF AtMost
<1>5. QED
  BY <1>3, <1>4 DEF AtMost, Follows

LEMMA Appended ==
    ASSUME NEW S, NEW q \in Seq(S), NEW e \in S
    PROVE  /\ Append(q, e) \in Seq(S)
           /\ DOMAIN q = 1 .. Len(q) /\ Len(q) \in Nat
           /\ DOMAIN Append(q, e) = 1 .. Len(q) + 1
           /\ \A i \in DOMAIN q : i \in DOMAIN Append(q, e) /\ Append(q, e)[i] = q[i]
           /\ Append(q, e)[Len(q) + 1] = e
           /\ \A i \in DOMAIN Append(q, e) : i \in DOMAIN q \/ i = Len(q) + 1
  OBVIOUS

LEMMA EventTypes ==
    /\ \A e \in Event : IsTranscript(e) <=> e \in TranscriptEvent
    /\ \A e \in ErrorEvent : e \in Event /\ ~IsTranscript(e)
    /\ \A e \in TranscriptEvent : e \in Event /\ IsTranscript(e)
  BY DEF Event, TranscriptEvent, ErrorEvent, IsTranscript

LEMMA OrderedOn ==
    ASSUME NEW q \in Seq(Event), NEW m \in Entries, NEW n \in Entries, Ordered(q, m), AtMost(m, n)
    PROVE  Ordered(q, n)
<1>1. ASSUME NEW i \in DOMAIN q, IsTranscript(q[i]) PROVE AtMost(Entry(q[i]), n)
  <2>1. q[i] \in TranscriptEvent
    BY <1>1, EventTypes
  <2>2. Entry(q[i]) \in Entries /\ AtMost(Entry(q[i]), m)
    BY <1>1, <2>1, EntryTypes DEF Ordered
  <2>3. QED
    BY <2>2, AtMostTransitive
<1>2. QED
  BY <1>1 DEF Ordered

\* The utterance in progress has its say.
LEMMA OrderedSays ==
    ASSUME NEW q \in Seq(Event), NEW m \in Entries, NEW n \in Entries, Ordered(q, m),
           NEW t \in TranscriptEvent, Follows(m, Entry(t)), AtMost(Entry(t), n)
    PROVE  Ordered(Append(q, t), n)
<1> DEFINE r == Append(q, t)
<1>1. t \in Event
  BY EventTypes
<1>2. /\ DOMAIN q = 1 .. Len(q) /\ Len(q) \in Nat
      /\ DOMAIN r = 1 .. Len(q) + 1
      /\ \A i \in DOMAIN q : r[i] = q[i]
      /\ r[Len(q) + 1] = t
      /\ \A i \in DOMAIN r : i \in DOMAIN q \/ i = Len(q) + 1
  BY <1>1, Appended
<1> HIDE DEF r
<1>3. Entry(t) \in Entries
  BY EntryTypes
<1>4. ASSUME NEW i \in DOMAIN q, IsTranscript(q[i])
      PROVE  Follows(Entry(q[i]), Entry(t)) /\ AtMost(Entry(q[i]), n)
  <2>1. Entry(q[i]) \in Entries
    BY <1>4, EventTypes, EntryTypes
  <2>2. AtMost(Entry(q[i]), m)
    BY <1>4 DEF Ordered
  <2>3. Follows(Entry(q[i]), Entry(t))
    BY <1>3, <2>1, <2>2, AtMostTransitive DEF Follows
  <2>4. QED
    BY <1>3, <2>1, <2>3, AtMostTransitive DEF Follows
<1>5. ASSUME NEW i \in DOMAIN r, IsTranscript(r[i]) PROVE AtMost(Entry(r[i]), n)
  <2>1. CASE i \in DOMAIN q
    BY <1>2, <1>4, <1>5, <2>1
  <2>2. CASE i = Len(q) + 1
    BY <1>2, <2>2
  <2>3. QED
    BY <1>2, <2>1, <2>2
<1>6. ASSUME NEW i \in DOMAIN r, NEW j \in DOMAIN r, i < j, IsTranscript(r[i]), IsTranscript(r[j])
      PROVE  Follows(Entry(r[i]), Entry(r[j]))
  <2>1. i \in DOMAIN q
    BY <1>2, <1>6
  <2>2. CASE j \in DOMAIN q
    BY <1>2, <1>6, <2>1, <2>2 DEF Ordered
  <2>3. CASE j = Len(q) + 1
    BY <1>2, <1>4, <1>6, <2>1, <2>3
  <2>4. QED
    BY <1>2, <2>2, <2>3
<1>7. Ordered(r, n)
  BY <1>5, <1>6 DEF Ordered
<1>8. QED
  BY <1>7 DEF r

LEMMA OrderedReports ==
    ASSUME NEW q \in Seq(Event), NEW m \in Entries, Ordered(q, m), NEW e \in ErrorEvent
    PROVE  Ordered(Append(q, e), m)
<1> DEFINE r == Append(q, e)
<1>1. e \in Event /\ ~IsTranscript(e)
  BY EventTypes
<1>2. /\ \A i \in DOMAIN q : r[i] = q[i]
      /\ r[Len(q) + 1] = e
      /\ \A i \in DOMAIN r : i \in DOMAIN q \/ i = Len(q) + 1
  BY <1>1, Appended
<1> HIDE DEF r
<1>3. Ordered(r, m)
  BY <1>1, <1>2 DEF Ordered
<1>4. QED
  BY <1>3 DEF r

LEMMA SealingOn ==
    ASSUME NEW q, NEW o, NEW r, Sealing(q, o), o \subseteq r
    PROVE  Sealing(q, r)
  BY DEF Sealing

LEMMA SealingSays ==
    ASSUME NEW q \in Seq(Event), NEW o, Sealing(q, o), NEW t \in TranscriptEvent,
           o \subseteq {t.utterance}, NEW r,
           t.final \/ (o \subseteq r /\ (Shows(t) => t.utterance \in r))
    PROVE  Sealing(Append(q, t), r)
<1> DEFINE s == Append(q, t)
<1>1. t \in Event /\ IsTranscript(t)
  BY EventTypes
<1>2. /\ DOMAIN q = 1 .. Len(q) /\ Len(q) \in Nat
      /\ DOMAIN s = 1 .. Len(q) + 1
      /\ \A i \in DOMAIN q : i \in DOMAIN s /\ s[i] = q[i]
      /\ s[Len(q) + 1] = t /\ Len(q) + 1 \in DOMAIN s
      /\ \A i \in DOMAIN s : i \in DOMAIN q \/ i = Len(q) + 1
  BY <1>1, Appended
<1> HIDE DEF s
<1>3. ASSUME NEW i \in DOMAIN s, Shows(s[i])
      PROVE  \/ s[i].utterance \in r
             \/ \E k \in DOMAIN s : k > i /\ Seals(s[k], s[i].utterance)
  <2>1. CASE i = Len(q) + 1
    BY <1>2, <1>3, <2>1 DEF Shows
  <2>2. CASE i \in DOMAIN q
    <3>1. CASE q[i].utterance \in o
      <4>1. CASE t.final
        <5>1. Seals(s[Len(q) + 1], s[i].utterance) /\ Len(q) + 1 > i
          BY <1>1, <1>2, <2>2, <3>1, <4>1 DEF Seals
        <5>2. QED
          BY <1>2, <5>1
      <4>2. CASE ~t.final
        BY <1>2, <2>2, <3>1, <4>2
      <4>3. QED
        BY <4>1, <4>2
    <3>2. ASSUME NEW k \in DOMAIN q, k > i, Seals(q[k], q[i].utterance)
          PROVE  \E l \in DOMAIN s : l > i /\ Seals(s[l], s[i].utterance)
      BY <1>2, <2>2, <3>2
    <3>3. Shows(q[i])
      BY <1>2, <1>3, <2>2
    <3>4. QED
      BY <2>2, <3>1, <3>2, <3>3 DEF Sealing
  <2>3. QED
    BY <1>2, <2>1, <2>2
<1>4. ASSUME NEW i \in DOMAIN s, NEW j \in DOMAIN s, i < j, Shows(s[i]), IsTranscript(s[j]),
             s[j].utterance # s[i].utterance
      PROVE  \E k \in DOMAIN s : i < k /\ k < j /\ Seals(s[k], s[i].utterance)
  <2>1. i \in DOMAIN q /\ s[i] = q[i]
    BY <1>2, <1>4
  <2>2. CASE j \in DOMAIN q
    <3>1. PICK k \in DOMAIN q : i < k /\ k < j /\ Seals(q[k], q[i].utterance)
      BY <1>2, <1>4, <2>1, <2>2 DEF Sealing
    <3>2. QED
      BY <1>2, <2>1, <3>1
  <2>3. CASE j = Len(q) + 1
    <3>1. q[i].utterance \notin o
      BY <1>2, <1>4, <2>1, <2>3
    <3>2. PICK k \in DOMAIN q : k > i /\ Seals(q[k], q[i].utterance)
      BY <1>4, <2>1, <3>1 DEF Sealing
    <3>3. k \in DOMAIN s /\ s[k] = q[k] /\ k < j
      BY <1>2, <2>3
    <3>4. QED
      BY <2>1, <3>2, <3>3
  <2>4. QED
    BY <1>2, <2>2, <2>3
<1>5. Sealing(s, r)
  BY <1>3, <1>4 DEF Sealing
<1>6. QED
  BY <1>5 DEF s

LEMMA SealingReports ==
    ASSUME NEW q \in Seq(Event), NEW o, Sealing(q, o),
           NEW e \in ErrorEvent
    PROVE  Sealing(Append(q, e), o)
<1> DEFINE s == Append(q, e)
<1>1. e \in Event /\ ~IsTranscript(e) /\ ~Shows(e)
  BY EventTypes DEF Shows
<1>2. /\ DOMAIN q = 1 .. Len(q) /\ Len(q) \in Nat
      /\ \A i \in DOMAIN q : i \in DOMAIN s /\ s[i] = q[i]
      /\ s[Len(q) + 1] = e
      /\ \A i \in DOMAIN s : i \in DOMAIN q \/ i = Len(q) + 1
  BY <1>1, Appended
<1> HIDE DEF s
<1>3. ASSUME NEW i \in DOMAIN s, Shows(s[i])
      PROVE  \/ s[i].utterance \in o
             \/ \E k \in DOMAIN s : k > i /\ Seals(s[k], s[i].utterance)
  <2>1. i \in DOMAIN q /\ s[i] = q[i]
    BY <1>1, <1>2, <1>3
  <2>2. QED
    BY <1>2, <1>3, <2>1 DEF Sealing
<1>4. ASSUME NEW i \in DOMAIN s, NEW j \in DOMAIN s, i < j, Shows(s[i]), IsTranscript(s[j]),
             s[j].utterance # s[i].utterance
      PROVE  \E k \in DOMAIN s : i < k /\ k < j /\ Seals(s[k], s[i].utterance)
  <2>1. i \in DOMAIN q /\ s[i] = q[i] /\ j \in DOMAIN q /\ s[j] = q[j]
    BY <1>1, <1>2, <1>4
  <2>2. PICK k \in DOMAIN q : i < k /\ k < j /\ Seals(q[k], q[i].utterance)
    BY <1>4, <2>1 DEF Sealing
  <2>3. QED
    BY <1>2, <2>1, <2>2
<1>5. Sealing(s, o)
  BY <1>3, <1>4 DEF Sealing
<1>6. QED
  BY <1>5 DEF s

-----------------------------------------------------------------------------
(* The utterance in progress.                                               *)

LEMMA UtteranceFields ==
    ASSUME NEW u \in Utterance
    PROVE  /\ u.index \in Nat /\ u.revision \in Nat /\ u.agreement \in Agreements
           /\ u.hypothesis \in Text /\ u.prefix \in Text /\ u.shown \in Seq(Text)
           /\ u.retryAt \in Nat /\ u.out \in Seq(TranscriptEvent)
           /\ u.agreement.committed \in Text
  BY DEF Utterance, Agreements

LEMMA Emitted ==
    ASSUME NEW u \in Utterance, NEW stable \in Text, NEW partial \in Text, NEW final \in BOOLEAN
    PROVE  LET v == Emit(u, stable, partial, final)
               t == Transcript(u.index, u.revision + 1, stable, partial, final)
           IN  /\ v \in Utterance
               /\ v.index = u.index /\ v.agreement = u.agreement /\ v.hypothesis = u.hypothesis
               /\ v.prefix = u.prefix /\ v.retryAt = u.retryAt
               /\ t \in TranscriptEvent
               /\ \/ ~final /\ v = u
                  \/ v.revision = u.revision + 1 /\ v.out = Append(u.out, t)
<1> DEFINE v == Emit(u, stable, partial, final)
           t == Transcript(u.index, u.revision + 1, stable, partial, final)
<1>1. u.index \in Nat /\ u.revision \in Nat /\ u.out \in Seq(TranscriptEvent)
  BY UtteranceFields
<1>2. t \in TranscriptEvent
  BY <1>1 DEF Transcript, TranscriptEvent
<1> HIDE DEF t
<1>3. Append(u.out, t) \in Seq(TranscriptEvent)
  BY <1>1, <1>2
<1>4. <<stable, partial>> \in Seq(Text)
  OBVIOUS
<1>5. CASE ~final /\ u.shown = <<stable, partial>>
  <2>1. v = u
    BY <1>5 DEF Emit
  <2> HIDE DEF v
  <2>2. QED
    BY <1>2, <1>5, <2>1 DEF v, t
<1>6. CASE ~(~final /\ u.shown = <<stable, partial>>)
  <2>1. v = [u EXCEPT !.revision = u.revision + 1, !.shown = <<stable, partial>>,
                      !.out = Append(u.out, t)]
    BY <1>6 DEF Emit, t
  <2> DEFINE said == Append(u.out, t)
             shown == <<stable, partial>>
  <2>2. v = [u EXCEPT !.revision = u.revision + 1, !.shown = shown, !.out = said]
    BY <2>1
  <2>3. said \in Seq(TranscriptEvent) /\ shown \in Seq(Text) /\ u.revision + 1 \in Nat
    BY <1>1, <1>3, <1>4
  <2> HIDE DEF v, said, shown
  <2>4. /\ v \in Utterance
        /\ v.index = u.index /\ v.agreement = u.agreement /\ v.hypothesis = u.hypothesis
        /\ v.prefix = u.prefix /\ v.retryAt = u.retryAt
        /\ v.revision = u.revision + 1 /\ v.out = said
    BY <2>2, <2>3 DEF Utterance
  <2>5. QED
    BY <1>2, <2>4 DEF v, said, t
<1>7. QED
  BY <1>5, <1>6

\* The two ways the session calls Emit.
Seal(u, text) == Emit(u, text, NoText, TRUE)
Tell(u, stable, partial) == Emit(u, stable, partial, FALSE)

LEMMA SealFields ==
    ASSUME NEW u \in Utterance, NEW text \in Text
    PROVE  LET v == Seal(u, text)
               t == Transcript(u.index, u.revision + 1, text, NoText, TRUE)
           IN  /\ v \in Utterance
               /\ v.index = u.index /\ v.agreement = u.agreement /\ v.hypothesis = u.hypothesis
               /\ v.prefix = u.prefix /\ v.retryAt = u.retryAt
               /\ t \in TranscriptEvent
               /\ v.revision = u.revision + 1 /\ v.out = Append(u.out, t)
<1>1. TRUE \in BOOLEAN /\ NoText \in Text
  BY EmptyText
<1>2. QED
  BY <1>1, Emitted DEF Seal

LEMMA TellFields ==
    ASSUME NEW u \in Utterance, NEW stable \in Text, NEW partial \in Text
    PROVE  LET v == Tell(u, stable, partial)
               t == Transcript(u.index, u.revision + 1, stable, partial, FALSE)
           IN  /\ v \in Utterance
               /\ v.index = u.index /\ v.agreement = u.agreement /\ v.hypothesis = u.hypothesis
               /\ v.prefix = u.prefix /\ v.retryAt = u.retryAt
               /\ t \in TranscriptEvent
               /\ v = u \/ (v.revision = u.revision + 1 /\ v.out = Append(u.out, t))
<1>1. FALSE \in BOOLEAN
  OBVIOUS
<1>2. QED
  BY <1>1, Emitted DEF Tell

LEMMA Said ==
    ASSUME NEW b \in Seq(Event), NEW u \in Utterance
    PROVE  /\ b \o u.out \in Seq(Event)
           /\ \A t \in TranscriptEvent : b \o Append(u.out, t) = Append(b \o u.out, t)
<1>1. u.out \in Seq(Event) /\ \A t \in TranscriptEvent : t \in Event
  BY UtteranceFields, SeqMonotonic, EventTypes DEF Event
<1>2. QED
  BY <1>1

LEMMA SpokenSays ==
    ASSUME NEW q \in Seq(Event), Spoken(q), NEW e \in Event, IsTranscript(e) => Accurate(e.stable)
    PROVE  Spoken(Append(q, e))
<1> DEFINE s == Append(q, e)
<1>1. /\ \A i \in DOMAIN q : s[i] = q[i]
      /\ s[Len(q) + 1] = e
      /\ \A i \in DOMAIN s : i \in DOMAIN q \/ i = Len(q) + 1
  BY Appended
<1> HIDE DEF s
<1>2. Spoken(s)
  BY <1>1 DEF Spoken
<1>3. QED
  BY <1>2 DEF s

\* u goes on as v without a word.
LEMMA GoodOn ==
    ASSUME NEW b, NEW u, Good(b, u), NEW v \in Utterance, Proper(v.agreement), Reads(v),
           v.index = u.index, v.revision = u.revision, v.out = u.out,
           IsPrefix(WordsOf(Settled(u)), WordsOf(Settled(v))),
           ~HasDraft /\ Pending(u) => Pending(v)
    PROVE  Good(b, v)
<1>1. b \in Seq(Event) /\ u \in Utterance /\ b \o u.out \in Seq(Event) /\ u.index \in Nat
      /\ u.revision \in Nat
  BY Said, UtteranceFields DEF Good
<1>marks. /\ Mark(u) \in Entries /\ Mark(v) \in Entries
          /\ Mark(u).utterance = u.index /\ Mark(u).revision = u.revision
          /\ Mark(u).letters = WordsOf(Settled(u)) /\ Mark(u).final = FALSE
          /\ Mark(v).utterance = v.index /\ Mark(v).revision = v.revision
          /\ Mark(v).letters = WordsOf(Settled(v))
  BY <1>1, MarkTypes
<1>2. AtMost(Mark(u), Mark(v))
  BY <1>1, <1>marks DEF AtMost
<1>3. Ordered(b \o u.out, Mark(v))
  BY <1>1, <1>marks, <1>2, OrderedOn DEF Good
<1>4. ASSUME ~HasDraft PROVE Sealing(b \o v.out, Open(v))
  <2>1. Sealing(b \o u.out, Open(u))
    BY <1>4 DEF Good
  <2>2. Open(u) \subseteq Open(v)
    BY <1>4 DEF Open
  <2>3. QED
    BY <2>1, <2>2, SealingOn
<1>5. QED
  BY <1>1, <1>3, <1>4 DEF Good

\* u is left for v, another utterance, without a word, when nothing is to be sealed.
LEMMA GoodOver ==
    ASSUME NEW b, NEW u, Good(b, u), NEW v \in Utterance, Proper(v.agreement), Reads(v),
           v.index > u.index, v.revision = u.revision, v.out = u.out,
           ~HasDraft => ~Pending(u)
    PROVE  Good(b, v)
<1>1. b \in Seq(Event) /\ u \in Utterance /\ b \o u.out \in Seq(Event)
      /\ u.index \in Nat /\ v.index \in Nat /\ u.revision \in Nat
  BY Said, UtteranceFields DEF Good
<1>marks. /\ Mark(u) \in Entries /\ Mark(v) \in Entries
          /\ Mark(u).utterance = u.index /\ Mark(u).revision = u.revision
          /\ Mark(v).utterance = v.index /\ Mark(v).revision = v.revision
  BY <1>1, MarkTypes
<1>2. AtMost(Mark(u), Mark(v))
  BY <1>1, <1>marks DEF AtMost
<1>3. Ordered(b \o u.out, Mark(v))
  BY <1>1, <1>marks, <1>2, OrderedOn DEF Good
<1>4. ASSUME ~HasDraft PROVE Sealing(b \o v.out, Open(v))
  <2>1. Sealing(b \o u.out, Open(u)) /\ Open(u) \subseteq Open(v)
    BY <1>4 DEF Good, Open
  <2>2. QED
    BY <2>1, SealingOn
<1>5. QED
  BY <1>1, <1>3, <1>4 DEF Good

\* u goes on as v with one more transcript, of what is settled.
LEMMA GoodAdds ==
    ASSUME NEW b, NEW u, Good(b, u), NEW v \in Utterance, NEW t \in TranscriptEvent,
           v.index = u.index, v.agreement = u.agreement, v.hypothesis = u.hypothesis,
           v.prefix = u.prefix, v.revision = u.revision + 1, v.out = Append(u.out, t),
           t.utterance = u.index, t.revision = u.revision + 1, t.stable = Settled(u),
           t.final = FALSE, Accurate(t.stable), ~HasDraft /\ Shows(t) => Pending(u)
    PROVE  Good(b, v)
<1>1. b \in Seq(Event) /\ u \in Utterance /\ b \o u.out \in Seq(Event) /\ u.index \in Nat
      /\ u.revision \in Nat
  BY Said, UtteranceFields DEF Good
<1>2. b \o v.out = Append(b \o u.out, t)
  BY <1>1, Said
<1>3. Settled(v) = Settled(u) /\ Pending(v) = Pending(u)
  BY DEF Settled, Pending, LastWindow
<1>4. /\ Mark(u) \in Entries /\ Mark(v) \in Entries /\ Entry(t) \in Entries
      /\ Mark(u).utterance = u.index /\ Mark(u).revision = u.revision
      /\ Mark(u).letters = WordsOf(Settled(u)) /\ Mark(u).final = FALSE
      /\ Mark(v).utterance = u.index /\ Mark(v).revision = u.revision + 1
      /\ Mark(v).letters = WordsOf(Settled(u))
      /\ Entry(t).utterance = u.index /\ Entry(t).revision = u.revision + 1
      /\ Entry(t).letters = WordsOf(Settled(u)) /\ Entry(t).final = FALSE
  BY <1>1, <1>3, MarkTypes, EntryTypes
<1>5. IsPrefix(WordsOf(Settled(u)), WordsOf(Settled(u)))
  BY <1>1, SettledText, SameWordsPrefix
<1>6. Follows(Mark(u), Entry(t)) /\ AtMost(Entry(t), Mark(v))
  BY <1>1, <1>4, <1>5 DEF Follows, AtMost
<1>7. Ordered(b \o v.out, Mark(v))
  BY <1>1, <1>2, <1>4, <1>6, OrderedSays DEF Good
<1>8. Spoken(b \o v.out)
  BY <1>1, <1>2, SpokenSays, EventTypes DEF Good
<1>9. ASSUME ~HasDraft PROVE Sealing(b \o v.out, Open(v))
  <2>1. Sealing(b \o u.out, Open(u))
    BY <1>9 DEF Good
  <2>2. /\ Open(u) \subseteq {t.utterance} /\ Open(u) \subseteq Open(v)
        /\ Shows(t) => t.utterance \in Open(v)
    BY <1>3, <1>9 DEF Open
  <2>3. Sealing(Append(b \o u.out, t), Open(v))
    BY <1>1, <2>1, <2>2, SealingSays
  <2>4. QED
    BY <1>2, <2>3
<1>10. Proper(v.agreement) /\ Reads(v)
  BY DEF Good, Reads
<1>11. QED
  BY <1>1, <1>7, <1>8, <1>9, <1>10 DEF Good

\* u says what is settled, and what it shows beyond is pending.
LEMMA GoodSays ==
    ASSUME NEW b, NEW u, Good(b, u), NEW stable \in Text, NEW partial \in Text,
           stable = Settled(u), Accurate(stable),
           ~HasDraft /\ stable \o partial # NoText => Pending(u)
    PROVE  Good(b, Tell(u, stable, partial))
<1> DEFINE v == Tell(u, stable, partial)
           t == Transcript(u.index, u.revision + 1, stable, partial, FALSE)
<1>1. u \in Utterance
  BY DEF Good
<1>2. /\ v \in Utterance
      /\ v.index = u.index /\ v.agreement = u.agreement /\ v.hypothesis = u.hypothesis
      /\ v.prefix = u.prefix
      /\ t \in TranscriptEvent
      /\ v = u \/ (v.revision = u.revision + 1 /\ v.out = Append(u.out, t))
  BY <1>1, TellFields, ZenonT(40)
<1>3. t.utterance = u.index /\ t.revision = u.revision + 1 /\ t.stable = stable
      /\ t.partial = partial /\ t.final = FALSE
  BY DEF Transcript
<1> HIDE DEF v, t
<1>4. ~HasDraft /\ Shows(t) => Pending(u)
  BY <1>3 DEF Shows
<1>5. CASE v = u
  BY <1>5 DEF v
<1>6. CASE v.revision = u.revision + 1 /\ v.out = Append(u.out, t)
  <2>1. Good(b, v)
    BY <1>2, <1>3, <1>4, <1>6, GoodAdds
  <2>2. QED
    BY <2>1 DEF v
<1>7. QED
  BY <1>2, <1>5, <1>6

\* The transcript EmitCarried adds.
LeftOver(u, stable, partial) ==
    [Transcript(u.index, u.revision + 1, stable, partial, FALSE) EXCEPT !.carried = TRUE]

LEMMA LeftOverFields ==
    ASSUME NEW u \in Utterance, NEW stable \in Text, NEW partial \in Text, NEW t,
           t = LeftOver(u, stable, partial)
    PROVE  /\ t \in TranscriptEvent
           /\ t.utterance = u.index /\ t.revision = u.revision + 1 /\ t.stable = stable
           /\ t.final = FALSE /\ t.carried = TRUE
<1> DEFINE r == Transcript(u.index, u.revision + 1, stable, partial, FALSE)
<1>1. u.index \in Nat /\ u.revision \in Nat
  BY UtteranceFields
<1>2. /\ r \in TranscriptEvent
      /\ r.utterance = u.index /\ r.revision = u.revision + 1 /\ r.stable = stable
      /\ r.final = FALSE
  BY <1>1 DEF Transcript, TranscriptEvent
<1>3. t = [r EXCEPT !.carried = TRUE]
  BY DEF LeftOver
<1> HIDE DEF r
<1>4. QED
  BY <1>2, <1>3 DEF TranscriptEvent

LEMMA CarriedFields ==
    ASSUME NEW u \in Utterance, NEW stable \in Text, NEW partial \in Text
    PROVE  LET v == EmitCarried(u, stable, partial)
           IN  /\ v \in Utterance
               /\ v.index = u.index /\ v.agreement = u.agreement /\ v.hypothesis = u.hypothesis
               /\ v.prefix = u.prefix
               /\ v.revision = u.revision + 1
               /\ v.out = Append(u.out, LeftOver(u, stable, partial))
<1> DEFINE v == EmitCarried(u, stable, partial)
           said == Append(u.out, LeftOver(u, stable, partial))
           shown == <<stable, partial>>
<1>1. v = [u EXCEPT !.revision = u.revision + 1, !.shown = shown, !.out = said]
  BY DEF EmitCarried, LeftOver
<1>2. said \in Seq(TranscriptEvent) /\ shown \in Seq(Text) /\ u.revision + 1 \in Nat
  <2>1. u.out \in Seq(TranscriptEvent) /\ u.revision \in Nat
    BY UtteranceFields
  <2>2. LeftOver(u, stable, partial) \in TranscriptEvent
    BY LeftOverFields
  <2>3. QED
    BY <2>1, <2>2
<1> HIDE DEF v, said, shown
<1>3. /\ v \in Utterance
      /\ v.index = u.index /\ v.agreement = u.agreement /\ v.hypothesis = u.hypothesis
      /\ v.prefix = u.prefix
      /\ v.revision = u.revision + 1 /\ v.out = said
  BY <1>1, <1>2 DEF Utterance
<1>4. QED
  BY <1>3 DEF v, said

\* u says what is settled, as left over by a revision.
LEMMA GoodCarries ==
    ASSUME NEW b, NEW u, Good(b, u), NEW stable \in Text, NEW partial \in Text,
           stable = Settled(u), Accurate(stable)
    PROVE  Good(b, EmitCarried(u, stable, partial))
<1> DEFINE v == EmitCarried(u, stable, partial)
           t == LeftOver(u, stable, partial)
<1>1. u \in Utterance
  BY DEF Good
<1>2. /\ v \in Utterance
      /\ v.index = u.index /\ v.agreement = u.agreement /\ v.hypothesis = u.hypothesis
      /\ v.prefix = u.prefix
      /\ v.revision = u.revision + 1 /\ v.out = Append(u.out, t)
  BY <1>1, CarriedFields
<1>3. /\ t \in TranscriptEvent
      /\ t.utterance = u.index /\ t.revision = u.revision + 1 /\ t.stable = stable
      /\ t.final = FALSE /\ t.carried = TRUE
  BY <1>1, LeftOverFields
<1> HIDE DEF v, t
<1>4. ~Shows(t)
  BY <1>3 DEF Shows
<1>5. Good(b, v)
  BY <1>2, <1>3, <1>4, GoodAdds
<1>6. QED
  BY <1>5 DEF v

\* u is sealed with what is settled and more, and left for v.
LEMMA GoodSeals ==
    ASSUME NEW b, NEW u, Good(b, u), NEW stable \in Text,
           IsPrefix(WordsOf(Settled(u)), WordsOf(stable)), Accurate(stable),
           NEW v \in Utterance, Proper(v.agreement), Reads(v), v.index > u.index,
           v.revision = Seal(u, stable).revision, v.out = Seal(u, stable).out
    PROVE  Good(b, v)
<1> DEFINE t == Transcript(u.index, u.revision + 1, stable, NoText, TRUE)
<1>1. b \in Seq(Event) /\ u \in Utterance /\ b \o u.out \in Seq(Event) /\ u.index \in Nat
      /\ u.revision \in Nat /\ v.index \in Nat
  BY Said, UtteranceFields DEF Good
<1>2. t \in TranscriptEvent /\ v.revision = u.revision + 1 /\ v.out = Append(u.out, t)
  BY <1>1, SealFields
<1>3. t.utterance = u.index /\ t.revision = u.revision + 1 /\ t.stable = stable
      /\ t.final = TRUE
  BY DEF Transcript
<1> HIDE DEF t
<1>4. b \o v.out = Append(b \o u.out, t)
  BY <1>1, <1>2, Said, SMTT(30)
<1>5. /\ Mark(u) \in Entries /\ Mark(v) \in Entries /\ Entry(t) \in Entries
      /\ Mark(u).utterance = u.index /\ Mark(u).revision = u.revision
      /\ Mark(u).letters = WordsOf(Settled(u)) /\ Mark(u).final = FALSE
      /\ Mark(v).utterance = v.index /\ Mark(v).revision = u.revision + 1
      /\ Entry(t).utterance = u.index /\ Entry(t).revision = u.revision + 1
      /\ Entry(t).letters = WordsOf(stable)
  BY <1>1, <1>2, <1>3, MarkTypes, EntryTypes
<1>6. Follows(Mark(u), Entry(t)) /\ AtMost(Entry(t), Mark(v))
  BY <1>1, <1>5 DEF Follows, AtMost
<1>7. Ordered(b \o v.out, Mark(v))
  BY <1>1, <1>2, <1>4, <1>5, <1>6, OrderedSays DEF Good
<1>8. Spoken(b \o v.out)
  BY <1>1, <1>2, <1>3, <1>4, SpokenSays, EventTypes DEF Good
<1>9. ASSUME ~HasDraft PROVE Sealing(b \o v.out, Open(v))
  <2>1. Sealing(b \o u.out, Open(u))
    BY <1>9 DEF Good
  <2>2. Open(u) \subseteq {t.utterance}
    BY <1>3 DEF Open
  <2>3. Sealing(Append(b \o u.out, t), Open(v))
    BY <1>1, <1>2, <1>3, <2>1, <2>2, SealingSays
  <2>4. QED
    BY <1>4, <2>3
<1>10. QED
  BY <1>1, <1>7, <1>8, <1>9 DEF Good

\* What Seal adds does not depend on the agreement.
LEMMA SealedAlike ==
    ASSUME NEW u \in Utterance, NEW w \in Utterance, NEW stable \in Text,
           w.index = u.index, w.revision = u.revision, w.out = u.out
    PROVE  /\ Seal(w, stable).revision = Seal(u, stable).revision
           /\ Seal(w, stable).out = Seal(u, stable).out
<1>1. /\ Seal(u, stable).revision = u.revision + 1
      /\ Seal(u, stable).out =
           Append(u.out, Transcript(u.index, u.revision + 1, stable, NoText, TRUE))
  BY SealFields
<1>2. /\ Seal(w, stable).revision = w.revision + 1
      /\ Seal(w, stable).out =
           Append(w.out, Transcript(w.index, w.revision + 1, stable, NoText, TRUE))
  BY SealFields
<1>3. QED
  BY <1>1, <1>2 DEF Transcript

LEMMA WithAgreement ==
    ASSUME NEW u \in Utterance, NEW a \in Agreements
    PROVE  LET w == [u EXCEPT !.agreement = a]
           IN  /\ w \in Utterance /\ w.agreement = a
               /\ w.index = u.index /\ w.revision = u.revision /\ w.out = u.out
               /\ w.prefix = u.prefix /\ w.hypothesis = u.hypothesis /\ w.retryAt = u.retryAt
  BY DEF Utterance

LEMMA RotatedFields ==
    ASSUME NEW u \in Utterance
    PROVE  LET w == Rotated(u)
           IN  /\ w \in Utterance /\ w.agreement = Fresh /\ w.prefix = NoText
               /\ w.index = u.index + 1 /\ w.revision = u.revision /\ w.out = u.out
               /\ w.hypothesis = u.hypothesis
<1>1. Fresh \in Agreements /\ NoText \in Text /\ <<>> \in Seq(Text) /\ u.index + 1 \in Nat
  BY FreshIsProper, EmptyText, UtteranceFields DEF Proper
<1>2. QED
  BY <1>1 DEF Rotated, NextIndex, Utterance

\* What is beyond the words a reader sees in typed.
LEMMA RestText ==
    ASSUME NEW typed \in Text, NEW text \in Text
    PROVE  /\ Cardinality(WordEnds(typed)) \in Nat
           /\ RemainderAfter(typed, text) = Beyond(text, Cardinality(WordEnds(typed)))
           /\ RemainderAfter(typed, text) \in Text
<1>1. Len(typed) \in Nat
  BY DEF Text
<1>2. IsFiniteSet(1 .. Len(typed)) /\ WordEnds(typed) \subseteq 1 .. Len(typed)
  BY <1>1, FS_Interval DEF WordEnds
<1>3. Cardinality(WordEnds(typed)) \in Nat
  BY <1>2, FS_Subset, FS_CardinalityType
<1>4. QED
  BY <1>3, BeyondOfText DEF RemainderAfter

LEMMA RestAccurate ==
    ASSUME NEW typed \in Text, NEW text \in Text, Accurate(text)
    PROVE  RemainderAfter(typed, text) \in Text /\ Accurate(RemainderAfter(typed, text))
<1> DEFINE n == Cardinality(WordEnds(typed))
           rest == RemainderAfter(typed, text)
<1>1. n \in Nat /\ rest = Beyond(text, n) /\ rest \in Text
  BY RestText
<1> HIDE DEF n, rest
<1>2. Len(text) \in Nat /\ text \in Seq(Token)
  BY DEF Text
<1>3. ASSUME NEW i \in DOMAIN rest PROVE rest[i].word \in AccurateWords
  <2>1. n + i \in DOMAIN text /\ rest[i] = text[n + i]
    BY <1>1, <1>2, <1>3 DEF Beyond
  <2>2. QED
    BY <2>1 DEF Accurate
<1>4. QED
  BY <1>1, <1>3 DEF Accurate, rest

\* What is settled is a prefix of what an utterance is closed with.
LEMMA ClosingGrows ==
    ASSUME NEW u \in Utterance, NEW stable \in Text,
           IsPrefix(WordsOf(u.agreement.committed), WordsOf(stable))
    PROVE  /\ u.prefix \o stable \in Text
           /\ IsPrefix(WordsOf(Settled(u)), WordsOf(u.prefix \o stable))
<1>1. u.prefix \in Text /\ u.agreement.committed \in Text /\ NoText \in Text
  BY UtteranceFields, EmptyText
<1>2. IsPrefix(WordsOf(NoText), WordsOf(stable))
  BY NothingIsAPrefix
<1>3. QED
  BY <1>1, <1>2, WordsGrow, Joined DEF Settled, Text

(* _close_utterance, by what the agreement says to the text.               *)
LEMMA ClosedUntouched ==
    ASSUME NEW u, NEW text, u.prefix \o text = NoText
    PROVE  Closed(u, text) = u
  BY DEF Closed

LEMMA ClosedAgreed ==
    ASSUME NEW u, NEW text, u.prefix \o text # NoText, ~CommitAll(u.agreement, text).conflict
    PROVE  Closed(u, text) = Seal([u EXCEPT !.agreement = CommitAll(u.agreement, text).agreement],
                                  u.prefix \o CommitAll(u.agreement, text).stable)
  BY DEF Closed, Seal

LEMMA ClosedReopened ==
    ASSUME NEW u, NEW text, u.prefix \o text # NoText, CommitAll(u.agreement, text).conflict,
           RemainderAfter(u.agreement.committed, text) = NoText
    PROVE  Closed(u, text) = Rotated(Seal(u, u.prefix \o u.agreement.committed))
  BY DEF Closed, Seal

LEMMA ClosedTwice ==
    ASSUME NEW u, NEW text, u.prefix \o text # NoText, CommitAll(u.agreement, text).conflict,
           RemainderAfter(u.agreement.committed, text) # NoText
    PROVE  Closed(u, text) =
             LET rest == RemainderAfter(u.agreement.committed, text)
                 sealed == CommitAll(Fresh, rest)
             IN  Seal([Rotated(Seal(u, u.prefix \o u.agreement.committed))
                         EXCEPT !.agreement = sealed.agreement], sealed.stable)
  BY DEF Closed, Seal

\* The utterance reopened after a revision of committed words.
LEMMA Reopens ==
    ASSUME NEW u \in Utterance, NEW whole \in Text
    PROVE  LET w == Rotated(Seal(u, whole))
           IN  /\ w \in Utterance /\ w.index = u.index + 1
               /\ w.revision = Seal(u, whole).revision /\ w.out = Seal(u, whole).out
               /\ w.prefix = NoText /\ w.hypothesis = u.hypothesis /\ w.agreement = Fresh
<1> DEFINE x == Seal(u, whole)
<1>1. x \in Utterance /\ x.index = u.index /\ x.hypothesis = u.hypothesis
  BY SealFields
<1> HIDE DEF x
<1>2. LET w == Rotated(x)
      IN  /\ w \in Utterance /\ w.index = u.index + 1
          /\ w.revision = x.revision /\ w.out = x.out
          /\ w.prefix = NoText /\ w.hypothesis = u.hypothesis /\ w.agreement = Fresh
  BY <1>1, RotatedFields
<1>3. QED
  BY <1>2 DEF x

LEMMA ClosedIsAnUtterance ==
    ASSUME NEW u \in Utterance, Proper(u.agreement), NEW text \in Text
    PROVE  Closed(u, text) \in Utterance /\ Closed(u, text).index >= u.index
<1> DEFINE outcome == CommitAll(u.agreement, text)
           typed == u.agreement.committed
           whole == u.prefix \o typed
           reopened == Rotated(Seal(u, whole))
           rest == RemainderAfter(typed, text)
           sealed == CommitAll(Fresh, rest)
<1>1. u.prefix \in Text /\ typed \in Text /\ NoText \in Text /\ u.index \in Nat
  BY UtteranceFields, EmptyText
<1>2. Proper(outcome.agreement) /\ outcome.stable \in Text
  BY Committed
<1>3. whole \in Text /\ u.prefix \o outcome.stable \in Text
  BY <1>1, <1>2 DEF Text
<1>4. reopened \in Utterance /\ reopened.index = u.index + 1
  BY <1>3, Reopens
<1>5. rest \in Text
  BY <1>1, RestText
<1>6. Proper(sealed.agreement) /\ sealed.stable \in Text
  BY <1>5, Committed, FreshIsProper
<1>7. CASE u.prefix \o text = NoText
  <2>1. Closed(u, text) = u
    BY <1>7, ClosedUntouched
  <2>2. QED
    BY <1>1, <2>1
<1>8. CASE u.prefix \o text # NoText /\ ~outcome.conflict
  <2> DEFINE w == [u EXCEPT !.agreement = outcome.agreement]
             said == u.prefix \o outcome.stable
  <2>1. Closed(u, text) = Seal(w, said)
    BY <1>8, ClosedAgreed
  <2>2. outcome.agreement \in Agreements
    BY <1>2 DEF Proper
  <2> HIDE DEF outcome
  <2>3. w \in Utterance /\ w.index = u.index /\ said \in Text
    BY <1>3, <2>2, WithAgreement
  <2> HIDE DEF w, said
  <2>4. Seal(w, said) \in Utterance /\ Seal(w, said).index = u.index
    BY <2>3, SealFields
  <2>5. QED
    BY <1>1, <2>1, <2>4
<1>9. CASE u.prefix \o text # NoText /\ outcome.conflict /\ rest = NoText
  <2>1. Closed(u, text) = reopened
    BY <1>9, ClosedReopened
  <2> HIDE DEF reopened
  <2>2. QED
    BY <1>1, <1>4, <2>1
<1>10. CASE u.prefix \o text # NoText /\ outcome.conflict /\ rest # NoText
  <2> DEFINE x == [reopened EXCEPT !.agreement = sealed.agreement]
             said == sealed.stable
  <2>1. Closed(u, text) = Seal(x, said)
    BY <1>10, ClosedTwice
  <2>2. sealed.agreement \in Agreements
    BY <1>6 DEF Proper
  <2> HIDE DEF reopened, sealed
  <2>3. x \in Utterance /\ x.index = u.index + 1 /\ said \in Text
    BY <1>4, <1>6, <2>2, WithAgreement
  <2> HIDE DEF x, said
  <2>4. Seal(x, said) \in Utterance /\ Seal(x, said).index = u.index + 1
    BY <2>3, SealFields
  <2>5. QED
    BY <1>1, <2>1, <2>4
<1>11. QED
  BY <1>7, <1>8, <1>9, <1>10

\* _close_utterance keeps the promises once the utterance is left.
LEMMA GoodClosed ==
    ASSUME NEW b, NEW u, Good(b, u), NEW text \in Text, Accurate(text),
           Accurate(u.agreement.committed),
           ~HasDraft /\ u.prefix \o text = NoText => ~Pending(u),
           NEW v \in Utterance, Proper(v.agreement), Reads(v), v.index > Closed(u, text).index,
           v.revision = Closed(u, text).revision, v.out = Closed(u, text).out
    PROVE  Good(b, v)
<1> DEFINE outcome == CommitAll(u.agreement, text)
           typed == u.agreement.committed
           rest == RemainderAfter(typed, text)
<1>1. /\ u \in Utterance /\ Proper(u.agreement) /\ Accurate(u.prefix)
      /\ u.prefix \in Text /\ typed \in Text /\ NoText \in Text
      /\ u.index \in Nat /\ v.index \in Nat
  BY UtteranceFields, EmptyText DEF Good, Reads
<1>2. CASE u.prefix \o text = NoText
  <2>1. Closed(u, text) = u
    BY <1>2, ClosedUntouched
  <2>2. QED
    BY <1>2, <2>1, GoodOver
<1>3. CASE u.prefix \o text # NoText /\ ~outcome.conflict
  <2> DEFINE stable == outcome.stable
             whole == u.prefix \o stable
             w == [u EXCEPT !.agreement = outcome.agreement]
  <2>1. Closed(u, text) = Seal(w, whole)
    BY <1>3, ClosedAgreed
  <2>2. /\ Proper(outcome.agreement) /\ stable \in Text /\ Accurate(stable)
        /\ IsPrefix(WordsOf(typed), WordsOf(stable)) /\ outcome.agreement \in Agreements
    BY <1>1, <1>3, Committed DEF Proper
  <2> HIDE DEF outcome
  <2>3. w \in Utterance /\ w.index = u.index /\ w.revision = u.revision /\ w.out = u.out
    BY <1>1, <2>2, WithAgreement
  <2> HIDE DEF w, stable
  <2>4. whole \in Text /\ IsPrefix(WordsOf(Settled(u)), WordsOf(whole)) /\ Accurate(whole)
    BY <1>1, <2>2, ClosingGrows, AccurateJoined
  <2> HIDE DEF whole
  <2>5. Seal(w, whole).index = u.index
        /\ Seal(w, whole).revision = Seal(u, whole).revision
        /\ Seal(w, whole).out = Seal(u, whole).out
    BY <1>1, <2>3, <2>4, SealedAlike, SealFields, ZenonT(40)
  <2>6. v.index > u.index /\ v.revision = Seal(u, whole).revision /\ v.out = Seal(u, whole).out
    BY <1>1, <2>1, <2>5
  <2>7. QED
    BY <1>1, <2>4, <2>6, GoodSeals
<1>4. CASE u.prefix \o text # NoText /\ outcome.conflict
  <2> DEFINE whole == u.prefix \o typed
             reopened == Rotated(Seal(u, whole))
  <2>1. whole \in Text /\ IsPrefix(WordsOf(Settled(u)), WordsOf(whole)) /\ Accurate(whole)
    BY <1>1, SameWordsPrefix, ClosingGrows, AccurateJoined
  <2>2. /\ reopened \in Utterance /\ reopened.index = u.index + 1
        /\ reopened.revision = Seal(u, whole).revision
        /\ reopened.out = Seal(u, whole).out
        /\ reopened.prefix = NoText /\ reopened.hypothesis = u.hypothesis
    BY <1>1, <2>1, Reopens
  <2>3. rest \in Text /\ Accurate(rest)
    BY <1>1, RestAccurate
  <2>4. CASE rest = NoText
    <3>1. Closed(u, text) = reopened
      BY <1>4, <2>4, ClosedReopened
    <3> HIDE DEF whole, reopened
    <3>2. v.index > u.index /\ v.revision = Seal(u, whole).revision /\ v.out = Seal(u, whole).out
      BY <1>1, <2>2, <3>1
    <3>3. QED
      BY <1>1, <2>1, <3>2, GoodSeals
  <2>5. CASE rest # NoText
    <3> DEFINE sealed == CommitAll(Fresh, rest)
               x == [reopened EXCEPT !.agreement = sealed.agreement]
    <3>1. Closed(u, text) = Seal(x, sealed.stable)
      BY <1>4, <2>5, ClosedTwice
    <3>2. /\ Proper(sealed.agreement) /\ sealed.stable = rest
          /\ sealed.agreement.committed = rest /\ sealed.agreement \in Agreements
      BY <2>3, Committed, FreshIsProper DEF Proper
    <3> HIDE DEF reopened, sealed
    <3>3. /\ x \in Utterance /\ x.agreement = sealed.agreement
          /\ x.index = reopened.index /\ x.revision = reopened.revision /\ x.out = reopened.out
          /\ x.prefix = reopened.prefix /\ x.hypothesis = reopened.hypothesis
      BY <2>2, <3>2, WithAgreement
    <3> HIDE DEF whole, outcome, rest, x
    <3>4. /\ x \in Utterance /\ Proper(x.agreement) /\ x.agreement.committed = rest
          /\ x.prefix = NoText /\ x.hypothesis = u.hypothesis /\ x.index = u.index + 1
          /\ x.revision = Seal(u, whole).revision /\ x.out = Seal(u, whole).out
      BY <2>2, <3>2, <3>3
    <3>5. Reads(x)
      BY <1>1, <2>3, <3>4, AccurateNothing DEF Reads, Good
    <3>6. x.index > u.index
      BY <1>1, <3>4
    <3>7. Good(b, x)
      BY <1>1, <2>1, <3>4, <3>5, <3>6, GoodSeals
    <3>8. Settled(x) = IF HasDraft THEN NoText ELSE rest
      <4>1. rest \in Seq(Token)
        BY <2>3 DEF Text
      <4>2. QED
        BY <3>4, <4>1 DEF Settled, NoText
    <3>9. IsPrefix(WordsOf(Settled(x)), WordsOf(rest))
      BY <2>3, <3>8, SameWordsPrefix, NothingIsAPrefix
    <3>10. Closed(u, text) = Seal(x, rest) /\ Seal(x, rest).index = x.index
      BY <2>3, <3>1, <3>2, <3>4, SealFields
    <3>11. v.index > x.index /\ v.revision = Seal(x, rest).revision /\ v.out = Seal(x, rest).out
      BY <3>10
    <3>12. QED
      BY <2>3, <3>4, <3>7, <3>9, <3>11, GoodSeals
  <2>6. QED
    BY <2>4, <2>5
<1>5. QED
  BY <1>2, <1>3, <1>4

\* _finalize keeps the promises, and the next utterance has nothing to seal.
LEMMA GoodFinalized ==
    ASSUME NEW b, NEW u, Good(b, u), setup \in Setups, NEW text \in Texts \cup {NoText}
    PROVE  Good(b, Finalized(u, text)) /\ ~Pending(Finalized(u, text))
<1> DEFINE w == IF HasDraft THEN [u EXCEPT !.agreement = Fresh] ELSE u
           last == LastWindow(u, text)
           closed == Closed(w, last)
           v == Finalized(u, text)
<1>1. u \in Utterance /\ Proper(u.agreement) /\ Reads(u) /\ u.prefix \in Text
  BY UtteranceFields DEF Good
<1>2. text \in Text /\ Accurate(text)
  BY SetupsAssumption, EmptyText, AccurateTexts, AccurateNothing DEF Texts
<1>3. last \in Text /\ Accurate(last)
  BY <1>1, <1>2, UtteranceFields DEF LastWindow, Reads
<1>4. /\ w \in Utterance /\ Proper(w.agreement) /\ Good(b, w) /\ Accurate(w.agreement.committed)
      /\ w.prefix = u.prefix
  <2>1. CASE ~HasDraft
    BY <1>1, <2>1 DEF Reads
  <2>2. CASE HasDraft
    <3> DEFINE z == [u EXCEPT !.agreement = Fresh]
    <3>1. Fresh \in Agreements /\ Fresh.committed = NoText /\ Proper(Fresh)
      BY FreshIsProper DEF Proper
    <3>z. /\ z \in Utterance /\ z.agreement = Fresh
          /\ z.index = u.index /\ z.revision = u.revision /\ z.out = u.out
          /\ z.prefix = u.prefix
      BY <1>1, <3>1, WithAgreement
    <3>w. w = z
      BY <2>2
    <3> HIDE DEF z
    <3>2. /\ w \in Utterance /\ w.agreement = Fresh
          /\ w.index = u.index /\ w.revision = u.revision /\ w.out = u.out
          /\ w.prefix = u.prefix
      BY <3>z, <3>w
    <3> HIDE DEF w
    <3>3. Settled(w) = Settled(u) /\ Settled(u) \in Text
      BY <1>1, <2>2, <3>2, SettledText DEF Settled
    <3>4. IsPrefix(WordsOf(Settled(u)), WordsOf(Settled(w)))
      BY <3>3, SameWordsPrefix
    <3>5. Reads(w)
      BY <1>1, <2>2, <3>2 DEF Reads
    <3>6. Good(b, w)
      BY <2>2, <3>1, <3>2, <3>4, <3>5, GoodOn
    <3>7. QED
      BY <3>1, <3>2, <3>6, AccurateNothing
  <2>3. QED
    BY <2>1, <2>2
<1>5. ~HasDraft /\ w.prefix \o last = NoText => ~Pending(w)
  <2> SUFFICES ASSUME ~HasDraft, u.prefix \o last = NoText PROVE u.prefix \o LastWindow(u, NoText) = NoText
    BY DEF Pending
  <2>1. last = NoText
    BY <1>1, <1>3, Joined DEF NoText, Text
  <2>2. text = NoText
    BY <2>1 DEF LastWindow
  <2>3. QED
    BY <2>2
<1>6. closed \in Utterance /\ closed.index \in Nat /\ closed.revision \in Nat
      /\ closed.out \in Seq(TranscriptEvent)
  BY <1>3, <1>4, ClosedIsAnUtterance, UtteranceFields
<1>7. /\ v \in Utterance /\ v.agreement = Fresh /\ v.prefix = NoText /\ v.hypothesis = NoText
      /\ v.index = closed.index + 1 /\ v.revision = closed.revision /\ v.out = closed.out
  <2>1. v = [NewUtterance(closed.index + 1, closed.revision) EXCEPT !.out = closed.out]
    BY DEF Finalized, NextIndex
  <2>2. Fresh \in Agreements /\ NoText \in Text /\ <<>> \in Seq(Text)
        /\ closed.index + 1 \in Nat
    BY <1>6, FreshIsProper, EmptyText DEF Proper
  <2> DEFINE said == closed.out
             index == closed.index + 1
             revision == closed.revision
  <2>3. said \in Seq(TranscriptEvent) /\ index \in Nat /\ revision \in Nat
    BY <1>6, <2>2
  <2>4. v = [index |-> index, revision |-> revision, agreement |-> Fresh,
             hypothesis |-> NoText, prefix |-> NoText, shown |-> <<>>, retryAt |-> 0,
             out |-> said]
    BY <2>1 DEF NewUtterance
  <2>5. v.index = index /\ v.revision = revision /\ v.out = said
        /\ v.agreement = Fresh /\ v.prefix = NoText /\ v.hypothesis = NoText
    BY <2>4
  <2> HIDE DEF closed, v, said, index, revision
  <2>6. v \in Utterance
    BY <2>2, <2>3, <2>4 DEF Utterance
  <2>7. QED
    BY <2>5, <2>6 DEF said, index, revision
<1> HIDE DEF w, last, closed, v
<1>8. Proper(v.agreement) /\ Reads(v) /\ v.agreement.committed = NoText
  BY <1>7, FreshIsProper, AccurateNothing DEF Reads
<1>9. /\ v \in Utterance /\ v.index > Closed(w, last).index
      /\ v.revision = Closed(w, last).revision /\ v.out = Closed(w, last).out
  BY <1>6, <1>7 DEF closed
<1>good. Good(b, v)
  BY <1>3, <1>4, <1>5, <1>8, <1>9, GoodClosed
<1>10. ~Pending(v)
  BY <1>7, <1>8 DEF Pending, LastWindow, NoText
<1>11. QED
  BY <1>good, <1>10 DEF v

-----------------------------------------------------------------------------
(* Steps of the session.                                                    *)

(* A session keeps its configuration, so what is good stays good.           *)
LEMMA SameSession ==
    ASSUME setup' = setup, NEW b, NEW u, Good(b, u)
    PROVE  Good(b, u)'
<1>1. HasDraft' = HasDraft /\ AccurateWords' = AccurateWords
  BY DEF HasDraft, DraftTexts, AccurateWords, Texts
<1>2. ASSUME NEW t, Accurate(t) PROVE Accurate(t)'
  BY <1>1, <1>2 DEF Accurate
<1>3. Settled(u)' = Settled(u)
  BY <1>1 DEF Settled
<1>4. Mark(u)' = Mark(u)
  BY <1>3 DEF Mark
<1>5. LastWindow(u, NoText)' = LastWindow(u, NoText)
  BY <1>1 DEF LastWindow, NoText
<1>6. Open(u)' = Open(u)
  BY <1>5 DEF Open, Pending, NoText
<1>7. Reads(u)'
  BY <1>1, <1>2 DEF Good, Reads
<1>8. Spoken(b \o u.out)'
  BY <1>2 DEF Good, Spoken, IsTranscript
<1>9. Ordered(b \o u.out, Mark(u))'
  BY <1>4 DEF Good, Ordered, AtMost, Follows, IsTranscript, Entry, WordsOf
<1>10. (~HasDraft => Sealing(b \o u.out, Open(u)))'
  BY <1>1, <1>6 DEF Good, Sealing, Shows, Seals, IsTranscript, NoText
<1>11. QED
  BY <1>7, <1>8, <1>9, <1>10 DEF Good, Proper, Event, ErrorEvent, TranscriptEvent, Utterance

\* What u had to say is handed over to the stream.
LEMMA Shifted ==
    ASSUME NEW b, NEW u, Good(b, u)
    PROVE  LET w == [u EXCEPT !.out = <<>>]
           IN  /\ Good(b \o u.out, w) /\ w.out = <<>> /\ Pending(w) = Pending(u)
               /\ w.index = u.index /\ w.hypothesis = u.hypothesis
<1> DEFINE w == [u EXCEPT !.out = <<>>]
<1>1. b \in Seq(Event) /\ u \in Utterance /\ b \o u.out \in Seq(Event)
  BY Said DEF Good
<1>2. /\ w \in Utterance /\ w.out = <<>> /\ w.index = u.index /\ w.revision = u.revision
      /\ w.agreement = u.agreement /\ w.prefix = u.prefix /\ w.hypothesis = u.hypothesis
  <2>1. <<>> \in Seq(TranscriptEvent)
    OBVIOUS
  <2>2. QED
    BY <1>1, <2>1 DEF Utterance
<1> DEFINE c == b \o u.out
<1>3. c \in Seq(Event)
  BY <1>1
<1> HIDE DEF w, c
<1>4. c \o w.out = c
  BY <1>2, <1>3, NothingJoined
<1>5. Mark(w) = Mark(u) /\ LastWindow(w, NoText) = LastWindow(u, NoText)
  BY <1>2 DEF Mark, Settled, LastWindow
<1>6. Open(w) = Open(u) /\ Pending(w) = Pending(u)
  BY <1>2, <1>5 DEF Open, Pending
<1>7. Proper(w.agreement) /\ Reads(w)
  BY <1>2 DEF Good, Reads
<1>8. Ordered(c, Mark(u)) /\ Spoken(c) /\ (~HasDraft => Sealing(c, Open(u)))
  BY DEF Good, c
<1>9. Good(c, w)
  BY <1>2, <1>3, <1>4, <1>5, <1>6, <1>7, <1>8 DEF Good
<1>10. QED
  BY <1>2, <1>6, <1>9 DEF w, c

\* An error is no transcript.
LEMMA Reported ==
    ASSUME NEW b, NEW u, Good(b, u), u.out = <<>>, NEW e \in ErrorEvent
    PROVE  Good(b \o <<e>>, u)
<1>1. b \in Seq(Event) /\ u \in Utterance /\ b \o u.out = b /\ e \in Event
  BY EventTypes, NothingJoined DEF Good
<1> DEFINE c == Append(b, e)
<1>2. b \o <<e>> = c /\ c \in Seq(Event)
  BY <1>1
<1>3. Mark(u) \in Entries
  BY <1>1, MarkTypes
<1>4. Ordered(c, Mark(u))
  BY <1>1, <1>3, OrderedReports DEF Good
<1>5. Spoken(c)
  BY <1>1, SpokenSays, EventTypes DEF Good
<1>6. ASSUME ~HasDraft PROVE Sealing(c, Open(u))
  <2>1. Sealing(b, Open(u))
    BY <1>1, <1>6 DEF Good
  <2>2. QED
    BY <1>1, <2>1, SealingReports
<1> HIDE DEF c
<1>7. c \o u.out = c
  BY <1>2, NothingJoined
<1>8. Good(c, u)
  BY <1>1, <1>2, <1>4, <1>5, <1>6, <1>7 DEF Good
<1>9. QED
  BY <1>2, <1>8

Reports == {<<>>} \cup {<<e>> : e \in ErrorEvent}

LEMMA ReportedAny ==
    ASSUME NEW b, NEW u, Good(b, u), u.out = <<>>, NEW reports \in Reports
    PROVE  Good(b \o reports, u)
<1>1. CASE reports = <<>>
  BY <1>1, NothingJoined DEF Good
<1>2. CASE reports # <<>>
  <2>1. PICK e \in ErrorEvent : reports = <<e>>
    BY <1>2 DEF Reports
  <2>2. QED
    BY <2>1, Reported
<1>3. QED
  BY <1>1, <1>2

LEMMA ReportsAreEvents == \A reports \in Reports : reports \in Seq(Event)
<1>1. \A e \in ErrorEvent : e \in Event
  BY EventTypes
<1>2. ASSUME NEW e \in Event PROVE <<e>> \in Seq(Event)
  OBVIOUS
<1>3. <<>> \in Seq(Event)
  OBVIOUS
<1>4. ASSUME NEW reports \in Reports PROVE reports \in Seq(Event)
  <2>1. CASE reports = <<>>
    BY <1>3, <2>1
  <2>2. CASE \E e \in ErrorEvent : reports = <<e>>
    BY <1>1, <1>2, <2>2
  <2>3. QED
    BY <2>1, <2>2 DEF Reports
<1>5. QED
  BY <1>4

LEMMA Regrouped ==
    ASSUME NEW e \in Event, NEW q \in Seq(Event), NEW r \in Seq(Event), NEW s \in Seq(Event)
    PROVE  <<e>> \o (q \o r \o s) = <<e>> \o q \o r \o s
  OBVIOUS

\* What is left of the state once a step has been published.
LEMMA Published ==
    ASSUME TypeOK, NEW u, NEW reports \in Reports, Good(Sent \o reports, u),
           Publish(u, reports), wire' = wire, setup' = setup
    PROVE  /\ utterance' \in Utterance /\ utterance'.out = <<>>
           /\ Len(utterance'.agreement.history) < AgreementWindow
           /\ events' \in Seq(Event)
           /\ Good(Sent, utterance)'
           /\ utterance'.hypothesis = u.hypothesis
           /\ ~Pending(u) => ~Pending(utterance)'
<1> DEFINE w == [u EXCEPT !.out = <<>>]
<1>1. Good((Sent \o reports) \o u.out, w) /\ w.out = <<>> /\ Pending(w) = Pending(u)
      /\ w.hypothesis = u.hypothesis
  BY Shifted
<1>2. utterance' = w /\ events' = events \o reports \o u.out
  BY DEF Publish
<1>3. events \in Seq(Event) /\ wire \in Event /\ reports \in Seq(Event) /\ u.out \in Seq(Event)
  <2>1. u.out \in Seq(Event)
    BY UtteranceFields, SeqMonotonic DEF Good, Event
  <2>2. reports \in Seq(Event)
    BY ReportsAreEvents
  <2>3. QED
    BY <2>1, <2>2 DEF TypeOK, Event
<1> HIDE DEF w
<1>4. Sent' = (Sent \o reports) \o u.out /\ events' \in Seq(Event)
  <2>1. <<wire>> \in Seq(Event)
    BY <1>3
  <2>2. <<wire>> \o (events \o reports \o u.out) = <<wire>> \o events \o reports \o u.out
    BY <1>3, Regrouped, ZenonT(40)
  <2>3. events' \in Seq(Event)
    BY <1>2, <1>3
  <2>4. QED
    BY <1>2, <2>2, <2>3 DEF Sent
<1>5. Good(Sent', utterance')
  BY <1>1, <1>2, <1>4
<1>6. Good(Sent, utterance)'
  BY <1>5, SameSession
<1>7. utterance' \in Utterance /\ Len(utterance'.agreement.history) < AgreementWindow
  BY <1>1, <1>2 DEF Good, Proper
<1>8. ~Pending(w) => ~Pending(utterance)'
  <2>1. HasDraft' = HasDraft
    BY DEF HasDraft, DraftTexts
  <2>2. QED
    BY <1>2, <2>1 DEF Pending, LastWindow, NoText
<1>9. QED
  BY <1>1, <1>2, <1>4, <1>6, <1>7, <1>8

\* The same for a step that only reports.
LEMMA OnlyReported ==
    ASSUME TypeOK, NEW reports \in Reports, Good(Sent, utterance),
           events' = events \o reports, wire' = wire, setup' = setup, utterance' = utterance
    PROVE  events' \in Seq(Event) /\ Good(Sent, utterance)'
<1>1. Good(Sent \o reports, utterance)
  BY ReportedAny DEF TypeOK
<1>2. events \in Seq(Event) /\ reports \in Seq(Event) /\ wire \in Event
  BY ReportsAreEvents DEF TypeOK, Event
<1>3. Sent' = Sent \o reports /\ events' \in Seq(Event)
  BY <1>2 DEF Sent
<1>4. Good(Sent', utterance')
  BY <1>1, <1>3
<1>5. QED
  BY <1>3, <1>4, SameSession

-----------------------------------------------------------------------------
(* What a pass does to the utterance in progress.                           *)

LEMMA DecodedTexts ==
    ASSUME setup \in Setups
    PROVE  /\ \A text \in Texts : text \in Text /\ text # NoText /\ Accurate(text)
           /\ \A text \in DraftTexts : text \in Text /\ text # NoText
  BY SetupsAssumption, AccurateTexts DEF Texts, DraftTexts, NoText

LEMMA Trimmed ==
    ASSUME NEW u \in Utterance, NEW prefix \in Text
    PROVE  LET w == [u EXCEPT !.prefix = prefix, !.agreement = Fresh, !.hypothesis = NoText]
           IN  /\ w \in Utterance /\ w.agreement = Fresh /\ w.hypothesis = NoText
               /\ w.index = u.index /\ w.revision = u.revision /\ w.out = u.out
               /\ w.prefix = prefix
<1>1. Fresh \in Agreements /\ NoText \in Text
  BY FreshIsProper, EmptyText DEF Proper
<1>2. QED
  BY <1>1 DEF Utterance

LEMMA TextIsPending ==
    ASSUME NEW u \in Utterance, u.prefix # NoText \/ (~HasDraft /\ u.hypothesis # NoText)
                                \/ (~HasDraft /\ u.agreement.committed # NoText)
    PROVE  Pending(u)
<1>1. u.prefix \in Text /\ u.hypothesis \in Text /\ u.agreement.committed \in Text /\ NoText \in Text
  BY UtteranceFields, EmptyText
<1>2. LastWindow(u, NoText) \in Text
      /\ (u.prefix # NoText \/ LastWindow(u, NoText) # NoText)
  BY <1>1 DEF LastWindow
<1>3. QED
  BY <1>1, <1>2, Joined DEF Pending, Text, NoText

LEMMA NothingIsPending ==
    ASSUME NEW u \in Utterance, u.prefix = NoText, u.hypothesis = NoText,
           u.agreement.committed = NoText
    PROVE  ~Pending(u)
  BY DEF Pending, LastWindow, NoText

\* A single model extends what is committed.
LEMMA GoodExtends ==
    ASSUME setup \in Setups, ~HasDraft, NEW b, NEW u, Good(b, u), NEW text \in Texts,
           ~UpdateAgreement(u.agreement, text).conflict
    PROVE  LET o == UpdateAgreement(u.agreement, text)
               shown == Emit([u EXCEPT !.hypothesis = text, !.agreement = o.agreement],
                             u.prefix \o o.stable, o.partial, FALSE)
           IN  /\ Good(b, shown)
               /\ o.agreement.committed # NoText =>
                    Good(b, [shown EXCEPT !.prefix = @ \o o.agreement.committed,
                                          !.agreement = Fresh, !.hypothesis = NoText])
<1> DEFINE o == UpdateAgreement(u.agreement, text)
           w == [u EXCEPT !.hypothesis = text, !.agreement = o.agreement]
           more == o.agreement.committed
           said == u.prefix \o more
           shown == Tell(w, said, o.partial)
<1>1. /\ u \in Utterance /\ Proper(u.agreement) /\ u.prefix \in Text
      /\ u.agreement.committed \in Text
      /\ Accurate(u.prefix) /\ Accurate(u.agreement.committed)
  BY UtteranceFields DEF Good, Reads
<1>2. text \in Text /\ text # NoText /\ Accurate(text)
  BY DecodedTexts
<1>3. /\ Proper(o.agreement) /\ o.stable = more /\ o.partial \in Text
      /\ IsPrefix(WordsOf(u.agreement.committed), WordsOf(more)) /\ Accurate(more)
  BY <1>1, <1>2, Updated
<1>4. o.agreement \in Agreements /\ more \in Text
  BY <1>3 DEF Proper, Agreements
<1> HIDE DEF o
<1>5. /\ w \in Utterance /\ w.agreement = o.agreement /\ w.hypothesis = text
      /\ w.index = u.index /\ w.revision = u.revision /\ w.out = u.out
      /\ w.prefix = u.prefix
  <2> DEFINE a == o.agreement
  <2>1. a \in Agreements
    BY <1>4
  <2> HIDE DEF a
  <2>2. LET z == [u EXCEPT !.hypothesis = text, !.agreement = a]
        IN  /\ z \in Utterance /\ z.agreement = a /\ z.hypothesis = text
            /\ z.index = u.index /\ z.revision = u.revision /\ z.out = u.out
            /\ z.prefix = u.prefix
    BY <1>1, <1>2, <2>1 DEF Utterance
  <2>3. QED
    BY <2>2 DEF a
<1> HIDE DEF w
<1>6. Settled(u) = u.prefix \o u.agreement.committed /\ Settled(w) = u.prefix \o more
  BY <1>5 DEF Settled
<1>7. IsPrefix(WordsOf(Settled(u)), WordsOf(Settled(w)))
  BY <1>1, <1>3, <1>4, <1>6, WordsGrow
<1>8. Pending(w)
  BY <1>2, <1>5, TextIsPending
<1>9. Reads(w) /\ Proper(w.agreement)
  BY <1>1, <1>2, <1>3, <1>5 DEF Reads
<1>10. Good(b, w)
  BY <1>5, <1>7, <1>8, <1>9, GoodOn
<1>11. said \in Text /\ said = Settled(w) /\ Accurate(said)
  BY <1>1, <1>3, <1>4, <1>6, AccurateJoined DEF Text
<1> HIDE DEF more, said
<1>12. Good(b, shown)
  BY <1>3, <1>8, <1>10, <1>11, GoodSays
<1>13. /\ shown \in Utterance /\ shown.index = u.index /\ shown.prefix = u.prefix
       /\ shown.agreement = o.agreement
  BY <1>3, <1>5, <1>11, TellFields
<1>14. shown = Emit(w, u.prefix \o o.stable, o.partial, FALSE)
  BY <1>3 DEF Tell, said
<1> HIDE DEF shown
<1>15. ASSUME more # NoText
       PROVE  Good(b, [shown EXCEPT !.prefix = @ \o more, !.agreement = Fresh, !.hypothesis = NoText])
  <2> DEFINE v == [shown EXCEPT !.prefix = said, !.agreement = Fresh, !.hypothesis = NoText]
  <2>1. /\ v \in Utterance /\ v.agreement = Fresh /\ v.hypothesis = NoText
        /\ v.index = shown.index /\ v.revision = shown.revision /\ v.out = shown.out
        /\ v.prefix = said
    BY <1>11, <1>13, Trimmed
  <2>2. v = [shown EXCEPT !.prefix = @ \o more, !.agreement = Fresh, !.hypothesis = NoText]
    BY <1>13 DEF said
  <2> HIDE DEF v
  <2>3. Settled(v) = said /\ Settled(shown) = said
    <3>1. said \o NoText = said
      BY <1>11, NothingJoined DEF NoText, Text
    <3>2. QED
      BY <1>13, <2>1, <3>1, FreshIsProper DEF Settled, said, more
  <2>4. IsPrefix(WordsOf(Settled(shown)), WordsOf(Settled(v)))
    BY <1>11, <2>3, SameWordsPrefix
  <2>5. said # NoText
    BY <1>1, <1>4, <1>15, Joined DEF said, more, Text, NoText
  <2>6. Pending(v)
    BY <2>1, <2>5, TextIsPending
  <2>7. Reads(v) /\ Proper(v.agreement)
    BY <1>11, <2>1, FreshIsProper, AccurateNothing DEF Reads
  <2>8. Good(b, v)
    BY <1>12, <2>1, <2>4, <2>6, <2>7, GoodOn
  <2>9. QED
    BY <2>2, <2>8
<1>16. QED
  BY <1>12, <1>14, <1>15 DEF w, more, o

\* An utterance opened with nothing in it has said nothing.
LEMMA RotatedIsEmpty ==
    ASSUME NEW c \in Utterance
    PROVE  LET v == [Rotated(c) EXCEPT !.hypothesis = NoText]
           IN  /\ v \in Utterance /\ v.agreement = Fresh /\ v.hypothesis = NoText
               /\ v.index = c.index + 1 /\ v.revision = c.revision /\ v.out = c.out
               /\ v.prefix = NoText
<1> DEFINE r == Rotated(c)
<1>1. /\ r \in Utterance /\ r.agreement = Fresh /\ r.prefix = NoText
      /\ r.index = c.index + 1 /\ r.revision = c.revision /\ r.out = c.out
  BY RotatedFields
<1>2. NoText \in Text
  BY EmptyText
<1> HIDE DEF r
<1>3. LET v == [r EXCEPT !.hypothesis = NoText]
      IN  /\ v \in Utterance /\ v.agreement = Fresh /\ v.hypothesis = NoText
          /\ v.index = c.index + 1 /\ v.revision = c.revision /\ v.out = c.out
          /\ v.prefix = NoText
  BY <1>1, <1>2 DEF Utterance
<1>4. QED
  BY <1>3 DEF r

\* A single model revised committed words: the utterance is closed, another is opened.
LEMMA GoodContradicts ==
    ASSUME setup \in Setups, ~HasDraft, NEW b, NEW u, Good(b, u), NEW text \in Texts,
           UpdateAgreement(u.agreement, text).conflict
    PROVE  LET o == UpdateAgreement(u.agreement, text)
               typed == o.agreement.committed
               closed == ClosedAsTyped([u EXCEPT !.agreement = o.agreement])
               fresh == [Rotated(closed) EXCEPT !.hypothesis = NoText]
               again == UpdateAgreement(Fresh, RemainderAfter(typed, text))
           IN  /\ Good(b, fresh)
               /\ Good(b, EmitCarried([fresh EXCEPT !.agreement = again.agreement],
                                      again.stable, again.partial))
<1> DEFINE o == UpdateAgreement(u.agreement, text)
           typed == o.agreement.committed
           w == [u EXCEPT !.agreement = o.agreement]
           whole == w.prefix \o w.agreement.committed
           closed == ClosedAsTyped(w)
           v == [Rotated(closed) EXCEPT !.hypothesis = NoText]
           rest == RemainderAfter(typed, text)
           again == UpdateAgreement(Fresh, rest)
           x == [v EXCEPT !.agreement = again.agreement]
<1>1. /\ u \in Utterance /\ Proper(u.agreement) /\ u.prefix \in Text
      /\ u.agreement.committed \in Text /\ u.hypothesis \in Text
      /\ Accurate(u.prefix) /\ Accurate(u.agreement.committed) /\ Accurate(u.hypothesis)
  BY UtteranceFields DEF Good, Reads
<1>2. text \in Text /\ text # NoText /\ Accurate(text)
  BY DecodedTexts
<1>3. /\ Proper(o.agreement) /\ typed = u.agreement.committed /\ typed # NoText
      /\ o.agreement \in Agreements
  BY <1>1, <1>2, Updated DEF Proper
<1> HIDE DEF o
<1>4. /\ w \in Utterance /\ w.agreement = o.agreement /\ w.hypothesis = u.hypothesis
      /\ w.index = u.index /\ w.revision = u.revision /\ w.out = u.out
      /\ w.prefix = u.prefix
  BY <1>1, <1>3, WithAgreement
<1> HIDE DEF w
<1>5. Settled(w) = Settled(u) /\ Settled(u) \in Text /\ Pending(w) = Pending(u)
  BY <1>1, <1>3, <1>4, SettledText DEF Settled, Pending, LastWindow
<1>6. IsPrefix(WordsOf(Settled(u)), WordsOf(Settled(w)))
  BY <1>5, SameWordsPrefix
<1>7. Reads(w) /\ Proper(w.agreement)
  BY <1>1, <1>3, <1>4 DEF Reads
<1>8. Good(b, w)
  BY <1>4, <1>5, <1>6, <1>7, GoodOn
<1>9. typed \in Text /\ Accurate(typed) /\ w.agreement.committed = typed
  BY <1>1, <1>3, <1>4
<1> HIDE DEF typed
<1>10. /\ whole \in Text /\ Accurate(whole)
       /\ IsPrefix(WordsOf(Settled(w)), WordsOf(whole))
  BY <1>1, <1>4, <1>9, SameWordsPrefix, ClosingGrows, AccurateJoined
<1> HIDE DEF whole
<1>11. /\ closed \in Utterance /\ closed.index >= w.index
       /\ closed.revision = Seal(w, whole).revision /\ closed.out = Seal(w, whole).out
  <2> DEFINE sealed == Seal(w, whole)
  <2>1. sealed \in Utterance /\ sealed.index = w.index /\ w.index \in Nat
    BY <1>4, <1>10, SealFields, UtteranceFields
  <2>2. closed = IF HasWeld(w.agreement.committed) THEN Rotated(sealed) ELSE sealed
    BY DEF ClosedAsTyped, Seal, whole
  <2> HIDE DEF sealed, closed
  <2>3. QED
    BY <2>1, <2>2, RotatedFields DEF sealed
<1> HIDE DEF closed
<1>12. /\ v \in Utterance /\ v.agreement = Fresh /\ v.hypothesis = NoText
       /\ v.index = closed.index + 1 /\ v.revision = closed.revision /\ v.out = closed.out
       /\ v.prefix = NoText
  BY <1>11, RotatedIsEmpty
<1> HIDE DEF v
<1>13. Reads(v) /\ Proper(v.agreement) /\ v.index > w.index
  BY <1>4, <1>11, <1>12, FreshIsProper, AccurateNothing, UtteranceFields DEF Reads
<1>14. Good(b, v)
  BY <1>8, <1>10, <1>11, <1>12, <1>13, GoodSeals
<1>15. rest \in Text /\ Accurate(rest)
  BY <1>2, <1>9, RestAccurate
<1> HIDE DEF rest
<1>16. /\ Proper(again.agreement) /\ again.stable = again.agreement.committed
       /\ again.partial \in Text /\ Accurate(again.agreement.committed)
       /\ again.agreement \in Agreements /\ again.agreement.committed \in Text
  BY <1>15, Updated, FreshIsProper, AccurateNothing DEF Proper, Agreements
<1> HIDE DEF again
<1>17. Good(b, EmitCarried(x, again.stable, again.partial))
  <2>1. /\ x \in Utterance /\ x.agreement = again.agreement /\ x.hypothesis = NoText
        /\ x.index = v.index /\ x.revision = v.revision /\ x.out = v.out
        /\ x.prefix = NoText
    BY <1>12, <1>16, WithAgreement
  <2> HIDE DEF x
  <2>2. Settled(v) = NoText /\ Settled(x) = again.stable
    <3>1. NoText \o again.agreement.committed = again.agreement.committed
          /\ NoText \o NoText = NoText
      BY <1>16, NothingJoined, EmptyText DEF NoText, Text
    <3>2. QED
      BY <1>12, <1>16, <2>1, <3>1, FreshIsProper DEF Settled
  <2>3. IsPrefix(WordsOf(Settled(v)), WordsOf(Settled(x)))
    BY <1>16, <2>2, NothingIsAPrefix
  <2>4. Reads(x) /\ Proper(x.agreement)
    BY <1>16, <2>1, AccurateNothing DEF Reads
  <2>5. ~HasDraft /\ Pending(v) => Pending(x)
    BY <1>12, FreshIsProper DEF Pending, LastWindow, NoText
  <2>6. Good(b, x)
    BY <1>14, <2>1, <2>3, <2>4, <2>5, GoodOn
  <2>7. again.stable \in Text /\ Accurate(again.stable)
    BY <1>16
  <2>8. QED
    BY <1>16, <2>2, <2>6, <2>7, GoodCarries
<1>18. QED
  BY <1>14, <1>17 DEF x, again, rest, v, closed, w, typed, o

\* The draft decoder's text is shown, and none of it is kept.
LEMMA GoodDrafts ==
    ASSUME HasDraft, NEW b, NEW u, Good(b, u), NEW text \in Text, NEW a, Proper(a)
    PROVE  Good(b, Emit([u EXCEPT !.hypothesis = text, !.agreement = a], u.prefix, text, FALSE))
<1> DEFINE w == [u EXCEPT !.hypothesis = text, !.agreement = a]
<1>1. u \in Utterance /\ u.prefix \in Text /\ Accurate(u.prefix) /\ a \in Agreements
  BY UtteranceFields DEF Good, Reads, Proper
<1>2. /\ w \in Utterance /\ w.agreement = a /\ w.hypothesis = text
      /\ w.index = u.index /\ w.revision = u.revision /\ w.out = u.out
      /\ w.prefix = u.prefix
  BY <1>1 DEF Utterance
<1> HIDE DEF w
<1>3. Settled(u) = u.prefix /\ Settled(w) = u.prefix
  BY <1>1, <1>2, NothingJoined DEF Settled, NoText, Text
<1>4. IsPrefix(WordsOf(Settled(u)), WordsOf(Settled(w)))
  BY <1>1, <1>3, SameWordsPrefix
<1>5. Reads(w) /\ Proper(w.agreement)
  BY <1>1, <1>2 DEF Reads
<1>6. Good(b, w)
  BY <1>2, <1>4, <1>5, GoodOn
<1>7. Good(b, Tell(w, u.prefix, text))
  BY <1>1, <1>3, <1>6, GoodSays
<1>8. QED
  BY <1>7 DEF Tell, w

\* An accurate reading is added to what is settled.
LEMMA GoodCompacts ==
    ASSUME setup \in Setups, HasDraft, NEW b, NEW u, Good(b, u), NEW text \in Texts
    PROVE  LET prefix == u.prefix \o [text EXCEPT ![Len(text)].gap = 1]
           IN  Good(b, Emit([u EXCEPT !.prefix = prefix, !.agreement = Fresh,
                                      !.hypothesis = NoText, !.retryAt = 0],
                            prefix, NoText, FALSE))
<1> DEFINE spaced == [text EXCEPT ![Len(text)].gap = 1]
           prefix == u.prefix \o spaced
           w == [u EXCEPT !.prefix = prefix, !.agreement = Fresh, !.hypothesis = NoText,
                          !.retryAt = 0]
<1>1. u \in Utterance /\ u.prefix \in Text /\ Accurate(u.prefix)
  BY UtteranceFields DEF Good, Reads
<1>2. text \in Text /\ text # NoText /\ Accurate(text)
  BY DecodedTexts
<1>3. spaced \in Text /\ Accurate(spaced)
  <2>1. Len(text) \in Nat /\ DOMAIN text = 1 .. Len(text)
        /\ \A i \in DOMAIN text : text[i] \in Token
    BY <1>2 DEF Text
  <2>2. DOMAIN spaced = DOMAIN text /\ spaced = [i \in DOMAIN text |-> spaced[i]]
    OBVIOUS
  <2>3. ASSUME NEW i \in DOMAIN text PROVE spaced[i] \in Token /\ spaced[i].word = text[i].word
    <3>1. CASE i = Len(text)
      <4>1. spaced[i] = [text[i] EXCEPT !.gap = 1]
        BY <2>3, <3>1
      <4>2. 1 \in 0 .. MaxGap
        BY GapAssumption
      <4>3. QED
        BY <2>1, <2>3, <4>1, <4>2 DEF Token
    <3>2. CASE i # Len(text)
      <4>1. spaced[i] = text[i]
        BY <2>3, <3>2
      <4>2. QED
        BY <2>1, <2>3, <4>1
    <3>3. QED
      BY <3>1, <3>2
  <2> HIDE DEF spaced
  <2>4. Accurate(spaced)
    BY <1>2, <2>2, <2>3 DEF Accurate
  <2>5. spaced \in [1 .. Len(text) -> Token]
    BY <2>1, <2>2, <2>3
  <2>6. QED
    BY <2>1, <2>4, <2>5 DEF Text
<1> HIDE DEF spaced
<1>4. prefix \in Text /\ Accurate(prefix) /\ IsPrefix(WordsOf(u.prefix), WordsOf(prefix))
  BY <1>1, <1>3, AccurateJoined, WordsAppended DEF Text
<1> HIDE DEF prefix
<1>5. Fresh \in Agreements /\ NoText \in Text /\ 0 \in Nat
  BY FreshIsProper, EmptyText DEF Proper
<1>6. /\ w \in Utterance /\ w.agreement = Fresh /\ w.hypothesis = NoText
      /\ w.index = u.index /\ w.revision = u.revision /\ w.out = u.out
      /\ w.prefix = prefix
  BY <1>1, <1>4, <1>5 DEF Utterance
<1> HIDE DEF w
<1>7. Settled(u) = u.prefix /\ Settled(w) = prefix
  BY <1>1, <1>4, <1>6, NothingJoined DEF Settled, NoText, Text
<1>8. Reads(w) /\ Proper(w.agreement)
  BY <1>4, <1>6, FreshIsProper DEF Reads
<1>9. Good(b, w)
  BY <1>4, <1>6, <1>7, <1>8, GoodOn
<1>10. Good(b, Tell(w, prefix, NoText))
  BY <1>4, <1>5, <1>7, <1>9, GoodSays
<1>11. QED
  BY <1>10 DEF Tell, w, prefix, spaced

\* Only the length to wait for is changed.
LEMMA GoodWaits ==
    ASSUME NEW b, NEW u, Good(b, u), NEW n \in Nat
    PROVE  LET w == [u EXCEPT !.retryAt = n]
           IN  Good(b, w) /\ w.out = u.out
<1> DEFINE w == [u EXCEPT !.retryAt = n]
<1>1. u \in Utterance
  BY DEF Good
<1>2. /\ w \in Utterance /\ w.agreement = u.agreement /\ w.hypothesis = u.hypothesis
      /\ w.index = u.index /\ w.revision = u.revision /\ w.out = u.out
      /\ w.prefix = u.prefix
  BY <1>1 DEF Utterance
<1> HIDE DEF w
<1>3. Settled(w) = Settled(u) /\ Settled(u) \in Text /\ Pending(w) = Pending(u)
  BY <1>1, <1>2, SettledText DEF Settled, Pending, LastWindow
<1>4. IsPrefix(WordsOf(Settled(u)), WordsOf(Settled(w)))
  BY <1>3, SameWordsPrefix
<1>5. Reads(w) /\ Proper(w.agreement)
  BY <1>2 DEF Good, Reads
<1>6. Good(b, w)
  BY <1>2, <1>3, <1>4, <1>5, GoodOn
<1>7. QED
  BY <1>2, <1>6 DEF w

-----------------------------------------------------------------------------
(* Audio.                                                                   *)

\* The units of speech in a buffer.
SpeechUnits(b) == {i \in 1 .. Len(b) : b[i]}

LEMMA BeyondOfAudio ==
    ASSUME NEW b \in Seq(BOOLEAN), NEW n \in Nat, n <= Len(b)
    PROVE  /\ Beyond(b, n) \in Seq(BOOLEAN)
           /\ Len(Beyond(b, n)) = Len(b) - n
           /\ \A i \in 1 .. Len(Beyond(b, n)) : Beyond(b, n)[i] = b[n + i]
  BY DEF Beyond

\* Less audio, no more speech.
LEMMA LessSpeech ==
    ASSUME NEW b \in Seq(BOOLEAN), NEW n \in Nat, n <= Len(b)
    PROVE  /\ SpeechIn(b) \in Nat /\ SpeechIn(Beyond(b, n)) \in Nat
           /\ SpeechIn(Beyond(b, n)) <= SpeechIn(b)
<1> DEFINE r == Beyond(b, n)
           S == SpeechUnits(r)
           T == SpeechUnits(b)
           f == [i \in S |-> n + i]
<1>1. /\ r \in Seq(BOOLEAN) /\ Len(r) = Len(b) - n
      /\ \A i \in 1 .. Len(r) : r[i] = b[n + i]
  BY BeyondOfAudio
<1>2. Len(b) \in Nat /\ Len(r) \in Nat
  BY <1>1
<1>3. IsFiniteSet(T) /\ Cardinality(T) \in Nat
  <2>1. IsFiniteSet(1 .. Len(b)) /\ T \in SUBSET (1 .. Len(b))
    BY <1>2, FS_Interval DEF SpeechUnits
  <2>2. QED
    BY <2>1, FS_Subset, FS_CardinalityType
<1>4. IsFiniteSet(S) /\ Cardinality(S) \in Nat
  <2>1. IsFiniteSet(1 .. Len(r)) /\ S \in SUBSET (1 .. Len(r))
    BY <1>2, FS_Interval DEF SpeechUnits
  <2>2. QED
    BY <2>1, FS_Subset, FS_CardinalityType
<1> HIDE DEF r
<1>5. ASSUME NEW i \in S PROVE n + i \in T /\ i \in Nat
  <2>1. i \in 1 .. Len(r)
    BY DEF SpeechUnits
  <2>2. n + i \in 1 .. Len(b) /\ i \in Nat
    BY <1>1, <1>2, <2>1
  <2>3. r[i] = b[n + i]
    BY <1>1, <2>1
  <2>4. r[i]
    BY DEF SpeechUnits
  <2>5. QED
    BY <2>2, <2>3, <2>4 DEF SpeechUnits
<1> HIDE DEF S, T
<1>6. f \in Injection(S, T)
  <2>1. f \in [S -> T]
    BY <1>5
  <2>2. ASSUME NEW i \in S, NEW j \in S, f[i] = f[j] PROVE i = j
    BY <1>5, <2>2
  <2>3. QED
    BY <2>1, <2>2 DEF Injection, IsInjective
<1>7. Cardinality(S) <= Cardinality(T)
  BY <1>3, <1>6, FS_Injection
<1>8. QED
  BY <1>3, <1>4, <1>7 DEF S, T, r, SpeechIn, SpeechUnits

LEMMA NoSpeech == \A b : b = <<>> => SpeechIn(b) = 0
<1>1. SpeechUnits(<<>>) = {}
  BY DEF SpeechUnits
<1>2. QED
  BY <1>1, FS_EmptySet DEF SpeechIn, SpeechUnits

LEMMA NothingWorthDecoding == \A a : a.buffer = <<>> => ~WorthDecoding(a)
  BY NoSpeech DEF WorthDecoding

LEMMA WorthLess ==
    ASSUME NEW a \in Audio, NEW c \in Audio, NEW n \in Nat, n <= Len(a.buffer),
           c.buffer = Beyond(a.buffer, n), WorthDecoding(c)
    PROVE  WorthDecoding(a)
<1>1. a.buffer \in Seq(BOOLEAN)
  BY DEF Audio
<1>2. SpeechIn(a.buffer) \in Nat /\ SpeechIn(c.buffer) \in Nat
      /\ SpeechIn(c.buffer) <= SpeechIn(a.buffer)
  BY <1>1, LessSpeech
<1>3. MinSpeechUnits \in Nat
  BY UnitsAssumption
<1>4. QED
  BY <1>2, <1>3 DEF WorthDecoding

LEMMA SilentAudio == NoAudio \in Audio /\ NoAudio.buffer = <<>>
  BY DEF NoAudio, Audio

LEMMA AudioFields ==
    ASSUME NEW a \in Audio
    PROVE  /\ a.buffer \in Seq(BOOLEAN) /\ Len(a.buffer) \in Nat
           /\ a.decoded \in Nat /\ a.read \in Nat /\ a.trailing \in Nat
  BY DEF Audio

LEMMA Pushed ==
    ASSUME NEW a \in Audio, NEW speech \in BOOLEAN
    PROVE  LET c == PushedOnto(a, speech)
           IN  /\ c \in Audio /\ Len(c.buffer) = Len(a.buffer) + 1
               /\ c.decoded = a.decoded /\ c.read = a.read
<1> DEFINE b == Append(a.buffer, speech)
           n == IF speech THEN 0 ELSE a.trailing + 1
<1>1. b \in Seq(BOOLEAN) /\ Len(b) = Len(a.buffer) + 1 /\ n \in Nat
  BY AudioFields
<1>2. PushedOnto(a, speech) = [a EXCEPT !.buffer = b, !.trailing = n]
  BY DEF PushedOnto
<1> HIDE DEF b, n
<1>3. QED
  BY <1>1, <1>2 DEF Audio

\* Both ways audio leaves the front of the buffer; what is left is decoded no further than
\* it was, and read as far.
LEMMA TrimmedBefore ==
    ASSUME NEW a \in Audio, a.decoded <= Len(a.buffer), NEW units \in Nat
    PROVE  LET c == TrimBefore(a, units)
               drop == Least(units, Len(a.buffer))
           IN  /\ c \in Audio /\ drop \in Nat /\ drop <= Len(a.buffer) /\ drop <= units
               /\ c.buffer = Beyond(a.buffer, drop) /\ Len(c.buffer) = Len(a.buffer) - drop
               /\ c.decoded = Minus(a.decoded, drop) /\ c.read = Minus(a.read, drop)
               /\ c.decoded <= Len(c.buffer)
<1> DEFINE drop == Least(units, Len(a.buffer))
           c == TrimBefore(a, units)
           b == Beyond(a.buffer, drop)
<1>1. /\ a.buffer \in Seq(BOOLEAN) /\ Len(a.buffer) \in Nat
      /\ a.decoded \in Nat /\ a.read \in Nat
  BY AudioFields
<1>2. drop \in Nat /\ drop <= Len(a.buffer) /\ drop <= units
  BY <1>1 DEF Least
<1> HIDE DEF drop
<1>3. b \in Seq(BOOLEAN) /\ Len(b) = Len(a.buffer) - drop
  BY <1>1, <1>2, BeyondOfAudio
<1> DEFINE d == Minus(a.decoded, drop)
           e == Minus(a.read, drop)
<1>4. d \in Nat /\ e \in Nat /\ d <= Len(b)
  BY <1>1, <1>2, <1>3 DEF Minus
<1>5. c = [a EXCEPT !.buffer = b, !.decoded = d, !.read = e]
  BY DEF TrimBefore, drop
<1> HIDE DEF b, d, e, c
<1>6. c \in Audio /\ c.buffer = b /\ c.decoded = d /\ c.read = e
  BY <1>3, <1>4, <1>5 DEF Audio
<1>7. QED
  BY <1>2, <1>3, <1>4, <1>6 DEF b, c, d, e, drop

LEMMA TailKept ==
    ASSUME NEW a \in Audio, NEW units \in Nat
    PROVE  LET c == KeepTail(a, units)
               drop == Minus(Len(a.buffer), units)
           IN  /\ c \in Audio /\ drop \in Nat /\ drop <= Len(a.buffer)
               /\ c.buffer = Beyond(a.buffer, drop) /\ c.decoded = Len(c.buffer)
<1> DEFINE drop == Minus(Len(a.buffer), units)
           c == KeepTail(a, units)
           b == Beyond(a.buffer, drop)
<1>1. /\ a.buffer \in Seq(BOOLEAN) /\ Len(a.buffer) \in Nat
      /\ a.decoded \in Nat /\ a.read \in Nat
  BY AudioFields
<1>2. drop \in Nat /\ drop <= Len(a.buffer)
  BY <1>1 DEF Minus
<1> HIDE DEF drop
<1>3. b \in Seq(BOOLEAN) /\ Len(b) = Len(a.buffer) - drop
  BY <1>1, <1>2, BeyondOfAudio
<1> DEFINE d == Len(a.buffer) - drop
           e == Minus(a.read, drop)
<1>4. d \in Nat /\ e \in Nat
  BY <1>1, <1>2 DEF Minus
<1>5. c = [a EXCEPT !.buffer = b, !.decoded = d, !.read = e]
  BY DEF KeepTail, drop
<1>6. d = Len(b)
  BY <1>3
<1> HIDE DEF b, d, e, c
<1>7. c \in Audio /\ c.buffer = b /\ c.decoded = d
  BY <1>3, <1>4, <1>5 DEF Audio
<1>8. QED
  BY <1>2, <1>6, <1>7 DEF b, c, drop

\* What is not worth decoding stays so.
LEMMA PreRolled ==
    ASSUME NEW a \in Audio, a.decoded <= Len(a.buffer), ~WorthDecoding(a)
    PROVE  LET c == PreRoll(a)
           IN  /\ c \in Audio /\ c.decoded <= Len(c.buffer) /\ ~WorthDecoding(c)
               /\ a.buffer = <<>> => c = a
<1>1. SilenceUnits \in Nat
  BY UnitsAssumption
<1>2. CASE Len(a.buffer) > 2 * SilenceUnits
  <2> DEFINE c == KeepTail(a, SilenceUnits)
             drop == Minus(Len(a.buffer), SilenceUnits)
  <2>1. PreRoll(a) = c
    BY <1>2 DEF PreRoll
  <2>2. /\ c \in Audio /\ drop \in Nat /\ drop <= Len(a.buffer)
        /\ c.buffer = Beyond(a.buffer, drop) /\ c.decoded = Len(c.buffer)
    BY <1>1, TailKept
  <2> HIDE DEF c, drop
  <2>3. ~WorthDecoding(c)
    BY <2>2, WorthLess
  <2>4. c.decoded <= Len(c.buffer)
    BY <2>2, AudioFields
  <2>5. a.buffer # <<>>
    <3> SUFFICES ASSUME a.buffer = <<>> PROVE FALSE
      OBVIOUS
    <3>1. Len(a.buffer) = 0
      OBVIOUS
    <3>2. QED
      BY <1>1, <1>2, <3>1
  <2>6. QED
    BY <2>1, <2>2, <2>3, <2>4, <2>5
<1>3. CASE ~(Len(a.buffer) > 2 * SilenceUnits)
  <2>1. PreRoll(a) = a
    BY <1>3 DEF PreRoll
  <2>2. QED
    BY <2>1
<1>4. QED
  BY <1>2, <1>3

LEMMA Handed ==
    ASSUME NEW a \in Audio
    PROVE  /\ HandedOut(a, TRUE) \in Audio
           /\ HandedOut(a, TRUE).buffer = a.buffer
           /\ HandedOut(a, TRUE).decoded = Len(a.buffer)
           /\ HandedOut(a, TRUE).read = Len(a.buffer)
           /\ HandedOut(a, FALSE) \in Audio
           /\ HandedOut(a, FALSE).buffer = a.buffer
           /\ HandedOut(a, FALSE).decoded = Len(a.buffer)
<1>1. Len(a.buffer) \in Nat /\ a.read \in Nat
  BY AudioFields
<1>2. HandedOut(a, TRUE) = [a EXCEPT !.decoded = Len(a.buffer), !.read = Len(a.buffer)]
  BY DEF HandedOut
<1>3. HandedOut(a, FALSE) = [a EXCEPT !.decoded = Len(a.buffer), !.read = a.read]
  BY DEF HandedOut
<1>4. /\ HandedOut(a, TRUE) \in Audio
      /\ HandedOut(a, TRUE).buffer = a.buffer
      /\ HandedOut(a, TRUE).decoded = Len(a.buffer)
      /\ HandedOut(a, TRUE).read = Len(a.buffer)
  BY <1>1, <1>2 DEF Audio
<1>5. /\ HandedOut(a, FALSE) \in Audio
      /\ HandedOut(a, FALSE).buffer = a.buffer
      /\ HandedOut(a, FALSE).decoded = Len(a.buffer)
  BY <1>1, <1>3 DEF Audio
<1>6. QED
  BY <1>4, <1>5

-----------------------------------------------------------------------------
(* The writer.                                                              *)

\* r is q without some of its events: none of the transcripts after its first is left out.
Thinned(q, r, f) ==
    /\ f \in [DOMAIN r -> DOMAIN q]
    /\ \A i \in DOMAIN r : r[i] = q[f[i]]
    /\ \A i, j \in DOMAIN r : i < j <=> f[i] < f[j]
    /\ \A i \in DOMAIN r, k \in DOMAIN q :
          f[i] < k /\ IsTranscript(q[k]) => \E j \in DOMAIN r : f[j] = k

LEMMA ThinnedKeeps ==
    ASSUME NEW q, NEW r, NEW f, Thinned(q, r, f)
    PROVE  /\ \A m : Ordered(q, m) => Ordered(r, m)
           /\ Spoken(q) => Spoken(r)
           /\ \A o : Sealing(q, o) => Sealing(r, o)
<1>1. ASSUME NEW i \in DOMAIN r PROVE f[i] \in DOMAIN q /\ r[i] = q[f[i]]
  BY DEF Thinned
<1>2. ASSUME NEW i \in DOMAIN r, NEW j \in DOMAIN r PROVE i < j <=> f[i] < f[j]
  BY DEF Thinned
<1>3. ASSUME NEW i \in DOMAIN r, NEW k \in DOMAIN q, f[i] < k, IsTranscript(q[k])
      PROVE  \E j \in DOMAIN r : f[j] = k
  BY <1>3 DEF Thinned
<1>4. ASSUME NEW m, Ordered(q, m) PROVE Ordered(r, m)
  <2>1. ASSUME NEW i \in DOMAIN r, IsTranscript(r[i]) PROVE AtMost(Entry(r[i]), m)
    BY <1>1, <1>4, <2>1 DEF Ordered
  <2>2. ASSUME NEW i \in DOMAIN r, NEW j \in DOMAIN r, i < j, IsTranscript(r[i]), IsTranscript(r[j])
        PROVE  Follows(Entry(r[i]), Entry(r[j]))
    <3>1. f[i] \in DOMAIN q /\ f[j] \in DOMAIN q /\ f[i] < f[j]
          /\ r[i] = q[f[i]] /\ r[j] = q[f[j]]
      BY <1>1, <1>2, <2>2
    <3>2. QED
      BY <1>4, <2>2, <3>1 DEF Ordered
  <2>3. QED
    BY <2>1, <2>2 DEF Ordered
<1>5. Spoken(q) => Spoken(r)
  BY <1>1 DEF Spoken
<1>6. ASSUME NEW o, Sealing(q, o) PROVE Sealing(r, o)
  <2>1. ASSUME NEW i \in DOMAIN r, NEW k \in DOMAIN q, k > f[i], Seals(q[k], r[i].utterance)
        PROVE  \E l \in DOMAIN r : l > i /\ f[l] = k /\ Seals(r[l], r[i].utterance)
    <3>1. IsTranscript(q[k]) /\ f[i] < k
      BY <2>1 DEF Seals
    <3>2. PICK l \in DOMAIN r : f[l] = k
      BY <1>3, <3>1
    <3>3. l > i /\ r[l] = q[k]
      BY <1>1, <1>2, <3>1, <3>2
    <3>4. QED
      BY <2>1, <3>2, <3>3
  <2>2. ASSUME NEW i \in DOMAIN r, Shows(r[i])
        PROVE  \/ r[i].utterance \in o
               \/ \E l \in DOMAIN r : l > i /\ Seals(r[l], r[i].utterance)
    <3>1. CASE r[i].utterance \in o
      BY <3>1
    <3>2. CASE r[i].utterance \notin o
      <4>1. PICK k \in DOMAIN q : k > f[i] /\ Seals(q[k], q[f[i]].utterance)
        BY <1>1, <1>6, <2>2, <3>2 DEF Sealing
      <4>2. QED
        BY <1>1, <2>1, <4>1
    <3>3. QED
      BY <3>1, <3>2
  <2>3. ASSUME NEW i \in DOMAIN r, NEW j \in DOMAIN r, i < j, Shows(r[i]), IsTranscript(r[j]),
               r[j].utterance # r[i].utterance
        PROVE  \E l \in DOMAIN r : i < l /\ l < j /\ Seals(r[l], r[i].utterance)
    <3>1. f[i] \in DOMAIN q /\ f[j] \in DOMAIN q /\ f[i] < f[j]
          /\ r[i] = q[f[i]] /\ r[j] = q[f[j]]
      BY <1>1, <1>2, <2>3
    <3>2. PICK k \in DOMAIN q : f[i] < k /\ k < f[j] /\ Seals(q[k], q[f[i]].utterance)
      BY <1>6, <2>3, <3>1 DEF Sealing
    <3>3. PICK l \in DOMAIN r : l > i /\ f[l] = k /\ Seals(r[l], r[i].utterance)
      BY <2>1, <3>1, <3>2
    <3>4. l < j
      BY <1>2, <3>2, <3>3
    <3>5. QED
      BY <3>3, <3>4
  <2>4. QED
    BY <2>2, <2>3 DEF Sealing
<1>7. QED
  BY <1>4, <1>5, <1>6

\* Writing a transcript, and writing an error.
LEMMA ThinnedByOne ==
    ASSUME NEW w \in Event, NEW q \in Seq(Event), q # <<>>
    PROVE  /\ \E f : Thinned(<<w>> \o q, q, f)
           /\ ~IsTranscript(Head(q)) => \E f : Thinned(<<w>> \o q, <<w>> \o Tail(q), f)
<1> DEFINE all == <<w>> \o q
           rest == <<w>> \o Tail(q)
<1>1. /\ Len(q) \in Nat /\ Len(q) > 0 /\ DOMAIN q = 1 .. Len(q)
      /\ DOMAIN all = 1 .. Len(q) + 1
      /\ all[1] = w /\ all[2] = Head(q)
      /\ \A i \in 1 .. Len(q) : all[i + 1] = q[i]
  OBVIOUS
<1>2. /\ DOMAIN rest = 1 .. Len(q)
      /\ rest[1] = w
      /\ \A i \in 2 .. Len(q) : rest[i] = q[i]
  OBVIOUS
<1> HIDE DEF all, rest
<1>3. Thinned(all, q, [i \in DOMAIN q |-> i + 1])
  <2> DEFINE f == [i \in DOMAIN q |-> i + 1]
  <2>1. f \in [DOMAIN q -> DOMAIN all] /\ \A i \in DOMAIN q : f[i] = i + 1 /\ q[i] = all[f[i]]
    BY <1>1
  <2> HIDE DEF f
  <2>2. \A i, j \in DOMAIN q : i < j <=> f[i] < f[j]
    BY <1>1, <2>1
  <2>3. ASSUME NEW i \in DOMAIN q, NEW k \in DOMAIN all, f[i] < k
        PROVE  \E j \in DOMAIN q : f[j] = k
    <3>1. k - 1 \in DOMAIN q /\ f[k - 1] = k
      BY <1>1, <2>1, <2>3
    <3>2. QED
      BY <3>1
  <2>4. Thinned(all, q, f)
    BY <2>1, <2>2, <2>3 DEF Thinned
  <2>5. QED
    BY <2>4 DEF f
<1>4. ASSUME ~IsTranscript(Head(q))
      PROVE  Thinned(all, rest, [i \in DOMAIN rest |-> IF i = 1 THEN 1 ELSE i + 1])
  <2> DEFINE f == [i \in DOMAIN rest |-> IF i = 1 THEN 1 ELSE i + 1]
  <2>1. /\ f \in [DOMAIN rest -> DOMAIN all]
        /\ \A i \in DOMAIN rest : f[i] = IF i = 1 THEN 1 ELSE i + 1
    BY <1>1, <1>2
  <2> HIDE DEF f
  <2>2. ASSUME NEW i \in DOMAIN rest PROVE rest[i] = all[f[i]]
    <3>1. CASE i = 1
      BY <1>1, <1>2, <2>1, <3>1
    <3>2. CASE i # 1
      <4>1. i \in 2 .. Len(q) /\ i \in 1 .. Len(q) /\ f[i] = i + 1
        BY <1>2, <2>1, <3>2
      <4>2. QED
        BY <1>1, <1>2, <4>1
    <3>3. QED
      BY <3>1, <3>2
  <2>3. \A i, j \in DOMAIN rest : i < j <=> f[i] < f[j]
    BY <1>2, <2>1
  <2>4. ASSUME NEW i \in DOMAIN rest, NEW k \in DOMAIN all, f[i] < k, IsTranscript(all[k])
        PROVE  \E j \in DOMAIN rest : f[j] = k
    <3>1. k # 2
      BY <1>1, <1>4, <2>4
    <3>2. f[i] >= 1 /\ k \in 1 .. Len(q) + 1
      BY <1>1, <1>2, <2>1
    <3>3. k - 1 \in DOMAIN rest /\ f[k - 1] = k
      BY <1>1, <1>2, <2>1, <2>4, <3>1, <3>2
    <3>4. QED
      BY <3>3
  <2>5. Thinned(all, rest, f)
    BY <2>1, <2>2, <2>3, <2>4 DEF Thinned
  <2>6. QED
    BY <2>5 DEF f
<1>5. QED
  BY <1>3, <1>4 DEF all, rest

LEMMA GoodThinned ==
    ASSUME NEW b, NEW u, Good(b, u), u.out = <<>>, NEW c \in Seq(Event), NEW f, Thinned(b, c, f)
    PROVE  Good(c, u)
<1>1. b \o u.out = b /\ c \o u.out = c
  BY NothingJoined DEF Good
<1>2. Ordered(c, Mark(u)) /\ Spoken(c)
  BY <1>1, ThinnedKeeps DEF Good
<1>3. ASSUME ~HasDraft PROVE Sealing(c, Open(u))
  BY <1>1, <1>3, ThinnedKeeps DEF Good
<1>4. QED
  BY <1>1, <1>2, <1>3 DEF Good

LEMMA WriteKeeps ==
    ASSUME IInv, setup' = setup, Write
    PROVE  /\ wire' \in TranscriptEvent /\ events' \in Seq(Event)
           /\ Good(Sent, utterance)'
           /\ Sent' = events \/ wire' = wire
           /\ utterance' = utterance
<1>1. /\ events \in Seq(Event) /\ wire \in TranscriptEvent /\ wire \in Event /\ events # <<>>
      /\ Good(Sent, utterance) /\ utterance.out = <<>>
  BY EventTypes DEF IInv, TypeOK, Write
<1>2. utterance' = utterance /\ events' = Tail(events)
  BY DEF Write
<1>3. Tail(events) \in Seq(Event) /\ Head(events) \in Event
      /\ events = <<Head(events)>> \o Tail(events)
      /\ <<wire>> \o Tail(events) \in Seq(Event)
  BY <1>1
<1>4. CASE Head(events).kind = "transcript"
  <2>1. wire' = Head(events)
    BY <1>4 DEF Write
  <2>2. wire' \in TranscriptEvent
    BY <1>3, <1>4, <2>1, EventTypes DEF IsTranscript
  <2>3. Sent' = events
    BY <1>2, <1>3, <2>1 DEF Sent
  <2>4. \E f : Thinned(Sent, events, f)
    BY <1>1, ThinnedByOne DEF Sent
  <2>5. Good(events, utterance)
    BY <1>1, <2>4, GoodThinned
  <2>6. Good(Sent', utterance')
    BY <1>2, <2>3, <2>5
  <2>7. QED
    BY <1>2, <1>3, <2>2, <2>3, <2>6, SameSession
<1>5. CASE Head(events).kind # "transcript"
  <2>1. wire' = wire
    BY <1>5 DEF Write
  <2>2. Sent' = <<wire>> \o Tail(events)
    BY <1>2, <2>1 DEF Sent
  <2>3. \E f : Thinned(Sent, <<wire>> \o Tail(events), f)
    BY <1>1, <1>5, ThinnedByOne DEF Sent, IsTranscript
  <2>4. Good(<<wire>> \o Tail(events), utterance)
    BY <1>1, <1>3, <2>3, GoodThinned
  <2>5. Good(Sent', utterance')
    BY <1>2, <2>2, <2>4
  <2>6. QED
    BY <1>1, <1>2, <1>3, <2>1, <2>5, SameSession
<1>6. QED
  BY <1>4, <1>5

-----------------------------------------------------------------------------
(* The invariant, one action at a time.                                     *)

LEMMA PendingKept ==
    ASSUME setup' = setup, utterance' = utterance
    PROVE  /\ HasDraft' = HasDraft
           /\ Pending(utterance)' <=> Pending(utterance)
<1>1. HasDraft' = HasDraft
  BY DEF HasDraft, DraftTexts
<1>2. QED
  BY <1>1 DEF Pending, LastWindow, NoText

\* What no step but those of the decode task and of the writer disturbs.
LEMMA Undisturbed ==
    ASSUME IInv, setup' = setup, utterance' = utterance, task' = task, audio' = audio
    PROVE  /\ AudioInv'
           /\ events' = events /\ wire' = wire => Good(Sent, utterance)'
           /\ utterance' \in Utterance /\ utterance'.out = <<>>
           /\ Len(utterance'.agreement.history) < AgreementWindow
           /\ audio' \in Audio /\ task' \in Task /\ setup' \in Setups
<1>1. HasDraft' = HasDraft
  BY PendingKept
<1>2. AudioInv'
  BY <1>1 DEF IInv, AudioInv, Decoding, WorthDecoding, SpeechIn
<1>3. ASSUME events' = events, wire' = wire PROVE Good(Sent, utterance)'
  <2>1. Good(Sent', utterance')
    BY <1>3 DEF IInv, Sent
  <2>2. QED
    BY <2>1, SameSession
<1>4. QED
  BY <1>2, <1>3 DEF IInv, TypeOK

LEMMA RequestFlushKeeps ==
    ASSUME IInv, setup' = setup, NEW command \in {"flush", "stop"}, RequestFlush(command)
    PROVE  IInv'
<1>1. /\ reader' = command /\ flushRequested' = TRUE /\ wake' = (wake \/ ~flushRequested)
      /\ audio' = audio /\ pushed' = pushed /\ utterance' = utterance /\ task' = task
      /\ flushDone' = flushDone /\ timedOut' = timedOut /\ events' = events /\ wire' = wire
  BY DEF RequestFlush, audioVars
<1>2. /\ AudioInv' /\ Good(Sent, utterance)'
      /\ utterance' \in Utterance /\ utterance'.out = <<>>
      /\ Len(utterance'.agreement.history) < AgreementWindow
      /\ audio' \in Audio /\ task' \in Task /\ setup' \in Setups
  BY <1>1, Undisturbed
<1>3. wake' \in BOOLEAN /\ flushRequested' \in BOOLEAN
  BY <1>1
<1>4. TypeOK'
  BY <1>1, <1>2, <1>3 DEF TypeOK, IInv
<1>5. DoneInv'
  BY <1>1, PendingKept DEF DoneInv, IInv, Decoding
<1>6. QED
  BY <1>2, <1>4, <1>5 DEF IInv

LEMMA FlushReturnsKeeps ==
    ASSUME IInv, setup' = setup, FlushReturns
    PROVE  IInv'
<1>1. /\ reader' \in {"reading", "draining"}
      /\ audio' = audio /\ pushed' = pushed /\ utterance' = utterance /\ task' = task
      /\ wake' = wake /\ flushRequested' = flushRequested
      /\ flushDone' = flushDone /\ timedOut' = timedOut /\ events' = events /\ wire' = wire
  BY DEF FlushReturns, audioVars, flushVars
<1>2. /\ AudioInv' /\ Good(Sent, utterance)'
      /\ utterance' \in Utterance /\ utterance'.out = <<>>
      /\ Len(utterance'.agreement.history) < AgreementWindow
      /\ audio' \in Audio /\ task' \in Task /\ setup' \in Setups
  BY <1>1, Undisturbed
<1>3. TypeOK'
  BY <1>1, <1>2 DEF TypeOK, IInv
<1>4. DoneInv'
  BY <1>1, PendingKept DEF DoneInv, IInv, Decoding
<1>5. QED
  BY <1>2, <1>3, <1>4 DEF IInv

LEMMA ReaderEndsKeeps ==
    ASSUME IInv, setup' = setup, ReaderEnds
    PROVE  IInv'
<1>1. /\ reader' = "draining"
      /\ audio' = audio /\ pushed' = pushed /\ utterance' = utterance /\ task' = task
      /\ wake' = wake /\ flushRequested' = flushRequested
      /\ flushDone' = flushDone /\ timedOut' = timedOut /\ events' = events /\ wire' = wire
  BY DEF ReaderEnds, audioVars, flushVars
<1>2. /\ AudioInv' /\ Good(Sent, utterance)'
      /\ utterance' \in Utterance /\ utterance'.out = <<>>
      /\ Len(utterance'.agreement.history) < AgreementWindow
      /\ audio' \in Audio /\ task' \in Task /\ setup' \in Setups
  BY <1>1, Undisturbed
<1>3. TypeOK'
  BY <1>1, <1>2 DEF TypeOK, IInv
<1>4. DoneInv'
  BY <1>1, PendingKept DEF DoneInv, IInv, Decoding
<1>5. QED
  BY <1>2, <1>3, <1>4 DEF IInv

LEMMA FlushTimesOutKeeps ==
    ASSUME IInv, setup' = setup, FlushTimesOut
    PROVE  IInv'
<1> DEFINE e == Error("inference_failed")
<1>1. /\ audio' = audio /\ pushed' = pushed /\ utterance' = utterance /\ task' = task
      /\ wake' = wake /\ flushRequested' = flushRequested /\ reader' = reader
      /\ flushDone' = TRUE /\ timedOut' = TRUE /\ events' = Append(events, e) /\ wire' = wire
      /\ ~flushDone /\ reader \in {"flush", "stop"}
  BY DEF FlushTimesOut, audioVars
<1>2. /\ AudioInv'
      /\ utterance' \in Utterance /\ utterance'.out = <<>>
      /\ Len(utterance'.agreement.history) < AgreementWindow
      /\ audio' \in Audio /\ task' \in Task /\ setup' \in Setups
  BY <1>1, Undisturbed
<1>3. e \in ErrorEvent /\ <<e>> \in Reports
  BY DEF Error, ErrorEvent, Reports
<1>4. events' = events \o <<e>>
  <2>1. events \in Seq(Event) /\ e \in Event
    BY <1>3, EventTypes DEF IInv, TypeOK
  <2> HIDE DEF e
  <2>2. QED
    BY <1>1, <2>1
<1>5. events' \in Seq(Event) /\ Good(Sent, utterance)'
  BY <1>1, <1>3, <1>4, OnlyReported DEF IInv
<1>6. TypeOK'
  BY <1>1, <1>2, <1>5 DEF TypeOK, IInv
<1>7. DoneInv'
  BY <1>1, PendingKept DEF DoneInv, IInv, Decoding
<1>8. QED
  BY <1>2, <1>5, <1>6, <1>7 DEF IInv

LEMMA WriteStepKeeps ==
    ASSUME IInv, setup' = setup, Write
    PROVE  IInv'
<1>1. /\ audio' = audio /\ pushed' = pushed /\ utterance' = utterance /\ task' = task
      /\ wake' = wake /\ flushRequested' = flushRequested /\ reader' = reader
      /\ flushDone' = flushDone /\ timedOut' = timedOut
  BY DEF Write, audioVars, flushVars
<1>2. /\ AudioInv'
      /\ utterance' \in Utterance /\ utterance'.out = <<>>
      /\ Len(utterance'.agreement.history) < AgreementWindow
      /\ audio' \in Audio /\ task' \in Task /\ setup' \in Setups
  BY <1>1, Undisturbed
<1>3. wire' \in TranscriptEvent /\ events' \in Seq(Event) /\ Good(Sent, utterance)'
  BY WriteKeeps
<1>4. TypeOK'
  BY <1>1, <1>2, <1>3 DEF TypeOK, IInv
<1>5. DoneInv'
  BY <1>1, PendingKept DEF DoneInv, IInv, Decoding
<1>6. QED
  BY <1>2, <1>3, <1>4, <1>5 DEF IInv

LEMMA PushAudioKeeps ==
    ASSUME IInv, setup' = setup, NEW speech \in BOOLEAN, PushAudio(speech)
    PROVE  IInv'
<1>1. /\ audio' = PushedOnto(audio, speech) /\ pushed' = pushed + 1 /\ wake' = TRUE
      /\ ~flushRequested
      /\ utterance' = utterance /\ task' = task /\ reader' = reader
      /\ flushRequested' = flushRequested
      /\ flushDone' = flushDone /\ timedOut' = timedOut /\ events' = events /\ wire' = wire
  BY DEF PushAudio, AcceptsAudio, flushVars
<1>2. audio \in Audio /\ task \in Task /\ AudioInv
  BY DEF IInv, TypeOK
<1>3. /\ audio' \in Audio /\ Len(audio'.buffer) = Len(audio.buffer) + 1
      /\ audio'.decoded = audio.decoded /\ audio'.read = audio.read
  BY <1>1, <1>2, Pushed
<1>4. /\ Len(audio.buffer) \in Nat /\ audio.decoded \in Nat /\ audio.read \in Nat
      /\ task.window \in Nat
  BY <1>2, AudioFields DEF Task
<1>5. HasDraft' = HasDraft
  BY PendingKept, <1>1
<1>6. AudioInv'
  BY <1>1, <1>2, <1>3, <1>4, <1>5 DEF AudioInv, Decoding
<1>7. Good(Sent, utterance)'
  <2>1. Good(Sent', utterance')
    BY <1>1 DEF IInv, Sent
  <2>2. QED
    BY <2>1, SameSession
<1>8. TypeOK'
  BY <1>1, <1>3 DEF TypeOK, IInv
<1>9. DoneInv'
  BY <1>1 DEF DoneInv, IInv
<1>10. QED
  BY <1>6, <1>7, <1>8, <1>9 DEF IInv

LEMMA CloseKeeps ==
    ASSUME IInv, setup' = setup, Close
    PROVE  IInv'
<1>1. /\ audio' = NoAudio /\ pushed' = pushed /\ wake' = TRUE /\ reader' = "closed"
      /\ task' = [at |-> "cancelled", window |-> 0, cause |-> "none"]
      /\ utterance' = utterance /\ flushRequested' = flushRequested
      /\ flushDone' = flushDone /\ timedOut' = timedOut /\ events' = events /\ wire' = wire
  BY DEF Close, flushVars, Suspended
<1>2. audio' \in Audio /\ audio'.buffer = <<>> /\ audio'.decoded = 0
  BY <1>1, SilentAudio DEF NoAudio
<1>3. task' \in Task /\ task'.at = "cancelled" /\ task'.cause = "none"
  BY <1>1 DEF Task
<1>4. AudioInv'
  <2>1. ~WorthDecoding(audio)'
    BY <1>2, NothingWorthDecoding
  <2>2. QED
    BY <1>2, <1>3, <2>1 DEF AudioInv, Decoding
<1>5. Good(Sent, utterance)'
  <2>1. Good(Sent', utterance')
    BY <1>1 DEF IInv, Sent
  <2>2. QED
    BY <2>1, SameSession
<1>6. TypeOK'
  BY <1>1, <1>2, <1>3 DEF TypeOK, IInv
<1>7. DoneInv'
  BY <1>1, <1>2, <1>3, PendingKept DEF DoneInv, IInv, Decoding
<1>8. QED
  BY <1>4, <1>5, <1>6, <1>7 DEF IInv

\* Back to waiting.
LEMMA WaitingTask ==
    /\ Waiting \in Task /\ Waiting.at = "wake" /\ Waiting.window = 0 /\ Waiting.cause = "none"
  BY DEF Waiting, Suspended, Task

LEMMA SuspendedTask ==
    ASSUME NEW at \in {"incremental", "compact", "final"}, NEW window \in Nat,
           NEW cause \in {"none", "flush", "too_long", "silence"}
    PROVE  /\ Suspended(at, window, cause) \in Task /\ Suspended(at, window, cause).at = at
           /\ Suspended(at, window, cause).window = window
           /\ Suspended(at, window, cause).cause = cause
  BY DEF Suspended, Task

\* A finalized utterance leaves nothing behind, neither of its text nor of its audio.
LEMMA FinalizedKeeps ==
    ASSUME IInv, setup' = setup, NEW text \in Texts \cup {NoText}, NEW reports \in Reports,
           task' = Waiting, ResetAudio, Publish(Finalized(utterance, text), reports),
           wake' \in BOOLEAN, flushRequested' = flushRequested, timedOut' = timedOut,
           flushDone' \in BOOLEAN, flushDone' => flushRequested,
           reader' = reader, wire' = wire, pushed' = pushed
    PROVE  IInv'
<1> DEFINE v == Finalized(utterance, text)
<1>1. Good(Sent \o reports, utterance) /\ setup \in Setups
  BY ReportedAny DEF IInv, TypeOK
<1>2. Good(Sent \o reports, v) /\ ~Pending(v)
  BY <1>1, GoodFinalized
<1> HIDE DEF v
<1>3. Publish(v, reports)
  BY DEF v
<1>4. /\ utterance' \in Utterance /\ utterance'.out = <<>>
      /\ Len(utterance'.agreement.history) < AgreementWindow
      /\ events' \in Seq(Event)
      /\ Good(Sent, utterance)'
      /\ ~Pending(utterance)'
  BY <1>2, <1>3, Published DEF IInv
<1>5. audio' \in Audio /\ audio'.buffer = <<>> /\ audio'.decoded = 0
  BY SilentAudio DEF NoAudio, ResetAudio
<1>6. task' \in Task /\ task'.at = "wake" /\ task'.cause = "none"
  BY WaitingTask
<1>7. AudioInv'
  <2>1. ~WorthDecoding(audio)'
    BY <1>5, NothingWorthDecoding
  <2>2. QED
    BY <1>5, <1>6, <2>1 DEF AudioInv, Decoding
<1>8. TypeOK'
  BY <1>4, <1>5, <1>6 DEF TypeOK, IInv
<1>9. DoneInv'
  BY <1>4, <1>5, <1>6 DEF DoneInv, IInv, Decoding
<1>10. QED
  BY <1>4, <1>7, <1>8, <1>9 DEF IInv

LEMMA BeginFinalizeKeeps ==
    ASSUME IInv, setup' = setup, NEW a \in Audio, NEW cause \in {"flush", "too_long", "silence"},
           NEW reports \in Reports, BeginFinalize(a, cause, reports),
           flushDone /\ ~timedOut => a.buffer = <<>>,
           cause = "flush" => flushRequested,
           wake' \in BOOLEAN, flushRequested' = flushRequested, timedOut' = timedOut,
           reader' = reader, wire' = wire, pushed' = pushed
    PROVE  IInv'
<1>1. CASE LeftToRead(a)
  <2>1. /\ task' = Suspended("final", Len(a.buffer), cause) /\ audio' = HandedOut(a, TRUE)
        /\ events' = events \o reports /\ utterance' = utterance /\ flushDone' = flushDone
    BY <1>1 DEF BeginFinalize
  <2>2. Len(a.buffer) \in Nat
    BY AudioFields
  <2>3. task' \in Task /\ task'.at = "final" /\ task'.window = Len(a.buffer) /\ task'.cause = cause
    BY <2>1, <2>2, SuspendedTask
  <2>4. /\ audio' \in Audio /\ audio'.buffer = a.buffer /\ audio'.decoded = Len(a.buffer)
        /\ audio'.read = Len(a.buffer)
    BY <2>1, Handed
  <2>5. events' \in Seq(Event) /\ Good(Sent, utterance)'
    BY <2>1, OnlyReported DEF IInv
  <2>6. ~(flushDone /\ ~timedOut)
    BY <1>1, NothingWorthDecoding DEF LeftToRead
  <2>7. AudioInv'
    BY <2>2, <2>3, <2>4 DEF AudioInv, Decoding
  <2>8. TypeOK'
    BY <2>1, <2>3, <2>4, <2>5 DEF TypeOK, IInv
  <2>9. DoneInv'
    BY <2>1, <2>3, <2>6 DEF DoneInv, IInv
  <2>10. QED
    BY <2>5, <2>7, <2>8, <2>9 DEF IInv
<1>2. CASE ~LeftToRead(a)
  <2>1. /\ task' = Waiting /\ ResetAudio /\ Publish(Finalized(utterance, NoText), reports)
        /\ flushDone' = (flushDone \/ flushRequested)
    BY <1>2 DEF BeginFinalize
  <2>2. flushDone \in BOOLEAN /\ flushRequested \in BOOLEAN /\ (flushDone => flushRequested)
    BY DEF IInv, TypeOK, DoneInv
  <2>3. flushDone' \in BOOLEAN /\ (flushDone' => flushRequested)
    BY <2>1, <2>2
  <2>4. NoText \in Texts \cup {NoText}
    OBVIOUS
  <2>5. QED
    BY <2>1, <2>3, <2>4, FinalizedKeeps
<1>3. QED
  BY <1>1, <1>2

LEMMA StepFinalizes ==
    ASSUME IInv, setup' = setup, StepTooLong \/ StepFlush \/ StepSilence
    PROVE  IInv'
<1>1. audio \in Audio
  BY DEF IInv, TypeOK
<1>2. /\ WorthDecoding(audio) /\ wake' \in BOOLEAN
      /\ flushRequested' = flushRequested /\ timedOut' = timedOut
      /\ reader' = reader /\ wire' = wire /\ pushed' = pushed
  BY DEF StepTooLong, StepFlush, StepSilence, Awake
<1>3. ~(flushDone /\ ~timedOut)
  BY <1>2, NothingWorthDecoding DEF IInv, DoneInv
<1>4. <<Error("utterance_too_long")>> \in Reports /\ <<>> \in Reports
  BY DEF Reports, Error, ErrorEvent
<1>5. CASE StepTooLong
  <2>1. BeginFinalize(audio, "too_long", <<Error("utterance_too_long")>>)
    BY <1>5 DEF StepTooLong
  <2>2. QED
    BY <1>1, <1>2, <1>3, <1>4, <2>1, BeginFinalizeKeeps
<1>6. CASE StepFlush
  <2>1. BeginFinalize(audio, "flush", <<>>) /\ flushRequested
    BY <1>6 DEF StepFlush
  <2>2. QED
    BY <1>1, <1>2, <1>3, <1>4, <2>1, BeginFinalizeKeeps
<1>7. CASE StepSilence
  <2>1. BeginFinalize(audio, "silence", <<>>)
    BY <1>7 DEF StepSilence
  <2>2. QED
    BY <1>1, <1>2, <1>3, <1>4, <2>1, BeginFinalizeKeeps
<1>8. QED
  BY <1>5, <1>6, <1>7

LEMMA StepNothingToDecodeKeeps ==
    ASSUME IInv, setup' = setup, StepNothingToDecode
    PROVE  IInv'
<1>1. /\ audio \in Audio /\ audio.decoded <= Len(audio.buffer) /\ ~WorthDecoding(audio)
      /\ wake' \in BOOLEAN /\ task.at = "wake" /\ task \in Task
      /\ flushRequested' = flushRequested /\ timedOut' = timedOut
      /\ reader' = reader /\ wire' = wire /\ pushed' = pushed
  BY DEF IInv, TypeOK, AudioInv, StepNothingToDecode, Awake
<1> DEFINE a == PreRoll(audio)
<1>2. /\ a \in Audio /\ a.decoded <= Len(a.buffer) /\ ~WorthDecoding(a)
      /\ audio.buffer = <<>> => a = audio
  BY <1>1, PreRolled
<1> HIDE DEF a
<1>3. flushDone /\ ~timedOut => a.buffer = <<>>
  BY <1>2 DEF IInv, DoneInv
<1>4. CASE flushRequested
  <2>1. BeginFinalize(a, "flush", <<>>)
    BY <1>4 DEF StepNothingToDecode, a
  <2>2. <<>> \in Reports
    BY DEF Reports
  <2>3. QED
    BY <1>1, <1>2, <1>3, <1>4, <2>1, <2>2, BeginFinalizeKeeps
<1>5. CASE ~flushRequested
  <2>1. /\ audio' = a /\ task' = task /\ utterance' = utterance /\ events' = events
        /\ flushDone' = flushDone
    BY <1>5 DEF StepNothingToDecode, a
  <2>2. AudioInv'
    BY <1>1, <1>2, <2>1 DEF AudioInv, Decoding
  <2>3. Good(Sent, utterance)'
    <3>1. Good(Sent', utterance')
      BY <1>1, <2>1 DEF IInv, Sent
    <3>2. QED
      BY <3>1, SameSession
  <2>4. TypeOK'
    BY <1>1, <1>2, <2>1 DEF TypeOK, IInv
  <2>5. DoneInv'
    BY <1>1, <1>5, <2>1 DEF DoneInv, IInv
  <2>6. QED
    BY <2>2, <2>3, <2>4, <2>5 DEF IInv
<1>6. QED
  BY <1>4, <1>5

LEMMA StepIncrementalKeeps ==
    ASSUME IInv, setup' = setup, StepIncremental
    PROVE  IInv'
<1>1. /\ audio \in Audio /\ WorthDecoding(audio) /\ wake' = FALSE /\ AudioInv /\ task.at = "wake"
      /\ utterance' = utterance /\ events' = events /\ reader' = reader /\ wire' = wire
      /\ pushed' = pushed /\ flushRequested' = flushRequested /\ timedOut' = timedOut
      /\ flushDone' = flushDone
  BY DEF IInv, TypeOK, StepIncremental, Awake, flushVars
<1>2. ~(flushDone /\ ~timedOut)
  BY <1>1, NothingWorthDecoding DEF IInv, DoneInv
<1>3. Good(Sent, utterance)'
  <2>1. Good(Sent', utterance')
    BY <1>1 DEF IInv, Sent
  <2>2. QED
    BY <2>1, SameSession
<1>4. CASE Len(audio.buffer) - audio.decoded >= ChunkUnits
  <2>1. /\ task' = Suspended("incremental", Len(audio.buffer), "none")
        /\ audio' = HandedOut(audio, ~HasDraft)
    BY <1>4 DEF StepIncremental
  <2>2. Len(audio.buffer) \in Nat
    BY <1>1, AudioFields
  <2>3. /\ task' \in Task /\ task'.at = "incremental" /\ task'.window = Len(audio.buffer)
        /\ task'.cause = "none"
    BY <2>1, <2>2, SuspendedTask
  <2>4. /\ audio' \in Audio /\ audio'.buffer = audio.buffer /\ audio'.decoded = Len(audio.buffer)
        /\ ~HasDraft => audio'.read = Len(audio.buffer)
    <3>1. CASE HasDraft
      <4>1. audio' = HandedOut(audio, FALSE)
        BY <2>1, <3>1 DEF HandedOut
      <4>2. QED
        BY <1>1, <3>1, <4>1, Handed
    <3>2. CASE ~HasDraft
      <4>1. audio' = HandedOut(audio, TRUE)
        BY <2>1, <3>2 DEF HandedOut
      <4>2. QED
        BY <1>1, <4>1, Handed
    <3>3. QED
      BY <3>1, <3>2
  <2>5. HasDraft' = HasDraft
    BY <1>1, PendingKept
  <2>6. AudioInv'
    BY <2>2, <2>3, <2>4, <2>5 DEF AudioInv, Decoding
  <2>7. TypeOK'
    BY <1>1, <2>3, <2>4 DEF TypeOK, IInv
  <2>8. DoneInv'
    BY <1>1, <1>2, <2>3 DEF DoneInv, IInv
  <2>9. QED
    BY <1>3, <2>6, <2>7, <2>8 DEF IInv
<1>5. CASE ~(Len(audio.buffer) - audio.decoded >= ChunkUnits)
  <2>1. task' = task /\ audio' = audio
    BY <1>5 DEF StepIncremental
  <2>2. AudioInv'
    BY <1>1, <2>1, Undisturbed
  <2>3. TypeOK'
    BY <1>1, <2>1 DEF TypeOK, IInv
  <2>4. DoneInv'
    BY <1>1, <1>2, <2>1 DEF DoneInv, IInv
  <2>5. QED
    BY <1>3, <2>2, <2>3, <2>4 DEF IInv
<1>6. QED
  BY <1>4, <1>5

LEMMA FinishFinalizeKeeps ==
    ASSUME IInv, setup' = setup, FinalDecoded \/ FinalDecodeFails
    PROVE  IInv'
<1>1. PICK text \in Texts \cup {NoText}, reports \in Reports : FinishFinalize(text, reports)
  <2>1. <<>> \in Reports /\ <<Error("inference_failed")>> \in Reports /\ NoText \in Texts \cup {NoText}
    BY DEF Reports, Error, ErrorEvent
  <2>2. QED
    BY <2>1 DEF FinalDecoded, FinalDecodeFails
<1>2. /\ task.at = "final" /\ task' = Waiting /\ ResetAudio
      /\ Publish(Finalized(utterance, text), reports)
      /\ flushDone' = (flushDone \/ task.cause = "flush"
                                 \/ (task.cause = "too_long" /\ flushRequested))
      /\ wake' = wake /\ flushRequested' = flushRequested /\ timedOut' = timedOut
      /\ reader' = reader /\ wire' = wire /\ pushed' = pushed
  BY <1>1 DEF FinishFinalize
<1>3. /\ flushDone \in BOOLEAN /\ flushRequested \in BOOLEAN /\ wake \in BOOLEAN
      /\ flushDone \/ task.cause = "flush" => flushRequested
  BY DEF IInv, TypeOK, DoneInv
<1>4. flushDone' \in BOOLEAN /\ (flushDone' => flushRequested)
  BY <1>2, <1>3
<1>5. wake' \in BOOLEAN
  BY <1>2, <1>3
<1>6. QED
  BY <1>2, <1>4, <1>5, FinalizedKeeps

\* A pass that goes back to waiting, or on to a compaction.
LEMMA PassKeeps ==
    ASSUME IInv, setup' = setup, Decoding,
           utterance' \in Utterance, utterance'.out = <<>>,
           Len(utterance'.agreement.history) < AgreementWindow,
           events' \in Seq(Event), Good(Sent, utterance)', AudioInv', audio' \in Audio,
           task' \in Task, task'.cause = "none",
           wake' = wake, flushRequested' = flushRequested, flushDone' = flushDone,
           timedOut' = timedOut, reader' = reader, wire' = wire, pushed' = pushed
    PROVE  IInv'
<1>1. ~(flushDone /\ ~timedOut)
  BY DEF IInv, DoneInv
<1>2. DoneInv'
  BY <1>1 DEF IInv, DoneInv
<1>3. TypeOK'
  BY DEF IInv, TypeOK
<1>4. QED
  BY <1>2, <1>3 DEF IInv

LEMMA AudioWaits ==
    ASSUME AudioInv, setup' = setup, task' = Waiting, audio' = audio
    PROVE  AudioInv'
<1>1. HasDraft' = HasDraft
  BY DEF HasDraft, DraftTexts
<1>2. task'.at = "wake"
  BY WaitingTask
<1>3. QED
  BY <1>1, <1>2 DEF AudioInv, Decoding

\* Trimming leaves every unit the accurate decoder was given given.
LEMMA AudioTrims ==
    ASSUME AudioInv, audio \in Audio, setup' = setup, task' = Waiting, NEW cut \in Nat,
           audio' = TrimBefore(audio, cut)
    PROVE  AudioInv' /\ audio' \in Audio
<1> DEFINE drop == Least(cut, Len(audio.buffer))
<1>1. HasDraft' = HasDraft
  BY DEF HasDraft, DraftTexts
<1>2. task'.at = "wake"
  BY WaitingTask
<1>3. audio.decoded <= Len(audio.buffer)
  BY DEF AudioInv
<1>4. /\ audio' \in Audio /\ drop \in Nat /\ drop <= Len(audio.buffer)
      /\ audio'.buffer = Beyond(audio.buffer, drop)
      /\ Len(audio'.buffer) = Len(audio.buffer) - drop
      /\ audio'.decoded = Minus(audio.decoded, drop) /\ audio'.read = Minus(audio.read, drop)
      /\ audio'.decoded <= Len(audio'.buffer)
  BY <1>3, TrimmedBefore
<1> HIDE DEF drop
<1>5. Len(audio.buffer) \in Nat /\ audio.decoded \in Nat /\ audio.read \in Nat
  BY AudioFields
<1>6. ASSUME ~HasDraft, WorthDecoding(audio'), audio'.decoded = Len(audio'.buffer)
      PROVE  audio'.read >= Len(audio'.buffer)
  <2>1. WorthDecoding(audio)
    BY <1>4, <1>6, WorthLess
  <2>2. audio'.buffer # <<>> /\ audio'.buffer \in Seq(BOOLEAN)
    BY <1>4, <1>6, NothingWorthDecoding, AudioFields
  <2>3. Len(audio'.buffer) > 0
    BY <2>2
  <2>4. audio.decoded = Len(audio.buffer)
    BY <1>3, <1>4, <1>5, <1>6, <2>3 DEF Minus
  <2>5. audio.read >= Len(audio.buffer)
    BY <1>6, <2>1, <2>4 DEF AudioInv
  <2>6. QED
    BY <1>4, <1>5, <2>5 DEF Minus
<1>7. AudioInv'
  BY <1>1, <1>2, <1>4, <1>6 DEF AudioInv, Decoding
<1>8. QED
  BY <1>4, <1>7

LEMMA NothingReadKeeps ==
    ASSUME IInv, setup' = setup, IncrementalReadsNothing \/ IncrementalFails
    PROVE  IInv'
<1>1. PICK reports \in Reports : NothingRead(reports)
  <2>1. <<>> \in Reports /\ <<Error("inference_failed")>> \in Reports
    BY DEF Reports, Error, ErrorEvent
  <2>2. QED
    BY <2>1 DEF IncrementalReadsNothing, IncrementalFails
<1>2. /\ task.at = "incremental" /\ task' = Waiting /\ events' = events \o reports
      /\ audio' = audio /\ utterance' = utterance
      /\ wake' = wake /\ flushRequested' = flushRequested /\ flushDone' = flushDone
      /\ timedOut' = timedOut /\ reader' = reader /\ wire' = wire /\ pushed' = pushed
  BY <1>1 DEF NothingRead, flushVars
<1>3. events' \in Seq(Event) /\ Good(Sent, utterance)'
  BY <1>2, OnlyReported DEF IInv
<1>4. AudioInv'
  BY <1>2, AudioWaits DEF IInv
<1>5. /\ utterance' \in Utterance /\ utterance'.out = <<>>
      /\ Len(utterance'.agreement.history) < AgreementWindow
      /\ audio' \in Audio /\ task' \in Task /\ task'.cause = "none" /\ Decoding
  BY <1>2, WaitingTask DEF IInv, TypeOK, Decoding
<1>6. QED
  BY <1>2, <1>3, <1>4, <1>5, PassKeeps

LEMMA PublishedQuietly ==
    ASSUME IInv, setup' = setup, wire' = wire, NEW u, Good(Sent, u), Publish(u, <<>>)
    PROVE  /\ utterance' \in Utterance /\ utterance'.out = <<>>
           /\ Len(utterance'.agreement.history) < AgreementWindow
           /\ events' \in Seq(Event)
           /\ Good(Sent, utterance)'
<1>1. <<>> \in Reports /\ Sent \o <<>> = Sent
  BY NothingJoined DEF Reports, Good
<1>2. QED
  BY <1>1, Published DEF IInv

LEMMA IncrementalDecodedKeeps ==
    ASSUME IInv, setup' = setup, IncrementalDecoded
    PROVE  IInv'
<1>1. PICK text \in Texts : IncrementalExtends(text) \/ IncrementalContradicts(text)
  BY DEF IncrementalDecoded
<1>2. /\ ~HasDraft /\ task.at = "incremental" /\ Decoding
      /\ wake' = wake /\ flushRequested' = flushRequested /\ flushDone' = flushDone
      /\ timedOut' = timedOut /\ reader' = reader /\ wire' = wire /\ pushed' = pushed
  BY DEF IncrementalDecoded, Decoding, flushVars
<1>3. /\ setup \in Setups /\ audio \in Audio /\ task \in Task /\ AudioInv /\ Good(Sent, utterance)
  BY DEF IInv, TypeOK
<1>4. /\ task' = Waiting
      /\ \E u : Good(Sent, u) /\ Publish(u, <<>>)
      /\ audio' = audio \/ \E cut \in Nat : audio' = TrimBefore(audio, cut)
  <2>1. CASE IncrementalExtends(text)
    <3> DEFINE o == UpdateAgreement(utterance.agreement, text)
               shown == Emit([utterance EXCEPT !.hypothesis = text, !.agreement = o.agreement],
                             utterance.prefix \o o.stable, o.partial, FALSE)
               trimmed == [shown EXCEPT !.prefix = @ \o o.agreement.committed,
                                        !.agreement = Fresh, !.hypothesis = NoText]
               mayTrim == Len(audio.buffer) >= MaxWindow /\ o.agreement.committed # NoText
    <3>1. ~o.conflict /\ task' = Waiting
      BY <2>1 DEF IncrementalExtends
    <3>2. Good(Sent, shown) /\ (o.agreement.committed # NoText => Good(Sent, trimmed))
      BY <1>2, <1>3, <3>1, GoodExtends
    <3>3. PICK cut \in IF mayTrim THEN Cuts ELSE {0} :
             IF cut = 0 THEN Publish(shown, <<>>) /\ UNCHANGED audio
             ELSE Publish(trimmed, <<>>) /\ audio' = TrimBefore(audio, cut)
      BY <2>1 DEF IncrementalExtends
    <3> HIDE DEF shown, trimmed
    <3>4. CASE cut = 0
      BY <3>1, <3>2, <3>3, <3>4
    <3>5. CASE cut # 0
      <4>1. mayTrim /\ cut \in Cuts
        BY <3>3, <3>5
      <4>2. cut \in Nat
        BY <1>3, <4>1 DEF Cuts, Task
      <4>3. Good(Sent, trimmed)
        BY <3>2, <4>1
      <4>4. QED
        BY <3>1, <3>3, <3>5, <4>2, <4>3
    <3>6. QED
      BY <3>4, <3>5
  <2>2. CASE IncrementalContradicts(text)
    <3> DEFINE o == UpdateAgreement(utterance.agreement, text)
               typed == o.agreement.committed
               closed == ClosedAsTyped([utterance EXCEPT !.agreement = o.agreement])
               fresh == [Rotated(closed) EXCEPT !.hypothesis = NoText]
               again == UpdateAgreement(Fresh, RemainderAfter(typed, text))
               shown == EmitCarried([fresh EXCEPT !.agreement = again.agreement],
                                    again.stable, again.partial)
    <3>1. o.conflict /\ task' = Waiting
      BY <2>2 DEF IncrementalContradicts
    <3>2. Good(Sent, fresh) /\ Good(Sent, shown)
      BY <1>2, <1>3, <3>1, GoodContradicts
    <3>3. PICK cut \in Cuts :
             IF cut > 0 THEN Publish(fresh, <<>>) /\ audio' = TrimBefore(audio, cut)
             ELSE Publish(shown, <<>>) /\ UNCHANGED audio
      BY <2>2 DEF IncrementalContradicts
    <3> HIDE DEF fresh, shown
    <3>4. cut \in Nat
      BY <1>3, <3>3 DEF Cuts, Task
    <3>5. CASE cut = 0
      BY <3>1, <3>2, <3>3, <3>4, <3>5
    <3>6. CASE cut > 0
      BY <3>1, <3>2, <3>3, <3>4, <3>6
    <3>7. QED
      BY <3>4, <3>5, <3>6
  <2>3. QED
    BY <1>1, <2>1, <2>2
<1>5. /\ utterance' \in Utterance /\ utterance'.out = <<>>
      /\ Len(utterance'.agreement.history) < AgreementWindow
      /\ events' \in Seq(Event) /\ Good(Sent, utterance)'
  BY <1>2, <1>4, PublishedQuietly
<1>6. AudioInv' /\ audio' \in Audio
  BY <1>3, <1>4, AudioWaits, AudioTrims
<1>7. task' \in Task /\ task'.cause = "none"
  BY <1>4, WaitingTask
<1>8. QED
  BY <1>2, <1>5, <1>6, <1>7, PassKeeps

LEMMA DraftDecodedKeeps ==
    ASSUME IInv, setup' = setup, DraftDecoded
    PROVE  IInv'
<1>1. /\ HasDraft /\ task.at = "incremental" /\ Decoding
      /\ wake' = wake /\ flushRequested' = flushRequested /\ flushDone' = flushDone
      /\ timedOut' = timedOut /\ reader' = reader /\ wire' = wire /\ pushed' = pushed
  BY DEF DraftDecoded, Decoding, flushVars
<1>2. /\ setup \in Setups /\ audio \in Audio /\ AudioInv /\ Good(Sent, utterance)
      /\ Proper(utterance.agreement) /\ HasDraft' = HasDraft
  BY DEF IInv, TypeOK, Good, HasDraft, DraftTexts
<1>3. \E u : Good(Sent, u) /\ Publish(u, <<>>)
  <2>1. PICK text \in DraftTexts :
          LET outcome == UpdateAgreement(utterance.agreement, text)
              settled == IF outcome.conflict THEN UpdateAgreement(Fresh, text) ELSE outcome
          IN  Publish(Emit([utterance EXCEPT !.hypothesis = text, !.agreement = settled.agreement],
                           utterance.prefix, text, FALSE), <<>>)
    BY DEF DraftDecoded
  <2> DEFINE outcome == UpdateAgreement(utterance.agreement, text)
             settled == IF outcome.conflict THEN UpdateAgreement(Fresh, text) ELSE outcome
             a == settled.agreement
  <2>2. text \in Text
    BY <1>2, DecodedTexts
  <2>3. Proper(a)
    BY <1>2, <2>2, Updated, FreshIsProper
  <2>4. Publish(Emit([utterance EXCEPT !.hypothesis = text, !.agreement = a],
                     utterance.prefix, text, FALSE), <<>>)
    BY <2>1
  <2> HIDE DEF a
  <2>5. Good(Sent, Emit([utterance EXCEPT !.hypothesis = text, !.agreement = a],
                        utterance.prefix, text, FALSE))
    BY <1>1, <1>2, <2>2, <2>3, GoodDrafts
  <2>6. QED
    BY <2>4, <2>5
<1>4. /\ utterance' \in Utterance /\ utterance'.out = <<>>
      /\ Len(utterance'.agreement.history) < AgreementWindow
      /\ events' \in Seq(Event) /\ Good(Sent, utterance)'
  BY <1>1, <1>3, PublishedQuietly
<1>5. AudioInv' /\ audio' \in Audio /\ task' \in Task /\ task'.cause = "none"
  <2>1. CASE Len(audio.buffer) >= Most(MaxWindow, utterance.retryAt)
    <3>1. /\ task' = Suspended("compact", Len(audio.buffer), "none")
          /\ audio' = [audio EXCEPT !.read = Len(audio.buffer)]
      BY <2>1 DEF DraftDecoded
    <3>2. Len(audio.buffer) \in Nat
      BY <1>2, AudioFields
    <3>3. /\ task' \in Task /\ task'.at = "compact" /\ task'.window = Len(audio.buffer)
          /\ task'.cause = "none"
      BY <3>1, <3>2, SuspendedTask
    <3>4. /\ audio' \in Audio /\ audio'.buffer = audio.buffer /\ audio'.decoded = audio.decoded
          /\ audio'.read = Len(audio.buffer)
      BY <1>2, <3>1, <3>2 DEF Audio
    <3>5. AudioInv'
      BY <1>1, <1>2, <3>2, <3>3, <3>4 DEF AudioInv, Decoding
    <3>6. QED
      BY <3>3, <3>4, <3>5
  <2>2. CASE ~(Len(audio.buffer) >= Most(MaxWindow, utterance.retryAt))
    <3>1. task' = Waiting /\ audio' = audio
      BY <2>2 DEF DraftDecoded
    <3>2. QED
      BY <1>2, <3>1, AudioWaits, WaitingTask
  <2>3. QED
    BY <2>1, <2>2
<1>6. QED
  BY <1>1, <1>4, <1>5, PassKeeps

LEMMA CompactionKeeps ==
    ASSUME IInv, setup' = setup, CompactionCommits \/ CompactionFindsNoBoundary
    PROVE  IInv'
<1>1. /\ task.at = "compact" /\ Decoding /\ task' = Waiting
      /\ wake' = wake /\ flushRequested' = flushRequested /\ flushDone' = flushDone
      /\ timedOut' = timedOut /\ reader' = reader /\ wire' = wire /\ pushed' = pushed
  BY DEF CompactionCommits, CompactionFindsNoBoundary, Decoding, flushVars
<1>2. /\ setup \in Setups /\ audio \in Audio /\ task \in Task /\ AudioInv /\ Good(Sent, utterance)
      /\ HasDraft /\ utterance.out = <<>>
  BY <1>1 DEF IInv, TypeOK, AudioInv
<1>3. CASE CompactionCommits
  <2>1. PICK text \in Texts, cut \in 1 .. Minus(task.window, Most(SilenceUnits, 2 * ChunkUnits)) :
          LET prefix == utterance.prefix \o [text EXCEPT ![Len(text)].gap = 1]
          IN  /\ Publish(Emit([utterance EXCEPT !.prefix = prefix, !.agreement = Fresh,
                                                !.hypothesis = NoText, !.retryAt = 0],
                              prefix, NoText, FALSE), <<>>)
              /\ audio' = TrimBefore(audio, cut)
    BY <1>3 DEF CompactionCommits
  <2>2. \E u : Good(Sent, u) /\ Publish(u, <<>>)
    BY <1>2, <2>1, GoodCompacts
  <2>3. /\ utterance' \in Utterance /\ utterance'.out = <<>>
        /\ Len(utterance'.agreement.history) < AgreementWindow
        /\ events' \in Seq(Event) /\ Good(Sent, utterance)'
    BY <1>1, <2>2, PublishedQuietly
  <2>4. cut \in Nat
    OBVIOUS
  <2>5. AudioInv' /\ audio' \in Audio
    BY <1>1, <1>2, <2>1, <2>4, AudioTrims
  <2>6. task' \in Task /\ task'.cause = "none"
    BY <1>1, WaitingTask
  <2>7. QED
    BY <1>1, <2>3, <2>5, <2>6, PassKeeps
<1>4. CASE CompactionFindsNoBoundary
  <2>1. PICK reports \in {<<>>, <<Error("inference_failed")>>} :
          Publish([utterance EXCEPT !.retryAt = task.window + RetryUnits], reports)
    BY <1>4 DEF CompactionFindsNoBoundary
  <2> DEFINE n == task.window + RetryUnits
             w == [utterance EXCEPT !.retryAt = n]
  <2>2. n \in Nat
    BY <1>2, UnitsAssumption DEF Task
  <2>3. reports \in Reports
    BY DEF Reports, Error, ErrorEvent
  <2> HIDE DEF n
  <2>4. Good(Sent \o reports, w)
    <3>1. Good(Sent \o reports, utterance)
      BY <1>2, <2>3, ReportedAny
    <3>2. QED
      BY <2>2, <3>1, GoodWaits
  <2> HIDE DEF w
  <2>5. /\ utterance' \in Utterance /\ utterance'.out = <<>>
        /\ Len(utterance'.agreement.history) < AgreementWindow
        /\ events' \in Seq(Event) /\ Good(Sent, utterance)'
    <3>1. Publish(w, reports)
      BY <2>1 DEF w, n
    <3>2. QED
      BY <1>1, <2>3, <2>4, <3>1, Published DEF IInv
  <2>6. audio' = audio
    BY <1>4 DEF CompactionFindsNoBoundary
  <2>7. AudioInv' /\ audio' \in Audio /\ task' \in Task /\ task'.cause = "none"
    BY <1>1, <1>2, <2>6, AudioWaits, WaitingTask
  <2>8. QED
    BY <1>1, <2>5, <2>7, PassKeeps
<1>5. QED
  BY <1>3, <1>4

-----------------------------------------------------------------------------
LEMMA InitHolds == ASSUME Init PROVE IInv
<1>1. /\ setup \in Setups /\ audio = NoAudio /\ utterance = NewUtterance(0, 0) /\ task = Waiting
      /\ wake = FALSE /\ flushRequested = FALSE /\ flushDone = FALSE /\ timedOut = FALSE
      /\ reader = "reading" /\ events = <<>> /\ pushed = 0
      /\ wire = Transcript(0, 0, NoText, NoText, FALSE)
  BY DEF Init
<1>2. /\ utterance.index = 0 /\ utterance.revision = 0 /\ utterance.agreement = Fresh
      /\ utterance.hypothesis = NoText /\ utterance.prefix = NoText /\ utterance.out = <<>>
  BY <1>1 DEF NewUtterance
<1>3. utterance \in Utterance
  <2>1. Fresh \in Agreements /\ NoText \in Text /\ <<>> \in Seq(Text)
        /\ <<>> \in Seq(TranscriptEvent)
    BY FreshIsProper, EmptyText DEF Proper
  <2>2. QED
    BY <1>1, <2>1 DEF NewUtterance, Utterance
<1>4. /\ wire \in TranscriptEvent /\ wire.utterance = 0 /\ wire.revision = 0
      /\ wire.stable = NoText /\ wire.partial = NoText /\ wire.final = FALSE
  BY <1>1, EmptyText DEF Transcript, TranscriptEvent
<1>5. audio \in Audio /\ audio.buffer = <<>> /\ audio.decoded = 0
  BY <1>1, SilentAudio DEF NoAudio
<1>6. task \in Task /\ task.at = "wake" /\ task.cause = "none"
  BY <1>1, WaitingTask
<1>7. Proper(utterance.agreement) /\ Reads(utterance)
  BY <1>2, FreshIsProper, AccurateNothing DEF Reads
<1>8. TypeOK
  <2>1. Len(utterance.agreement.history) < AgreementWindow
    BY <1>7 DEF Proper
  <2>2. events \in Seq(Event) /\ pushed \in Nat
    BY <1>1
  <2>3. wake \in BOOLEAN /\ flushRequested \in BOOLEAN /\ flushDone \in BOOLEAN
        /\ timedOut \in BOOLEAN
    BY <1>1
  <2>4. reader \in {"reading", "flush", "stop", "draining", "closed"}
    BY <1>1
  <2>5. setup \in Setups
    BY <1>1
  <2>6. QED
    BY <1>2, <1>3, <1>4, <1>5, <1>6, <2>1, <2>2, <2>3, <2>4, <2>5 DEF TypeOK
<1>9. AudioInv
  <2>1. ~WorthDecoding(audio)
    BY <1>5, NothingWorthDecoding
  <2>2. Len(audio.buffer) = 0
    BY <1>5
  <2>3. QED
    BY <1>5, <1>6, <2>1, <2>2 DEF AudioInv, Decoding
<1>10. DoneInv
  BY <1>1, <1>6 DEF DoneInv
<1>11. /\ Sent \in Seq(Event) /\ DOMAIN Sent = {1} /\ Sent[1] = wire
       /\ Sent \o utterance.out = Sent
  <2>1. wire \in Event /\ Sent = <<wire>>
    <3>1. wire \in Event
      BY <1>4, EventTypes
    <3>2. <<wire>> \in Seq(Event)
      BY <3>1
    <3>3. Sent = <<wire>> \o <<>>
      BY <1>1 DEF Sent
    <3>4. QED
      BY <3>1, <3>2, <3>3, NothingJoined
  <2>2. <<wire>> \in Seq(Event) /\ DOMAIN <<wire>> = {1} /\ <<wire>>[1] = wire
    BY <2>1
  <2>3. QED
    BY <1>2, <2>1, <2>2, NothingJoined
<1>12. Ordered(Sent, Mark(utterance))
  <2>1. /\ Entry(wire).utterance = 0 /\ Entry(wire).revision = 0 /\ Entry(wire).final = FALSE
        /\ Entry(wire).letters = WordsOf(NoText)
    BY <1>4, EntryTypes
  <2>2. /\ Mark(utterance).utterance = 0 /\ Mark(utterance).revision = 0
        /\ Mark(utterance).letters = WordsOf(Settled(utterance))
        /\ Settled(utterance) \in Text
    BY <1>2, <1>3, MarkTypes, SettledText
  <2>3. IsPrefix(WordsOf(NoText), WordsOf(Settled(utterance)))
    BY <2>2, NothingIsAPrefix
  <2>4. AtMost(Entry(wire), Mark(utterance))
    BY <2>1, <2>2, <2>3 DEF AtMost
  <2>5. QED
    BY <1>11, <2>4 DEF Ordered
<1>13. Spoken(Sent)
  BY <1>4, <1>11, AccurateNothing DEF Spoken
<1>14. ~Shows(wire)
  BY <1>4 DEF Shows, NoText
<1>15. Sealing(Sent, Open(utterance))
  BY <1>11, <1>14 DEF Sealing
<1>16. Good(Sent, utterance)
  BY <1>3, <1>7, <1>11, <1>12, <1>13, <1>15 DEF Good
<1>17. QED
  BY <1>8, <1>9, <1>10, <1>16 DEF IInv

LEMMA NextKeeps == ASSUME IInv, Next PROVE IInv'
<1>1. setup' = setup
  BY DEF Next
<1>2. CASE Step
  BY <1>1, <1>2, StepFinalizes, StepNothingToDecodeKeeps, StepIncrementalKeeps DEF Step
<1>3. CASE DecodeReturns
  BY <1>1, <1>3, FinishFinalizeKeeps, NothingReadKeeps, IncrementalDecodedKeeps,
     DraftDecodedKeeps, CompactionKeeps DEF DecodeReturns
<1>4. CASE Reader
  BY <1>1, <1>4, PushAudioKeeps, RequestFlushKeeps, FlushReturnsKeeps, FlushTimesOutKeeps,
     ReaderEndsKeeps, CloseKeeps DEF Reader
<1>5. CASE Write
  BY <1>1, <1>5, WriteStepKeeps
<1>6. QED
  BY <1>2, <1>3, <1>4, <1>5 DEF Next

LEMMA StutterKeeps == ASSUME IInv, UNCHANGED <<setup, vars>> PROVE IInv'
<1>1. /\ setup' = setup /\ audio' = audio /\ utterance' = utterance /\ task' = task
      /\ wake' = wake /\ flushRequested' = flushRequested /\ flushDone' = flushDone
      /\ timedOut' = timedOut /\ reader' = reader /\ events' = events /\ wire' = wire
      /\ pushed' = pushed
  BY DEF vars
<1>2. /\ AudioInv' /\ Good(Sent, utterance)'
      /\ utterance' \in Utterance /\ utterance'.out = <<>>
      /\ Len(utterance'.agreement.history) < AgreementWindow
      /\ audio' \in Audio /\ task' \in Task /\ setup' \in Setups
  BY <1>1, Undisturbed
<1>3. TypeOK'
  BY <1>1, <1>2 DEF TypeOK, IInv
<1>4. DoneInv'
  BY <1>1, PendingKept DEF DoneInv, IInv, Decoding
<1>5. QED
  BY <1>2, <1>3, <1>4 DEF IInv

(* The inductive invariant: what has been sent and what the utterance in    *)
(* progress may still say form one stream, of which the decode task owns    *)
(* the end; together with how far the audio was read, and what a flush that *)
(* was answered has left.                                                   *)
THEOREM Invariance == Spec => []IInv
<1>1. Init => IInv
  BY InitHolds
<1>2. IInv /\ [Next]_<<setup, vars>> => IInv'
  BY NextKeeps, StutterKeeps
<1>3. QED
  BY <1>1, <1>2, PTL DEF Spec

(* Types of the state of session.py, buffer.py and websocket.py.            *)
THEOREM TypeCorrectness == Spec => []TypeOK
<1>1. IInv => TypeOK
  BY DEF IInv
<1>2. QED
  BY <1>1, Invariance, PTL

(* No word that only the draft decoder read ever becomes stable: what is    *)
(* settled comes from passes of the accurate decoder, through any number of *)
(* compactions, re-casings and rotations.                                   *)
THEOREM StableIsAccurate == Spec => []OnlyAccurateTextIsStable
<1>1. ASSUME IInv PROVE OnlyAccurateTextIsStable
  <2>1. /\ Spoken(Sent \o utterance.out) /\ utterance.out = <<>> /\ Sent \in Seq(Event)
        /\ wire \in TranscriptEvent /\ events \in Seq(Event) /\ wire \in Event
    BY <1>1, EventTypes DEF IInv, Good, TypeOK
  <2>2. Sent \o utterance.out = Sent
    BY <2>1, NothingJoined
  <2>3. 1 \in DOMAIN Sent /\ Sent[1] = wire
    BY <2>1 DEF Sent
  <2>4. Accurate(wire.stable)
    BY <2>1, <2>2, <2>3, EventTypes DEF Spoken
  <2>5. QED
    BY <2>4 DEF Accurate, OnlyAccurateTextIsStable
<1>2. QED
  BY <1>1, Invariance, PTL

-----------------------------------------------------------------------------
(* What the invariant is for.                                               *)

\* The wire goes from one transcript of the stream to the next.
LEMMA WireAdvances ==
    ASSUME IInv, Next, wire' # wire
    PROVE  /\ Sent \in Seq(Event) /\ 1 \in DOMAIN Sent /\ 2 \in DOMAIN Sent
           /\ Sent[1] = wire /\ Sent[2] = wire'
           /\ wire \in TranscriptEvent /\ wire' \in TranscriptEvent
           /\ Ordered(Sent, Mark(utterance))
           /\ ~HasDraft => Sealing(Sent, Open(utterance))
<1>1. Write
  <2>1. ~Step
    BY DEF Step, StepNothingToDecode, StepTooLong, StepFlush, StepSilence, StepIncremental
  <2>2. ~DecodeReturns
    BY DEF DecodeReturns, FinalDecoded, FinalDecodeFails, FinishFinalize, IncrementalReadsNothing,
           IncrementalFails, NothingRead, IncrementalDecoded, DraftDecoded, CompactionCommits,
           CompactionFindsNoBoundary
  <2>3. ~Reader
    BY DEF Reader, PushAudio, RequestFlush, FlushReturns, FlushTimesOut, ReaderEnds, Close
  <2>4. QED
    BY <2>1, <2>2, <2>3 DEF Next
<1>2. /\ events \in Seq(Event) /\ events # <<>> /\ wire \in Event /\ wire \in TranscriptEvent
      /\ wire' = Head(events) /\ Head(events).kind = "transcript"
      /\ utterance.out = <<>> /\ Good(Sent, utterance)
  BY <1>1, EventTypes DEF IInv, TypeOK, Write
<1>3. Head(events) \in Event
  BY <1>2
<1>4. wire' \in TranscriptEvent
  BY <1>2, <1>3, EventTypes DEF IsTranscript
<1>5. /\ Sent \in Seq(Event) /\ 1 \in DOMAIN Sent /\ 2 \in DOMAIN Sent
      /\ Sent[1] = wire /\ Sent[2] = Head(events)
  BY <1>2 DEF Sent
<1>6. Sent \o utterance.out = Sent
  BY <1>2, <1>5, NothingJoined
<1>7. QED
  BY <1>2, <1>4, <1>5, <1>6 DEF Good

(* The session implements the stream protocol v1 promises: revisions rise,  *)
(* an utterance is closed by its final transcript, and its committed words  *)
(* are only ever added to, whatever the decoder revises.                    *)
THEOREM Refinement == Spec => DeliversAStream
<1>1. ASSUME Init PROVE Stream!Init
  <2>1. wire = Transcript(0, 0, NoText, NoText, FALSE)
    BY <1>1 DEF Init
  <2>2. WordsOf(NoText) = <<>>
    BY EmptyText DEF WordsOf, NoText
  <2>3. /\ wire.utterance = 0 /\ wire.revision = 0 /\ wire.stable = NoText /\ wire.final = FALSE
    BY <2>1 DEF Transcript
  <2>4. QED
    BY <2>2, <2>3 DEF Stream!Init
<1>2. ASSUME IInv, [Next]_<<setup, vars>>
      PROVE  [Stream!Deliver]_[utterance |-> wire.utterance, revision |-> wire.revision,
                               letters |-> WordsOf(wire.stable), final |-> wire.final]
  <2>1. CASE wire' = wire
    BY <2>1
  <2>2. CASE wire' # wire
    <3>1. Next
      BY <1>2, <2>2 DEF vars
    <3>2. /\ Sent \in Seq(Event) /\ 1 \in DOMAIN Sent /\ 2 \in DOMAIN Sent
          /\ Sent[1] = wire /\ Sent[2] = wire'
          /\ wire \in TranscriptEvent /\ wire' \in TranscriptEvent
          /\ Ordered(Sent, Mark(utterance))
      BY <1>2, <2>2, <3>1, WireAdvances
    <3>3. Follows(Entry(wire), Entry(wire'))
      BY <3>2, EntryTypes DEF Ordered
    <3>4. /\ Entry(wire).utterance = wire.utterance /\ Entry(wire).revision = wire.revision
          /\ Entry(wire).letters = WordsOf(wire.stable) /\ Entry(wire).final = wire.final
          /\ Entry(wire').utterance = wire'.utterance /\ Entry(wire').revision = wire'.revision
          /\ Entry(wire').letters = WordsOf(wire'.stable)
          /\ wire.revision \in Nat /\ wire'.revision \in Nat
          /\ wire.utterance \in Nat /\ wire'.utterance \in Nat
      BY <3>2, EntryTypes DEF TranscriptEvent
    <3>5. /\ wire'.revision > wire.revision
          /\ \/ wire'.utterance > wire.utterance
             \/ /\ wire'.utterance = wire.utterance /\ ~wire.final
                /\ IsPrefix(WordsOf(wire.stable), WordsOf(wire'.stable))
      BY <3>3, <3>4 DEF Follows, AtMost
    <3>6. Stream!Continue \/ Stream!Open
      <4>1. CASE wire'.utterance > wire.utterance
        BY <4>1 DEF Stream!Open
      <4>2. CASE /\ wire'.utterance = wire.utterance /\ ~wire.final
                 /\ IsPrefix(WordsOf(wire.stable), WordsOf(wire'.stable))
        <5>1. Stream!IsPrefix(WordsOf(wire.stable), WordsOf(wire'.stable))
          BY <4>2 DEF IsPrefix, Stream!IsPrefix
        <5>2. QED
          BY <4>2, <5>1 DEF Stream!Continue
      <4>3. QED
        BY <3>5, <4>1, <4>2
    <3>rises. Stream!Deliver
      BY <3>5, <3>6 DEF Stream!Deliver
    <3>7. QED
      BY <3>rises
  <2>3. QED
    BY <2>1, <2>2
<1>3. QED
  BY <1>1, <1>2, Invariance, PTL DEF Spec, DeliversAStream, Stream!Spec

(* Without a draft decoder an utterance the client has seen is sealed by    *)
(* its final transcript before the next one begins, except for what a       *)
(* revision left over and no pass has read again.                           *)
THEOREM UtterancesAreSealed == Spec => ShownUtterancesAreSealed
<1>1. ASSUME IInv, [Next]_<<setup, vars>>, wire' # wire,
             ~HasDraft, wire'.utterance # wire.utterance
      PROVE  ~Unsealed
  <2>1. Next
    BY <1>1 DEF vars
  <2>2. /\ Sent \in Seq(Event) /\ 1 \in DOMAIN Sent /\ 2 \in DOMAIN Sent
        /\ Sent[1] = wire /\ Sent[2] = wire'
        /\ wire \in TranscriptEvent /\ wire' \in TranscriptEvent
        /\ Sealing(Sent, Open(utterance))
    BY <1>1, <2>1, WireAdvances
  <2>3. SUFFICES ASSUME Unsealed PROVE FALSE
    OBVIOUS
  <2>4. Shows(Sent[1]) /\ IsTranscript(Sent[2])
    BY <2>2, <2>3, EntryTypes DEF Unsealed, Shows
  <2>5. PICK k \in DOMAIN Sent : 1 < k /\ k < 2
    BY <1>1, <2>2, <2>4 DEF Sealing
  <2>6. k \in Nat
    BY <2>2
  <2>7. QED
    BY <2>5, <2>6
<1>2. IInv /\ [Next]_<<setup, vars>>
        => [~HasDraft /\ wire'.utterance # wire.utterance => ~Unsealed]_wire
  BY <1>1
<1>3. QED
  BY <1>2, Invariance, PTL DEF Spec, ShownUtterancesAreSealed

(* Without a draft decoder a flush answered in time leaves no text on the   *)
(* screen that a final transcript has not sealed, with the same exception.  *)
THEOREM AnsweredFlushesAreFinal == Spec => []FlushDeliversFinal
<1>1. ASSUME IInv PROVE FlushDeliversFinal
  <2>1. SUFFICES ASSUME ~HasDraft, flushDone, ~timedOut, events = <<>>, Unsealed PROVE FALSE
    BY DEF FlushDeliversFinal
  <2>2. /\ utterance.out = <<>> /\ wire \in TranscriptEvent /\ wire \in Event
        /\ Sealing(Sent \o utterance.out, Open(utterance)) /\ ~Pending(utterance)
    BY <1>1, <2>1, EventTypes DEF IInv, TypeOK, Good, DoneInv
  <2>3. Sent \in Seq(Event) /\ DOMAIN Sent = {1} /\ Sent[1] = wire
    <3>1. <<wire>> \in Seq(Event) /\ DOMAIN <<wire>> = {1} /\ <<wire>>[1] = wire
      BY <2>2
    <3>2. Sent = <<wire>> \o <<>>
      BY <2>1 DEF Sent
    <3>3. Sent = <<wire>>
      BY <3>1, <3>2, NothingJoined
    <3>4. QED
      BY <3>1, <3>3
  <2>4. Sent \o utterance.out = Sent
    BY <2>2, <2>3, NothingJoined
  <2>5. Shows(Sent[1]) /\ Open(utterance) = {}
    BY <2>1, <2>2, <2>3, EntryTypes DEF Unsealed, Shows, Open
  <2>6. PICK k \in DOMAIN Sent : k > 1
    BY <2>2, <2>3, <2>4, <2>5 DEF Sealing
  <2>7. QED
    BY <2>3, <2>6
<1>2. QED
  BY <1>1, Invariance, PTL

\* Trimming at a boundary inside the window the decoder was given takes nothing else.
LEMMA TrimTakes ==
    ASSUME IInv, NEW cut \in Nat, cut <= task.window, audio' = TrimBefore(audio, cut),
           task.window <= audio.read,
           NEW i \in 1 .. Minus(Len(audio.buffer), Len(audio'.buffer))
    PROVE  i <= audio.read
<1> DEFINE drop == Least(cut, Len(audio.buffer))
<1>1. audio \in Audio /\ audio.decoded <= Len(audio.buffer) /\ task.window \in Nat
  BY DEF IInv, TypeOK, AudioInv, Task
<1>2. /\ drop \in Nat /\ drop <= Len(audio.buffer) /\ drop <= cut
      /\ Len(audio'.buffer) = Len(audio.buffer) - drop
  BY <1>1, TrimmedBefore
<1> HIDE DEF drop
<1>3. Len(audio.buffer) \in Nat /\ audio.read \in Nat
  BY <1>1, AudioFields
<1>4. Minus(Len(audio.buffer), Len(audio'.buffer)) = drop
  BY <1>2, <1>3 DEF Minus
<1>5. QED
  BY <1>1, <1>2, <1>3, <1>4

LEMMA SpeechKept ==
    ASSUME IInv, Next, audio' # audio, reader' # "closed",
           NEW i \in 1 .. Minus(Len(audio.buffer), Len(audio'.buffer))
    PROVE  \/ i <= audio.read
           \/ ~WorthDecoding(audio)
           \/ task.at = "final" /\ i > task.window
<1>1. /\ audio \in Audio /\ task \in Task /\ AudioInv /\ i \in Nat
      /\ audio.decoded <= Len(audio.buffer)
      /\ Len(audio.buffer) \in Nat /\ audio.read \in Nat /\ audio.decoded \in Nat
      /\ task.window \in Nat
  BY AudioFields DEF IInv, TypeOK, AudioInv, Task
<1>2. audio' \in Audio
  BY NextKeeps DEF IInv, TypeOK
<1>3. Len(audio'.buffer) \in Nat /\ Len(audio'.buffer) < Len(audio.buffer) /\ i <= Len(audio.buffer)
  <2>1. Len(audio'.buffer) \in Nat
    BY <1>2, AudioFields
  <2>2. Len(audio'.buffer) < Len(audio.buffer)
    <3>1. SUFFICES ASSUME Len(audio'.buffer) >= Len(audio.buffer) PROVE FALSE
      BY <1>1, <2>1
    <3>2. Minus(Len(audio.buffer), Len(audio'.buffer)) = 0
      BY <1>1, <2>1, <3>1 DEF Minus
    <3>3. QED
      BY <3>2
  <2>3. QED
    BY <1>1, <2>1, <2>2 DEF Minus
<1>4. ASSUME WorthDecoding(audio), NEW cause, NEW reports, BeginFinalize(audio, cause, reports)
      PROVE  i <= audio.read
  <2>1. ~LeftToRead(audio)
    <3>1. SUFFICES ASSUME LeftToRead(audio) PROVE FALSE
      OBVIOUS
    <3>2. audio' = HandedOut(audio, TRUE)
      BY <1>4, <3>1 DEF BeginFinalize
    <3>3. audio'.buffer = audio.buffer
      BY <1>1, <3>2, Handed
    <3>4. QED
      BY <1>1, <1>3, <3>3
  <2>2. ~HasDraft /\ ~(Len(audio.buffer) > audio.decoded)
    BY <1>4, <2>1 DEF LeftToRead
  <2>3. audio.decoded = Len(audio.buffer)
    BY <1>1, <2>2
  <2>4. audio.read >= Len(audio.buffer)
    BY <1>1, <1>4, <2>2, <2>3 DEF AudioInv
  <2>5. QED
    BY <1>1, <1>3, <2>4
<1>5. CASE Step
  <2>1. CASE StepNothingToDecode
    BY <2>1 DEF StepNothingToDecode
  <2>2. CASE StepTooLong
    <3>1. WorthDecoding(audio) /\ BeginFinalize(audio, "too_long", <<Error("utterance_too_long")>>)
      BY <2>2 DEF StepTooLong
    <3>2. QED
      BY <1>4, <3>1
  <2>3. CASE StepFlush
    <3>1. WorthDecoding(audio) /\ BeginFinalize(audio, "flush", <<>>)
      BY <2>3 DEF StepFlush
    <3>2. QED
      BY <1>4, <3>1
  <2>4. CASE StepSilence
    <3>1. WorthDecoding(audio) /\ BeginFinalize(audio, "silence", <<>>)
      BY <2>4 DEF StepSilence
    <3>2. QED
      BY <1>4, <3>1
  <2>5. CASE StepIncremental
    <3>1. audio' = HandedOut(audio, ~HasDraft)
      BY <2>5 DEF StepIncremental
    <3>2. audio'.buffer = audio.buffer
      BY <1>1, <3>1 DEF HandedOut, Audio
    <3>3. QED
      BY <1>1, <1>3, <3>2
  <2>6. QED
    BY <1>5, <2>1, <2>2, <2>3, <2>4, <2>5 DEF Step
<1>6. CASE DecodeReturns
  <2>1. CASE FinalDecoded \/ FinalDecodeFails
    <3>1. task.at = "final"
      BY <2>1 DEF FinalDecoded, FinalDecodeFails, FinishFinalize
    <3>2. task.window <= audio.read
      BY <1>1, <3>1 DEF AudioInv
    <3>3. QED
      BY <1>1, <3>1, <3>2
  <2>2. CASE IncrementalReadsNothing \/ IncrementalFails
    BY <2>2 DEF IncrementalReadsNothing, IncrementalFails, NothingRead
  <2>3. CASE IncrementalDecoded
    <3>1. ~HasDraft /\ task.at = "incremental"
      BY <2>3 DEF IncrementalDecoded
    <3>2. task.window <= audio.read
      BY <1>1, <3>1 DEF AudioInv
    <3>3. PICK text \in Texts : IncrementalExtends(text) \/ IncrementalContradicts(text)
      BY <2>3 DEF IncrementalDecoded
    <3>4. ASSUME NEW cut \in Cuts PROVE cut \in Nat /\ cut <= task.window
      BY <1>1 DEF Cuts
    <3>5. \E cut \in Cuts : audio' = TrimBefore(audio, cut)
      <4>1. CASE IncrementalExtends(text)
        <5> DEFINE mayTrim == /\ Len(audio.buffer) >= MaxWindow
                              /\ UpdateAgreement(utterance.agreement, text).agreement.committed # NoText
        <5>1. PICK cut \in IF mayTrim THEN Cuts ELSE {0} :
                IF cut = 0 THEN UNCHANGED audio ELSE audio' = TrimBefore(audio, cut)
          BY <4>1 DEF IncrementalExtends
        <5>2. cut # 0 /\ audio' = TrimBefore(audio, cut)
          BY <5>1
        <5>3. QED
          BY <5>1, <5>2
      <4>2. CASE IncrementalContradicts(text)
        BY <4>2 DEF IncrementalContradicts
      <4>3. QED
        BY <3>3, <4>1, <4>2
    <3>6. QED
      BY <3>2, <3>4, <3>5, TrimTakes
  <2>4. CASE DraftDecoded
    <3>1. audio' = [audio EXCEPT !.read = Len(audio.buffer)]
      BY <2>4 DEF DraftDecoded
    <3>2. audio'.buffer = audio.buffer
      BY <1>1, <3>1 DEF Audio
    <3>3. QED
      BY <1>1, <1>3, <3>2
  <2>5. CASE CompactionCommits
    <3>1. task.at = "compact"
      BY <2>5 DEF CompactionCommits
    <3>2. task.window <= audio.read
      BY <1>1, <3>1 DEF AudioInv
    <3>3. PICK cut \in 1 .. Minus(task.window, Most(SilenceUnits, 2 * ChunkUnits)) :
             audio' = TrimBefore(audio, cut)
      BY <2>5 DEF CompactionCommits
    <3>4. cut \in Nat /\ cut <= task.window
      <4>1. Most(SilenceUnits, 2 * ChunkUnits) \in Nat
        BY UnitsAssumption DEF Most
      <4>2. QED
        BY <1>1, <4>1 DEF Minus
    <3>5. QED
      BY <3>2, <3>3, <3>4, TrimTakes
  <2>6. CASE CompactionFindsNoBoundary
    BY <2>6 DEF CompactionFindsNoBoundary
  <2>7. QED
    BY <1>6, <2>1, <2>2, <2>3, <2>4, <2>5, <2>6 DEF DecodeReturns
<1>7. CASE Reader
  <2>1. ASSUME NEW speech \in BOOLEAN, PushAudio(speech) PROVE FALSE
    <3>1. audio' = PushedOnto(audio, speech)
      BY <2>1 DEF PushAudio
    <3>2. Len(audio'.buffer) = Len(audio.buffer) + 1
      BY <1>1, <3>1, Pushed
    <3>3. QED
      BY <1>1, <1>3, <3>2
  <2>2. QED
    BY <1>7, <2>1 DEF Reader, RequestFlush, FlushReturns, FlushTimesOut, ReaderEnds, Close, audioVars
<1>8. CASE Write
  BY <1>8 DEF Write, audioVars
<1>9. QED
  BY <1>5, <1>6, <1>7, <1>8 DEF Next

(* Speech leaves the buffer only once the accurate decoder was given it,    *)
(* but for windows not worth a pass and what arrives while the finalizing   *)
(* decode runs: no trim, rotation, finalization or compaction loses more.   *)
THEOREM SpeechIsDecoded == Spec => SpeechReachesTheDecoder
<1> DEFINE Promise ==
             reader' # "closed" =>
               \A i \in 1 .. Minus(Len(audio.buffer), Len(audio'.buffer)) :
                 audio.buffer[i] =>
                   \/ i <= audio.read
                   \/ ~WorthDecoding(audio)
                   \/ task.at = "final" /\ i > task.window
<1>1. ASSUME IInv, [Next]_<<setup, vars>>, audio' # audio PROVE Promise
  <2>1. Next
    BY <1>1 DEF vars
  <2>2. QED
    BY <1>1, <2>1, SpeechKept
<1>2. IInv /\ [Next]_<<setup, vars>> => [Promise]_audio
  BY <1>1
<1>3. QED
  BY <1>2, Invariance, PTL DEF Spec, SpeechReachesTheDecoder
=============================================================================
