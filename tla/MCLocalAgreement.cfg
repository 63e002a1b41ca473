SPECIFICATION AgreementSpec
CONSTANTS
    a = a
    A = A
    b = b
    MaxWords = 3
    Word <- MCWord
    Fold <- MCFold
    MaxGap = 1
    AgreementWindow = 2
    Hypotheses <- MCHypotheses
PROPERTIES
    StablePlusPartialIsHypothesis
    WordsNeverRetracted
    CommittedWasAgreed
