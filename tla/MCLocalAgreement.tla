-------------------------- MODULE MCLocalAgreement --------------------------
(* Small instances of LocalAgreement: stripped texts of up to MaxWords words. *)
EXTENDS LocalAgreement

CONSTANTS a, A, b,    \* words; A is the capitalised form of a
          MaxWords    \* the longest hypothesis

MCWord == {a, A, b}
MCFold == [w \in MCWord |-> IF w = A THEN a ELSE w]
MCTwoWords == {a, b}
MCIdentity == [w \in MCTwoWords |-> w]

MCHypotheses ==
    {text \in UNION {[1 .. n -> Token] : n \in 1 .. MaxWords} : IsTokenized(text)}
=============================================================================
