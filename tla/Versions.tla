------------------------------ MODULE Versions ------------------------------
(***************************************************************************)
(* IsNewer of client/internal/update/update.go: dotted versions, compared  *)
(* field by field.  A version is the sequence of its fields up to a        *)
(* pre-release suffix, which the code cuts off; a field that is no number  *)
(* (strconv.Atoi fails) is Junk.                                           *)
(***************************************************************************)
EXTENDS Integers, Sequences

CONSTANT Junk
ASSUME JunkAssumption == Junk \notin Nat

\* The fields before the first that is no number.
VersionParts(version) ==
    LET numeric == {n \in 0 .. Len(version) : \A i \in 1 .. n : version[i] # Junk}
    IN  SubSeq(version, 1, CHOOSE n \in numeric : \A k \in numeric : k <= n)

\* A missing field counts as zero.
Part(parts, i) == IF i <= Len(parts) THEN parts[i] ELSE 0

\* compareVersions of a and b is 1: greater in the first field that differs.
Exceeds(a, b) ==
    \E i \in 1 .. Len(a) : /\ Part(a, i) > Part(b, i)
                           /\ \A j \in 1 .. i - 1 : Part(a, j) = Part(b, j)

IsNewer(candidate, current) == Exceeds(VersionParts(candidate), VersionParts(current))
=============================================================================
