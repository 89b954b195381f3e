------------------------- MODULE MCCandidateReview -------------------------
(* Small instances of CandidateReview for TLC. *)
EXTENDS CandidateReview, TLC

CandidateSymmetry == Permutations(Candidate)
RowSymmetry == Permutations(Candidate) \cup Permutations(Memory) \cup Permutations(Conn)
=============================================================================
