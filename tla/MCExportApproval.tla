-------------------------- MODULE MCExportApproval --------------------------
(* Small instances of ExportApproval for TLC. *)
EXTENDS ExportApproval, TLC

CONSTANTS profile, vault, m1

\* A profile and a vault export of the same scope.
KindCovers == [s \in {profile, vault} |-> {m1}]
ExportSymmetry == Permutations(Approval) \cup Permutations(Export) \cup Permutations(Conn)
=============================================================================
