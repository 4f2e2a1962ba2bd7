------------------------ MODULE MCApprovalLifecycle ------------------------
(* Small instances of ApprovalLifecycle for TLC. *)
EXTENDS ApprovalLifecycle, TLC

CONSTANTS r1, r2

Symmetry == Permutations({r1, r2})
=============================================================================
