--------------------------- MODULE MCHitlProposals ---------------------------
(***************************************************************************)
(* A finite instance of HitlProposals: two callers over one proposal.      *)
(***************************************************************************)
EXTENDS HitlProposals
=============================================================================
