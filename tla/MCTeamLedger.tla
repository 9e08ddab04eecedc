---------------------------- MODULE MCTeamLedger ----------------------------
(* Small instances of TeamLedger for TLC. *)
EXTENDS TeamLedger, TLC

\* Request ids are only compared with each other.
Symmetry == Permutations(Requests)

\* The intake phases before the review (alert_dedup, rca, critic_audit in the
\* code) are left out: nothing but Advance touches them.
NoIntake == <<>>

\* The review and the repair are finished and taken up again; the review can
\* fail; the last two phases only finish.
GateAdvances ==
    ({"review", "repair_execution"} \X {"in_progress", "completed"})
    \cup {<<"review", "failed">>, <<"verification", "skipped">>, <<"postmortem", "completed">>}
=============================================================================
