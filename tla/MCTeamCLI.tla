------------------------------ MODULE MCTeamCLI ------------------------------
(* Small instances of TeamCLI for TLC. *)
EXTENDS TeamCLI

NoIntake == <<>>

\* The review is completed once: one approval round for each task.
OneRound == {<<"review", "completed">>}

\* The review may be taken up again, which opens another approval round.
Reopened == {<<"review", "completed">>, <<"review", "in_progress">>}
=============================================================================
