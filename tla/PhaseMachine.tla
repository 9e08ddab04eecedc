---------------------------- MODULE PhaseMachine ----------------------------
(***************************************************************************)
(* What the incident loop promises about one incident, whoever runs it:    *)
(* at any moment at most one walk is under way, a walk goes through the    *)
(* phases in order, it may fall back from recovered to approved a bounded  *)
(* number of times, and it ends.  LoopOrchestrator implements this; the    *)
(* transitions are the table of nextPhase in orchestrator.go.              *)
(***************************************************************************)
EXTENDS Naturals

CONSTANT MaxRetryCount      \* rollbacks a walk may take and still go on

VARIABLES phase,            \* the phase being walked, or "none"
          rollbacks         \* times this walk has fallen back to approved

pmVars == <<phase, rollbacks>>

\* The seven phases a worker runs, allForwardPhases.
Phases == {"detected", "correlated", "investigated", "critiqued",
           "approved", "recovered", "postmortem"}

\* nextPhase(current, true): the phase after a passed verifier.
Next == [detected     |-> "correlated",
         correlated   |-> "investigated",
         investigated |-> "critiqued",
         critiqued    |-> "approved",
         approved     |-> "recovered",
         recovered    |-> "postmortem"]

PMInit == phase = "none" /\ rollbacks = 0

\* A walk begins; the caller of Run chooses the phase it starts from.
Begin == phase = "none" /\ phase' \in Phases /\ rollbacks' = 0

\* The verifier passed and the walk goes on to the next phase.
Advance ==
    /\ phase \in DOMAIN Next
    /\ phase' = Next[phase]
    /\ UNCHANGED rollbacks

\* The recovery check failed and the walk goes back for another approval.
Rollback ==
    /\ phase = "recovered"
    /\ rollbacks < MaxRetryCount
    /\ phase' = "approved"
    /\ rollbacks' = rollbacks + 1

\* The walk is over: closed, paused, failed, or its process died.
Leave == phase /= "none" /\ phase' = "none" /\ rollbacks' = 0

PMNext == Begin \/ Advance \/ Rollback \/ Leave

PMSafety == PMInit /\ [][PMNext]_pmVars

\* A walk that is under way always takes its next step.
PMSpec == PMSafety /\ WF_pmVars(Advance \/ Rollback \/ Leave)
=============================================================================
