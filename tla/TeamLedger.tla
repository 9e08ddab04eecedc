----------------------------- MODULE TeamLedger -----------------------------
(***************************************************************************)
(* The AgentTeams incident ledger: the eight-phase state.json kept by      *)
(* internal/manager/biz/agentteams/state.                                  *)
(*                                                                         *)
(* Every operation of the Go Manager runs under an exclusive flock, loads  *)
(* the whole ledger, mutates it, validates it and replaces the file by a   *)
(* rename, so each operation is one atomic action here.  An operation that *)
(* returns an error leaves the file alone: its action is disabled.         *)
(* Timestamps other than the start of the approval phase, display names    *)
(* and the delivery bookkeeping (attempts, last_error) are left out.       *)
(***************************************************************************)
EXTENDS Integers, Sequences

CONSTANTS
    TaskIDs,        \* task keys of the ledger
    Incidents,      \* incident ids
    Rooms,          \* matrix room ids
    Admins,         \* administrators a HITL request can be assigned to
    Requests,       \* approval request ids
    AuditIDs,       \* audit log ids
    Intake,         \* the phases before the review, in order
    AdvanceArgs,    \* the <<phase, status>> pairs callers pass to Advance
    DefaultAdmin,   \* the placeholder assignee of a fresh approval phase
    TimeoutActor,   \* the actor expire-hitl records
    NoRequest,      \* the empty approval request id
    MaxDecisions,   \* bound on the HITL decisions recorded for a task
    MaxClock        \* bound on the wall clock

GatePhases == <<"review", "hitl_approval", "repair_execution", "verification", "postmortem">>

VARIABLES
    tracked,        \* the keys of Ledger.Tasks
    task,           \* the task stored under each key
    clock           \* manager.now

ledgerVars == <<tracked, task, clock>>

-----------------------------------------------------------------------------
(* Phases and statuses *)

phaseOrder == Intake \o GatePhases

Phases == {phaseOrder[i] : i \in 1..Len(phaseOrder)}

phaseStatuses == {"pending", "in_progress", "completed", "failed", "skipped"}

taskStatuses == {"assigned", "in_progress", "awaiting_review", "executing",
                 "verifying", "completed", "failed", "blocked"}

Decisions == {"approved", "rejected", "timeout_escalated"}

\* The successor of p in the phase order, "" for the last phase.
nextPhase(p) ==
    IF \E i \in 1..(Len(phaseOrder) - 1) : phaseOrder[i] = p
    THEN phaseOrder[1 + CHOOSE i \in 1..(Len(phaseOrder) - 1) : phaseOrder[i] = p]
    ELSE ""

\* The status a task has by its phases, the most advanced running one first.
deriveTaskStatus(phases) ==
    IF phases["postmortem"] = "completed" THEN "completed"
    ELSE IF phases["verification"] = "in_progress" THEN "verifying"
    ELSE IF phases["repair_execution"] = "in_progress" THEN "executing"
    ELSE IF phases["hitl_approval"] = "in_progress" THEN "awaiting_review"
    ELSE "in_progress"

ASSUME LedgerAssumption ==
    /\ Intake \in Seq(STRING)
    /\ \A i \in 1..Len(Intake) : \A j \in 1..5 : Intake[i] # GatePhases[j]
    /\ \A i, j \in 1..Len(Intake) : Intake[i] = Intake[j] => i = j
    /\ AdvanceArgs \subseteq Phases \X (phaseStatuses \ {"pending"})
    /\ Incidents # {} /\ Rooms # {}
    /\ NoRequest \notin Requests
    /\ MaxDecisions \in Nat
    /\ MaxClock \in Nat

NoTime == -1

Last(s) == s[Len(s)]

Task == [incident : Incidents, room : Rooms, status : taskStatuses,
         phases : [Phases -> phaseStatuses],
         assigned : Admins \cup {DefaultAdmin},      \* of the approval phase
         request : Requests \cup {NoRequest},
         started : (0..MaxClock) \cup {NoTime},
         decisions : Seq([admin : Admins \cup {TimeoutActor}, decision : Decisions,
                          request : Requests \cup {NoRequest}]),
         escalation : [request : Requests \cup {NoRequest},
                       status : {"none", "pending", "delivered", "failed"}],
         audits : SUBSET AuditIDs]

-----------------------------------------------------------------------------
(* What each Manager operation makes of a task *)

NewTask(i, r) ==
    [incident |-> i, room |-> r, status |-> "in_progress",
     phases |-> [p \in Phases |-> IF p = phaseOrder[1] THEN "in_progress" ELSE "pending"],
     assigned |-> DefaultAdmin, request |-> NoRequest, started |-> NoTime,
     decisions |-> <<>>, escalation |-> [request |-> NoRequest, status |-> "none"],
     audits |-> {}]

\* Finishing a phase starts the next one, except that the approval phase is
\* put back to pending until StartHITL.
AdvancedPhases(phases, p, s) ==
    IF s \in {"completed", "skipped"} /\ nextPhase(p) # ""
    THEN [phases EXCEPT ![p] = s,
                        ![nextPhase(p)] = IF nextPhase(p) = "hitl_approval"
                                          THEN "pending" ELSE "in_progress"]
    ELSE [phases EXCEPT ![p] = s]

\* Variant: the status is left alone when a phase is only restarted.
AdvancedStatus_Stale(k, p, s) ==
    CASE s = "failed" -> "failed"
      [] s = "in_progress" -> k.status
      [] OTHER -> deriveTaskStatus(AdvancedPhases(k.phases, p, s))

AdvancedStatus(k, p, s) ==
    IF s = "failed" THEN "failed" ELSE deriveTaskStatus(AdvancedPhases(k.phases, p, s))

AdvancedTask(k, p, s) ==
    [k EXCEPT !.phases = AdvancedPhases(k.phases, p, s),
              !.status = AdvancedStatus(k, p, s),
              !.started = IF s \in {"completed", "skipped"} /\ nextPhase(p) = "hitl_approval"
                          THEN NoTime ELSE @]

\* Starting an approval that is already running only takes over the
\* placeholder assignee.
StartedTask(k, a, r, now) ==
    IF k.phases["hitl_approval"] = "in_progress"
    THEN [k EXCEPT !.assigned = a, !.status = "awaiting_review"]
    ELSE [k EXCEPT !.assigned = a, !.request = r, !.started = now,
                   !.phases["hitl_approval"] = "in_progress",
                   !.status = "awaiting_review"]

DecidedStatus(d) == IF d = "approved" THEN "executing" ELSE "blocked"

\* A timeout opens a new escalation; other decisions keep the old one.
EscalationAfter(k, d) ==
    IF d = "timeout_escalated" THEN [request |-> k.request, status |-> "pending"] ELSE k.escalation

DecidedTask(k, a, d) ==
    [k EXCEPT
        !.phases["hitl_approval"] = IF d = "timeout_escalated" THEN "failed" ELSE "completed",
        !.phases["repair_execution"] = CASE d = "approved" -> "in_progress"
                                         [] d = "rejected" -> "failed"
                                         [] OTHER -> @,
        !.status = DecidedStatus(d),
        !.escalation = EscalationAfter(k, d),
        !.decisions = Append(@, [admin |-> a, decision |-> d, request |-> k.request])]

-----------------------------------------------------------------------------
(* The operations *)

Init ==
    /\ tracked = {}
    /\ task = [t \in TaskIDs |-> NewTask(CHOOSE i \in Incidents : TRUE, CHOOSE r \in Rooms : TRUE)]
    /\ clock = 0

MappingFree(i, r) == \A u \in tracked : task[u].incident # i /\ task[u].room # r

\* Initialize: neither the key nor the incident nor the room is in use.
Initialize(t, i, r) ==
    /\ t \notin tracked
    /\ MappingFree(i, r)
    /\ tracked' = tracked \cup {t}
    /\ task' = [task EXCEPT ![t] = NewTask(i, r)]
    /\ UNCHANGED clock

\* Advance: any phase but the approval may be moved to any status but
\* pending; a repeated status changes nothing.
Advance(t, p, s) ==
    /\ t \in tracked
    /\ p # "hitl_approval"
    /\ ~(/\ p = "repair_execution"
         /\ task[t].phases[p] = "pending"
         /\ s = "in_progress")
    /\ task[t].phases[p] # s
    /\ task' = [task EXCEPT ![t] = AdvancedTask(@, p, s)]
    /\ UNCHANGED <<tracked, clock>>

\* Variant: a repeated StartHITL may name another admin.
StartHITL_TakeOver(t, a, r) ==
    /\ t \in tracked
    /\ task[t].phases["review"] \in {"completed", "skipped"}
    /\ \/ task[t].phases["hitl_approval"] = "pending"
       \/ task[t].phases["hitl_approval"] = "in_progress" /\ task[t].request = r
    /\ task' = [task EXCEPT ![t] = StartedTask(@, a, r, clock)]
    /\ UNCHANGED <<tracked, clock>>

\* StartHITL: after the review, once; repeated calls must name the same
\* request and must not change a real assignee.
StartHITL(t, a, r) ==
    /\ t \in tracked
    /\ task[t].phases["review"] \in {"completed", "skipped"}
    /\ \/ task[t].phases["hitl_approval"] = "pending"
       \/ /\ task[t].phases["hitl_approval"] = "in_progress"
          /\ task[t].assigned \in {DefaultAdmin, a}
          /\ task[t].request = r
    /\ task' = [task EXCEPT ![t] = StartedTask(@, a, r, clock)]
    /\ UNCHANGED <<tracked, clock>>

\* Variant: any admin who names the request may decide.
MayDecide_AnyAdmin(k, a, d, r) == d = "timeout_escalated" \/ k.request = r

\* Only the assigned admin decides, and only the outstanding request; a
\* timeout escalation may come from anyone and names no request.
MayDecide(k, a, d, r) == d = "timeout_escalated" \/ (k.assigned = a /\ k.request = r)

\* RecordHITL: a timeout takes the request that is outstanding when it is
\* recorded.
RecordHITL(t, a, d, r) ==
    /\ t \in tracked
    /\ Len(task[t].decisions) < MaxDecisions
    /\ task[t].phases["hitl_approval"] = "in_progress"
    /\ MayDecide(task[t], a, d, r)
    /\ task' = [task EXCEPT ![t] = DecidedTask(@, a, d)]
    /\ UNCHANGED <<tracked, clock>>

\* CompleteEscalation: the outcome of a delivery is written whatever the
\* escalation's status is by now.
CompleteEscalation(t, ok) ==
    /\ t \in tracked
    /\ task[t].escalation.status # "none"
    /\ task' = [task EXCEPT ![t].escalation.status = IF ok THEN "delivered" ELSE "failed"]
    /\ UNCHANGED <<tracked, clock>>

AddAudit(t, id) ==
    /\ t \in tracked
    /\ id \notin task[t].audits
    /\ task' = [task EXCEPT ![t].audits = @ \cup {id}]
    /\ UNCHANGED <<tracked, clock>>

Tick ==
    /\ clock < MaxClock
    /\ clock' = clock + 1
    /\ UNCHANGED <<tracked, task>>

Next ==
    \/ \E t \in TaskIDs, i \in Incidents, r \in Rooms : Initialize(t, i, r)
    \/ \E t \in TaskIDs, x \in AdvanceArgs : Advance(t, x[1], x[2])
    \/ \E t \in TaskIDs, a \in Admins, r \in Requests : StartHITL(t, a, r)
    \/ \E t \in TaskIDs, a \in Admins, r \in Requests, d \in {"approved", "rejected"} :
         RecordHITL(t, a, d, r)
    \/ \E t \in TaskIDs, a \in Admins \cup {TimeoutActor} :
         RecordHITL(t, a, "timeout_escalated", NoRequest)
    \/ \E t \in TaskIDs, ok \in BOOLEAN : CompleteEscalation(t, ok)
    \/ \E t \in TaskIDs, id \in AuditIDs : AddAudit(t, id)
    \/ Tick

Spec == Init /\ [][Next]_ledgerVars

-----------------------------------------------------------------------------
(* Properties *)

\* The ledger holds only well-formed tasks (validateLedger).
TypeOK ==
    /\ tracked \subseteq TaskIDs
    /\ task \in [TaskIDs -> Task]
    /\ clock \in 0..MaxClock

\* No incident and no matrix room is tracked by two tasks, whatever the order
\* in which concurrent Initialize calls reach the ledger.
UniqueMapping ==
    \A t, u \in tracked :
        t # u => task[t].incident # task[u].incident /\ task[t].room # task[u].room

StatusAgrees(k) ==
    /\ k.status = "executing" => k.phases["repair_execution"] = "in_progress"
    /\ k.status = "verifying" => k.phases["verification"] = "in_progress"
    /\ k.status = "awaiting_review" => k.phases["hitl_approval"] = "in_progress"
    /\ k.status = "completed" => k.phases["postmortem"] = "completed"
    /\ k.status = "failed" => \E p \in Phases : k.phases[p] = "failed"
    /\ k.status = "blocked" =>
         /\ k.decisions # <<>>
         /\ \/ /\ Last(k.decisions).decision = "rejected"
               /\ k.phases["repair_execution"] = "failed"
            \/ /\ Last(k.decisions).decision = "timeout_escalated"
               /\ k.phases["hitl_approval"] = "failed"

\* The task status a reader of state.json sees agrees with the phases, although
\* Advance derives it, StartHITL and RecordHITL set it and a failure overrides
\* it; in particular a blocked task is blocked by the latest decision on record.
StatusMatchesPhases == \A t \in tracked : StatusAgrees(task[t])

CanExpire(k, now) ==
    k.phases["hitl_approval"] = "in_progress" => k.started \in 0..now /\ k.request # NoRequest

\* An outstanding approval can be expired and decided: it has a start time in
\* the past (DueHITL skips a nil StartedAt) and a request id to be named.
OutstandingCanExpire == \A t \in tracked : CanExpire(task[t], clock)

LastTimeout(ds, n) ==
    /\ ds[n].decision = "timeout_escalated"
    /\ \A m \in (n + 1)..Len(ds) : ds[m].decision # "timeout_escalated"

EscalationAgrees(k) ==
    k.escalation.status # "none" <=>
        \E n \in 1..Len(k.decisions) :
            LastTimeout(k.decisions, n) /\ k.decisions[n].request = k.escalation.request

\* There is an escalation to deliver exactly if a timeout is on record, and it
\* names the approval request of the latest timeout.
EscalationHasDecision == \A t \in tracked : EscalationAgrees(task[t])

StartsRepair(k, k2) ==
    k.phases["repair_execution"] = "pending" /\ k2.phases["repair_execution"] = "in_progress"

ApprovedBy(k, k2) ==
    /\ k.phases["hitl_approval"] = "in_progress"
    /\ k2.decisions = Append(k.decisions, [admin |-> k.assigned, decision |-> "approved",
                                           request |-> k.request])

\* A repair that has not started leaves pending for in_progress only in the
\* step that records an approval by the assigned admin for the outstanding
\* request: no Advance, of this or of a neighbouring phase, starts it.
RepairStartedByApproval ==
    [][\A t \in tracked : StartsRepair(task[t], task'[t]) => ApprovedBy(task[t], task'[t])]_ledgerVars

KeepsApproval(k, k2) ==
    /\ k.phases["hitl_approval"] = "in_progress"
    /\ k2.phases["hitl_approval"] = "in_progress"
    => /\ k2.request = k.request
       /\ k2.started = k.started
       /\ k.assigned = DefaultAdmin \/ k2.assigned = k.assigned

\* While an approval is outstanding it is neither re-routed to another admin
\* nor replaced by another request (StartHITL is idempotent, not a takeover).
OutstandingApprovalStable ==
    [][\A t \in tracked : KeepsApproval(task[t], task'[t])]_ledgerVars

\* "repair execution can only start after an approved HITL decision" (the error
\* text of Advance): a running repair has an approved decision on record.
RepairNeedsApproval ==
    \A t \in tracked :
        task[t].phases["repair_execution"] = "in_progress" =>
            \E n \in 1..Len(task[t].decisions) : task[t].decisions[n].decision = "approved"
=============================================================================
